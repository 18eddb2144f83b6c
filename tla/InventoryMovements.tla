------------------------- MODULE InventoryMovements -------------------------
(***************************************************************************)
(* Stock movements: the draft lifecycle (inventory-drafts), posting        *)
(* (inventory-posting) and full reversal (inventory-reversal).             *)
(*                                                                         *)
(* Every command carries the version the caller last saw (If-Match); it is *)
(* the parameter "expected".  Audit and outbox rows, which no command ever *)
(* reads back, are left out.                                               *)
(***************************************************************************)
EXTENDS InventoryBalances

CONSTANT MaxVersion    \* bound: no draft is edited beyond this version

ASSUME MovementAssumption == MaxVersion \in Nat

VARIABLE movement

Status == {"none", "draft", "pending", "posted", "cancelled", "reversed"}
DraftType == {"opening_balance", "adjustment"}
Type == DraftType \cup {"reversal", "issue", "transfer_shipment",
                        "transfer_receipt"}

Movement == [status : Status, type : Type, branch : Branch,
             lines : SUBSET Line, version : Nat,
             reversalOf : MovementId \cup {NoMovement},
             reversedBy : MovementId \cup {NoMovement}]

MovementTypeOK == movement \in [MovementId -> Movement]

(* An identifier not given out yet. *)
Unused == [status |-> "none", type |-> "adjustment",
           branch |-> CHOOSE b \in Branch : TRUE, lines |-> {},
           version |-> 0, reversalOf |-> NoMovement,
           reversedBy |-> NoMovement]

MovementInit == movement = [m \in MovementId |-> Unused]

(* A movement some workflow inserts as posted, in the transaction that     *)
(* changes the balances: an issue, a shipment, a receipt or a reversal.    *)
PostedMovement(type, branch, lines, original) ==
  [status |-> "posted", type |-> type, branch |-> branch, lines |-> lines,
   version |-> 1, reversalOf |-> original, reversedBy |-> NoMovement]

-----------------------------------------------------------------------------
(***************************************************************************)
(* Drafts                                                                  *)
(***************************************************************************)
LocationIn(branch, l) == l \in Location /\ BranchOf[l] = branch

(* Both posting and draft editing check the locations of a line. *)
LocationsAllow(branch, l) ==
  /\ l.source # NoLocation =>
       LocationIn(branch, l.source) /\ l.source \in Issuing
  /\ l.destination # NoLocation =>
       LocationIn(branch, l.destination) /\ l.destination \in Receiving

DirectionValid(type, l) ==
  IF type = "opening_balance"
    THEN l.source = NoLocation /\ l.destination # NoLocation
    ELSE (l.source = NoLocation) # (l.destination = NoLocation)

SameRoute(l1, l2) == /\ l1.variant = l2.variant
                     /\ l1.source = l2.source
                     /\ l1.destination = l2.destination

EditableInAnyStatus(m, expected) == /\ movement[m].version = expected
                                   /\ movement[m].version < MaxVersion

Editable(m, expected) == /\ movement[m].status = "draft"
                         /\ movement[m].version = expected
                         /\ movement[m].version < MaxVersion

CreateDraft(m, type, branch) ==
  /\ movement[m].status = "none"
  /\ movement' = [movement EXCEPT ![m] =
       [Unused EXCEPT !.status = "draft", !.type = type,
                      !.branch = branch, !.version = 1]]
  /\ UNCHANGED balance

(* Branch and type are frozen once lines exist; other fields are not kept  *)
(* here, so such a patch only moves the version on.                        *)
PatchHeader(m, expected, type, branch) ==
  /\ Editable(m, expected)
  /\ movement[m].lines # {} =>
       type = movement[m].type /\ branch = movement[m].branch
  /\ movement' = [movement EXCEPT ![m].type = type, ![m].branch = branch,
                                  ![m].version = @ + 1]
  /\ UNCHANGED balance

(* Any change of a draft's lines bumps the version of the movement. *)
WithLinesUnversioned(m, lines) == [movement EXCEPT ![m].lines = lines]

WithLines(m, lines) == [movement EXCEPT ![m].lines = lines,
                                        ![m].version = @ + 1]

(* A draft's lines become kept and added: the added ones validated, and no *)
(* two of one route.                                                       *)
RewriteLines(m, expected, kept, added) ==
  /\ Editable(m, expected)
  /\ \A l \in added :
       /\ LocationsAllow(movement[m].branch, l)
       /\ DirectionValid(movement[m].type, l)
       /\ \A other \in kept : ~SameRoute(l, other)
  /\ movement' = WithLines(m, kept \cup added)
  /\ UNCHANGED balance

AddLine(m, expected, l) ==
  RewriteLines(m, expected, movement[m].lines, {l})

PatchLine(m, expected, old, new) ==
  /\ old \in movement[m].lines
  /\ RewriteLines(m, expected, movement[m].lines \ {old}, {new})

DeleteLine(m, expected, l) ==
  /\ l \in movement[m].lines
  /\ RewriteLines(m, expected, movement[m].lines \ {l}, {})

CancelDraft(m, expected) ==
  /\ movement[m].status \in {"draft", "pending"}
  /\ movement[m].version = expected
  /\ movement' = [movement EXCEPT ![m].status = "cancelled",
                                  ![m].version = @ + 1]
  /\ UNCHANGED balance

-----------------------------------------------------------------------------
(***************************************************************************)
(* Posting                                                                 *)
(***************************************************************************)
LinesPostable(m) ==
  /\ movement[m].lines # {}
  /\ \A l \in movement[m].lines :
       /\ LocationsAllow(movement[m].branch, l)
       /\ DirectionValid(movement[m].type, l)

Submit(m, expected) ==
  /\ movement[m].status = "draft"
  /\ movement[m].version = expected
  /\ LinesPostable(m)
  /\ movement' = [movement EXCEPT ![m].status = "pending",
                                  ![m].version = @ + 1]
  /\ UNCHANGED balance

Post(m, expected) ==
  /\ movement[m].status = "pending"
  /\ movement[m].version = expected
  /\ LinesPostable(m)
  /\ Postable(movement[m].lines)
  /\ PostOnHand(movement[m].lines, m)
  /\ movement' = [movement EXCEPT ![m].status = "posted",
                                  ![m].version = @ + 1]

(***************************************************************************)
(* Reversal.  The inverse lines drive the balances; insertReversalLines    *)
(* exchanges source and destination a second time when it stores them.     *)
(***************************************************************************)
NotInverted(m) == movement[m].lines

InverseLines(m) == {Swapped(l) : l \in movement[m].lines}

StoredReversalLines(m) == {Swapped(l) : l \in InverseLines(m)}

ReversibleIfPosted(m) == movement[m].status = "posted"

Reversible(m) == /\ movement[m].status = "posted"
                 /\ movement[m].reversedBy = NoMovement
                 /\ movement[m].type \in DraftType
                 /\ movement[m].reversalOf = NoMovement

Reverse(m, expected, r) ==
  /\ Reversible(m)
  /\ movement[m].version = expected
  /\ LinesPostable(m)
  /\ movement[r].status = "none"
  /\ Postable(InverseLines(m))
  /\ PostOnHand(InverseLines(m), r)
  /\ movement' = [movement EXCEPT
       ![m].status = "reversed", ![m].reversedBy = r, ![m].version = @ + 1,
       ![r] = PostedMovement("reversal", movement[m].branch,
                             StoredReversalLines(m), m)]

-----------------------------------------------------------------------------
Edit(m, expected) ==
  \/ \E type \in DraftType, b \in Branch : PatchHeader(m, expected, type, b)
  \/ \E l \in Line : AddLine(m, expected, l)
  \/ \E old \in movement[m].lines, new \in Line :
       PatchLine(m, expected, old, new)
  \/ \E l \in movement[m].lines : DeleteLine(m, expected, l)

Create(m) == \E type \in DraftType, b \in Branch : CreateDraft(m, type, b)

(* What a caller who saw version "expected" of m can do with it. *)
MovementCommand(m, expected) ==
  \/ Edit(m, expected)
  \/ CancelDraft(m, expected)
  \/ Submit(m, expected)
  \/ Post(m, expected)
  \/ \E r \in MovementId \ {m} : Reverse(m, expected, r)

MovementNext ==
  \E m \in MovementId : Create(m) \/ MovementCommand(m, movement[m].version)

-----------------------------------------------------------------------------
Sum(amount(_), S) == MapThenSumSet(amount, S)

(* The lines whose effect on on-hand quantities stands: those of posted    *)
(* movements that neither reverse another nor were reversed; a shipment    *)
(* does not put stock on hand in transit, nor does a receipt take it from  *)
(* there.                                                                  *)
StandingDelta(k) ==
  LET standing == {m \in MovementId : /\ movement[m].status = "posted"
                                      /\ movement[m].type # "reversal"}
      effect(m) ==
        CASE movement[m].type = "transfer_shipment" ->
               {[l EXCEPT !.destination = NoLocation] : l \in movement[m].lines}
          [] movement[m].type = "transfer_receipt" ->
               {[l EXCEPT !.source = NoLocation] : l \in movement[m].lines}
          [] OTHER -> movement[m].lines
  IN  Sum(LAMBDA m : Delta(effect(m), k), standing)

(* Stock on hand is what the standing movements put there: no command      *)
(* changes it without a movement, none applies twice, and a reversal       *)
(* undoes exactly its original (inventory-posting, -reversal,              *)
(* -transfers, reservation services).                                      *)
OnHandIsStandingMovements ==
  \A k \in Key : balance[k].onHand = StandingDelta(k)

(* A movement is reversed exactly when one posted reversal points back at  *)
(* it, and only manual movements that are not reversals themselves are.    *)
ReversalsAreReciprocal ==
  \A m \in MovementId :
    /\ movement[m].status = "reversed" <=> movement[m].reversedBy # NoMovement
    /\ movement[m].reversedBy # NoMovement =>
         LET r == movement[m].reversedBy
         IN  /\ movement[r].type = "reversal"
             /\ movement[r].status = "posted"
             /\ movement[r].reversalOf = m
             /\ movement[m].type \in DraftType
             /\ movement[m].reversalOf = NoMovement
    /\ movement[m].reversalOf # NoMovement =>
         movement[movement[m].reversalOf].reversedBy = m

(* A posted movement is a fact: its lines, type and branch never change    *)
(* again, and its status only from posted to reversed.                     *)
PostedFactsStand ==
  [][\A m \in MovementId :
       movement[m].status \in {"posted", "reversed"} =>
         /\ movement'[m].lines = movement[m].lines
         /\ movement'[m].type = movement[m].type
         /\ movement'[m].branch = movement[m].branch
         /\ movement'[m].status \in {movement[m].status, "reversed"}]_movement
=============================================================================
