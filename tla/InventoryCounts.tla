-------------------------- MODULE InventoryCounts --------------------------
(***************************************************************************)
(* Physical counts of a location: a count freezes what the projection says *)
(* of its variants (start), people record what they find, and the          *)
(* differences are submitted, approved and applied as one adjustment.      *)
(*                                                                         *)
(* Stock keeps moving meanwhile.  OtherCommand stands for every command of *)
(* Inventory, which does what StockWriters says.                           *)
(* Approval and application compare the rows with the frozen ones, reading *)
(* them without a lock.  Approval never locks them and application only    *)
(* afterwards, so each is two steps here, between which stock may move.    *)
(* Every command locks the count's row until it commits or is rolled back. *)
(* The version a caller must present is modelled in MovementEditing.       *)
(***************************************************************************)
EXTENDS StockWriters

CONSTANTS
  CountId, Uncounted, Unlocked, NotCompared,
  LockTime,      \* LOCK_MILLISECONDS
  MaxTime,       \* bound: the clock stops here
  MaxDelay,      \* bound: how old a request's timestamp may be when it runs
  MaxVersion     \* bound: other commands stop where a row has this version

ASSUME CountAssumption ==
  /\ LockTime \in Nat \ {0} /\ MaxTime \in Nat /\ MaxDelay \in Nat
  /\ MaxVersion \in Nat
  /\ Uncounted \notin Nat /\ Unlocked \notin Nat /\ NotCompared \notin Nat

VARIABLES
  count,
  comparedAt,    \* by count, the time of the request that is approving or
                 \* applying it and has compared its baseline with the rows
  now

countVars == <<balance, count, comparedAt, used, now>>

CountStatus == {"none", "draft", "counting", "submitted", "approved",
                "applied", "cancelled"}

(* The statuses of the partial unique index that protects a location.      *)
Active == {"counting", "submitted", "approved"}

CountLine == [exists : BOOLEAN, expected : Quantity, version : Nat \ {0},
              last : MovementId \cup {NoMovement},
              counted : Quantity \cup {Uncounted}]

NoLines == [v \in {} |-> Uncounted]

CountTypeOK ==
  /\ BalanceTypeOK
  /\ \A c \in CountId :
       /\ count[c].status \in CountStatus
       /\ count[c].location \in Location
       /\ count[c].scope \subseteq Variant
       /\ DOMAIN count[c].lines \subseteq Variant
       /\ \A v \in DOMAIN count[c].lines : count[c].lines[v] \in CountLine
       /\ count[c].lockUntil \in 0..(MaxTime + LockTime) \cup {Unlocked}
       /\ count[c].movement \in MovementId \cup {NoMovement}
  /\ comparedAt \in [CountId -> 0..MaxTime \cup {NotCompared}]
  /\ used \subseteq MovementId
  /\ now \in 0..MaxTime

CountInit ==
  /\ BalanceInit
  /\ count = [c \in CountId |->
       [status |-> "none", location |-> CHOOSE l \in Location : TRUE,
        scope |-> {}, lines |-> NoLines, lockUntil |-> Unlocked,
        movement |-> NoMovement]]
  /\ comparedAt = [c \in CountId |-> NotCompared]
  /\ used = {}
  /\ now = 0

RequestTime == {at \in 0..now : now - at <= MaxDelay}

LockAlive(c, at) == /\ count[c].lockUntil # Unlocked
                    /\ count[c].lockUntil > at

Compared(c) == comparedAt[c] # NotCompared

(* A command finds the count in this status, its row locked by no other.   *)
Ready(c, status) == count[c].status = status /\ ~Compared(c)

MoveTo(c, status, lockUntil) ==
  count' = [count EXCEPT ![c].status = status, ![c].lockUntil = lockUntil]

-----------------------------------------------------------------------------
(* An explicit scope names variants; all_balanced_variants is empty here   *)
(* and takes those with a row at start.                                    *)
CreateCount(c, location, scope) ==
  /\ Ready(c, "none")
  /\ count' = [count EXCEPT ![c].status = "draft", ![c].location = location,
                            ![c].scope = scope]
  /\ UNCHANGED <<balance, comparedAt, used, now>>

Baseline(row) == [exists |-> row.exists, expected |-> row.onHand,
                  version |-> row.version, last |-> row.last,
                  counted |-> Uncounted]

LocationIsFree(c) ==
  \A other \in CountId \ {c} :
    count[other].status \in Active => count[other].location # count[c].location

StartCount(c, at) ==
  LET location == count[c].location
      variants == IF count[c].scope # {} THEN count[c].scope
                  ELSE {v \in Variant : balance[<<location, v>>].exists}
  IN  /\ Ready(c, "draft")
      /\ LocationIsFree(c)
      /\ count' = [count EXCEPT
           ![c].status = "counting",
           ![c].lines = [v \in variants |-> Baseline(balance[<<location, v>>])],
           ![c].lockUntil = at + LockTime]
      /\ UNCHANGED <<balance, comparedAt, used, now>>

RecordableWhileActive(c) == count[c].status \in Active /\ ~Compared(c)

Recordable(c) == Ready(c, "counting")

RecordLine(c, at, v, quantity) ==
  /\ Recordable(c)
  /\ LockAlive(c, at)
  /\ v \in DOMAIN count[c].lines
  /\ count' = [count EXCEPT ![c].lines[v].counted = quantity,
                            ![c].lockUntil = at + LockTime]
  /\ UNCHANGED <<balance, comparedAt, used, now>>

SubmitCount(c, at) ==
  /\ Ready(c, "counting")
  /\ LockAlive(c, at)
  /\ \A v \in DOMAIN count[c].lines : count[c].lines[v].counted # Uncounted
  /\ MoveTo(c, "submitted", at + LockTime)
  /\ UNCHANGED <<balance, comparedAt, used, now>>

RowOf(c, v) == balance[<<count[c].location, v>>]

NoDriftInQuantity(c) ==
  \A v \in DOMAIN count[c].lines : RowOf(c, v).onHand = count[c].lines[v].expected

NoDrift(c) ==
  \A v \in DOMAIN count[c].lines :
    [Baseline(RowOf(c, v)) EXCEPT !.counted = count[c].lines[v].counted]
      = count[c].lines[v]

(* A comparison, without a lock on what it compares. *)
Compare(c, status, at) ==
  /\ Ready(c, status)
  /\ LockAlive(c, at)
  /\ NoDrift(c)
  /\ comparedAt' = [comparedAt EXCEPT ![c] = at]
  /\ UNCHANGED <<balance, count, used, now>>

BeginApprove(c, at) == Compare(c, "submitted", at)

FinishApprove(c) ==
  /\ Compared(c) /\ count[c].status = "submitted"
  /\ MoveTo(c, "approved", comparedAt[c] + LockTime)
  /\ comparedAt' = [comparedAt EXCEPT ![c] = NotCompared]
  /\ UNCHANGED <<balance, used, now>>

(* The command is refused, or it or the connection is lost. *)
RollBack(c) ==
  /\ Compared(c)
  /\ comparedAt' = [comparedAt EXCEPT ![c] = NotCompared]
  /\ UNCHANGED <<balance, count, used, now>>

CancelCount(c) ==
  /\ \E status \in {"draft", "counting", "submitted"} : Ready(c, status)
  /\ MoveTo(c, "cancelled", count[c].lockUntil)
  /\ UNCHANGED <<balance, comparedAt, used, now>>

-----------------------------------------------------------------------------
(***************************************************************************)
(* Application                                                             *)
(***************************************************************************)
BeginApply(c, at) == Compare(c, "approved", at)

CountedQuantity(line) == line.counted

Difference(line) == line.counted - line.expected

DifferentKeys(c) == {<<count[c].location, v>> :
  v \in {u \in DOMAIN count[c].lines : Difference(count[c].lines[u]) # 0}}

DifferenceAt(c, k) == Difference(count[c].lines[k[2]])

DifferencesUnchecked(c) ==
  \A k \in DifferentKeys(c) : balance[k].exists \/ DifferenceAt(c, k) > 0

(* Rows that exist, or receive something, and end in range: MAX in the     *)
(* service lies far above MaxQuantity, where the column refuses the update. *)
DifferencesPostable(c) ==
  \A k \in DifferentKeys(c) :
    /\ balance[k].exists \/ DifferenceAt(c, k) > 0
    /\ balance[k].onHand + DifferenceAt(c, k)
         \in balance[k].reserved .. MaxQuantity

BeingApplied(c) == Compared(c) /\ count[c].status = "approved"

(* The adjustment m of a count without differences is no movement at all.  *)
FinishApply(c, m) ==
  /\ BeingApplied(c)
  /\ DifferencesPostable(c)
  /\ IF DifferentKeys(c) = {} THEN m = NoMovement ELSE m \in MovementId \ used
  /\ balance' = [k \in Key |->
       IF k \in DifferentKeys(c)
         THEN Written(balance[k], m, balance[k].onHand + DifferenceAt(c, k),
                      balance[k].reserved, balance[k].inTransit)
         ELSE balance[k]]
  /\ count' = [count EXCEPT ![c].status = "applied", ![c].movement = m]
  /\ used' = used \cup ({m} \ {NoMovement})
  /\ comparedAt' = [comparedAt EXCEPT ![c] = NotCompared]
  /\ UNCHANGED now

-----------------------------------------------------------------------------
(* The rest of Inventory, as far as it changes rows that are here. *)
OtherCommand(m) ==
  LET left == [k \in Key |-> Leaves(balance[k], m)]
  IN  /\ \A k \in Key : balance[k].version < MaxVersion
      /\ \E rows \in [Key -> UNION {left[k] : k \in Key}] \ {balance} :
           (\A k \in Key : rows[k] \in left[k]) /\ balance' = rows
      /\ WriteStock(m)
      /\ UNCHANGED <<count, comparedAt, now>>

Tick == /\ now < MaxTime
        /\ now' = now + 1
        /\ UNCHANGED <<balance, count, comparedAt, used>>

CountCommand(c) ==
  \/ \E l \in Location, scope \in SUBSET Variant : CreateCount(c, l, scope)
  \/ \E at \in RequestTime :
       \/ StartCount(c, at)
       \/ \E v \in Variant, q \in Quantity : RecordLine(c, at, v, q)
       \/ SubmitCount(c, at)
       \/ BeginApprove(c, at)
       \/ BeginApply(c, at)
  \/ FinishApprove(c)
  \/ CancelCount(c)
  \/ \E m \in MovementId \cup {NoMovement} : FinishApply(c, m)
  \/ RollBack(c)

CountNext ==
  \/ \E c \in CountId : CountCommand(c)
  \/ \E m \in MovementId \cup {NoMovement} : OtherCommand(m)
  \/ Tick

CountSpec == CountInit /\ [][CountNext]_countVars

-----------------------------------------------------------------------------
(* What was approved is what was submitted: from submission on the lines   *)
(* of a count stay as they are, all of them counted, until it is applied   *)
(* or cancelled and ever after (status checks of the count service).       *)
SubmittedFiguresStand ==
  [][\A c \in CountId :
       count[c].status \in {"submitted", "approved", "applied"} =>
         /\ count'[c].lines = count[c].lines
         /\ \A v \in DOMAIN count[c].lines :
              count[c].lines[v].counted # Uncounted]_countVars

(* The stock of a count has moved since it began. *)
Overtaken(c) ==
  /\ count[c].status \in Active
  /\ \E v \in DOMAIN count[c].lines :
       RowOf(c, v).version # count[c].lines[v].version

(* Once its stock has moved, even if it moved back, a count passes neither *)
(* comparison any more (noDrift).  An approval that compared before the    *)
(* move may still commit after it; but such a count is not applied either, *)
(* as application compares again: it can only be cancelled, if at all.     *)
OvertakenCountsAreNotApplied ==
  [][\A c \in CountId :
       Overtaken(c) /\ ~BeingApplied(c) =>
         \/ /\ Overtaken(c)' /\ ~BeingApplied(c)'
            /\ ~Compared(c) => ~Compared(c)'
         \/ count'[c].status = "cancelled"]_countVars

(* A count is applied as a whole and once: every row of the location moves *)
(* by what was found more or less than expected, under the count's own     *)
(* movement, and by nothing else.                                          *)
AppliedAsAWhole ==
  [][\A c \in CountId :
       count[c].status # "applied" /\ count'[c].status = "applied" =>
         /\ count[c].status = "approved"
         /\ \A v \in DOMAIN count[c].lines :
              LET k == <<count[c].location, v>>
                  line == count[c].lines[v]
              IN  /\ balance'[k].onHand - balance[k].onHand
                       = line.counted - line.expected
                  /\ balance'[k] # balance[k] =>
                       balance'[k].last = count'[c].movement
         /\ \A k \in Key : balance'[k] # balance[k] =>
              /\ k[1] = count[c].location
              /\ k[2] \in DOMAIN count[c].lines]_countVars

(* Documented (docs/INVENTORY_OPERATIONS_DESIGN.md): application validates *)
(* an unchanged baseline and any drift from it is refused, so that the     *)
(* stock ends as it was counted.                                           *)
StockEndsAsCounted ==
  [][\A c \in CountId :
       count[c].status # "applied" /\ count'[c].status = "applied" =>
         \A v \in DOMAIN count[c].lines :
           balance'[<<count[c].location, v>>].onHand
             = count[c].lines[v].counted]_countVars
=============================================================================
