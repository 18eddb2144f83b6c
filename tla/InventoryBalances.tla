------------------------- MODULE InventoryBalances -------------------------
(***************************************************************************)
(* The balance projection of the inventory: one row per location and       *)
(* variant, as table inventory_balances keeps it, and the two ways a       *)
(* command changes rows it has locked: by the signed effect of movement    *)
(* lines, and by moving amounts between the components of a row.           *)
(*                                                                         *)
(* A command is one transaction which locks every row it reads before it   *)
(* computes; here it is one atomic step.  BalanceLocking opens the         *)
(* transaction up.                                                         *)
(***************************************************************************)
EXTENDS Integers, FiniteSetsExt

CONSTANTS
  Location,      \* inventory locations, all active
  Variant,       \* active product variants
  Branch,
  BranchOf,      \* the branch of each location
  Issuing,       \* locations with allows_issuing
  Receiving,     \* locations with allows_receiving
  Transit,       \* locations of type transit
  MovementId,    \* identifiers the movements of a run are given
  NoMovement, NoLocation,
  MaxQuantity    \* INVENTORY_QUANTITY_MAX, the largest numeric(19,6)

(* Identifiers are UUIDs, so that there are finitely many. *)
ASSUME BalanceAssumption ==
  /\ MaxQuantity \in Nat
  /\ IsFiniteSet(Location) /\ IsFiniteSet(Variant) /\ IsFiniteSet(MovementId)
  /\ Branch # {} /\ Location # {}
  /\ BranchOf \in [Location -> Branch]
  /\ Issuing \subseteq Location /\ Receiving \subseteq Location
  /\ Transit \subseteq Location
  /\ NoMovement \notin MovementId
  /\ NoLocation \notin Location

VARIABLE balance

Key == Location \X Variant
Quantity == 0..MaxQuantity

(* A row.  An absent row holds what createInboundBalances would insert. *)
Row == [exists : BOOLEAN, onHand : Quantity, reserved : Quantity,
        inTransit : Quantity, version : Nat \ {0},
        last : MovementId \cup {NoMovement}]

NoRow == [exists |-> FALSE, onHand |-> 0, reserved |-> 0, inTransit |-> 0,
          version |-> 1, last |-> NoMovement]

BalanceTypeOK == balance \in [Key -> Row]

BalanceInit == balance = [k \in Key |-> NoRow]

(***************************************************************************)
(* A movement line takes its quantity from a source location, adds it to a *)
(* destination location, or both.                                          *)
(***************************************************************************)
Line == [variant : Variant, source : Location \cup {NoLocation},
         destination : Location \cup {NoLocation}, quantity : Quantity \ {0}]

SourceKey(l) == <<l.source, l.variant>>
DestinationKey(l) == <<l.destination, l.variant>>
Swapped(l) == [l EXCEPT !.source = l.destination, !.destination = l.source]

TouchedKeys(lines) == {SourceKey(l) : l \in lines}
                        \cup {DestinationKey(l) : l \in lines}

(* The signed quantity a set of lines adds to a key. *)
Delta(lines, k) ==
  MapThenSumSet(LAMBDA l : l.quantity, {l \in lines : DestinationKey(l) = k})
    - MapThenSumSet(LAMBDA l : l.quantity, {l \in lines : SourceKey(l) = k})

WrittenInPlace(row, m, onHand, reserved, inTransit) ==
  [exists |-> TRUE, onHand |-> onHand, reserved |-> reserved,
   inTransit |-> inTransit, version |-> row.version,
   last |-> IF m = NoMovement THEN row.last ELSE m]

(* A row rewritten by an updateBalance, under movement m if there is one. *)
Written(row, m, onHand, reserved, inTransit) ==
  [exists |-> TRUE, onHand |-> onHand, reserved |-> reserved,
   inTransit |-> inTransit, version |-> row.version + 1,
   last |-> IF m = NoMovement THEN row.last ELSE m]

(***************************************************************************)
(* Posting and reversal: every touched row must exist or receive a         *)
(* positive amount, and must end between its reserved quantity and the     *)
(* largest representable one.                                              *)
(***************************************************************************)
PostableIgnoringReserved(lines) ==
  \A k \in TouchedKeys(lines) \cap Key :
    /\ balance[k].exists \/ Delta(lines, k) > 0
    /\ balance[k].onHand + Delta(lines, k) \in Quantity

PostableWithoutOverflowCheck(lines) ==
  \A k \in TouchedKeys(lines) \cap Key :
    /\ balance[k].exists \/ Delta(lines, k) > 0
    /\ balance[k].onHand + Delta(lines, k) >= balance[k].reserved

Postable(lines) ==
  \A k \in TouchedKeys(lines) \cap Key :
    /\ balance[k].exists \/ Delta(lines, k) > 0
    /\ balance[k].onHand + Delta(lines, k)
         \in balance[k].reserved .. MaxQuantity

PostOnHand(lines, m) ==
  balance' = [k \in Key |->
    IF k \in TouchedKeys(lines)
      THEN Written(balance[k], m, balance[k].onHand + Delta(lines, k),
                   balance[k].reserved, balance[k].inTransit)
      ELSE balance[k]]

-----------------------------------------------------------------------------
(* What the projection promises of every row. *)

(* V1 never oversells: on hand covers what is reserved.  (That components  *)
(* are neither negative nor too large is part of the type.)                *)
ReservedIsCovered == \A k \in Key : balance[k].reserved <= balance[k].onHand

(* A row that was never inserted holds no stock. *)
AbsentRowIsEmpty == \A k \in Key : ~balance[k].exists => balance[k] = NoRow
=============================================================================
