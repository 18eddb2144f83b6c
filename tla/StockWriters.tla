---------------------------- MODULE StockWriters ----------------------------
(***************************************************************************)
(* What commands that write balance rows have in common, whichever         *)
(* documents they are about: the abstract specification of Inventory, and  *)
(* of what goes on beside a count.                                         *)
(*                                                                         *)
(* A command locks the rows it writes and rewrites all of them in one      *)
(* transaction, each with its next version.  If stock moves it does so     *)
(* under one movement, posted by this very command; without a movement     *)
(* only reserved quantities change.                                        *)
(***************************************************************************)
EXTENDS InventoryBalances

CONSTANT Travelling   \* quantities a movement may leave in transit

ASSUME WriterAssumption == Travelling \subseteq Quantity

VARIABLE used         \* movements posted so far

writerVars == <<balance, used>>

(* A row some of whose stock is reserved, or is no longer.                 *)
Reserved(row) ==
  {[row EXCEPT !.reserved = q, !.version = @ + 1] :
     q \in {r \in 0 .. row.onHand : row.exists /\ r # row.reserved}}

(* A row under a movement, which may issue what was reserved but reserves  *)
(* nothing, and which makes a row only where something arrives.            *)
Moved(row, m) ==
  {new \in [exists : {TRUE}, onHand : Quantity, reserved : 0 .. row.reserved,
            inTransit : {row.inTransit} \cup Travelling,
            version : {row.version + 1}, last : {m}] :
     /\ new.reserved <= new.onHand
     /\ row.exists \/ new.onHand + new.inTransit > 0}

Leaves(row, m) ==
  {row} \cup IF m = NoMovement THEN Reserved(row) ELSE Moved(row, m)

(* A command that posts movement m, or none. *)
WriteStock(m) ==
  /\ m \notin used
  /\ DOMAIN balance' = Key
  /\ \A k \in Key : balance'[k] \in Leaves(balance[k], m)
  /\ used' = used \cup ({m} \ {NoMovement})

WriterSpec ==
  /\ BalanceInit /\ used = {}
  /\ [][\E m \in MovementId \cup {NoMovement} : WriteStock(m)]_writerVars
=============================================================================
