----------------------------- MODULE Inventory -----------------------------
(***************************************************************************)
(* The stock of a company: movements, reservations and transfers, every    *)
(* command one transaction over the same balance rows.                     *)
(***************************************************************************)
EXTENDS InventoryReservations, InventoryTransfers

vars == <<balance, movement, reservation, now, transfer>>

Init == /\ BalanceInit
        /\ MovementInit
        /\ ReservationInit
        /\ TransferInit

Next ==
  \/ MovementNext /\ UNCHANGED <<reservation, now, transfer>>
  \/ ReservationNext /\ UNCHANGED transfer
  \/ TransferNext /\ UNCHANGED <<reservation, now>>

Spec == Init /\ [][Next]_vars

TypeOK == /\ BalanceTypeOK
          /\ MovementTypeOK
          /\ ReservationTypeOK
          /\ TransferTypeOK

-----------------------------------------------------------------------------
(***************************************************************************)
(* The projection against its authorities                                  *)
(***************************************************************************)
(* quantity_reserved is what the active reservations hold, no more after   *)
(* one of them completes and no less while it is active.                   *)
ReservedIsActiveHolds ==
  \A k \in Key : balance[k].reserved =
    Sum(LAMBDA r : AmountOf(reservation[r].lines, k),
        {r \in ReservationId : /\ reservation[r].status = "active"
                               /\ k \in ReservedKeys(reservation[r].lines)})

(* quantity_in_transit is what was shipped and not received yet.           *)
InTransitIsShipped ==
  \A k \in Key : balance[k].inTransit =
    Sum(LAMBDA t : ShippedAmount(t, k),
        {t \in TransferId : /\ transfer[t].status = "shipped"
                            /\ k \in KeysAt(t, transfer[t].transit)})

(* Documented: folding the lines of posted and reversed movements          *)
(* reconstructs every on-hand balance (the reconciliation's on_hand CTE).  *)
LedgerFold(k) ==
  Sum(LAMBDA m : Delta(movement[m].lines, k),
      {m \in MovementId : movement[m].status \in {"posted", "reversed"}})

LedgerReconstructsOnHand ==
  \A k \in Key : balance[k].onHand = LedgerFold(k)

(* An active reservation can always be confirmed or given back, and a      *)
(* shipped transfer always finds its stock in transit: later commands      *)
(* cannot take what earlier ones set aside.                                *)
SetAsideStockIsThere ==
  /\ \A r \in ReservationId : reservation[r].status = "active" =>
       \A k \in ReservedKeys(reservation[r].lines) :
         /\ balance[k].exists
         /\ balance[k].reserved >= AmountOf(reservation[r].lines, k)
         /\ balance[k].onHand >= AmountOf(reservation[r].lines, k)
  /\ \A t \in TransferId : transfer[t].status = "shipped" =>
       \A k \in KeysAt(t, transfer[t].transit) :
         balance[k].exists /\ balance[k].inTransit >= ShippedAmount(t, k)

(***************************************************************************)
(* Documents and the movements they own                                    *)
(***************************************************************************)
(* Every issue, shipment and receipt belongs to one document, in the       *)
(* status that movement gave it.                                           *)
WorkflowMovementsHaveOneOwner ==
  LET Claims(m) ==
        {r \in ReservationId : reservation[r].movement = m}
          \cup {<<t, "ship">> : t \in {u \in TransferId :
                                          transfer[u].shipment = m}}
          \cup {<<t, "receive">> : t \in {u \in TransferId :
                                             transfer[u].receipt = m}}
  IN  /\ \A m \in MovementId :
           Cardinality(Claims(m)) =
             IF movement[m].type \in {"issue", "transfer_shipment",
                                     "transfer_receipt"}
               THEN 1 ELSE 0
      /\ \A r \in ReservationId :
           reservation[r].status = "confirmed"
             <=> reservation[r].movement # NoMovement
      /\ \A t \in TransferId :
           /\ transfer[t].status \in {"shipped", "received"}
                <=> transfer[t].shipment # NoMovement
           /\ transfer[t].status = "received"
                <=> transfer[t].receipt # NoMovement

(***************************************************************************)
(* What a step may never do                                                *)
(***************************************************************************)
(* Terminal documents stay as they are. *)
TerminalIsFinal ==
  [][/\ \A r \in ReservationId :
          reservation[r].status \notin {"none", "active"} =>
            reservation'[r] = reservation[r]
     /\ \A t \in TransferId :
          transfer[t].status \in {"rejected", "cancelled", "received"} =>
            transfer'[t] = transfer[t]]_vars

(* Each command rewrites rows as StockWriters promises: all in one step,   *)
(* each with its next version, and stock moves only under a movement that  *)
(* is posted by this very step.                                            *)
Posted == {m \in MovementId : movement[m].status \in {"posted", "reversed"}}

Writers == INSTANCE StockWriters WITH used <- Posted, Travelling <- Quantity

ImplementsWriters == Writers!WriterSpec

(* A row that changes gets the next version, and names the movement that   *)
(* changed its on-hand or in-transit quantity: a movement posted by this   *)
(* very step.                                                              *)
RowChangesAreTraced ==
  [][\A k \in Key : balance'[k] # balance[k] =>
       /\ balance'[k].version = balance[k].version + 1
       /\ balance'[k].exists
       /\ \/ /\ balance'[k].onHand = balance[k].onHand
             /\ balance'[k].inTransit = balance[k].inTransit
             /\ balance'[k].last = balance[k].last
          \/ /\ balance'[k].last \in MovementId
             /\ movement[balance'[k].last].status # "posted"
             /\ movement'[balance'[k].last].status = "posted"]_vars
=============================================================================
