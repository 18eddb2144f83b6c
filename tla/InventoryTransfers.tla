------------------------- MODULE InventoryTransfers -------------------------
(***************************************************************************)
(* Transfers between locations, through a transit location of the          *)
(* destination branch: requested, then approved or rejected, then shipped, *)
(* then received; cancelled only before shipment.                          *)
(*                                                                         *)
(* The shipment takes the quantity off the source's quantity on hand and   *)
(* adds it to the transit location's quantity IN TRANSIT; the receipt      *)
(* moves it on to the destination's quantity on hand.  Both insert a       *)
(* posted movement whose lines run from one location to the other.         *)
(***************************************************************************)
EXTENDS InventoryMovements

CONSTANT TransferId

ASSUME TransferAssumption == IsFiniteSet(TransferId)

VARIABLE transfer

TransferStatus == {"none", "requested", "approved", "rejected", "cancelled",
                   "shipped", "received"}

TransferLine == [variant : Variant, quantity : Quantity \ {0}]

Transfer == [status : TransferStatus, source : Location, transit : Location,
             destination : Location, lines : SUBSET TransferLine,
             version : Nat, shipment : MovementId \cup {NoMovement},
             receipt : MovementId \cup {NoMovement}]

TransferTypeOK == transfer \in [TransferId -> Transfer]

NoTransfer == LET anywhere == CHOOSE l \in Location : TRUE
              IN  [status |-> "none", source |-> anywhere,
                   transit |-> anywhere, destination |-> anywhere,
                   lines |-> {}, version |-> 0, shipment |-> NoMovement,
                   receipt |-> NoMovement]

TransferInit == transfer = [t \in TransferId |-> NoTransfer]

(***************************************************************************)
(* Request, decision, cancellation                                         *)
(***************************************************************************)
RouteValid(source, transit, destination) ==
  /\ source \in Issuing
  /\ destination \in Receiving
  /\ transit \in Transit
  /\ BranchOf[transit] = BranchOf[destination]

CreateTransfer(t, source, transit, destination, lines) ==
  /\ transfer[t].status = "none"
  /\ Cardinality({source, transit, destination}) = 3
  /\ RouteValid(source, transit, destination)
  /\ lines # {}
  /\ \A l1, l2 \in lines : l1.variant = l2.variant => l1 = l2
  /\ transfer' = [transfer EXCEPT ![t] =
       [status |-> "requested", source |-> source, transit |-> transit,
        destination |-> destination, lines |-> lines, version |-> 1,
        shipment |-> NoMovement, receipt |-> NoMovement]]
  /\ UNCHANGED <<balance, movement>>

VersionOnly(t, expected, from) == transfer[t].version = expected

VersionAndState(t, expected, from) == /\ transfer[t].version = expected
                                      /\ transfer[t].status \in from

Transition(t, expected, from, to) ==
  /\ VersionAndState(t, expected, from)
  /\ transfer' = [transfer EXCEPT ![t].status = to, ![t].version = @ + 1]
  /\ UNCHANGED <<balance, movement>>

Approve(t, expected) == Transition(t, expected, {"requested"}, "approved")
Reject(t, expected) == Transition(t, expected, {"requested"}, "rejected")

CancelEvenShipped(t, expected) ==
  Transition(t, expected, {"requested", "approved", "shipped"}, "cancelled")

CancelTransfer(t, expected) ==
  Transition(t, expected, {"requested", "approved"}, "cancelled")

(***************************************************************************)
(* Shipment and receipt                                                    *)
(***************************************************************************)
KeysAt(t, location) == {<<location, l.variant>> : l \in transfer[t].lines}

ShippedAmount(t, k) ==
  (CHOOSE l \in transfer[t].lines : l.variant = k[2]).quantity

TransferMovementLines(t, from, to) ==
  {[variant |-> l.variant, source |-> from, destination |-> to,
    quantity |-> l.quantity] : l \in transfer[t].lines}

ShipmentOnHand(k, amount) == balance[k].exists /\ balance[k].onHand >= amount

ShipmentCovered(k, amount) ==
  balance[k].exists /\ balance[k].onHand - balance[k].reserved >= amount

Ship(t, expected, m) ==
  LET record == transfer[t]
      out == KeysAt(t, record.source)
      in == KeysAt(t, record.transit)
      amount(k) == ShippedAmount(t, k)
  IN  /\ VersionAndState(t, expected, {"approved"})
      /\ RouteValid(record.source, record.transit, record.destination)
      /\ movement[m].status = "none"
      /\ \A k \in out : ShipmentCovered(k, amount(k))
      /\ \A k \in in : balance[k].inTransit + amount(k) <= MaxQuantity
      /\ balance' = [k \in Key |->
           IF k \in out
             THEN Written(balance[k], m, balance[k].onHand - amount(k),
                          balance[k].reserved, balance[k].inTransit)
           ELSE IF k \in in
             THEN Written(balance[k], m, balance[k].onHand,
                          balance[k].reserved, balance[k].inTransit + amount(k))
             ELSE balance[k]]
      /\ movement' = [movement EXCEPT ![m] =
           PostedMovement("transfer_shipment", BranchOf[record.source],
             TransferMovementLines(t, record.source, record.transit),
             NoMovement)]
      /\ transfer' = [transfer EXCEPT ![t].status = "shipped",
                                      ![t].shipment = m,
                                      ![t].version = @ + 1]

Receive(t, expected, m) ==
  LET record == transfer[t]
      out == KeysAt(t, record.transit)
      in == KeysAt(t, record.destination)
      amount(k) == ShippedAmount(t, k)
  IN  /\ VersionAndState(t, expected, {"shipped"})
      /\ RouteValid(record.source, record.transit, record.destination)
      /\ movement[m].status = "none"
      /\ \A k \in out : balance[k].exists /\ balance[k].inTransit >= amount(k)
      /\ \A k \in in : balance[k].onHand + amount(k) <= MaxQuantity
      /\ balance' = [k \in Key |->
           IF k \in out
             THEN Written(balance[k], m, balance[k].onHand,
                          balance[k].reserved, balance[k].inTransit - amount(k))
           ELSE IF k \in in
             THEN Written(balance[k], m, balance[k].onHand + amount(k),
                          balance[k].reserved, balance[k].inTransit)
             ELSE balance[k]]
      /\ movement' = [movement EXCEPT ![m] =
           PostedMovement("transfer_receipt", BranchOf[record.destination],
             TransferMovementLines(t, record.transit, record.destination),
             NoMovement)]
      /\ transfer' = [transfer EXCEPT ![t].status = "received",
                                      ![t].receipt = m,
                                      ![t].version = @ + 1]

TransferCommand(t, expected) ==
  \/ Approve(t, expected)
  \/ Reject(t, expected)
  \/ CancelTransfer(t, expected)
  \/ \E m \in MovementId : Ship(t, expected, m) \/ Receive(t, expected, m)

TransferNext ==
  \E t \in TransferId :
    \/ \E source, transit, destination \in Location,
          lines \in SUBSET TransferLine :
         CreateTransfer(t, source, transit, destination, lines)
    \/ TransferCommand(t, transfer[t].version)
=============================================================================
