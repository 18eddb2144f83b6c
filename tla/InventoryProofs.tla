-------------------------- MODULE InventoryProofs --------------------------
(***************************************************************************)
(* What holds of Inventory for every company, whatever its locations,      *)
(* variants and documents and whatever the largest quantity: rows stay in  *)
(* range and cover what is reserved, documents keep their promises,        *)
(* changed rows name what changed them, and whoever edits a movement has   *)
(* seen it as it is.                                                       *)
(***************************************************************************)
EXTENDS Inventory, MovementEditing, FiniteSetTheorems, WellFoundedInduction, TLAPS

-----------------------------------------------------------------------------
(***************************************************************************)
(* Rows                                                                    *)
(***************************************************************************)
(* The balance part of the inductive invariant. *)
BalanceInv == BalanceTypeOK /\ ReservedIsCovered

(* A row written with quantities in range, covering its reservations, is a *)
(* row that covers its reservations.                                       *)
LEMMA RowWritten ==
  ASSUME NEW k, balance[k] \in Row, NEW m \in MovementId \cup {NoMovement},
         NEW onHand \in Quantity, NEW reserved \in Quantity,
         NEW inTransit \in Quantity, reserved <= onHand,
         balance'[k] = Written(balance[k], m, onHand, reserved, inTransit)
  PROVE  balance'[k] \in Row /\ balance'[k].reserved <= balance'[k].onHand
<1>1. /\ balance[k].version \in Nat
      /\ (IF m = NoMovement THEN balance[k].last ELSE m)
           \in MovementId \cup {NoMovement}
  BY DEF Row
<1>2. balance'[k] \in Row
  BY <1>1 DEF Written, Row
<1>3. balance'[k].reserved = reserved /\ balance'[k].onHand = onHand
  BY DEF Written
<1> QED BY <1>2, <1>3

(* What the invariant says of one row. *)
LEMMA RowFacts ==
  ASSUME BalanceInv, BalanceAssumption, NEW k \in Key
  PROVE  /\ balance[k] \in Row
         /\ balance[k].onHand \in Quantity /\ balance[k].onHand \in Nat
         /\ balance[k].reserved \in Quantity /\ balance[k].reserved \in Nat
         /\ balance[k].inTransit \in Quantity /\ balance[k].inTransit \in Nat
         /\ balance[k].reserved <= balance[k].onHand
         /\ balance[k].onHand <= MaxQuantity
<1>1. balance[k] \in Row /\ balance[k].reserved <= balance[k].onHand
  BY DEF BalanceInv, BalanceTypeOK, ReservedIsCovered
<1>2. /\ balance[k].onHand \in Quantity
      /\ balance[k].reserved \in Quantity
      /\ balance[k].inTransit \in Quantity
  BY <1>1 DEF Row
<1> QED BY <1>1, <1>2, BalanceAssumption DEF Quantity, BalanceAssumption

(* Posting keeps every row in range, whatever the lines are: the guard     *)
(* confines the result, not the operands.                                  *)
LEMMA PostOnHandSafe ==
  ASSUME NEW lines, NEW m \in MovementId, BalanceAssumption,
         BalanceInv, Postable(lines), PostOnHand(lines, m)
  PROVE  BalanceInv'
<1>1. ASSUME NEW k \in Key
      PROVE  balance'[k] \in Row /\ balance'[k].reserved <= balance'[k].onHand
  <2>1. balance[k] \in Row /\ balance[k].reserved <= balance[k].onHand
    BY RowFacts
  <2>2. balance[k].reserved \in Quantity /\ balance[k].inTransit \in Quantity
    BY RowFacts
  <2>3. CASE k \in TouchedKeys(lines)
    <3>1. balance[k].onHand + Delta(lines, k)
            \in balance[k].reserved .. MaxQuantity
      BY <2>3 DEF Postable
    <3>2. /\ balance[k].onHand + Delta(lines, k) \in Quantity
          /\ balance[k].reserved <= balance[k].onHand + Delta(lines, k)
      BY <2>2, <3>1, BalanceAssumption DEF Quantity, BalanceAssumption
    <3>3. balance'[k] = Written(balance[k], m,
                                balance[k].onHand + Delta(lines, k),
                                balance[k].reserved, balance[k].inTransit)
      BY <2>3 DEF PostOnHand
    <3> QED BY <2>1, <2>2, <3>2, <3>3, RowWritten
  <2>4. CASE k \notin TouchedKeys(lines)
    BY <2>1, <2>4 DEF PostOnHand
  <2> QED BY <2>3, <2>4
<1>2. balance' = [k \in Key |-> balance'[k]]
  BY DEF PostOnHand
<1> QED BY <1>1, <1>2 DEF BalanceInv, BalanceTypeOK, ReservedIsCovered

-----------------------------------------------------------------------------
(***************************************************************************)
(* Reservations                                                            *)
(***************************************************************************)
(* The amount a set of lines holds of a key is that of one of them. *)
LEMMA AmountOfLine ==
  ASSUME NEW lines \in SUBSET ReservedLine, NEW k \in ReservedKeys(lines)
  PROVE  \E l \in lines : ReservedKey(l) = k /\ AmountOf(lines, k) = l.quantity
<1>1. \E l \in lines : ReservedKey(l) = k
  BY DEF ReservedKeys
<1>2. (CHOOSE l \in lines : ReservedKey(l) = k) \in lines
      /\ ReservedKey(CHOOSE l \in lines : ReservedKey(l) = k) = k
  BY <1>1
<1> QED BY <1>2 DEF AmountOf

LEMMA AmountInRange ==
  ASSUME BalanceAssumption, NEW lines \in SUBSET ReservedLine,
         NEW k \in ReservedKeys(lines)
  PROVE  AmountOf(lines, k) \in Nat
<1>1. PICK l \in lines : AmountOf(lines, k) = l.quantity
  BY AmountOfLine
<1>2. l.quantity \in Quantity
  BY DEF ReservedLine
<1> QED BY <1>1, <1>2, BalanceAssumption DEF Quantity, BalanceAssumption

(* The stock part of CreateReservation. *)
LEMMA HoldSafe ==
  ASSUME BalanceAssumption, BalanceInv,
         NEW lines \in SUBSET ReservedLine,
         \A l \in lines : Available(l),
         balance' = [k \in Key |->
           IF k \in ReservedKeys(lines)
             THEN Written(balance[k], NoMovement, balance[k].onHand,
                          balance[k].reserved + AmountOf(lines, k),
                          balance[k].inTransit)
             ELSE balance[k]]
  PROVE  BalanceInv'
<1>1. ASSUME NEW k \in Key
      PROVE  balance'[k] \in Row /\ balance'[k].reserved <= balance'[k].onHand
  <2>1. CASE k \in ReservedKeys(lines)
    <3>1. PICK l \in lines : /\ ReservedKey(l) = k
                             /\ AmountOf(lines, k) = l.quantity
      BY <2>1, AmountOfLine
    <3>2. balance[k].onHand - balance[k].reserved >= AmountOf(lines, k)
      BY <3>1 DEF Available
    <3>3. /\ AmountOf(lines, k) \in Nat
          /\ balance[k].onHand \in Nat /\ balance[k].reserved \in Nat
          /\ balance[k].onHand <= MaxQuantity
      BY <2>1, AmountInRange, RowFacts
    <3>4. /\ balance[k].reserved + AmountOf(lines, k) \in Quantity
          /\ balance[k].reserved + AmountOf(lines, k) <= balance[k].onHand
      BY <3>2, <3>3, BalanceAssumption DEF Quantity, BalanceAssumption
    <3>5. balance'[k] = Written(balance[k], NoMovement, balance[k].onHand,
                                balance[k].reserved + AmountOf(lines, k),
                                balance[k].inTransit)
      BY <2>1
    <3>6. /\ balance[k] \in Row /\ balance[k].onHand \in Quantity
          /\ balance[k].inTransit \in Quantity
      BY RowFacts
    <3> QED BY <3>4, <3>5, <3>6, RowWritten
  <2>2. CASE k \notin ReservedKeys(lines)
    BY <2>2, RowFacts
  <2> QED BY <2>1, <2>2
<1>2. balance' = [k \in Key |-> balance'[k]]
  OBVIOUS
<1> QED BY <1>1, <1>2 DEF BalanceInv, BalanceTypeOK, ReservedIsCovered

LEMMA SettleSafe ==
  ASSUME BalanceAssumption, BalanceInv, ReservationTypeOK,
         NEW r \in ReservationId, NEW m \in MovementId \cup {NoMovement},
         Settle(r, m)
  PROVE  BalanceInv'
<1> DEFINE lines == reservation[r].lines
<1>1. lines \in SUBSET ReservedLine
  BY DEF ReservationTypeOK, Reservation
<1>2. ASSUME NEW k \in Key
      PROVE  balance'[k] \in Row /\ balance'[k].reserved <= balance'[k].onHand
  <2>1. CASE k \in ReservedKeys(lines)
    <3>1. AmountOf(lines, k) \in Nat
      BY <1>1, <2>1, AmountInRange
    <3>2. balance'[k] =
            Written(balance[k], m,
                    balance[k].onHand - ConsumedBy(m, AmountOf(lines, k)),
                    balance[k].reserved - ReleasedBy(m, AmountOf(lines, k)),
                    balance[k].inTransit)
      BY <2>1 DEF Settle
    <3>3. /\ balance[k].reserved >= ReleasedBy(m, AmountOf(lines, k))
          /\ balance[k].onHand >= ConsumedBy(m, AmountOf(lines, k))
      BY <2>1 DEF Settle
    <3>4. /\ balance[k].onHand \in Nat /\ balance[k].reserved \in Nat
          /\ balance[k].onHand <= MaxQuantity
          /\ balance[k].reserved <= balance[k].onHand
      BY RowFacts
    <3>5. /\ balance[k].onHand - ConsumedBy(m, AmountOf(lines, k)) \in Quantity
          /\ balance[k].reserved - ReleasedBy(m, AmountOf(lines, k))
               \in Quantity
          /\ balance[k].reserved - ReleasedBy(m, AmountOf(lines, k))
               <= balance[k].onHand - ConsumedBy(m, AmountOf(lines, k))
      <4> HIDE DEF lines
      <4> QED BY <3>1, <3>3, <3>4, BalanceAssumption
              DEF Quantity, BalanceAssumption, ConsumedBy, ReleasedBy
    <3>6. balance[k] \in Row /\ balance[k].inTransit \in Quantity
      BY RowFacts
    <3> QED BY <3>2, <3>5, <3>6, RowWritten
  <2>2. CASE k \notin ReservedKeys(lines)
    BY <2>2, RowFacts DEF Settle
  <2> QED BY <2>1, <2>2
<1>3. balance' = [k \in Key |-> balance'[k]]
  BY DEF Settle
<1> QED BY <1>2, <1>3 DEF BalanceInv, BalanceTypeOK, ReservedIsCovered

-----------------------------------------------------------------------------
(***************************************************************************)
(* Transfers                                                               *)
(***************************************************************************)
LEMMA ShippedAmountInRange ==
  ASSUME BalanceAssumption, TransferTypeOK, NEW t \in TransferId,
         NEW location, NEW k \in KeysAt(t, location)
  PROVE  ShippedAmount(t, k) \in Nat
<1>1. transfer[t].lines \in SUBSET TransferLine
  BY DEF TransferTypeOK, Transfer
<1>2. \E l \in transfer[t].lines : l.variant = k[2]
  BY DEF KeysAt
<1>3. (CHOOSE l \in transfer[t].lines : l.variant = k[2]) \in TransferLine
  BY <1>1, <1>2
<1>4. ShippedAmount(t, k) \in Quantity
  BY <1>3 DEF ShippedAmount, TransferLine
<1> QED BY <1>4, BalanceAssumption DEF Quantity, BalanceAssumption

LEMMA ShipSafe ==
  ASSUME BalanceAssumption, BalanceInv, TransferTypeOK,
         NEW t \in TransferId, NEW expected, NEW m \in MovementId,
         Ship(t, expected, m)
  PROVE  BalanceInv'
<1>1. ASSUME NEW k \in Key
      PROVE  balance'[k] \in Row /\ balance'[k].reserved <= balance'[k].onHand
  <2>1. /\ balance[k] \in Row
        /\ balance[k].onHand \in Quantity /\ balance[k].onHand \in Nat
        /\ balance[k].reserved \in Quantity /\ balance[k].reserved \in Nat
        /\ balance[k].inTransit \in Quantity /\ balance[k].inTransit \in Nat
        /\ balance[k].reserved <= balance[k].onHand
        /\ balance[k].onHand <= MaxQuantity
    BY RowFacts
  <2>2. CASE k \in KeysAt(t, transfer[t].source)
    <3>1. ShippedAmount(t, k) \in Nat
      BY <2>2, ShippedAmountInRange
    <3>2. balance[k].onHand - balance[k].reserved >= ShippedAmount(t, k)
      BY <2>2 DEF Ship, ShipmentCovered
    <3>3. /\ balance[k].onHand - ShippedAmount(t, k) \in Quantity
          /\ balance[k].reserved <= balance[k].onHand - ShippedAmount(t, k)
      BY <2>1, <3>1, <3>2, BalanceAssumption DEF Quantity, BalanceAssumption
    <3>4. balance'[k] = Written(balance[k], m,
                                balance[k].onHand - ShippedAmount(t, k),
                                balance[k].reserved, balance[k].inTransit)
      BY <2>2 DEF Ship
    <3> QED BY <2>1, <3>3, <3>4, RowWritten
  <2>3. CASE /\ k \notin KeysAt(t, transfer[t].source)
             /\ k \in KeysAt(t, transfer[t].transit)
    <3>1. ShippedAmount(t, k) \in Nat
      BY <2>3, ShippedAmountInRange
    <3>2. balance[k].inTransit + ShippedAmount(t, k) <= MaxQuantity
      BY <2>3 DEF Ship
    <3>3. balance[k].inTransit + ShippedAmount(t, k) \in Quantity
      BY <2>1, <3>1, <3>2, BalanceAssumption DEF Quantity, BalanceAssumption
    <3>4. balance'[k] = Written(balance[k], m, balance[k].onHand,
                                balance[k].reserved,
                                balance[k].inTransit + ShippedAmount(t, k))
      BY <2>3 DEF Ship
    <3> QED BY <2>1, <3>3, <3>4, RowWritten
  <2>4. CASE /\ k \notin KeysAt(t, transfer[t].source)
             /\ k \notin KeysAt(t, transfer[t].transit)
    BY <2>1, <2>4 DEF Ship
  <2> QED BY <2>2, <2>3, <2>4
<1>2. balance' = [k \in Key |-> balance'[k]]
  BY DEF Ship
<1> QED BY <1>1, <1>2 DEF BalanceInv, BalanceTypeOK, ReservedIsCovered

LEMMA ReceiveSafe ==
  ASSUME BalanceAssumption, BalanceInv, TransferTypeOK,
         NEW t \in TransferId, NEW expected, NEW m \in MovementId,
         Receive(t, expected, m)
  PROVE  BalanceInv'
<1>1. ASSUME NEW k \in Key
      PROVE  balance'[k] \in Row /\ balance'[k].reserved <= balance'[k].onHand
  <2>1. /\ balance[k] \in Row
        /\ balance[k].onHand \in Quantity /\ balance[k].onHand \in Nat
        /\ balance[k].reserved \in Quantity /\ balance[k].reserved \in Nat
        /\ balance[k].inTransit \in Quantity /\ balance[k].inTransit \in Nat
        /\ balance[k].inTransit <= MaxQuantity
        /\ balance[k].reserved <= balance[k].onHand
    BY RowFacts, BalanceAssumption DEF Quantity, BalanceAssumption
  <2>2. CASE k \in KeysAt(t, transfer[t].transit)
    <3>1. ShippedAmount(t, k) \in Nat
      BY <2>2, ShippedAmountInRange
    <3>2. balance[k].inTransit >= ShippedAmount(t, k)
      BY <2>2 DEF Receive
    <3>3. balance[k].inTransit - ShippedAmount(t, k) \in Quantity
      BY <2>1, <3>1, <3>2, BalanceAssumption DEF Quantity, BalanceAssumption
    <3>4. balance'[k] = Written(balance[k], m, balance[k].onHand,
                                balance[k].reserved,
                                balance[k].inTransit - ShippedAmount(t, k))
      BY <2>2 DEF Receive
    <3> QED BY <2>1, <3>3, <3>4, RowWritten
  <2>3. CASE /\ k \notin KeysAt(t, transfer[t].transit)
             /\ k \in KeysAt(t, transfer[t].destination)
    <3>1. ShippedAmount(t, k) \in Nat
      BY <2>3, ShippedAmountInRange
    <3>2. balance[k].onHand + ShippedAmount(t, k) <= MaxQuantity
      BY <2>3 DEF Receive
    <3>3. /\ balance[k].onHand + ShippedAmount(t, k) \in Quantity
          /\ balance[k].reserved <= balance[k].onHand + ShippedAmount(t, k)
      BY <2>1, <3>1, <3>2, BalanceAssumption DEF Quantity, BalanceAssumption
    <3>4. balance'[k] = Written(balance[k], m,
                                balance[k].onHand + ShippedAmount(t, k),
                                balance[k].reserved, balance[k].inTransit)
      BY <2>3 DEF Receive
    <3> QED BY <2>1, <3>3, <3>4, RowWritten
  <2>4. CASE /\ k \notin KeysAt(t, transfer[t].transit)
             /\ k \notin KeysAt(t, transfer[t].destination)
    BY <2>1, <2>4 DEF Receive
  <2> QED BY <2>2, <2>3, <2>4
<1>2. balance' = [k \in Key |-> balance'[k]]
  BY DEF Receive
<1> QED BY <1>1, <1>2 DEF BalanceInv, BalanceTypeOK, ReservedIsCovered

-----------------------------------------------------------------------------
(***************************************************************************)
(* Documents                                                               *)
(***************************************************************************)
LEMMA UnusedIsMovement == ASSUME BalanceAssumption PROVE Unused \in Movement
<1>1. (CHOOSE b \in Branch : TRUE) \in Branch
  BY DEF BalanceAssumption
<1> QED BY <1>1 DEF Unused, Movement, Status, Type, DraftType

LEMMA PostedIsMovement ==
  ASSUME NEW type \in Type, NEW branch \in Branch, NEW lines \in SUBSET Line,
         NEW original \in MovementId \cup {NoMovement}
  PROVE  PostedMovement(type, branch, lines, original) \in Movement
BY DEF PostedMovement, Movement, Status

(* Exchanging a line's ends gives a line. *)
LEMMA SwappedIsLine ==
  ASSUME NEW l \in Line PROVE Swapped(l) \in Line
BY DEF Swapped, Line

LEMMA ReversalLinesAreLines ==
  ASSUME MovementTypeOK, NEW m \in MovementId
  PROVE  StoredReversalLines(m) \in SUBSET Line
<1>1. movement[m].lines \in SUBSET Line
  BY DEF MovementTypeOK, Movement
<1>2. InverseLines(m) \in SUBSET Line
  BY <1>1, SwappedIsLine DEF InverseLines
<1> QED BY <1>2, SwappedIsLine DEF StoredReversalLines

LEMMA RewriteLinesType ==
  ASSUME MovementTypeOK, NEW m \in MovementId, NEW expected,
         NEW kept \in SUBSET Line, NEW added \in SUBSET Line,
         RewriteLines(m, expected, kept, added)
  PROVE  MovementTypeOK'
<1> DEFINE lines == kept \cup added
<1>1. lines \in SUBSET Line
  OBVIOUS
<1>2. movement' = WithLines(m, lines)
  BY DEF RewriteLines
<1> HIDE DEF lines
<1> QED BY <1>1, <1>2 DEF WithLines, MovementTypeOK, Movement

(* Every movement command keeps movements well typed and rows in range. *)
LEMMA MovementStep ==
  ASSUME BalanceAssumption, BalanceInv, MovementTypeOK, MovementNext
  PROVE  BalanceInv' /\ MovementTypeOK'
<1>1. ASSUME NEW m \in MovementId, Create(m)
      PROVE  BalanceInv' /\ MovementTypeOK'
  <2>1. PICK type \in DraftType, b \in Branch : CreateDraft(m, type, b)
    BY <1>1 DEF Create
  <2>2. UNCHANGED balance
    BY <2>1 DEF CreateDraft
  <2>3. [Unused EXCEPT !.status = "draft", !.type = type, !.branch = b,
                       !.version = 1] \in Movement
    BY UnusedIsMovement DEF Movement, Status, Type
  <2> QED BY <2>1, <2>2, <2>3
          DEF CreateDraft, BalanceInv, BalanceTypeOK, ReservedIsCovered,
              MovementTypeOK
<1>2. ASSUME NEW m \in MovementId, NEW expected, Edit(m, expected)
      PROVE  BalanceInv' /\ MovementTypeOK'
  <2>1. CASE \E type \in DraftType, b \in Branch :
               PatchHeader(m, expected, type, b)
    BY <2>1 DEF PatchHeader, MovementTypeOK, Movement, Type, BalanceInv,
                BalanceTypeOK, ReservedIsCovered
  <2>2. ASSUME NEW kept \in SUBSET Line, NEW added \in SUBSET Line,
               RewriteLines(m, expected, kept, added)
        PROVE  BalanceInv' /\ MovementTypeOK'
    <3>1. UNCHANGED balance
      BY <2>2 DEF RewriteLines
    <3> QED BY <2>2, <3>1, RewriteLinesType
            DEF BalanceInv, BalanceTypeOK, ReservedIsCovered
  <2>3. movement[m].lines \in SUBSET Line
    BY DEF MovementTypeOK, Movement
  <2>4. CASE \E l \in Line : AddLine(m, expected, l)
    BY <2>2, <2>3, <2>4 DEF AddLine
  <2>5. CASE \E old \in movement[m].lines, new \in Line :
               PatchLine(m, expected, old, new)
    BY <2>2, <2>3, <2>5 DEF PatchLine
  <2>6. CASE \E l \in movement[m].lines : DeleteLine(m, expected, l)
    BY <2>2, <2>3, <2>6 DEF DeleteLine
  <2> QED BY <1>2, <2>1, <2>4, <2>5, <2>6 DEF Edit
<1>3. ASSUME NEW m \in MovementId, NEW expected, CancelDraft(m, expected)
      PROVE  BalanceInv' /\ MovementTypeOK'
  BY <1>3 DEF CancelDraft, MovementTypeOK, Movement, Status, BalanceInv,
              BalanceTypeOK, ReservedIsCovered
<1>4. ASSUME NEW m \in MovementId, NEW expected, Submit(m, expected)
      PROVE  BalanceInv' /\ MovementTypeOK'
  BY <1>4 DEF Submit, MovementTypeOK, Movement, Status, BalanceInv,
              BalanceTypeOK, ReservedIsCovered
<1>5. ASSUME NEW m \in MovementId, NEW expected, Post(m, expected)
      PROVE  BalanceInv' /\ MovementTypeOK'
  <2>1. BalanceInv'
    BY <1>5, PostOnHandSafe DEF Post
  <2>2. MovementTypeOK'
    BY <1>5 DEF Post, MovementTypeOK, Movement, Status
  <2> QED BY <2>1, <2>2
<1>6. ASSUME NEW m \in MovementId, NEW expected, NEW r \in MovementId \ {m},
             Reverse(m, expected, r)
      PROVE  BalanceInv' /\ MovementTypeOK'
  <2>1. BalanceInv'
    BY <1>6, PostOnHandSafe DEF Reverse
  <2>2. PostedMovement("reversal", movement[m].branch, StoredReversalLines(m),
                       m) \in Movement
    <3>1. movement[m].branch \in Branch
      BY DEF MovementTypeOK, Movement
    <3> QED BY <3>1, ReversalLinesAreLines, PostedIsMovement DEF Type
  <2>3. MovementTypeOK'
    BY <1>6, <2>2 DEF Reverse, MovementTypeOK, Movement, Status
  <2> QED BY <2>1, <2>3
<1> QED BY <1>1, <1>2, <1>3, <1>4, <1>5, <1>6
        DEF MovementNext, MovementCommand

(* The movement that confirms a reservation. *)
LEMMA IssueIsMovement ==
  ASSUME ReservationTypeOK, NEW r \in ReservationId
  PROVE  PostedMovement("issue", reservation[r].branch, IssueLines(r),
                        NoMovement) \in Movement
<1>1. /\ reservation[r].branch \in Branch
      /\ reservation[r].lines \in SUBSET ReservedLine
  BY DEF ReservationTypeOK, Reservation
<1>2. IssueLines(r) \in SUBSET Line
  BY <1>1 DEF IssueLines, ReservedLine, Line
<1> QED BY <1>1, <1>2, PostedIsMovement DEF Type

LEMMA CompleteType ==
  ASSUME ReservationTypeOK, NEW r \in ReservationId,
         NEW status \in ReservationStatus,
         NEW m \in MovementId \cup {NoMovement}, Complete(r, status, m),
         UNCHANGED now
  PROVE  ReservationTypeOK'
BY DEF Complete, ReservationTypeOK, Reservation

LEMMA ReservationStep ==
  ASSUME BalanceAssumption, ReservationAssumption, BalanceInv,
         MovementTypeOK, ReservationTypeOK, ReservationNext
  PROVE  BalanceInv' /\ MovementTypeOK' /\ ReservationTypeOK'
<1>1. ASSUME NEW r \in ReservationId, NEW b \in Branch,
             NEW lines \in SUBSET ReservedLine,
             NEW e \in (1..MaxTime) \cup {Never},
             CreateReservation(r, b, lines, e)
      PROVE  BalanceInv' /\ MovementTypeOK' /\ ReservationTypeOK'
  <2>1. BalanceInv'
    BY <1>1, HoldSafe DEF CreateReservation
  <2>2. MovementTypeOK'
    BY <1>1 DEF CreateReservation, MovementTypeOK
  <2>3. ReservationTypeOK'
    BY <1>1 DEF CreateReservation, ReservationTypeOK, Reservation,
                ReservationStatus
  <2> QED BY <2>1, <2>2, <2>3
<1>2. ASSUME NEW r \in ReservationId, NEW expected, NEW m \in MovementId,
             Confirm(r, expected, m)
      PROVE  BalanceInv' /\ MovementTypeOK' /\ ReservationTypeOK'
  <2>1. BalanceInv'
    BY <1>2, SettleSafe DEF Confirm
  <2>2. MovementTypeOK'
    BY <1>2, IssueIsMovement DEF Confirm, MovementTypeOK
  <2>3. ReservationTypeOK'
    BY <1>2, CompleteType DEF Confirm, ReservationStatus
  <2> QED BY <2>1, <2>2, <2>3
<1>3. ASSUME NEW r \in ReservationId, NEW expected,
             NEW status \in {"released", "cancelled", "expired"},
             Settle(r, NoMovement), Complete(r, status, NoMovement),
             UNCHANGED <<movement, now>>
      PROVE  BalanceInv' /\ MovementTypeOK' /\ ReservationTypeOK'
  <2>1. BalanceInv'
    BY <1>3, SettleSafe
  <2>2. MovementTypeOK'
    BY <1>3 DEF MovementTypeOK
  <2>3. ReservationTypeOK'
    BY <1>3, CompleteType DEF ReservationStatus
  <2> QED BY <2>1, <2>2, <2>3
<1>4. CASE Tick
  BY <1>4, ReservationAssumption
  DEF Tick, BalanceInv, BalanceTypeOK, ReservedIsCovered, MovementTypeOK,
      ReservationTypeOK, ReservationAssumption
<1>5. ASSUME NEW r \in ReservationId,
             ReservationCommand(r, reservation[r].version)
      PROVE  BalanceInv' /\ MovementTypeOK' /\ ReservationTypeOK'
  <2>1. CASE \E m \in MovementId : Confirm(r, reservation[r].version, m)
    BY <1>2, <2>1
  <2>2. CASE \E status \in {"released", "cancelled"} :
               GiveBack(r, reservation[r].version, status)
    BY <1>3, <2>2 DEF GiveBack
  <2>3. CASE Expire(r, reservation[r].version)
    BY <1>3, <2>3 DEF Expire
  <2> QED BY <1>5, <2>1, <2>2, <2>3 DEF ReservationCommand
<1> QED BY <1>1, <1>4, <1>5 DEF ReservationNext

(* The movements of a shipment and of a receipt. *)
LEMMA TransferMovementIsMovement ==
  ASSUME BalanceAssumption, TransferTypeOK, NEW t \in TransferId,
         NEW type \in {"transfer_shipment", "transfer_receipt"},
         NEW from \in Location, NEW to \in Location, NEW at \in Location
  PROVE  PostedMovement(type, BranchOf[at], TransferMovementLines(t, from, to),
                        NoMovement) \in Movement
<1>1. transfer[t].lines \in SUBSET TransferLine
  BY DEF TransferTypeOK, Transfer
<1>2. TransferMovementLines(t, from, to) \in SUBSET Line
  BY <1>1 DEF TransferMovementLines, TransferLine, Line
<1>3. BranchOf[at] \in Branch /\ type \in Type
  BY DEF BalanceAssumption, Type
<1> QED BY <1>2, <1>3, PostedIsMovement

LEMMA TransferStep ==
  ASSUME BalanceAssumption, BalanceInv, MovementTypeOK, TransferTypeOK,
         TransferNext
  PROVE  BalanceInv' /\ MovementTypeOK' /\ TransferTypeOK'
<1>1. ASSUME NEW t \in TransferId, NEW source \in Location,
             NEW transit \in Location, NEW destination \in Location,
             NEW lines \in SUBSET TransferLine,
             CreateTransfer(t, source, transit, destination, lines)
      PROVE  BalanceInv' /\ MovementTypeOK' /\ TransferTypeOK'
  BY <1>1 DEF CreateTransfer, TransferTypeOK, Transfer, TransferStatus,
              BalanceInv, BalanceTypeOK, ReservedIsCovered, MovementTypeOK
<1>2. ASSUME NEW t \in TransferId, NEW expected, NEW from,
             NEW to \in TransferStatus, Transition(t, expected, from, to)
      PROVE  BalanceInv' /\ MovementTypeOK' /\ TransferTypeOK'
  BY <1>2 DEF Transition, TransferTypeOK, Transfer, BalanceInv,
              BalanceTypeOK, ReservedIsCovered, MovementTypeOK
<1>3. ASSUME NEW t \in TransferId, NEW expected, NEW m \in MovementId,
             Ship(t, expected, m)
      PROVE  BalanceInv' /\ MovementTypeOK' /\ TransferTypeOK'
  <2>1. BalanceInv'
    BY <1>3, ShipSafe
  <2>2. transfer[t].source \in Location /\ transfer[t].transit \in Location
    BY DEF TransferTypeOK, Transfer
  <2>3. MovementTypeOK'
    BY <1>3, <2>2, TransferMovementIsMovement DEF Ship, MovementTypeOK
  <2>4. TransferTypeOK'
    BY <1>3 DEF Ship, TransferTypeOK, Transfer, TransferStatus
  <2> QED BY <2>1, <2>3, <2>4
<1>4. ASSUME NEW t \in TransferId, NEW expected, NEW m \in MovementId,
             Receive(t, expected, m)
      PROVE  BalanceInv' /\ MovementTypeOK' /\ TransferTypeOK'
  <2>1. BalanceInv'
    BY <1>4, ReceiveSafe
  <2>2. transfer[t].destination \in Location /\ transfer[t].transit \in Location
    BY DEF TransferTypeOK, Transfer
  <2>3. MovementTypeOK'
    BY <1>4, <2>2, TransferMovementIsMovement DEF Receive, MovementTypeOK
  <2>4. TransferTypeOK'
    BY <1>4 DEF Receive, TransferTypeOK, Transfer, TransferStatus
  <2> QED BY <2>1, <2>3, <2>4
<1> QED BY <1>1, <1>2, <1>3, <1>4
        DEF TransferNext, TransferCommand, Approve, Reject, CancelTransfer,
            TransferStatus

-----------------------------------------------------------------------------
(***************************************************************************)
(* The invariant                                                           *)
(***************************************************************************)
(* Type correctness and reservation cover are inductive together: each     *)
(* row's bounds need the cover, and the cover needs the bounds.            *)
StockInv == TypeOK /\ ReservedIsCovered

THEOREM InitEstablishesStockInv == Init => StockInv
<1> SUFFICES ASSUME Init PROVE StockInv
  OBVIOUS
<1> USE BalanceAssumption, ReservationAssumption
<1>1. NoRow \in Row
  BY DEF NoRow, Row, Quantity, BalanceAssumption
<1>2. BalanceTypeOK /\ ReservedIsCovered
  BY <1>1 DEF Init, BalanceInit, BalanceTypeOK, ReservedIsCovered, NoRow
<1>3. MovementTypeOK
  BY UnusedIsMovement DEF Init, MovementInit, MovementTypeOK
<1>4. ReservationTypeOK
  <2>1. (CHOOSE b \in Branch : TRUE) \in Branch
    BY DEF BalanceAssumption
  <2> QED BY <2>1 DEF Init, ReservationInit, ReservationTypeOK, Reservation,
                      NoReservation, ReservationStatus, ReservationAssumption
<1>5. TransferTypeOK
  <2>1. (CHOOSE l \in Location : TRUE) \in Location
    BY DEF BalanceAssumption
  <2> QED BY <2>1 DEF Init, TransferInit, TransferTypeOK, Transfer,
                      NoTransfer, TransferStatus
<1> QED BY <1>2, <1>3, <1>4, <1>5 DEF StockInv, TypeOK

THEOREM NextPreservesStockInv == StockInv /\ [Next]_vars => StockInv'
<1> SUFFICES ASSUME StockInv, [Next]_vars PROVE StockInv'
  OBVIOUS
<1> USE BalanceAssumption, ReservationAssumption
<1>0. BalanceInv /\ MovementTypeOK /\ ReservationTypeOK /\ TransferTypeOK
  BY DEF StockInv, TypeOK, BalanceInv
<1>1. CASE MovementNext /\ UNCHANGED <<reservation, now, transfer>>
  BY <1>0, <1>1, MovementStep
  DEF StockInv, TypeOK, BalanceInv, ReservationTypeOK, TransferTypeOK
<1>2. CASE ReservationNext /\ UNCHANGED transfer
  BY <1>0, <1>2, ReservationStep
  DEF StockInv, TypeOK, BalanceInv, TransferTypeOK
<1>3. CASE TransferNext /\ UNCHANGED <<reservation, now>>
  BY <1>0, <1>3, TransferStep
  DEF StockInv, TypeOK, BalanceInv, ReservationTypeOK
<1>4. CASE UNCHANGED vars
  BY <1>4 DEF vars, StockInv, TypeOK, BalanceTypeOK, ReservedIsCovered,
              MovementTypeOK, ReservationTypeOK, TransferTypeOK
<1> QED BY <1>1, <1>2, <1>3, <1>4 DEF Next

(* Every quantity of every row stays between zero and the largest          *)
(* representable one, whatever commands run in whatever order.             *)
THEOREM TypeCorrect == Spec => []TypeOK
<1>1. StockInv => TypeOK
  BY DEF StockInv
<1> QED BY <1>1, InitEstablishesStockInv, NextPreservesStockInv, PTL DEF Spec

(* V1 never oversells: on-hand stock always covers what is reserved        *)
(* (posting, reversal, reservation and transfer commands together).        *)
THEOREM NeverOversold == Spec => []ReservedIsCovered
<1>1. StockInv => ReservedIsCovered
  BY DEF StockInv
<1> QED BY <1>1, InitEstablishesStockInv, NextPreservesStockInv, PTL DEF Spec

-----------------------------------------------------------------------------
(***************************************************************************)
(* The two ways in which movements change                                  *)
(***************************************************************************)
(* A movement that is not posted yet goes on, at most to being posted.     *)
Advances(m) ==
  /\ movement[m].status \in {"none", "draft", "pending"}
  /\ movement'[m].status \in {"draft", "pending", "cancelled", "posted"}
  /\ movement'[m].reversedBy \in {movement[m].reversedBy, NoMovement}
  /\ movement'[m].reversalOf \in {movement[m].reversalOf, NoMovement}
  /\ \A n \in MovementId \ {m} : movement'[n] = movement[n]

(* A posted one is reversed by a new one.                                  *)
IsReversed(m, r) ==
  /\ Reversible(m) /\ movement[r].status = "none" /\ r # m
  /\ movement'[m] = [movement[m] EXCEPT !.status = "reversed", !.reversedBy = r,
                                        !.version = @ + 1]
  /\ movement'[r] = PostedMovement("reversal", movement[m].branch,
                                   StoredReversalLines(m), m)
  /\ \A n \in MovementId \ {m, r} : movement'[n] = movement[n]

MovementChange ==
  \/ \E m \in MovementId : Advances(m)
  \/ \E m, r \in MovementId : IsReversed(m, r)

LEMMA PostedIsAdvance ==
  ASSUME MovementTypeOK, NEW m \in MovementId, NEW type, NEW branch, NEW lines,
         movement[m].status = "none",
         movement' = [movement EXCEPT
           ![m] = PostedMovement(type, branch, lines, NoMovement)]
  PROVE  Advances(m)
<1>1. /\ movement'[m] = PostedMovement(type, branch, lines, NoMovement)
      /\ \A n \in MovementId \ {m} : movement'[n] = movement[n]
  BY DEF MovementTypeOK
<1> QED BY <1>1 DEF Advances, PostedMovement

LEMMA RewriteIsAdvance ==
  ASSUME MovementTypeOK, NEW m \in MovementId, NEW expected, NEW kept, NEW added,
         RewriteLines(m, expected, kept, added)
  PROVE  Advances(m)
<1> DEFINE lines == kept \cup added
<1>1. movement' = WithLines(m, lines) /\ movement[m].status = "draft"
  BY DEF RewriteLines, Editable
<1> HIDE DEF lines
<1> QED BY <1>1 DEF WithLines, Advances, MovementTypeOK, Movement

LEMMA MovementCommandsChange ==
  ASSUME MovementTypeOK, MovementNext
  PROVE  MovementChange
<1>1. ASSUME NEW m \in MovementId, Create(m) PROVE Advances(m)
  <2>1. PICK type \in DraftType, b \in Branch : CreateDraft(m, type, b)
    BY <1>1 DEF Create
  <2> DEFINE draft == [Unused EXCEPT !.status = "draft", !.type = type,
                                     !.branch = b, !.version = 1]
  <2>2. draft.status = "draft" /\ draft.reversedBy = NoMovement
          /\ draft.reversalOf = NoMovement
    BY DEF Unused
  <2>3. movement[m].status = "none" /\ movement' = [movement EXCEPT ![m] = draft]
    BY <2>1 DEF CreateDraft
  <2> HIDE DEF draft
  <2> QED BY <2>2, <2>3 DEF Advances, MovementTypeOK
<1>2. ASSUME NEW m \in MovementId, NEW expected, Edit(m, expected)
      PROVE  Advances(m)
  <2>1. CASE \E type \in DraftType, b \in Branch :
               PatchHeader(m, expected, type, b)
    BY <2>1 DEF PatchHeader, Editable, Advances, MovementTypeOK, Movement
  <2>2. CASE \/ \E l \in Line : AddLine(m, expected, l)
             \/ \E old \in movement[m].lines, new \in Line :
                  PatchLine(m, expected, old, new)
             \/ \E l \in movement[m].lines : DeleteLine(m, expected, l)
    BY <2>2, RewriteIsAdvance DEF AddLine, PatchLine, DeleteLine
  <2> QED BY <1>2, <2>1, <2>2 DEF Edit
<1>3. ASSUME NEW m \in MovementId, NEW expected,
             \/ CancelDraft(m, expected)
             \/ Submit(m, expected)
             \/ Post(m, expected)
      PROVE  Advances(m)
  BY <1>3 DEF CancelDraft, Submit, Post, Advances, MovementTypeOK, Movement
<1>4. ASSUME NEW m \in MovementId, NEW expected, NEW r \in MovementId \ {m},
             Reverse(m, expected, r)
      PROVE  IsReversed(m, r)
  BY <1>4 DEF Reverse, IsReversed, MovementTypeOK, Movement
<1> QED BY <1>1, <1>2, <1>3, <1>4
        DEF MovementNext, MovementCommand, MovementChange

(* The commands of reservations and transfers post movements of their own. *)
LEMMA MovementsChange ==
  ASSUME MovementTypeOK, [Next]_vars
  PROVE  UNCHANGED movement \/ MovementChange
<1>1. CASE MovementNext
  BY <1>1, MovementCommandsChange
<1>2. CASE ReservationNext
  <2>1. ASSUME NEW r \in ReservationId, NEW expected, NEW m \in MovementId,
               Confirm(r, expected, m)
        PROVE  Advances(m)
    BY <2>1, PostedIsAdvance DEF Confirm
  <2> QED BY <1>2, <2>1 DEF ReservationNext, ReservationCommand, CreateReservation,
             GiveBack, Expire, Tick, MovementChange
<1>3. CASE TransferNext
  <2>1. ASSUME NEW t \in TransferId, NEW expected, NEW m \in MovementId,
               Ship(t, expected, m) \/ Receive(t, expected, m)
        PROVE  Advances(m)
    BY <2>1, PostedIsAdvance DEF Ship, Receive
  <2> QED BY <1>3, <2>1 DEF TransferNext, TransferCommand, CreateTransfer,
             Approve, Reject, CancelTransfer, Transition, MovementChange
<1> QED BY <1>1, <1>2, <1>3 DEF Next, vars

-----------------------------------------------------------------------------
(***************************************************************************)
(* Reversals                                                               *)
(***************************************************************************)
LEMMA ReciprocityKept ==
  ASSUME BalanceAssumption, MovementTypeOK, ReversalsAreReciprocal,
         MovementChange
  PROVE  ReversalsAreReciprocal'
<1>0. NoMovement \notin MovementId
  BY DEF BalanceAssumption
<1> DEFINE Linked(n) ==
      /\ movement[n].status = "reversed" <=> movement[n].reversedBy # NoMovement
      /\ movement[n].reversedBy # NoMovement =>
           /\ movement[movement[n].reversedBy].type = "reversal"
           /\ movement[movement[n].reversedBy].status = "posted"
           /\ movement[movement[n].reversedBy].reversalOf = n
           /\ movement[n].type \in DraftType
           /\ movement[n].reversalOf = NoMovement
      /\ movement[n].reversalOf # NoMovement =>
           movement[movement[n].reversalOf].reversedBy = n
<1>1. \A n \in MovementId : Linked(n)
  BY DEF ReversalsAreReciprocal
<1>2. \A n \in MovementId : /\ movement[n].reversedBy \in MovementId \cup {NoMovement}
                           /\ movement[n].reversalOf \in MovementId \cup {NoMovement}
  BY DEF MovementTypeOK, Movement
<1>3. ASSUME NEW m \in MovementId, Advances(m), NEW n \in MovementId
      PROVE  Linked(n)'
  <2>1. /\ movement[m].reversedBy = NoMovement
        /\ movement'[m].reversedBy = NoMovement
    BY <1>1, <1>3 DEF Advances
  <2>2. CASE n = m
    <3>1. movement'[n].status # "reversed" /\ movement'[n].reversedBy = NoMovement
      BY <1>3, <2>1, <2>2 DEF Advances
    <3>2. ASSUME movement'[n].reversalOf # NoMovement
          PROVE  movement'[movement'[n].reversalOf].reversedBy = n
      BY <1>0, <1>1, <1>2, <1>3, <2>1, <2>2, <3>2 DEF Advances
    <3> QED BY <3>1, <3>2
  <2>3. CASE n # m
    <3>1. movement'[n] = movement[n]
      BY <1>3, <2>3 DEF Advances
    <3>2. ASSUME movement[n].reversedBy # NoMovement
          PROVE  movement'[movement[n].reversedBy] = movement[movement[n].reversedBy]
      BY <1>1, <1>2, <1>3, <3>2 DEF Advances
    <3>3. ASSUME movement[n].reversalOf # NoMovement
          PROVE  movement'[movement[n].reversalOf] = movement[movement[n].reversalOf]
      BY <1>0, <1>1, <1>2, <1>3, <2>1, <3>3 DEF Advances
    <3> QED BY <1>1, <3>1, <3>2, <3>3
  <2> QED BY <2>2, <2>3
<1>4. ASSUME NEW m \in MovementId, NEW r \in MovementId, IsReversed(m, r),
             NEW n \in MovementId
      PROVE  Linked(n)'
  <2>1. /\ movement[m].status = "posted" /\ movement[m].reversedBy = NoMovement
        /\ movement[m].type \in DraftType /\ movement[m].reversalOf = NoMovement
        /\ movement[r].status = "none" /\ movement[r].reversedBy = NoMovement
        /\ r # m
    BY <1>1, <1>4 DEF IsReversed, Reversible
  <2>2. /\ movement'[m].status = "reversed" /\ movement'[m].reversedBy = r
        /\ movement'[m].type = movement[m].type
        /\ movement'[m].reversalOf = NoMovement
    BY <1>4, <2>1 DEF IsReversed, MovementTypeOK, Movement
  <2>3. /\ movement'[r].status = "posted" /\ movement'[r].reversedBy = NoMovement
        /\ movement'[r].type = "reversal" /\ movement'[r].reversalOf = m
    BY <1>4 DEF IsReversed, PostedMovement
  <2>4. CASE n = m
    BY <1>0, <2>1, <2>2, <2>3, <2>4
  <2>5. CASE n = r
    BY <1>0, <2>1, <2>2, <2>3, <2>5
  <2>6. CASE n # m /\ n # r
    <3>1. movement'[n] = movement[n]
      BY <1>4, <2>6 DEF IsReversed
    <3>2. ASSUME movement[n].reversedBy # NoMovement
          PROVE  movement'[movement[n].reversedBy] = movement[movement[n].reversedBy]
      <4>1. movement[n].reversedBy \notin {m, r}
        BY <1>0, <1>1, <2>1, <3>2 DEF DraftType
      <4> QED BY <1>2, <1>4, <3>2, <4>1 DEF IsReversed
    <3>3. ASSUME movement[n].reversalOf # NoMovement
          PROVE  movement'[movement[n].reversalOf] = movement[movement[n].reversalOf]
      <4>1. movement[n].reversalOf \notin {m, r}
        BY <1>0, <1>1, <2>1, <3>3
      <4> QED BY <1>2, <1>4, <3>3, <4>1 DEF IsReversed
    <3> QED BY <1>1, <3>1, <3>2, <3>3
  <2> QED BY <2>4, <2>5, <2>6
<1>5. \A n \in MovementId : Linked(n)'
  BY <1>3, <1>4 DEF MovementChange
<1> QED BY <1>5 DEF ReversalsAreReciprocal

(* Whatever is posted, reversed, confirmed, shipped and received: a        *)
(* movement is reversed by at most one movement, which points back at it,  *)
(* and a reversal is never reversed (inventory-reversal.service).          *)
THEOREM ReversalsReciprocal == Spec => []ReversalsAreReciprocal
<1>1. Init => ReversalsAreReciprocal
  BY DEF Init, MovementInit, Unused, ReversalsAreReciprocal
<1>2. StockInv /\ ReversalsAreReciprocal /\ [Next]_vars => ReversalsAreReciprocal'
  <2> SUFFICES ASSUME StockInv, ReversalsAreReciprocal, [Next]_vars
               PROVE  ReversalsAreReciprocal'
    OBVIOUS
  <2>1. MovementTypeOK
    BY DEF StockInv, TypeOK
  <2>2. CASE UNCHANGED movement
    BY <2>2 DEF ReversalsAreReciprocal
  <2> QED BY <2>1, <2>2, MovementsChange, ReciprocityKept, BalanceAssumption
<1> QED BY <1>1, <1>2, InitEstablishesStockInv, NextPreservesStockInv, PTL DEF Spec

(* A posted movement keeps its lines, type and branch for ever, and its    *)
(* status changes only by a reversal, whatever command of whatever         *)
(* document runs.                                                          *)
THEOREM PostedFactsAreKept == Spec => PostedFactsStand
<1> DEFINE Stand ==
      \A m \in MovementId :
        movement[m].status \in {"posted", "reversed"} =>
          /\ movement'[m].lines = movement[m].lines
          /\ movement'[m].type = movement[m].type
          /\ movement'[m].branch = movement[m].branch
          /\ movement'[m].status \in {movement[m].status, "reversed"}
<1>1. ASSUME StockInv, [Next]_vars PROVE [Stand]_movement
  <2>1. MovementTypeOK
    BY <1>1 DEF StockInv, TypeOK
  <2>2. ASSUME NEW m \in MovementId, Advances(m) PROVE Stand
    BY <2>2 DEF Advances
  <2>3. ASSUME NEW m \in MovementId, NEW r \in MovementId, IsReversed(m, r)
        PROVE  Stand
    <3>1. /\ movement'[m].lines = movement[m].lines
          /\ movement'[m].type = movement[m].type
          /\ movement'[m].branch = movement[m].branch
          /\ movement'[m].status = "reversed"
      BY <2>1, <2>3 DEF IsReversed, MovementTypeOK, Movement
    <3>2. movement[r].status \notin {"posted", "reversed"}
      BY <2>3 DEF IsReversed
    <3> QED BY <2>3, <3>1, <3>2 DEF IsReversed
  <2> QED BY <1>1, <2>1, <2>2, <2>3, MovementsChange DEF MovementChange
<1>2. StockInv /\ [Next]_vars => [Stand]_movement
  BY <1>1
<1> QED BY <1>2, InitEstablishesStockInv, NextPreservesStockInv, PTL
        DEF Spec, PostedFactsStand

-----------------------------------------------------------------------------
(***************************************************************************)
(* Reservations and transfers                                              *)
(***************************************************************************)
(* A reservation that was confirmed, given back or expired, and a transfer *)
(* that was rejected, cancelled or received, is never changed again.       *)
THEOREM TerminalStays == Spec => TerminalIsFinal
<1> DEFINE Final ==
      /\ \A r \in ReservationId :
           reservation[r].status \notin {"none", "active"} =>
             reservation'[r] = reservation[r]
      /\ \A t \in TransferId :
           transfer[t].status \in {"rejected", "cancelled", "received"} =>
             transfer'[t] = transfer[t]
<1>1. ASSUME StockInv, [Next]_vars PROVE [Final]_vars
  <2>1. reservation \in [ReservationId -> Reservation]
          /\ transfer \in [TransferId -> Transfer]
    BY <1>1 DEF StockInv, TypeOK, ReservationTypeOK, TransferTypeOK
  <2>2. CASE MovementNext /\ UNCHANGED <<reservation, now, transfer>>
    BY <2>2
  <2>3. CASE ReservationNext /\ UNCHANGED transfer
    <3>1. ASSUME NEW r \in ReservationId, NEW expected, NEW status, NEW m,
                 VersionAndActive(r, expected), Complete(r, status, m)
          PROVE  Final
      BY <2>1, <2>3, <3>1 DEF VersionAndActive, Complete
    <3>2. ASSUME NEW r \in ReservationId, NEW b, NEW lines, NEW e,
                 CreateReservation(r, b, lines, e)
          PROVE  Final
      BY <2>1, <2>3, <3>2 DEF CreateReservation
    <3>3. CASE Tick
      BY <2>3, <3>3 DEF Tick
    <3> QED BY <2>3, <3>1, <3>2, <3>3
            DEF ReservationNext, ReservationCommand, Confirm, GiveBack, Expire
  <2>4. CASE TransferNext /\ UNCHANGED <<reservation, now>>
    <3>1. ASSUME NEW t \in TransferId,
                 transfer[t].status \notin {"rejected", "cancelled", "received"},
                 \A u \in TransferId \ {t} : transfer'[u] = transfer[u]
          PROVE  Final
      BY <2>4, <3>1
    <3>2. ASSUME NEW t \in TransferId, NEW expected, NEW from, NEW to,
                 from \subseteq {"requested", "approved"},
                 Transition(t, expected, from, to)
          PROVE  Final
      BY <2>1, <3>1, <3>2 DEF Transition, VersionAndState
    <3>3. ASSUME NEW t \in TransferId, NEW source, NEW transit,
                 NEW destination, NEW lines,
                 CreateTransfer(t, source, transit, destination, lines)
          PROVE  Final
      BY <2>1, <3>1, <3>3 DEF CreateTransfer
    <3>4. ASSUME NEW t \in TransferId, NEW expected, NEW m,
                 Ship(t, expected, m) \/ Receive(t, expected, m)
          PROVE  Final
      BY <2>1, <3>1, <3>4 DEF Ship, Receive, VersionAndState
    <3> QED BY <2>4, <3>2, <3>3, <3>4
            DEF TransferNext, TransferCommand, Approve, Reject, CancelTransfer
  <2>5. CASE UNCHANGED vars
    BY <2>5
  <2> QED BY <1>1, <2>2, <2>3, <2>4, <2>5 DEF Next
<1>2. StockInv /\ [Next]_vars => [Final]_vars
  BY <1>1
<1> QED BY <1>2, InitEstablishesStockInv, NextPreservesStockInv, PTL
        DEF Spec, TerminalIsFinal

-----------------------------------------------------------------------------
(***************************************************************************)
(* The traces of what changes a balance                                    *)
(***************************************************************************)
Traced(k) ==
  /\ balance'[k].version = balance[k].version + 1
  /\ balance'[k].exists
  /\ \/ /\ balance'[k].onHand = balance[k].onHand
        /\ balance'[k].inTransit = balance[k].inTransit
        /\ balance'[k].last = balance[k].last
     \/ /\ balance'[k].last \in MovementId
        /\ movement[balance'[k].last].status # "posted"
        /\ movement'[balance'[k].last].status = "posted"

(* m is posted by this step. *)
Posts(m) == /\ m \in MovementId
            /\ movement[m].status # "posted" /\ movement'[m].status = "posted"

LEMMA PostedIsPosts ==
  ASSUME MovementTypeOK, NEW m \in MovementId, NEW type, NEW branch, NEW lines,
         movement[m].status = "none",
         movement' = [movement EXCEPT
           ![m] = PostedMovement(type, branch, lines, NoMovement)]
  PROVE  Posts(m)
BY DEF Posts, PostedMovement, MovementTypeOK

LEMMA WrittenIsTraced ==
  ASSUME BalanceAssumption, NEW k, NEW m, NEW onHand, NEW reserved, NEW inTransit,
         balance'[k] = Written(balance[k], m, onHand, reserved, inTransit),
         \/ Posts(m)
         \/ m = NoMovement /\ onHand = balance[k].onHand
              /\ inTransit = balance[k].inTransit
  PROVE  Traced(k)
<1>1. CASE Posts(m)
  <2>1. m # NoMovement
    BY <1>1 DEF Posts, BalanceAssumption
  <2> QED BY <1>1, <2>1 DEF Written, Traced, Posts
<1>2. CASE m = NoMovement /\ onHand = balance[k].onHand
             /\ inTransit = balance[k].inTransit
  BY <1>2 DEF Written, Traced
<1> QED BY <1>1, <1>2

LEMMA PostOnHandTraced ==
  ASSUME BalanceAssumption, NEW lines, NEW m, PostOnHand(lines, m), Posts(m),
         NEW k \in Key, balance'[k] # balance[k]
  PROVE  Traced(k)
<1>1. balance'[k] = Written(balance[k], m, balance[k].onHand + Delta(lines, k),
                            balance[k].reserved, balance[k].inTransit)
  BY DEF PostOnHand
<1> QED BY <1>1, WrittenIsTraced

LEMMA SettleTraced ==
  ASSUME BalanceAssumption, BalanceInv, NEW r, NEW m, Settle(r, m),
         m = NoMovement \/ Posts(m), NEW k \in Key, balance'[k] # balance[k]
  PROVE  Traced(k)
<1> DEFINE amount == AmountOf(reservation[r].lines, k)
<1>1. balance'[k] = Written(balance[k], m,
                            balance[k].onHand - ConsumedBy(m, amount),
                            balance[k].reserved - ReleasedBy(m, amount),
                            balance[k].inTransit)
  BY DEF Settle
<1>2. m = NoMovement =>
        balance[k].onHand - ConsumedBy(m, amount) = balance[k].onHand
  BY RowFacts DEF ConsumedBy
<1> QED BY <1>1, <1>2, WrittenIsTraced

(* A row that changes gets its next version; its on-hand and in-transit    *)
(* quantities change only in the step that posts the movement it names.    *)
THEOREM RowChangesTraced == Spec => RowChangesAreTraced
<1> DEFINE AllTraced == \A k \in Key : balance'[k] # balance[k] => Traced(k)
<1>1. ASSUME StockInv, [Next]_vars PROVE [AllTraced]_vars
  <2>1. BalanceInv /\ MovementTypeOK
    BY <1>1 DEF StockInv, TypeOK, BalanceInv
  <2>2. CASE UNCHANGED balance
    BY <2>2
  <2>3. CASE MovementNext
    <3>1. ASSUME NEW m \in MovementId, NEW expected, Post(m, expected)
          PROVE  AllTraced
      <4>1. Posts(m)
        BY <2>1, <3>1 DEF Post, Posts, MovementTypeOK, Movement
      <4> QED BY <3>1, <4>1, BalanceAssumption, PostOnHandTraced DEF Post
    <3>2. ASSUME NEW m \in MovementId, NEW expected, NEW r \in MovementId \ {m},
                 Reverse(m, expected, r)
          PROVE  AllTraced
      <4>1. Posts(r)
        BY <2>1, <3>2 DEF Reverse, Posts, PostedMovement, MovementTypeOK, Movement
      <4> QED BY <3>2, <4>1, BalanceAssumption, PostOnHandTraced DEF Reverse
    <3>3. ASSUME NEW m \in MovementId, NEW expected,
                 Create(m) \/ Edit(m, expected) \/ CancelDraft(m, expected)
                   \/ Submit(m, expected)
          PROVE  UNCHANGED balance
      BY <3>3 DEF Create, CreateDraft, Edit, PatchHeader, AddLine, PatchLine,
                  DeleteLine, RewriteLines, CancelDraft, Submit
    <3> QED BY <2>2, <2>3, <3>1, <3>2, <3>3 DEF MovementNext, MovementCommand
  <2>4. CASE ReservationNext
    <3>1. ASSUME NEW r \in ReservationId, NEW b, NEW lines, NEW e,
                 CreateReservation(r, b, lines, e)
          PROVE  AllTraced
      <4>1. SUFFICES ASSUME NEW k \in Key, balance'[k] # balance[k]
                     PROVE  Traced(k)
        OBVIOUS
      <4>2. balance'[k] = Written(balance[k], NoMovement, balance[k].onHand,
                                  balance[k].reserved + AmountOf(lines, k),
                                  balance[k].inTransit)
        BY <3>1, <4>1 DEF CreateReservation
      <4> QED BY <4>2, BalanceAssumption, WrittenIsTraced
    <3>2. ASSUME NEW r \in ReservationId, NEW expected, NEW m \in MovementId,
                 Confirm(r, expected, m)
          PROVE  AllTraced
      <4>1. Posts(m)
        BY <2>1, <3>2, PostedIsPosts DEF Confirm
      <4> QED BY <2>1, <3>2, <4>1, BalanceAssumption, SettleTraced DEF Confirm
    <3>3. ASSUME NEW r \in ReservationId, Settle(r, NoMovement)
          PROVE  AllTraced
      BY <2>1, <3>3, BalanceAssumption, SettleTraced
    <3> QED BY <2>2, <2>4, <3>1, <3>2, <3>3
            DEF ReservationNext, ReservationCommand, GiveBack, Expire, Tick
  <2>5. CASE TransferNext
    <3>1. ASSUME NEW t \in TransferId, NEW expected, NEW m \in MovementId,
                 Ship(t, expected, m)
          PROVE  AllTraced
      <4>1. Posts(m)
        BY <2>1, <3>1, PostedIsPosts DEF Ship
      <4>2. \A k \in Key : balance'[k] # balance[k] =>
              \E onHand, reserved, inTransit :
                balance'[k] = Written(balance[k], m, onHand, reserved, inTransit)
        BY <3>1 DEF Ship
      <4> QED BY <4>1, <4>2, BalanceAssumption, WrittenIsTraced
    <3>2. ASSUME NEW t \in TransferId, NEW expected, NEW m \in MovementId,
                 Receive(t, expected, m)
          PROVE  AllTraced
      <4>1. Posts(m)
        BY <2>1, <3>2, PostedIsPosts DEF Receive
      <4>2. \A k \in Key : balance'[k] # balance[k] =>
              \E onHand, reserved, inTransit :
                balance'[k] = Written(balance[k], m, onHand, reserved, inTransit)
        BY <3>2 DEF Receive
      <4> QED BY <4>1, <4>2, BalanceAssumption, WrittenIsTraced
    <3> QED BY <2>2, <2>5, <3>1, <3>2
            DEF TransferNext, TransferCommand, CreateTransfer, Approve, Reject,
                CancelTransfer, Transition
  <2> QED BY <1>1, <2>2, <2>3, <2>4, <2>5 DEF Next, vars
<1>2. StockInv /\ [Next]_vars => [AllTraced]_vars
  BY <1>1
<1>3. [AllTraced]_vars =>
        [\A k \in Key : balance'[k] # balance[k] =>
           /\ balance'[k].version = balance[k].version + 1
           /\ balance'[k].exists
           /\ \/ /\ balance'[k].onHand = balance[k].onHand
                 /\ balance'[k].inTransit = balance[k].inTransit
                 /\ balance'[k].last = balance[k].last
              \/ /\ balance'[k].last \in MovementId
                 /\ movement[balance'[k].last].status # "posted"
                 /\ movement'[balance'[k].last].status = "posted"]_vars
  BY DEF Traced
<1> QED BY <1>2, <1>3, InitEstablishesStockInv, NextPreservesStockInv, PTL
        DEF Spec, RowChangesAreTraced

-----------------------------------------------------------------------------
(***************************************************************************)
(* What the documents say besides                                          *)
(***************************************************************************)
(* Only manual movements are drafts; a reservation names a key once, a     *)
(* transfer a variant, and its three locations differ.                     *)
ManualUntilPosted ==
  \A m \in MovementId : movement[m].status \in {"none", "draft", "pending"} =>
    movement[m].type \in DraftType

HoldsAreDistinct == \A r \in ReservationId : LinesUnique(reservation[r].lines)

RouteIsDistinct(record) ==
  record.status # "none" =>
    /\ record.source # record.transit /\ record.transit # record.destination
    /\ \A l1, l2 \in record.lines : l1.variant = l2.variant => l1 = l2

RoutesAreDistinct == \A t \in TransferId : RouteIsDistinct(transfer[t])

DocumentInv == ManualUntilPosted /\ HoldsAreDistinct /\ RoutesAreDistinct

LEMMA ThreeDiffer ==
  ASSUME NEW a, NEW b, NEW c, Cardinality({a, b, c}) = 3
  PROVE  a # b /\ b # c
<1>1. ASSUME NEW x, NEW y PROVE Cardinality({x, y}) # 3
  <2>1. /\ IsFiniteSet({x}) /\ Cardinality({x}) = 1
        /\ {x, y} = {x} \cup {y}
    BY FS_Singleton
  <2>2. Cardinality({x} \cup {y}) = IF y \in {x} THEN 1 ELSE 2
    BY <2>1, FS_AddElement
  <2> QED BY <2>1, <2>2
<1>2. CASE a = b
  <2>1. {a, b, c} = {a, c}
    BY <1>2
  <2> QED BY <1>1, <2>1
<1>3. CASE b = c
  <2>1. {a, b, c} = {a, b}
    BY <1>3
  <2> QED BY <1>1, <2>1
<1> QED BY <1>2, <1>3

LEMMA ManualKept ==
  ASSUME MovementTypeOK, ManualUntilPosted, [Next]_vars
  PROVE  ManualUntilPosted'
<1> DEFINE Manual(m) == movement'[m].status \in {"none", "draft", "pending"} =>
                          movement'[m].type \in DraftType
<1> SUFFICES \A m \in MovementId : Manual(m)
  BY DEF ManualUntilPosted
<1>0. \A m \in MovementId : movement'[m] = movement[m] => Manual(m)
  BY DEF ManualUntilPosted
<1>1. ASSUME NEW m \in MovementId, NEW record,
             movement' = [movement EXCEPT ![m] = record],
             record.type \in DraftType \/ record.status = "posted"
      PROVE  \A n \in MovementId : Manual(n)
  <2>1. movement'[m] = record /\ \A n \in MovementId \ {m} : movement'[n] = movement[n]
    BY <1>1 DEF MovementTypeOK
  <2> HIDE DEF Manual
  <2>2. Manual(m)
    BY <1>1, <2>1 DEF Manual
  <2> QED BY <1>0, <2>1, <2>2
<1>2. ASSUME NEW m \in MovementId,
             \A n \in MovementId \ {m} : movement'[n] = movement[n],
             movement'[m].type = movement[m].type,
             movement[m].status \in {"none", "draft", "pending"}
      PROVE  \A n \in MovementId : Manual(n)
  BY <1>0, <1>2 DEF ManualUntilPosted
<1>3. CASE MovementNext
  <2>1. ASSUME NEW m \in MovementId, Create(m)
        PROVE  \A n \in MovementId : Manual(n)
    <3>1. PICK type \in DraftType, b \in Branch : CreateDraft(m, type, b)
      BY <2>1 DEF Create
    <3> DEFINE draft == [Unused EXCEPT !.status = "draft", !.type = type,
                                       !.branch = b, !.version = 1]
    <3>2. draft.type = type
      BY DEF Unused
    <3>3. movement' = [movement EXCEPT ![m] = draft]
      BY <3>1 DEF CreateDraft
    <3> HIDE DEF draft, Manual
    <3> QED BY <1>1, <3>2, <3>3
  <2>2. ASSUME NEW m \in MovementId, NEW expected, NEW kept, NEW added,
               RewriteLines(m, expected, kept, added)
        PROVE  \A n \in MovementId : Manual(n)
    <3> DEFINE lines == kept \cup added
    <3>1. movement' = WithLines(m, lines) /\ movement[m].status = "draft"
      BY <2>2 DEF RewriteLines, Editable
    <3> HIDE DEF lines, Manual
    <3>2. /\ \A n \in MovementId \ {m} : movement'[n] = movement[n]
          /\ movement'[m].type = movement[m].type
      BY <3>1 DEF WithLines, MovementTypeOK, Movement
    <3> QED BY <1>2, <3>1, <3>2
  <2>3. ASSUME NEW m \in MovementId, NEW expected, Edit(m, expected)
        PROVE  \A n \in MovementId : Manual(n)
    <3>1. ASSUME NEW type \in DraftType, NEW b, PatchHeader(m, expected, type, b)
          PROVE  \A n \in MovementId : Manual(n)
      <4>1. /\ \A n \in MovementId \ {m} : movement'[n] = movement[n]
            /\ movement'[m].type = type
        BY <3>1 DEF PatchHeader, MovementTypeOK, Movement
      <4> QED BY <1>0, <4>1
    <3> HIDE DEF Manual
    <3> QED BY <2>2, <2>3, <3>1 DEF Edit, AddLine, PatchLine, DeleteLine
  <2>4. ASSUME NEW m \in MovementId, NEW expected,
               CancelDraft(m, expected) \/ Submit(m, expected) \/ Post(m, expected)
        PROVE  \A n \in MovementId : Manual(n)
    <3>1. /\ \A n \in MovementId \ {m} : movement'[n] = movement[n]
          /\ movement'[m].type = movement[m].type
          /\ movement[m].status \in {"none", "draft", "pending"}
      BY <2>4 DEF CancelDraft, Submit, Post, MovementTypeOK, Movement
    <3> HIDE DEF Manual
    <3> QED BY <1>2, <3>1
  <2>5. ASSUME NEW m \in MovementId, NEW expected, NEW r \in MovementId \ {m},
               Reverse(m, expected, r)
        PROVE  \A n \in MovementId : Manual(n)
    <3>1. /\ \A n \in MovementId \ {m, r} : movement'[n] = movement[n]
          /\ movement'[m].status = "reversed" /\ movement'[r].status = "posted"
      BY <2>5 DEF Reverse, PostedMovement, MovementTypeOK, Movement
    <3>2. Manual(m) /\ Manual(r)
      BY <3>1
    <3> HIDE DEF Manual
    <3> QED BY <1>0, <3>1, <3>2
  <2> HIDE DEF Manual
  <2> QED BY <1>3, <2>1, <2>3, <2>4, <2>5 DEF MovementNext, MovementCommand
<1>4. ASSUME UNCHANGED movement PROVE \A n \in MovementId : Manual(n)
  <2> HIDE DEF Manual
  <2> QED BY <1>0, <1>4
<1>5. ASSUME NEW m \in MovementId, NEW type, NEW branch, NEW lines,
             movement' = [movement EXCEPT
               ![m] = PostedMovement(type, branch, lines, NoMovement)]
      PROVE  \A n \in MovementId : Manual(n)
  <2> DEFINE record == PostedMovement(type, branch, lines, NoMovement)
  <2>1. record.status = "posted" /\ movement' = [movement EXCEPT ![m] = record]
    BY <1>5 DEF PostedMovement
  <2> HIDE DEF Manual, record
  <2> QED BY <1>1, <2>1
<1> HIDE DEF Manual
<1>6. CASE ReservationNext
  <2>1. ASSUME NEW r, NEW expected, NEW m \in MovementId, Confirm(r, expected, m)
        PROVE  \A n \in MovementId : Manual(n)
    BY <1>5, <2>1 DEF Confirm
  <2>2. \/ \E r, expected : \E m \in MovementId : Confirm(r, expected, m)
        \/ UNCHANGED movement
    BY <1>6 DEF ReservationNext, ReservationCommand, CreateReservation, GiveBack,
                Expire, Tick
  <2> QED BY <1>4, <2>1, <2>2
<1>7. CASE TransferNext
  <2>1. ASSUME NEW t, NEW expected, NEW m \in MovementId,
               Ship(t, expected, m) \/ Receive(t, expected, m)
        PROVE  \A n \in MovementId : Manual(n)
    BY <1>5, <2>1 DEF Ship, Receive
  <2>2. \/ \E t, expected : \E m \in MovementId :
             Ship(t, expected, m) \/ Receive(t, expected, m)
        \/ UNCHANGED movement
    BY <1>7 DEF TransferNext, TransferCommand, CreateTransfer, Approve, Reject,
                CancelTransfer, Transition
  <2> QED BY <1>4, <2>1, <2>2
<1> QED BY <1>3, <1>4, <1>6, <1>7 DEF Next, vars

LEMMA HoldsKept ==
  ASSUME ReservationTypeOK, HoldsAreDistinct, [Next]_vars
  PROVE  HoldsAreDistinct'
<1> SUFFICES \A q \in ReservationId : LinesUnique(reservation'[q].lines)
  BY DEF HoldsAreDistinct, LinesUnique
<1>1. CASE UNCHANGED reservation
  BY <1>1 DEF HoldsAreDistinct
<1>2. ASSUME NEW r \in ReservationId, NEW b, NEW lines, NEW e,
             CreateReservation(r, b, lines, e)
      PROVE  \A q \in ReservationId : LinesUnique(reservation'[q].lines)
  <2>1. LinesUnique(lines) /\ reservation'[r].lines = lines
    BY <1>2 DEF CreateReservation, ReservationTypeOK
  <2>2. \A q \in ReservationId \ {r} : reservation'[q] = reservation[q]
    BY <1>2 DEF CreateReservation, ReservationTypeOK
  <2> QED BY <2>1, <2>2 DEF HoldsAreDistinct
<1>3. ASSUME NEW r \in ReservationId, NEW status, NEW m, Complete(r, status, m)
      PROVE  \A q \in ReservationId : LinesUnique(reservation'[q].lines)
  <2>1. \A q \in ReservationId : reservation'[q].lines = reservation[q].lines
    BY <1>3 DEF Complete, ReservationTypeOK, Reservation
  <2> QED BY <2>1 DEF HoldsAreDistinct
<1> QED BY <1>1, <1>2, <1>3
        DEF Next, vars, ReservationNext, ReservationCommand, Confirm, GiveBack,
            Expire, Tick

LEMMA RoutesKept ==
  ASSUME TransferTypeOK, RoutesAreDistinct, [Next]_vars
  PROVE  RoutesAreDistinct'
<1> SUFFICES \A u \in TransferId : RouteIsDistinct(transfer'[u])
  BY DEF RoutesAreDistinct, RouteIsDistinct
<1>1. CASE UNCHANGED transfer
  BY <1>1 DEF RoutesAreDistinct
<1>2. ASSUME NEW t \in TransferId, NEW source, NEW transit, NEW destination,
             NEW lines, CreateTransfer(t, source, transit, destination, lines)
      PROVE  \A u \in TransferId : RouteIsDistinct(transfer'[u])
  <2>1. source # transit /\ transit # destination
    BY <1>2, ThreeDiffer DEF CreateTransfer
  <2>2. /\ transfer'[t].lines = lines /\ transfer'[t].source = source
        /\ transfer'[t].transit = transit /\ transfer'[t].destination = destination
        /\ \A l1, l2 \in lines : l1.variant = l2.variant => l1 = l2
    BY <1>2 DEF CreateTransfer, TransferTypeOK
  <2>3. \A u \in TransferId \ {t} : transfer'[u] = transfer[u]
    BY <1>2 DEF CreateTransfer, TransferTypeOK
  <2> QED BY <2>1, <2>2, <2>3 DEF RoutesAreDistinct, RouteIsDistinct
<1>3. ASSUME NEW t \in TransferId, transfer[t].status # "none",
             \A u \in TransferId \ {t} : transfer'[u] = transfer[u],
             transfer'[t].lines = transfer[t].lines,
             transfer'[t].source = transfer[t].source,
             transfer'[t].transit = transfer[t].transit,
             transfer'[t].destination = transfer[t].destination
      PROVE  \A u \in TransferId : RouteIsDistinct(transfer'[u])
  BY <1>3 DEF RoutesAreDistinct, RouteIsDistinct
<1>4. ASSUME NEW t \in TransferId, NEW expected, NEW from, NEW to,
             "none" \notin from, Transition(t, expected, from, to)
      PROVE  \A u \in TransferId : RouteIsDistinct(transfer'[u])
  BY <1>3, <1>4 DEF Transition, VersionAndState, TransferTypeOK, Transfer
<1>5. ASSUME NEW t \in TransferId, NEW expected, NEW m,
             Ship(t, expected, m) \/ Receive(t, expected, m)
      PROVE  \A u \in TransferId : RouteIsDistinct(transfer'[u])
  BY <1>3, <1>5 DEF Ship, Receive, VersionAndState, TransferTypeOK, Transfer
<1> QED BY <1>1, <1>2, <1>4, <1>5
        DEF Next, vars, TransferNext, TransferCommand, Approve, Reject,
            CancelTransfer

LEMMA InitEstablishesDocumentInv == Init => DocumentInv
BY DEF Init, MovementInit, ReservationInit, TransferInit, Unused, NoReservation,
       NoTransfer, DocumentInv, ManualUntilPosted, DraftType, HoldsAreDistinct,
       LinesUnique, RoutesAreDistinct, RouteIsDistinct

LEMMA NextPreservesDocumentInv ==
  StockInv /\ DocumentInv /\ [Next]_vars => DocumentInv'
BY ManualKept, HoldsKept, RoutesKept DEF StockInv, TypeOK, DocumentInv

-----------------------------------------------------------------------------
(***************************************************************************)
(* Documents and the movements they own                                    *)
(***************************************************************************)
(* The documents D name, in the field o gives, exactly the movements of    *)
(* the type, each of them once.                                            *)
Owned(M, D, o, type) ==
  /\ \A d \in D : o[d] # NoMovement => M[o[d]].type = type
  /\ \A d1, d2 \in D : o[d1] = o[d2] /\ o[d1] # NoMovement => d1 = d2
  /\ \A m \in MovementId : M[m].type = type => \E d \in D : o[d] = m

Issues(R) == [r \in ReservationId |-> R[r].movement]
Shipments(T) == [t \in TransferId |-> T[t].shipment]
Receipts(T) == [t \in TransferId |-> T[t].receipt]

NamedWhenDone ==
  /\ \A r \in ReservationId :
       reservation[r].status = "confirmed"
         <=> reservation[r].movement # NoMovement
  /\ \A t \in TransferId :
       /\ transfer[t].status \in {"shipped", "received"}
            <=> transfer[t].shipment # NoMovement
       /\ transfer[t].status = "received" <=> transfer[t].receipt # NoMovement

OwnerInv ==
  /\ Owned(movement, ReservationId, Issues(reservation), "issue")
  /\ Owned(movement, TransferId, Shipments(transfer), "transfer_shipment")
  /\ Owned(movement, TransferId, Receipts(transfer), "transfer_receipt")
  /\ NamedWhenDone

WorkflowType == {"issue", "transfer_shipment", "transfer_receipt"}

(* No movement enters or leaves a type.                                    *)
TypeStays(M, N, type) ==
  \A m \in MovementId :
    N[m].type = M[m].type \/ (M[m].type # type /\ N[m].type # type)

LEMMA OwnedIsKept ==
  ASSUME NEW M, NEW N, NEW D, NEW o, NEW type, TypeStays(M, N, type),
         \A d \in D : o[d] \in MovementId \cup {NoMovement},
         Owned(M, D, o, type)
  PROVE  Owned(N, D, o, type)
BY DEF Owned, TypeStays

(* One more document names one more movement.                              *)
OneMore(M, N, D, o, p, type) ==
  \E d \in D, m \in MovementId :
    /\ o[d] = NoMovement /\ p[d] = m /\ \A e \in D \ {d} : p[e] = o[e]
    /\ M[m].type # type /\ N[m].type = type
    /\ \A n \in MovementId \ {m} : N[n] = M[n]

LEMMA OwnedGrows ==
  ASSUME BalanceAssumption, NEW M, NEW N, NEW D, NEW o, NEW p, NEW type,
         OneMore(M, N, D, o, p, type),
         \A d \in D : o[d] \in MovementId \cup {NoMovement},
         Owned(M, D, o, type)
  PROVE  Owned(N, D, p, type)
<1>0. PICK d \in D, m \in MovementId :
        /\ o[d] = NoMovement /\ p[d] = m /\ \A e \in D \ {d} : p[e] = o[e]
        /\ M[m].type # type /\ N[m].type = type
        /\ \A n \in MovementId \ {m} : N[n] = M[n]
  BY DEF OneMore
<1>1. \A e \in D \ {d} : o[e] # m
  BY <1>0 DEF Owned, BalanceAssumption
<1>2. ASSUME NEW e \in D, p[e] # NoMovement PROVE N[p[e]].type = type
  BY <1>0, <1>1, <1>2 DEF Owned
<1>3. ASSUME NEW e1 \in D, NEW e2 \in D, p[e1] = p[e2], p[e1] # NoMovement
      PROVE  e1 = e2
  BY <1>0, <1>1, <1>3 DEF Owned
<1>4. ASSUME NEW n \in MovementId, N[n].type = type
      PROVE  \E e \in D : p[e] = n
  <2>1. CASE n = m
    BY <1>0, <2>1
  <2>2. CASE n # m
    <3>1. PICK e \in D : o[e] = n
      BY <1>0, <1>4, <2>2 DEF Owned
    <3>2. e # d
      BY <1>0, <3>1 DEF BalanceAssumption
    <3> QED BY <1>0, <3>1, <3>2
  <2> QED BY <2>1, <2>2
<1> QED BY <1>2, <1>3, <1>4 DEF Owned

LEMMA MovementTypesStay ==
  ASSUME MovementTypeOK, ManualUntilPosted, MovementNext, NEW type \in WorkflowType
  PROVE  TypeStays(movement, movement', type)
<1>1. type \notin DraftType /\ type # "reversal"
  BY DEF WorkflowType, DraftType
<1>2. ASSUME NEW m \in MovementId,
             \A n \in MovementId \ {m} : movement'[n] = movement[n],
             \/ movement'[m].type = movement[m].type
             \/ /\ movement[m].status \in {"none", "draft", "pending"}
                /\ movement'[m].type \in DraftType \cup {"reversal"}
      PROVE  TypeStays(movement, movement', type)
  BY <1>1, <1>2 DEF TypeStays, ManualUntilPosted
<1>3. ASSUME NEW m \in MovementId, Create(m)
      PROVE  TypeStays(movement, movement', type)
  <2>1. PICK draftType \in DraftType, b \in Branch : CreateDraft(m, draftType, b)
    BY <1>3 DEF Create
  <2> DEFINE draft == [Unused EXCEPT !.status = "draft", !.type = draftType,
                                     !.branch = b, !.version = 1]
  <2>2. draft.type = draftType
    BY DEF Unused
  <2>3. movement[m].status = "none" /\ movement' = [movement EXCEPT ![m] = draft]
    BY <2>1 DEF CreateDraft
  <2> HIDE DEF draft
  <2> QED BY <1>2, <2>2, <2>3 DEF MovementTypeOK
<1>4. ASSUME NEW m \in MovementId, NEW expected, NEW kept, NEW added,
             RewriteLines(m, expected, kept, added)
      PROVE  TypeStays(movement, movement', type)
  <2> DEFINE lines == kept \cup added
  <2>1. movement' = WithLines(m, lines)
    BY <1>4 DEF RewriteLines
  <2> HIDE DEF lines
  <2>2. /\ \A n \in MovementId \ {m} : movement'[n] = movement[n]
        /\ movement'[m].type = movement[m].type
    BY <2>1 DEF WithLines, MovementTypeOK, Movement
  <2> QED BY <1>2, <2>2
<1>5. ASSUME NEW m \in MovementId, NEW expected, NEW draftType \in DraftType, NEW b,
             PatchHeader(m, expected, draftType, b)
      PROVE  TypeStays(movement, movement', type)
  <2>1. /\ \A n \in MovementId \ {m} : movement'[n] = movement[n]
        /\ movement'[m].type = draftType /\ movement[m].status = "draft"
    BY <1>5 DEF PatchHeader, Editable, MovementTypeOK, Movement
  <2> QED BY <1>2, <2>1
<1>6. ASSUME NEW m \in MovementId, NEW expected,
             CancelDraft(m, expected) \/ Submit(m, expected) \/ Post(m, expected)
      PROVE  TypeStays(movement, movement', type)
  <2>1. /\ \A n \in MovementId \ {m} : movement'[n] = movement[n]
        /\ movement'[m].type = movement[m].type
    BY <1>6 DEF CancelDraft, Submit, Post, MovementTypeOK, Movement
  <2> QED BY <1>2, <2>1
<1>7. ASSUME NEW m \in MovementId, NEW expected, NEW r \in MovementId \ {m},
             Reverse(m, expected, r)
      PROVE  TypeStays(movement, movement', type)
  <2>1. /\ \A n \in MovementId \ {m, r} : movement'[n] = movement[n]
        /\ movement'[m].type = movement[m].type
        /\ movement'[r].type = "reversal" /\ movement[r].status = "none"
    BY <1>7 DEF Reverse, PostedMovement, MovementTypeOK, Movement
  <2>2. movement[r].type \in DraftType
    BY <2>1 DEF ManualUntilPosted
  <2> QED BY <1>1, <2>1, <2>2 DEF TypeStays
<1> QED BY <1>3, <1>4, <1>5, <1>6, <1>7
        DEF MovementNext, MovementCommand, Edit, AddLine, PatchLine, DeleteLine

(* The fields and the statuses the ownership is about stay as they are.    *)
OwnershipStays ==
  /\ \A type \in WorkflowType : TypeStays(movement, movement', type)
  /\ \A r \in ReservationId :
       /\ reservation'[r].movement = reservation[r].movement
       /\ reservation'[r].status = "confirmed" <=> reservation[r].status = "confirmed"
  /\ \A t \in TransferId :
       /\ transfer'[t].shipment = transfer[t].shipment
       /\ transfer'[t].receipt = transfer[t].receipt
       /\ transfer'[t].status = "shipped" <=> transfer[t].status = "shipped"
       /\ transfer'[t].status = "received" <=> transfer[t].status = "received"

LEMMA NamesAreMovements ==
  ASSUME TypeOK
  PROVE  /\ \A r \in ReservationId :
              Issues(reservation)[r] \in MovementId \cup {NoMovement}
         /\ \A t \in TransferId :
              /\ Shipments(transfer)[t] \in MovementId \cup {NoMovement}
              /\ Receipts(transfer)[t] \in MovementId \cup {NoMovement}
BY DEF TypeOK, ReservationTypeOK, TransferTypeOK, Reservation, Transfer, Issues,
       Shipments, Receipts

LEMMA OwnershipIsKept ==
  ASSUME TypeOK, OwnerInv, OwnershipStays
  PROVE  OwnerInv'
<1>1. /\ Issues(reservation') = Issues(reservation)
      /\ Shipments(transfer') = Shipments(transfer)
      /\ Receipts(transfer') = Receipts(transfer)
  BY DEF OwnershipStays, Issues, Shipments, Receipts
<1>2. NamedWhenDone'
  BY DEF OwnershipStays, OwnerInv, NamedWhenDone
<1>3. \A type \in WorkflowType : TypeStays(movement, movement', type)
  BY DEF OwnershipStays
<1> DEFINE M == movement
           N == movement'
<1>4. /\ Owned(M, ReservationId, Issues(reservation), "issue")
      /\ Owned(M, TransferId, Shipments(transfer), "transfer_shipment")
      /\ Owned(M, TransferId, Receipts(transfer), "transfer_receipt")
  BY DEF OwnerInv
<1> HIDE DEF M, N
<1>5. Owned(N, ReservationId, Issues(reservation), "issue")
  BY <1>3, <1>4, NamesAreMovements, OwnedIsKept DEF WorkflowType, M, N
<1>6. Owned(N, TransferId, Shipments(transfer), "transfer_shipment")
  BY <1>3, <1>4, NamesAreMovements, OwnedIsKept DEF WorkflowType, M, N
<1>7. Owned(N, TransferId, Receipts(transfer), "transfer_receipt")
  BY <1>3, <1>4, NamesAreMovements, OwnedIsKept DEF WorkflowType, M, N
<1> QED BY <1>1, <1>2, <1>5, <1>6, <1>7 DEF OwnerInv, N

(* A movement inserted as posted enters its type, and no other.            *)
LEMMA InsertionIsOfItsType ==
  ASSUME ManualUntilPosted, NEW m \in MovementId, NEW type \in WorkflowType,
         NEW other \in WorkflowType, other # type, movement[m].status = "none",
         movement'[m].type = type,
         \A n \in MovementId \ {m} : movement'[n] = movement[n]
  PROVE  movement[m].type # type /\ TypeStays(movement, movement', other)
BY DEF ManualUntilPosted, WorkflowType, DraftType, TypeStays

LEMMA ConfirmationOwns ==
  ASSUME BalanceAssumption, TypeOK, ManualUntilPosted, OwnerInv,
         UNCHANGED transfer,
         NEW r \in ReservationId, NEW expected, NEW m \in MovementId,
         Confirm(r, expected, m)
  PROVE  OwnerInv'
<1> DEFINE M == movement
           N == movement'
           o == Issues(reservation)
           p == Issues(reservation')
<1>1. /\ M[m].status = "none" /\ N[m].type = "issue"
      /\ \A n \in MovementId \ {m} : N[n] = M[n]
  BY DEF Confirm, PostedMovement, TypeOK, MovementTypeOK
<1>2. /\ M[m].type # "issue"
      /\ TypeStays(M, N, "transfer_shipment") /\ TypeStays(M, N, "transfer_receipt")
  <2>1. {"issue", "transfer_shipment", "transfer_receipt"} \subseteq WorkflowType
    BY DEF WorkflowType
  <2> QED BY <1>1, <2>1, InsertionIsOfItsType
<1>3. /\ reservation'[r].status = "confirmed" /\ reservation'[r].movement = m
      /\ \A q \in ReservationId \ {r} : reservation'[q] = reservation[q]
      /\ reservation[r].status = "active"
  BY DEF Confirm, Complete, VersionAndActive, TypeOK, ReservationTypeOK, Reservation
<1>4. reservation[r].movement = NoMovement
  BY <1>3 DEF OwnerInv, NamedWhenDone
<1>5. NamedWhenDone'
  BY <1>3 DEF OwnerInv, NamedWhenDone, BalanceAssumption
<1>6. o[r] = NoMovement /\ p[r] = m /\ \A q \in ReservationId \ {r} : p[q] = o[q]
  BY <1>3, <1>4 DEF Issues
<1>7. \A q \in ReservationId : o[q] \in MovementId \cup {NoMovement}
  BY NamesAreMovements
<1>8. /\ Owned(M, ReservationId, o, "issue")
      /\ Owned(M, TransferId, Shipments(transfer), "transfer_shipment")
      /\ Owned(M, TransferId, Receipts(transfer), "transfer_receipt")
  BY DEF OwnerInv
<1> HIDE DEF M, N, o, p
<1>9. Owned(N, ReservationId, p, "issue")
  <2>1. OneMore(M, N, ReservationId, o, p, "issue")
    BY <1>1, <1>2, <1>6 DEF OneMore
  <2> QED BY <1>7, <1>8, <2>1, OwnedGrows
<1>10. /\ Owned(N, TransferId, Shipments(transfer), "transfer_shipment")
       /\ Owned(N, TransferId, Receipts(transfer), "transfer_receipt")
  BY <1>2, <1>8, NamesAreMovements, OwnedIsKept
<1> QED BY <1>5, <1>9, <1>10 DEF OwnerInv, N, p

LEMMA ShipmentOwns ==
  ASSUME BalanceAssumption, TypeOK, ManualUntilPosted, OwnerInv,
         UNCHANGED reservation,
         NEW t \in TransferId, NEW expected, NEW m \in MovementId,
         Ship(t, expected, m)
  PROVE  OwnerInv'
<1> DEFINE M == movement
           N == movement'
           o == Shipments(transfer)
           p == Shipments(transfer')
<1>1. /\ M[m].status = "none" /\ N[m].type = "transfer_shipment"
      /\ \A n \in MovementId \ {m} : N[n] = M[n]
  BY DEF Ship, PostedMovement, TypeOK, MovementTypeOK
<1>2. /\ M[m].type # "transfer_shipment"
      /\ TypeStays(M, N, "issue") /\ TypeStays(M, N, "transfer_receipt")
  <2>1. {"issue", "transfer_shipment", "transfer_receipt"} \subseteq WorkflowType
    BY DEF WorkflowType
  <2> QED BY <1>1, <2>1, InsertionIsOfItsType
<1>3. /\ transfer'[t].status = "shipped" /\ transfer'[t].shipment = m
      /\ transfer'[t].receipt = transfer[t].receipt
      /\ \A u \in TransferId \ {t} : transfer'[u] = transfer[u]
      /\ transfer[t].status = "approved"
  BY DEF Ship, VersionAndState, TypeOK, TransferTypeOK, Transfer
<1>4. transfer[t].shipment = NoMovement
  BY <1>3 DEF OwnerInv, NamedWhenDone
<1>5. NamedWhenDone'
  BY <1>3 DEF OwnerInv, NamedWhenDone, BalanceAssumption
<1>6. o[t] = NoMovement /\ p[t] = m /\ \A u \in TransferId \ {t} : p[u] = o[u]
  BY <1>3, <1>4 DEF Shipments
<1>7. \A u \in TransferId : o[u] \in MovementId \cup {NoMovement}
  BY NamesAreMovements
<1>8. /\ Owned(M, TransferId, o, "transfer_shipment")
      /\ Owned(M, ReservationId, Issues(reservation), "issue")
      /\ Owned(M, TransferId, Receipts(transfer), "transfer_receipt")
  BY DEF OwnerInv
<1>9. Receipts(transfer') = Receipts(transfer)
  BY <1>3 DEF Receipts
<1> HIDE DEF M, N, o, p
<1>10. Owned(N, TransferId, p, "transfer_shipment")
  <2>1. OneMore(M, N, TransferId, o, p, "transfer_shipment")
    BY <1>1, <1>2, <1>6 DEF OneMore
  <2> QED BY <1>7, <1>8, <2>1, OwnedGrows
<1>11. /\ Owned(N, ReservationId, Issues(reservation), "issue")
       /\ Owned(N, TransferId, Receipts(transfer), "transfer_receipt")
  BY <1>2, <1>8, NamesAreMovements, OwnedIsKept
<1> QED BY <1>5, <1>9, <1>10, <1>11 DEF OwnerInv, N, p

LEMMA ReceiptOwns ==
  ASSUME BalanceAssumption, TypeOK, ManualUntilPosted, OwnerInv,
         UNCHANGED reservation,
         NEW t \in TransferId, NEW expected, NEW m \in MovementId,
         Receive(t, expected, m)
  PROVE  OwnerInv'
<1> DEFINE M == movement
           N == movement'
           o == Receipts(transfer)
           p == Receipts(transfer')
<1>1. /\ M[m].status = "none" /\ N[m].type = "transfer_receipt"
      /\ \A n \in MovementId \ {m} : N[n] = M[n]
  BY DEF Receive, PostedMovement, TypeOK, MovementTypeOK
<1>2. /\ M[m].type # "transfer_receipt"
      /\ TypeStays(M, N, "issue") /\ TypeStays(M, N, "transfer_shipment")
  <2>1. {"issue", "transfer_shipment", "transfer_receipt"} \subseteq WorkflowType
    BY DEF WorkflowType
  <2> QED BY <1>1, <2>1, InsertionIsOfItsType
<1>3. /\ transfer'[t].status = "received" /\ transfer'[t].receipt = m
      /\ transfer'[t].shipment = transfer[t].shipment
      /\ \A u \in TransferId \ {t} : transfer'[u] = transfer[u]
      /\ transfer[t].status = "shipped"
  BY DEF Receive, VersionAndState, TypeOK, TransferTypeOK, Transfer
<1>4. transfer[t].receipt = NoMovement
  BY <1>3 DEF OwnerInv, NamedWhenDone
<1>5. NamedWhenDone'
  BY <1>3 DEF OwnerInv, NamedWhenDone, BalanceAssumption
<1>6. o[t] = NoMovement /\ p[t] = m /\ \A u \in TransferId \ {t} : p[u] = o[u]
  BY <1>3, <1>4 DEF Receipts
<1>7. \A u \in TransferId : o[u] \in MovementId \cup {NoMovement}
  BY NamesAreMovements
<1>8. /\ Owned(M, TransferId, o, "transfer_receipt")
      /\ Owned(M, ReservationId, Issues(reservation), "issue")
      /\ Owned(M, TransferId, Shipments(transfer), "transfer_shipment")
  BY DEF OwnerInv
<1>9. Shipments(transfer') = Shipments(transfer)
  BY <1>3 DEF Shipments
<1> HIDE DEF M, N, o, p
<1>10. Owned(N, TransferId, p, "transfer_receipt")
  <2>1. OneMore(M, N, TransferId, o, p, "transfer_receipt")
    BY <1>1, <1>2, <1>6 DEF OneMore
  <2> QED BY <1>7, <1>8, <2>1, OwnedGrows
<1>11. /\ Owned(N, ReservationId, Issues(reservation), "issue")
       /\ Owned(N, TransferId, Shipments(transfer), "transfer_shipment")
  BY <1>2, <1>8, NamesAreMovements, OwnedIsKept
<1> QED BY <1>5, <1>9, <1>10, <1>11 DEF OwnerInv, N, p

(* A reservation or a transfer with no movement yet changes without one.   *)
LEMMA OthersOwnNothing ==
  ASSUME TypeOK, OwnerInv, UNCHANGED movement,
         \A r \in ReservationId :
           \/ reservation'[r] = reservation[r]
           \/ /\ reservation[r].status # "confirmed"
              /\ reservation'[r].status # "confirmed"
              /\ reservation'[r].movement = NoMovement,
         \A t \in TransferId :
           \/ transfer'[t] = transfer[t]
           \/ /\ transfer[t].status \notin {"shipped", "received"}
              /\ transfer'[t].status \notin {"shipped", "received"}
              /\ transfer'[t].shipment = NoMovement
              /\ transfer'[t].receipt = NoMovement
  PROVE  OwnershipStays
BY DEF OwnerInv, NamedWhenDone, OwnershipStays, TypeStays

LEMMA NextPreservesOwnerInv ==
  StockInv /\ DocumentInv /\ OwnerInv /\ [Next]_vars => OwnerInv'
<1> SUFFICES ASSUME StockInv, DocumentInv, OwnerInv, [Next]_vars PROVE OwnerInv'
  OBVIOUS
<1> USE BalanceAssumption
<1>1. /\ TypeOK /\ MovementTypeOK /\ ManualUntilPosted
      /\ reservation \in [ReservationId -> Reservation]
      /\ transfer \in [TransferId -> Transfer]
  BY DEF StockInv, TypeOK, DocumentInv, ReservationTypeOK, TransferTypeOK
<1>2. CASE MovementNext /\ UNCHANGED <<reservation, now, transfer>>
  <2>1. \A type \in WorkflowType : TypeStays(movement, movement', type)
    BY <1>1, <1>2, MovementTypesStay
  <2>2. OwnershipStays
    BY <1>2, <2>1 DEF OwnershipStays
  <2> QED BY <1>1, <2>2, OwnershipIsKept
<1>3. ASSUME UNCHANGED movement,
             \A r \in ReservationId :
               \/ reservation'[r] = reservation[r]
               \/ /\ reservation[r].status # "confirmed"
                  /\ reservation'[r].status # "confirmed"
                  /\ reservation'[r].movement = NoMovement,
             \A t \in TransferId :
               \/ transfer'[t] = transfer[t]
               \/ /\ transfer[t].status \notin {"shipped", "received"}
                  /\ transfer'[t].status \notin {"shipped", "received"}
                  /\ transfer'[t].shipment = NoMovement
                  /\ transfer'[t].receipt = NoMovement
      PROVE  OwnerInv'
  BY <1>1, <1>3, OthersOwnNothing, OwnershipIsKept
<1>4. CASE ReservationNext /\ UNCHANGED transfer
  <2>1. ASSUME NEW r \in ReservationId, NEW b, NEW lines, NEW e,
               CreateReservation(r, b, lines, e)
        PROVE  OwnerInv'
    <3>1. /\ \A q \in ReservationId \ {r} : reservation'[q] = reservation[q]
          /\ reservation[r].status = "none" /\ reservation'[r].status = "active"
          /\ reservation'[r].movement = NoMovement
      BY <1>1, <2>1 DEF CreateReservation
    <3>2. UNCHANGED movement
      BY <2>1 DEF CreateReservation
    <3> QED BY <1>3, <1>4, <3>1, <3>2
  <2>2. ASSUME NEW r \in ReservationId, NEW expected, NEW status,
               status # "confirmed", VersionAndActive(r, expected),
               Complete(r, status, NoMovement), UNCHANGED movement
        PROVE  OwnerInv'
    <3>1. /\ \A q \in ReservationId \ {r} : reservation'[q] = reservation[q]
          /\ reservation[r].status = "active" /\ reservation'[r].status = status
          /\ reservation'[r].movement = NoMovement
      BY <1>1, <2>2 DEF VersionAndActive, Complete, Reservation
    <3> QED BY <1>3, <1>4, <2>2, <3>1
  <2>3. ASSUME NEW r \in ReservationId, NEW expected, NEW m \in MovementId,
               Confirm(r, expected, m)
        PROVE  OwnerInv'
    BY <1>1, <1>4, <2>3, ConfirmationOwns
  <2>4. CASE Tick
    BY <1>3, <1>4, <2>4 DEF Tick
  <2> QED BY <1>4, <2>1, <2>2, <2>3, <2>4
          DEF ReservationNext, ReservationCommand, GiveBack, Expire
<1>5. CASE TransferNext /\ UNCHANGED <<reservation, now>>
  <2>1. ASSUME NEW t \in TransferId, NEW source, NEW transit, NEW destination,
               NEW lines, CreateTransfer(t, source, transit, destination, lines)
        PROVE  OwnerInv'
    <3>1. /\ \A u \in TransferId \ {t} : transfer'[u] = transfer[u]
          /\ transfer[t].status = "none" /\ transfer'[t].status = "requested"
          /\ transfer'[t].shipment = NoMovement /\ transfer'[t].receipt = NoMovement
      BY <1>1, <2>1 DEF CreateTransfer
    <3>2. UNCHANGED movement
      BY <2>1 DEF CreateTransfer
    <3> QED BY <1>3, <1>5, <3>1, <3>2
  <2>2. ASSUME NEW t \in TransferId, NEW expected, NEW from, NEW to,
               from \subseteq {"requested", "approved"},
               to \in {"approved", "rejected", "cancelled"},
               Transition(t, expected, from, to)
        PROVE  OwnerInv'
    <3>1. /\ \A u \in TransferId \ {t} : transfer'[u] = transfer[u]
          /\ transfer[t].status \in from /\ transfer'[t].status = to
          /\ transfer'[t].shipment = transfer[t].shipment
          /\ transfer'[t].receipt = transfer[t].receipt
          /\ UNCHANGED movement
      BY <1>1, <2>2 DEF Transition, VersionAndState, Transfer
    <3>2. transfer[t].shipment = NoMovement /\ transfer[t].receipt = NoMovement
      BY <2>2, <3>1 DEF OwnerInv, NamedWhenDone
    <3> QED BY <1>3, <1>5, <2>2, <3>1, <3>2
  <2>3. ASSUME NEW t \in TransferId, NEW expected, NEW m \in MovementId,
               Ship(t, expected, m)
        PROVE  OwnerInv'
    BY <1>1, <1>5, <2>3, ShipmentOwns
  <2>4. ASSUME NEW t \in TransferId, NEW expected, NEW m \in MovementId,
               Receive(t, expected, m)
        PROVE  OwnerInv'
    BY <1>1, <1>5, <2>4, ReceiptOwns
  <2> QED BY <1>5, <2>1, <2>2, <2>3, <2>4
          DEF TransferNext, TransferCommand, Approve, Reject, CancelTransfer
<1>6. CASE UNCHANGED vars
  BY <1>3, <1>6 DEF vars
<1> QED BY <1>2, <1>4, <1>5, <1>6 DEF Next

LEMMA InitEstablishesOwnerInv == Init => OwnerInv
<1> SUFFICES ASSUME Init PROVE OwnerInv
  OBVIOUS
<1>1. /\ \A m \in MovementId : movement[m].type = "adjustment"
      /\ \A r \in ReservationId : /\ reservation[r].status = "none"
                                  /\ reservation[r].movement = NoMovement
      /\ \A t \in TransferId : /\ transfer[t].status = "none"
                               /\ transfer[t].shipment = NoMovement
                               /\ transfer[t].receipt = NoMovement
  BY DEF Init, MovementInit, Unused, ReservationInit, NoReservation, TransferInit,
         NoTransfer
<1> QED BY <1>1 DEF OwnerInv, Owned, NamedWhenDone, Issues, Shipments, Receipts

Claims(m) ==
  {r \in ReservationId : reservation[r].movement = m}
    \cup {<<t, "ship">> : t \in {u \in TransferId : transfer[u].shipment = m}}
    \cup {<<t, "receive">> : t \in {u \in TransferId : transfer[u].receipt = m}}

LEMMA ClaimsAreCounted ==
  ASSUME BalanceAssumption, TypeOK, OwnerInv, NEW m \in MovementId
  PROVE  Cardinality(Claims(m)) = IF movement[m].type \in WorkflowType THEN 1 ELSE 0
<1> DEFINE A == {r \in ReservationId : reservation[r].movement = m}
           B == {t \in TransferId : transfer[t].shipment = m}
           C == {t \in TransferId : transfer[t].receipt = m}
<1>1. m # NoMovement
  BY DEF BalanceAssumption
<1>2. /\ A # {} <=> movement[m].type = "issue"
      /\ \A r1, r2 \in A : r1 = r2
  <2>1. \A r \in ReservationId : Issues(reservation)[r] = reservation[r].movement
    BY DEF Issues
  <2>2. Owned(movement, ReservationId, Issues(reservation), "issue")
    BY DEF OwnerInv
  <2> QED BY <1>1, <2>1, <2>2 DEF Owned
<1>3. /\ B # {} <=> movement[m].type = "transfer_shipment"
      /\ \A t1, t2 \in B : t1 = t2
  <2>1. \A t \in TransferId : Shipments(transfer)[t] = transfer[t].shipment
    BY DEF Shipments
  <2>2. Owned(movement, TransferId, Shipments(transfer), "transfer_shipment")
    BY DEF OwnerInv
  <2> QED BY <1>1, <2>1, <2>2 DEF Owned
<1>4. /\ C # {} <=> movement[m].type = "transfer_receipt"
      /\ \A t1, t2 \in C : t1 = t2
  <2>1. \A t \in TransferId : Receipts(transfer)[t] = transfer[t].receipt
    BY DEF Receipts
  <2>2. Owned(movement, TransferId, Receipts(transfer), "transfer_receipt")
    BY DEF OwnerInv
  <2> QED BY <1>1, <2>1, <2>2 DEF Owned
<1>5. Claims(m) = A \cup {<<t, "ship">> : t \in B} \cup {<<t, "receive">> : t \in C}
  BY DEF Claims
<1> HIDE DEF A, B, C
<1>6. CASE movement[m].type \in WorkflowType
  <2>1. \E x : Claims(m) = {x}
    <3>1. CASE movement[m].type = "issue"
      <4>1. B = {} /\ C = {} /\ \E r : A = {r}
        BY <1>2, <1>3, <1>4, <3>1
      <4> QED BY <1>5, <4>1
    <3>2. CASE movement[m].type = "transfer_shipment"
      <4>1. A = {} /\ C = {} /\ \E t : B = {t}
        BY <1>2, <1>3, <1>4, <3>2
      <4>2. PICK t : B = {t}
        BY <4>1
      <4>3. Claims(m) = {<<t, "ship">>}
        BY <1>5, <4>1, <4>2
      <4> QED BY <4>3
    <3>3. CASE movement[m].type = "transfer_receipt"
      <4>1. A = {} /\ B = {} /\ \E t : C = {t}
        BY <1>2, <1>3, <1>4, <3>3
      <4>2. PICK t : C = {t}
        BY <4>1
      <4>3. Claims(m) = {<<t, "receive">>}
        BY <1>5, <4>1, <4>2
      <4> QED BY <4>3
    <3> QED BY <1>6, <3>1, <3>2, <3>3 DEF WorkflowType
  <2> QED BY <1>6, <2>1, FS_Singleton
<1>7. CASE movement[m].type \notin WorkflowType
  <2>1. A = {} /\ B = {} /\ C = {}
    BY <1>2, <1>3, <1>4, <1>7 DEF WorkflowType
  <2>2. Claims(m) = {}
    BY <1>5, <2>1
  <2> QED BY <1>7, <2>2, FS_EmptySet
<1> QED BY <1>6, <1>7

(* Every issue, shipment and receipt belongs to exactly one document, and  *)
(* no other movement to any: a retried or concurrent command never posts a *)
(* second movement for what a document already did.                        *)
THEOREM WorkflowMovementsAreOwned == Spec => []WorkflowMovementsHaveOneOwner
<1>1. StockInv /\ OwnerInv => WorkflowMovementsHaveOneOwner
  <2> SUFFICES ASSUME StockInv, OwnerInv PROVE WorkflowMovementsHaveOneOwner
    OBVIOUS
  <2>1. \A m \in MovementId :
          Cardinality(Claims(m)) = IF movement[m].type \in WorkflowType THEN 1 ELSE 0
    BY ClaimsAreCounted, BalanceAssumption DEF StockInv
  <2>2. NamedWhenDone
    BY DEF OwnerInv
  <2> QED BY <2>1, <2>2 DEF WorkflowMovementsHaveOneOwner, Claims, WorkflowType,
                            NamedWhenDone
<1> QED BY <1>1, InitEstablishesOwnerInv, InitEstablishesStockInv,
           NextPreservesStockInv, InitEstablishesDocumentInv,
           NextPreservesDocumentInv, NextPreservesOwnerInv, PTL DEF Spec

-----------------------------------------------------------------------------
(***************************************************************************)
(* Callers of the movement commands                                        *)
(***************************************************************************)
(* A command needs the current version, and leaves the next one; the other *)
(* movement that a reversal changes had not been given out.                *)
LEMMA CommandsAreVersioned ==
  ASSUME MovementTypeOK, NEW m \in MovementId, NEW expected,
         MovementCommand(m, expected)
  PROVE  /\ movement[m].version = expected /\ movement[m].status # "none"
         /\ movement'[m].version = movement[m].version + 1
         /\ movement'[m].status # "none"
         /\ \A n \in MovementId \ {m} :
              movement'[n] = movement[n] \/ movement[n].status = "none"
<1> DEFINE Versioned ==
      /\ movement[m].version = expected /\ movement[m].status # "none"
      /\ movement'[m].version = movement[m].version + 1
      /\ movement'[m].status # "none"
      /\ \A n \in MovementId \ {m} :
           movement'[n] = movement[n] \/ movement[n].status = "none"
<1>1. ASSUME NEW kept, NEW added, RewriteLines(m, expected, kept, added)
      PROVE  Versioned
  <2> DEFINE lines == kept \cup added
  <2>1. movement' = WithLines(m, lines) /\ Editable(m, expected)
    BY <1>1 DEF RewriteLines
  <2> HIDE DEF lines
  <2> QED BY <2>1 DEF WithLines, Editable, MovementTypeOK, Movement
<1>2. ASSUME NEW type, NEW b, PatchHeader(m, expected, type, b)
      PROVE  Versioned
  BY <1>2 DEF PatchHeader, Editable, MovementTypeOK, Movement
<1>3. CASE CancelDraft(m, expected) \/ Submit(m, expected)
  BY <1>3 DEF CancelDraft, Submit, MovementTypeOK, Movement
<1>4. CASE Post(m, expected)
  BY <1>4 DEF Post, MovementTypeOK, Movement
<1>5. ASSUME NEW r \in MovementId \ {m}, Reverse(m, expected, r) PROVE Versioned
  BY <1>5 DEF Reverse, Reversible, MovementTypeOK, Movement
<1> QED BY <1>1, <1>2, <1>3, <1>4, <1>5
        DEF MovementCommand, Edit, AddLine, PatchLine, DeleteLine

(* What a caller saw is what the movement is, or of an earlier version.    *)
SeenInv ==
  \A c \in Caller : seen[c] # Nothing =>
    \E m \in MovementId :
      /\ seen[c] = [id |-> m, value |-> seen[c].value]
      /\ movement[m].status # "none"
      /\ \/ seen[c].value = movement[m]
         \/ /\ seen[c].value.version \in Nat
            /\ seen[c].value.version < movement[m].version

EditingInv == /\ BalanceInv /\ MovementTypeOK
              /\ seen = [c \in Caller |-> seen[c]]
              /\ SeenInv

LEMMA InitEstablishesEditingInv == EditingInit => EditingInv
<1> USE BalanceAssumption
<1>1. NoRow \in Row
  BY DEF NoRow, Row, Quantity, BalanceAssumption
<1>2. EditingInit => BalanceInv
  BY <1>1 DEF EditingInit, BalanceInit, BalanceInv, BalanceTypeOK,
              ReservedIsCovered, NoRow
<1>3. EditingInit => MovementTypeOK
  BY UnusedIsMovement DEF EditingInit, MovementInit, MovementTypeOK
<1> QED BY <1>2, <1>3 DEF EditingInit, EditingInv, SeenInv

(* A command changes the movement its caller saw as it is, and otherwise   *)
(* at most one that nobody has seen.                                       *)
LEMMA CommandsActOnWhatWasSeen ==
  ASSUME EditingInv, NEW c \in Caller, Command(c)
  PROVE  /\ MovementNext
         /\ \A n \in MovementId :
              \/ movement'[n] = movement[n]
              \/ movement[n].status = "none"
              \/ /\ seen[c] = [id |-> n, value |-> movement[n]]
                 /\ movement'[n].version = movement[n].version + 1
                 /\ movement'[n].status # "none"
<1>1. MovementTypeOK /\ seen[c] # Nothing
  BY DEF EditingInv, Command
<1>2. PICK m \in MovementId :
        /\ seen[c] = [id |-> m, value |-> seen[c].value]
        /\ \/ seen[c].value = movement[m]
           \/ /\ seen[c].value.version \in Nat
              /\ seen[c].value.version < movement[m].version
  BY <1>1 DEF EditingInv, SeenInv
<1>3. seen[c].id = m
  BY <1>2
<1>4. MovementCommand(m, seen[c].value.version)
  BY <1>3 DEF Command
<1>5. /\ movement[m].version = seen[c].value.version
      /\ movement'[m].version = movement[m].version + 1
      /\ movement'[m].status # "none"
      /\ \A n \in MovementId \ {m} :
           movement'[n] = movement[n] \/ movement[n].status = "none"
  BY <1>1, <1>4, CommandsAreVersioned
<1>6. seen[c].value = movement[m]
  BY <1>2, <1>5
<1>7. MovementNext
  BY <1>4, <1>5 DEF MovementNext
<1> QED BY <1>2, <1>5, <1>6, <1>7

LEMMA NextPreservesEditingInv ==
  EditingInv /\ [EditingNext]_editingVars => EditingInv'
<1> SUFFICES ASSUME EditingInv, [EditingNext]_editingVars PROVE EditingInv'
  OBVIOUS
<1> USE BalanceAssumption
<1>1. BalanceInv /\ MovementTypeOK /\ SeenInv /\ seen = [c \in Caller |-> seen[c]]
  BY DEF EditingInv
<1>2. ASSUME MovementNext, UNCHANGED seen,
             \A n \in MovementId :
               \/ movement'[n] = movement[n]
               \/ movement[n].status = "none"
               \/ /\ movement'[n].version = movement[n].version + 1
                  /\ movement'[n].status # "none"
      PROVE  EditingInv'
  <2>1. BalanceInv' /\ MovementTypeOK'
    BY <1>1, <1>2, MovementStep
  <2>2. ASSUME NEW c \in Caller, seen[c] # Nothing
        PROVE  \E m \in MovementId :
                 /\ seen[c] = [id |-> m, value |-> seen[c].value]
                 /\ movement'[m].status # "none"
                 /\ \/ seen[c].value = movement'[m]
                    \/ /\ seen[c].value.version \in Nat
                       /\ seen[c].value.version < movement'[m].version
    <3>1. PICK m \in MovementId :
            /\ seen[c] = [id |-> m, value |-> seen[c].value]
            /\ movement[m].status # "none"
            /\ \/ seen[c].value = movement[m]
               \/ /\ seen[c].value.version \in Nat
                  /\ seen[c].value.version < movement[m].version
      BY <1>1, <2>2 DEF SeenInv
    <3>2. movement[m].version \in Nat
      BY <1>1 DEF MovementTypeOK, Movement
    <3>3. CASE movement'[m] = movement[m]
      <4>1. /\ movement'[m].status # "none"
            /\ \/ seen[c].value = movement'[m]
               \/ /\ seen[c].value.version \in Nat
                  /\ seen[c].value.version < movement'[m].version
        BY <3>1, <3>3
      <4> QED BY <3>1, <4>1
    <3>4. CASE /\ movement'[m].version = movement[m].version + 1
               /\ movement'[m].status # "none"
      <4>1. /\ seen[c].value.version \in Nat
            /\ seen[c].value.version < movement'[m].version
        BY <3>1, <3>2, <3>4
      <4> QED BY <3>1, <3>4, <4>1
    <3> QED BY <1>2, <3>1, <3>3, <3>4
  <2>3. SeenInv'
    <3>1. seen' = seen
      BY <1>2
    <3>2. SeenInv' <=> \A c \in Caller : seen[c] # Nothing =>
                         \E m \in MovementId :
                           /\ seen[c] = [id |-> m, value |-> seen[c].value]
                           /\ movement'[m].status # "none"
                           /\ \/ seen[c].value = movement'[m]
                              \/ /\ seen[c].value.version \in Nat
                                 /\ seen[c].value.version < movement'[m].version
      BY ONLY <3>1 DEF SeenInv
    <3> QED BY <2>2, <3>2
  <2> QED BY <1>1, <1>2, <2>1, <2>3 DEF EditingInv
<1>3. CASE (\E m \in MovementId : Create(m)) /\ UNCHANGED seen
  <2>1. PICK m \in MovementId : Create(m)
    BY <1>3
  <2>2. /\ movement[m].status = "none"
        /\ \A n \in MovementId \ {m} : movement'[n] = movement[n]
    BY <1>1, <2>1 DEF Create, CreateDraft, MovementTypeOK
  <2>3. MovementNext
    BY <2>1 DEF MovementNext
  <2> QED BY <1>2, <1>3, <2>2, <2>3
<1>4. ASSUME NEW c \in Caller, NEW m \in MovementId, Read(c, m)
      PROVE  EditingInv'
  <2>1. UNCHANGED <<balance, movement>> /\ movement[m].status # "none"
    BY <1>4 DEF Read
  <2>2. BalanceInv' /\ MovementTypeOK'
    BY <1>1, <2>1 DEF BalanceInv, BalanceTypeOK, ReservedIsCovered, MovementTypeOK
  <2>3. /\ seen'[c] = [id |-> m, value |-> movement[m]]
        /\ \A d \in Caller \ {c} : seen'[d] = seen[d]
        /\ seen' = [d \in Caller |-> seen'[d]]
    BY <1>1, <1>4 DEF Read
  <2>4. SeenInv'
    BY <1>1, <2>1, <2>3 DEF SeenInv
  <2> QED BY <2>2, <2>3, <2>4 DEF EditingInv
<1>5. ASSUME NEW c \in Caller, Command(c) PROVE EditingInv'
  <2>1. UNCHANGED seen
    BY <1>5 DEF Command
  <2> QED BY <1>2, <1>5, <2>1, CommandsActOnWhatWasSeen
<1>6. CASE UNCHANGED editingVars
  BY <1>1, <1>6 DEF editingVars, EditingInv, SeenInv, BalanceInv, BalanceTypeOK,
                    ReservedIsCovered, MovementTypeOK
<1> QED BY <1>3, <1>4, <1>5, <1>6 DEF EditingNext

(* Whoever changes a movement has seen it as it is: what was rewritten     *)
(* after it was read is neither posted nor cancelled nor overwritten,      *)
(* however many callers edit at once.                                      *)
THEOREM CommandsSeeWhatTheyChange == EditingSpec => ActsOnWhatWasSeen
<1> DEFINE Seen ==
      \A m \in MovementId :
        movement'[m] # movement[m] /\ movement[m].status # "none" =>
          \E c \in Caller : seen[c] = [id |-> m, value |-> movement[m]]
<1>1. EditingInv /\ [EditingNext]_editingVars => [Seen]_editingVars
  <2> SUFFICES ASSUME EditingInv, EditingNext PROVE Seen
    OBVIOUS
  <2>1. CASE \E m \in MovementId : Create(m)
    <3>1. PICK m \in MovementId : Create(m)
      BY <2>1
    <3>2. /\ movement[m].status = "none"
          /\ \A n \in MovementId \ {m} : movement'[n] = movement[n]
      BY <3>1 DEF Create, CreateDraft, EditingInv, MovementTypeOK
    <3> QED BY <3>2
  <2>2. CASE \E c \in Caller, m \in MovementId : Read(c, m)
    BY <2>2 DEF Read
  <2>3. CASE \E c \in Caller : Command(c)
    BY <2>3, CommandsActOnWhatWasSeen
  <2> QED BY <2>1, <2>2, <2>3 DEF EditingNext
<1> QED BY <1>1, InitEstablishesEditingInv, NextPreservesEditingInv, PTL
        DEF EditingSpec, ActsOnWhatWasSeen
-----------------------------------------------------------------------------
(***************************************************************************)
(* What the quantities mean: each is the sum of what its documents put     *)
(* there.  Sums are folds over finite sets; what is said of them is shown  *)
(* by a smallest counterexample among the finite subsets of the set summed *)
(* over.                                                                   *)
(***************************************************************************)
(***************************************************************************)
(* Sums over finite sets                                                   *)
(***************************************************************************)
(* The fold behind a sum: what it adds first, and what it is on each subset. *)
First(s) == CHOOSE x \in s : TRUE

Adds(h, f, S) ==
  h = [s \in SUBSET S |->
         IF s = {} THEN 0 ELSE f[First(s)] + h[s \ {First(s)}]]

Total(f, S) == (CHOOSE h : Adds(h, f, S))[S]

LEMMA FirstIsIn == ASSUME NEW s, s # {} PROVE First(s) \in s
BY DEF First

(* Any set of finite sets has a member none of whose strict subsets is one. *)
LEMMA SmallestSet ==
  ASSUME NEW S, IsFiniteSet(S), NEW T \in SUBSET SUBSET S, T # {}
  PROVE  \E s \in T : \A t \in T : t \subseteq s => t = s
<1>1. T \subseteq FiniteSubsetsOf(S)
  BY FS_FiniteSubsetsOfFinite
<1>2. PICK s \in T : \A t \in T : <<t, s>> \notin StrictSubsetOrdering(S)
  BY <1>1, FS_StrictSubsetOrderingWellFounded, WFMin
<1>3. ASSUME NEW t \in T, t \subseteq s, t # s PROVE FALSE
  BY <1>2, <1>3 DEF StrictSubsetOrdering
<1> QED BY <1>3

LEMMA AddsIsUnique ==
  ASSUME NEW S, IsFiniteSet(S), NEW f, NEW g, NEW h,
         NEW A, NEW B, Adds(g, f, A), Adds(h, f, B), S \subseteq A, S \subseteq B
  PROVE  g[S] = h[S]
<1> DEFINE T == {s \in SUBSET S : g[s] # h[s]}
<1>1. SUFFICES ASSUME T # {} PROVE FALSE
  OBVIOUS
<1>2. PICK s \in T : \A t \in T : t \subseteq s => t = s
  <2>1. T \in SUBSET SUBSET S
    OBVIOUS
  <2> HIDE DEF T
  <2> QED BY <1>1, <2>1, SmallestSet
<1> DEFINE rest == s \ {First(s)}
<1>3. s # {}
  BY <1>2 DEF Adds
<1>4. /\ g[s] = f[First(s)] + g[rest]
      /\ h[s] = f[First(s)] + h[rest]
  BY <1>2, <1>3 DEF Adds
<1>5. rest \subseteq s /\ rest # s
  BY <1>3, FirstIsIn
<1>6. g[rest] = h[rest]
  BY <1>2, <1>5
<1> QED BY <1>2, <1>4, <1>6

LEMMA AddsExists ==
  ASSUME NEW S, IsFiniteSet(S), NEW f
  PROVE  \E h : Adds(h, f, S)
<1> DEFINE T == {s \in SUBSET S : ~ \E h : Adds(h, f, s)}
<1>1. SUFFICES ASSUME T # {} PROVE FALSE
  OBVIOUS
<1>2. PICK s \in T : \A t \in T : t \subseteq s => t = s
  <2>1. T \in SUBSET SUBSET S
    OBVIOUS
  <2> HIDE DEF T
  <2> QED BY <1>1, <2>1, SmallestSet
<1> DEFINE of(t) == CHOOSE h : Adds(h, f, t)
           sum(t) == IF t = {} THEN 0
                     ELSE f[First(t)] + of(t \ {First(t)})[t \ {First(t)}]
           h == [t \in SUBSET s |-> sum(t)]
<1>3. ASSUME NEW t \in SUBSET s, t # s PROVE Adds(of(t), f, t)
  BY <1>2, <1>3
<1>4. ASSUME NEW t \in SUBSET s, t # s PROVE of(t)[t] = sum(t)
  <2>1. of(t)[t] = IF t = {} THEN 0 ELSE f[First(t)] + of(t)[t \ {First(t)}]
    <3>1. Adds(of(t), f, t)
      BY <1>3, <1>4
    <3> HIDE DEF of
    <3> QED BY <3>1 DEF Adds
  <2>2. CASE t # {}
    <3> DEFINE rest == t \ {First(t)}
    <3>1. rest \in SUBSET s /\ rest # s /\ rest \subseteq t /\ IsFiniteSet(rest)
      BY <2>2, FirstIsIn, FS_Subset
    <3>2. of(t)[rest] = of(rest)[rest]
      <4> HIDE DEF of, rest
      <4> QED BY <1>3, <1>4, <3>1, AddsIsUnique
    <3> QED BY <2>1, <2>2, <3>2
  <2> QED BY <2>1, <2>2
<1>5. ASSUME NEW t \in SUBSET s, t # {}
      PROVE  of(t \ {First(t)})[t \ {First(t)}] = h[t \ {First(t)}]
  <2> DEFINE rest == t \ {First(t)}
  <2>1. rest \in SUBSET s /\ rest # s
    BY <1>5, FirstIsIn
  <2> HIDE DEF of, sum, rest
  <2>2. of(rest)[rest] = h[rest]
    BY <1>4, <2>1
  <2> QED BY <2>2 DEF rest
<1>6. Adds(h, f, s)
  <2> HIDE DEF of, h
  <2>1. \A t \in SUBSET s : sum(t) = IF t = {} THEN 0 ELSE f[First(t)] + h[t \ {First(t)}]
    BY <1>5
  <2> QED BY <2>1 DEF Adds, h
<1> QED BY <1>2, <1>6

LEMMA TotalIsTotal ==
  ASSUME NEW S, IsFiniteSet(S), NEW f, NEW A, NEW h, Adds(h, f, A), S \subseteq A
  PROVE  Total(f, S) = h[S]
<1>1. Adds(CHOOSE g : Adds(g, f, S), f, S)
  BY AddsExists
<1> QED BY <1>1, AddsIsUnique DEF Total

LEMMA TotalOfEmpty == ASSUME NEW f PROVE Total(f, {}) = 0
<1>1. PICK h : Adds(h, f, {})
  BY AddsExists, FS_EmptySet
<1>2. h[{}] = 0
  BY <1>1 DEF Adds
<1> QED BY <1>1, <1>2, TotalIsTotal, FS_EmptySet

LEMMA TotalIsInt ==
  ASSUME NEW S, IsFiniteSet(S), NEW f, \A x \in S : f[x] \in Int
  PROVE  Total(f, S) \in Int
<1>0. PICK h : Adds(h, f, S)
  BY AddsExists
<1> DEFINE T == {s \in SUBSET S : h[s] \notin Int}
<1>1. SUFFICES ASSUME T # {} PROVE FALSE
  BY <1>0, TotalIsTotal
<1>2. PICK s \in T : \A t \in T : t \subseteq s => t = s
  <2>1. T \in SUBSET SUBSET S
    OBVIOUS
  <2> HIDE DEF T
  <2> QED BY <1>1, <2>1, SmallestSet
<1>3. h[s] = IF s = {} THEN 0 ELSE f[First(s)] + h[s \ {First(s)}]
  BY <1>0, <1>2 DEF Adds
<1>4. s # {}
  BY <1>2, <1>3
<1>5. First(s) \in s
  BY <1>4, FirstIsIn
<1>6. f[First(s)] \in Int /\ h[s \ {First(s)}] \in Int
  BY <1>2, <1>5
<1> QED BY <1>2, <1>3, <1>4, <1>6

(* Any element can be the first. *)
LEMMA TotalTakesOut ==
  ASSUME NEW S, IsFiniteSet(S), NEW f, \A x \in S : f[x] \in Int, NEW y \in S
  PROVE  Total(f, S) = f[y] + Total(f, S \ {y})
<1>0. PICK h : Adds(h, f, S)
  BY AddsExists
<1>h. ASSUME NEW s \in SUBSET S PROVE h[s] = Total(f, s) /\ h[s] \in Int
  BY <1>0, <1>h, FS_Subset, TotalIsTotal, TotalIsInt
<1> DEFINE T == {s \in SUBSET S : \E x \in s : h[s] # f[x] + h[s \ {x}]}
<1>1. SUFFICES ASSUME T # {} PROVE FALSE
  BY <1>h
<1>2. PICK s \in T : \A t \in T : t \subseteq s => t = s
  <2>1. T \in SUBSET SUBSET S
    OBVIOUS
  <2> HIDE DEF T
  <2> QED BY <1>1, <2>1, SmallestSet
<1>3. PICK x \in s : h[s] # f[x] + h[s \ {x}]
  BY <1>2
<1> DEFINE c == First(s)
<1>4. c \in s /\ h[s] = f[c] + h[s \ {c}]
  BY <1>0, <1>2, <1>3, FirstIsIn DEF Adds
<1>5. c # x
  BY <1>3, <1>4
<1>6. h[s \ {c}] = f[x] + h[(s \ {c}) \ {x}]
  <2>1. s \ {c} \notin T /\ s \ {c} \in SUBSET S
    BY <1>2, <1>4
  <2> HIDE DEF c
  <2> QED BY <1>5, <2>1
<1>7. h[s \ {x}] = f[c] + h[(s \ {x}) \ {c}]
  <2>1. s \ {x} \notin T /\ s \ {x} \in SUBSET S
    BY <1>2, <1>3
  <2> HIDE DEF c
  <2> QED BY <1>4, <1>5, <2>1
<1>8. (s \ {c}) \ {x} = (s \ {x}) \ {c} /\ (s \ {x}) \ {c} \in SUBSET S
  BY <1>2
<1> DEFINE both == h[(s \ {x}) \ {c}]
<1>9. both \in Int /\ f[x] \in Int /\ f[c] \in Int
  BY <1>2, <1>4, <1>8, <1>h
<1>10. h[s] = f[c] + (f[x] + both) /\ h[s \ {x}] = f[c] + both
  BY <1>4, <1>6, <1>7, <1>8
<1> HIDE DEF c, both
<1> QED BY <1>3, <1>9, <1>10

LEMMA TotalTakesIn ==
  ASSUME NEW S, IsFiniteSet(S), NEW f, \A x \in S : f[x] \in Int,
         NEW y, y \notin S, f[y] \in Int
  PROVE  Total(f, S \cup {y}) = Total(f, S) + f[y]
<1>1. IsFiniteSet(S \cup {y}) /\ (S \cup {y}) \ {y} = S
  BY FS_AddElement
<1>2. Total(f, S \cup {y}) = f[y] + Total(f, S)
  BY <1>1, TotalTakesOut
<1> QED BY <1>2, TotalIsInt

(* A sum depends only on what is summed. *)
LEMMA TotalOfSame ==
  ASSUME NEW S, IsFiniteSet(S), NEW f, NEW g, \A x \in S : f[x] = g[x]
  PROVE  Total(f, S) = Total(g, S)
<1>1. PICK h : Adds(h, f, S)
  BY AddsExists
<1>2. Adds(h, g, S)
  <2>1. \A s \in SUBSET S : s # {} => f[First(s)] = g[First(s)]
    BY FirstIsIn
  <2> QED BY <1>1, <2>1 DEF Adds
<1> QED BY <1>1, <1>2, TotalIsTotal

(* No part of a sum of naturals exceeds it. *)
LEMMA TotalIsNat ==
  ASSUME NEW S, IsFiniteSet(S), NEW f, \A x \in S : f[x] \in Nat
  PROVE  Total(f, S) \in Nat
<1>0. PICK h : Adds(h, f, S)
  BY AddsExists
<1> DEFINE T == {s \in SUBSET S : h[s] \notin Nat}
<1>1. SUFFICES ASSUME T # {} PROVE FALSE
  BY <1>0, TotalIsTotal
<1>2. PICK s \in T : \A t \in T : t \subseteq s => t = s
  <2>1. T \in SUBSET SUBSET S
    OBVIOUS
  <2> HIDE DEF T
  <2> QED BY <1>1, <2>1, SmallestSet
<1>3. h[s] = IF s = {} THEN 0 ELSE f[First(s)] + h[s \ {First(s)}]
  BY <1>0, <1>2 DEF Adds
<1>4. s # {}
  BY <1>2, <1>3
<1>5. First(s) \in s
  BY <1>4, FirstIsIn
<1>6. f[First(s)] \in Nat /\ h[s \ {First(s)}] \in Nat
  BY <1>2, <1>5
<1> QED BY <1>2, <1>3, <1>4, <1>6

LEMMA TotalIsAtLeast ==
  ASSUME NEW S, IsFiniteSet(S), NEW f, \A x \in S : f[x] \in Nat, NEW y \in S
  PROVE  Total(f, S) >= f[y]
<1>1. Total(f, S) = f[y] + Total(f, S \ {y})
  BY TotalTakesOut
<1>2. Total(f, S \ {y}) \in Nat
  BY FS_RemoveElement, TotalIsNat
<1> QED BY <1>1, <1>2

(* Summing over the images of a one-to-one function. *)
LEMMA TotalOfImage ==
  ASSUME NEW S, IsFiniteSet(S), NEW f, NEW g, NEW b,
         \A x \in S : f[x] \in Int /\ g[b[x]] = f[x],
         \A x, y \in S : b[x] = b[y] => x = y
  PROVE  Total(g, {b[x] : x \in S}) = Total(f, S)
<1> DEFINE I(s) == {b[x] : x \in s}
           T == {s \in SUBSET S : ~ (IsFiniteSet(I(s)) /\ Total(g, I(s)) = Total(f, s))}
<1>1. SUFFICES ASSUME T # {} PROVE FALSE
  OBVIOUS
<1>2. PICK s \in T : \A t \in T : t \subseteq s => t = s
  <2>1. T \in SUBSET SUBSET S
    OBVIOUS
  <2> HIDE DEF T
  <2> QED BY <1>1, <2>1, SmallestSet
<1>3. s # {}
  <2>1. I({}) = {}
    OBVIOUS
  <2>2. {} \notin T
    BY <2>1, FS_EmptySet, TotalOfEmpty
  <2> QED BY <1>2, <2>2
<1>4. PICK y \in s : TRUE
  BY <1>3
<1> DEFINE rest == s \ {y}
<1>5. /\ rest \in SUBSET S /\ rest \notin T
      /\ IsFiniteSet(rest) /\ y \notin rest /\ s = rest \cup {y}
  BY <1>2, <1>4, FS_Subset
<1>6. IsFiniteSet(I(rest)) /\ Total(g, I(rest)) = Total(f, rest)
  <2> HIDE DEF I, rest
  <2> QED BY <1>5
<1>7. I(s) = I(rest) \cup {b[y]} /\ b[y] \notin I(rest)
  BY <1>2, <1>4
<1>8. \A z \in I(rest) : g[z] \in Int
  BY <1>2
<1>9. y \in S
  BY <1>2, <1>4
<1> HIDE DEF I, rest
<1>10. IsFiniteSet(I(s)) /\ Total(g, I(s)) = Total(g, I(rest)) + g[b[y]]
  BY <1>6, <1>7, <1>8, <1>9, TotalTakesIn, FS_AddElement
<1>11. Total(f, s) = Total(f, rest) + f[y]
  BY <1>5, <1>9, TotalTakesIn
<1> QED BY <1>2, <1>6, <1>9, <1>10, <1>11

LEMMA TotalOfOne ==
  ASSUME NEW f, NEW x, f[x] \in Int PROVE Total(f, {x}) = f[x]
<1>1. {} \cup {x} = {x}
  OBVIOUS
<1> QED BY <1>1, TotalOfEmpty, TotalTakesIn, FS_EmptySet

-----------------------------------------------------------------------------
(***************************************************************************)
(* Reserved quantities                                                     *)
(***************************************************************************)
Holding(R, k) == {r \in ReservationId : /\ R[r].status = "active"
                                        /\ k \in ReservedKeys(R[r].lines)}

Held(R, k) ==
  Total([r \in ReservationId |-> AmountOf(R[r].lines, k)], Holding(R, k))

LEMMA HeldIsSum ==
  ASSUME NEW R, NEW k
  PROVE  Sum(LAMBDA r : AmountOf(R[r].lines, k), Holding(R, k)) = Held(R, k)
<1> DEFINE A == Holding(R, k)
           f == [r \in ReservationId |-> AmountOf(R[r].lines, k)]
<1>1. ASSUME NEW s \in SUBSET A, s # {}
      PROVE  f[First(s)] = AmountOf(R[First(s)].lines, k)
  <2>1. First(s) \in ReservationId
    BY <1>1, FirstIsIn DEF Holding
  <2> QED BY <2>1
<1>2. ASSUME NEW h
      PROVE  Adds(h, f, A)
               <=> h = [s \in SUBSET A |->
                          IF s = {} THEN 0
                          ELSE AmountOf(R[First(s)].lines, k) + h[s \ {First(s)}]]
  <2> HIDE DEF A, f
  <2> QED BY <1>1 DEF Adds
<1>3. (CHOOSE h : Adds(h, f, A))
        = CHOOSE h : h = [s \in SUBSET A |->
                            IF s = {} THEN 0
                            ELSE AmountOf(R[First(s)].lines, k) + h[s \ {First(s)}]]
  <2> HIDE DEF A, f
  <2> QED BY <1>2, Zenon
<1>4. Sum(LAMBDA r : AmountOf(R[r].lines, k), A)
        = (CHOOSE h : h = [s \in SUBSET A |->
                            IF s = {} THEN 0
                            ELSE AmountOf(R[First(s)].lines, k) + h[s \ {First(s)}]])[A]
  <2> HIDE DEF A
  <2> QED BY DEF Sum, MapThenSumSet, MapThenFoldSet, First
<1> QED BY <1>3, <1>4 DEF Held, Total

LEMMA AmountsAreNat ==
  ASSUME BalanceAssumption, NEW R \in [ReservationId -> Reservation], NEW k
  PROVE  \A r \in Holding(R, k) :
           [q \in ReservationId |-> AmountOf(R[q].lines, k)][r] \in Nat
<1> SUFFICES ASSUME NEW r \in Holding(R, k)
             PROVE  AmountOf(R[r].lines, k) \in Nat
  BY DEF Holding
<1>1. R[r].lines \in SUBSET ReservedLine /\ k \in ReservedKeys(R[r].lines)
  BY DEF Holding, Reservation
<1> QED BY <1>1, AmountInRange

LEMMA HoldingIsFinite ==
  ASSUME ReservationAssumption, NEW R, NEW k
  PROVE  IsFiniteSet(Holding(R, k))
BY FS_Subset DEF Holding, ReservationAssumption

(* A reservation that becomes active, and no other change: what it holds   *)
(* is added.  Read backwards, one that ceases to be.                       *)
LEMMA HeldGrows ==
  ASSUME BalanceAssumption, ReservationAssumption,
         NEW R \in [ReservationId -> Reservation],
         NEW Q \in [ReservationId -> Reservation],
         NEW r \in ReservationId, \A q \in ReservationId \ {r} : Q[q] = R[q],
         R[r].status # "active", Q[r].status = "active", NEW k
  PROVE  Held(Q, k) = Held(R, k) + IF k \in ReservedKeys(Q[r].lines)
                                     THEN AmountOf(Q[r].lines, k) ELSE 0
<1> DEFINE f == [q \in ReservationId |-> AmountOf(R[q].lines, k)]
           g == [q \in ReservationId |-> AmountOf(Q[q].lines, k)]
<1>1. \A q \in Holding(R, k) : f[q] = g[q]
  BY DEF Holding
<1>2. IsFiniteSet(Holding(R, k)) /\ r \notin Holding(R, k)
  BY HoldingIsFinite DEF Holding
<1>3. \A q \in Holding(Q, k) : g[q] \in Nat
  BY AmountsAreNat
<1> DEFINE A == Holding(R, k)
           B == Holding(Q, k)
<1>4. /\ r \in B <=> k \in ReservedKeys(Q[r].lines)
      /\ B = IF r \in B THEN A \cup {r} ELSE A
  <2>1. B \ {r} = A
    BY DEF Holding
  <2>2. r \in B <=> k \in ReservedKeys(Q[r].lines)
    BY DEF Holding
  <2> HIDE DEF A, B
  <2> QED BY <2>1, <2>2
<1>5. g[r] = AmountOf(Q[r].lines, k)
  OBVIOUS
<1> HIDE DEF f, g, A, B
<1>6. /\ r \in B => Total(g, B) = Total(f, A) + g[r]
      /\ r \notin B => Total(g, B) = Total(f, A)
  <2>1. /\ IsFiniteSet(A) /\ r \notin A
        /\ \A q \in B : g[q] \in Int
        /\ \A q \in A : f[q] = g[q]
    BY <1>1, <1>2, <1>3 DEF A, B
  <2>2. Total(f, A) = Total(g, A)
    BY <2>1, TotalOfSame
  <2>3. ASSUME r \in B PROVE Total(g, A \cup {r}) = Total(g, A) + g[r]
    <3>1. g[r] \in Int /\ \A y \in A : g[y] \in Int
      BY <1>4, <2>1, <2>3
    <3> QED BY <2>1, <3>1, TotalTakesIn
  <2> QED BY <1>4, <2>2, <2>3
<1>7. Total(f, A) \in Int
  <2>1. \A q \in A : f[q] \in Nat
    BY AmountsAreNat DEF A, f
  <2> QED BY <1>2, <2>1, TotalIsInt DEF A
<1> QED BY <1>4, <1>5, <1>6, <1>7 DEF Held, f, g, A, B

LEMMA HeldIsNat ==
  ASSUME BalanceAssumption, ReservationAssumption,
         NEW R \in [ReservationId -> Reservation], NEW k
  PROVE  /\ Held(R, k) \in Nat
         /\ \A r \in Holding(R, k) : Held(R, k) >= AmountOf(R[r].lines, k)
<1> DEFINE f == [r \in ReservationId |-> AmountOf(R[r].lines, k)]
<1>1. \A r \in Holding(R, k) : f[r] \in Nat /\ f[r] = AmountOf(R[r].lines, k)
  BY AmountsAreNat DEF Holding
<1>2. IsFiniteSet(Holding(R, k))
  BY HoldingIsFinite
<1> HIDE DEF f
<1>3. /\ Total(f, Holding(R, k)) \in Nat
      /\ \A r \in Holding(R, k) : Total(f, Holding(R, k)) >= f[r]
  BY <1>1, <1>2, TotalIsNat, TotalIsAtLeast
<1> QED BY <1>1, <1>3 DEF Held, f

-----------------------------------------------------------------------------
(***************************************************************************)
(* Quantities in transit                                                   *)
(***************************************************************************)
KeysOf(record) == {<<record.transit, l.variant>> : l \in record.lines}

AmountIn(record, k) == (CHOOSE l \in record.lines : l.variant = k[2]).quantity

Shipping(T, k) == {t \in TransferId : /\ T[t].status = "shipped"
                                      /\ k \in KeysOf(T[t])}

Shipped(T, k) ==
  Total([t \in TransferId |-> AmountIn(T[t], k)], Shipping(T, k))

LEMMA ShippedIsSum ==
  ASSUME NEW T, NEW k
  PROVE  Sum(LAMBDA t : AmountIn(T[t], k), Shipping(T, k)) = Shipped(T, k)
<1> DEFINE A == Shipping(T, k)
           f == [t \in TransferId |-> AmountIn(T[t], k)]
<1>1. ASSUME NEW s \in SUBSET A, s # {}
      PROVE  f[First(s)] = AmountIn(T[First(s)], k)
  <2>1. First(s) \in TransferId
    BY <1>1, FirstIsIn DEF Shipping
  <2> QED BY <2>1
<1>2. ASSUME NEW h
      PROVE  Adds(h, f, A)
               <=> h = [s \in SUBSET A |->
                          IF s = {} THEN 0
                          ELSE AmountIn(T[First(s)], k) + h[s \ {First(s)}]]
  <2> HIDE DEF A, f
  <2> QED BY <1>1 DEF Adds
<1>3. (CHOOSE h : Adds(h, f, A))
        = CHOOSE h : h = [s \in SUBSET A |->
                            IF s = {} THEN 0
                            ELSE AmountIn(T[First(s)], k) + h[s \ {First(s)}]]
  <2> HIDE DEF A, f
  <2> QED BY <1>2, Zenon
<1>4. Sum(LAMBDA t : AmountIn(T[t], k), A)
        = (CHOOSE h : h = [s \in SUBSET A |->
                            IF s = {} THEN 0
                            ELSE AmountIn(T[First(s)], k) + h[s \ {First(s)}]])[A]
  <2> HIDE DEF A
  <2> QED BY DEF Sum, MapThenSumSet, MapThenFoldSet, First
<1> QED BY <1>3, <1>4 DEF Shipped, Total

LEMMA AmountsInTransitAreNat ==
  ASSUME BalanceAssumption, NEW T \in [TransferId -> Transfer], NEW k
  PROVE  \A t \in Shipping(T, k) :
           [u \in TransferId |-> AmountIn(T[u], k)][t] \in Nat
<1> SUFFICES ASSUME NEW t \in Shipping(T, k)
             PROVE  AmountIn(T[t], k) \in Nat
  BY DEF Shipping
<1>1. T[t].lines \in SUBSET TransferLine /\ k \in KeysOf(T[t])
  BY DEF Shipping, Transfer
<1>2. (CHOOSE l \in T[t].lines : l.variant = k[2]) \in TransferLine
  BY <1>1 DEF KeysOf
<1>3. AmountIn(T[t], k) \in Quantity
  BY <1>2 DEF AmountIn, TransferLine
<1> QED BY <1>3 DEF Quantity, BalanceAssumption

LEMMA ShippingIsFinite ==
  ASSUME TransferAssumption, NEW T, NEW k
  PROVE  IsFiniteSet(Shipping(T, k))
BY FS_Subset DEF Shipping, TransferAssumption

(* Likewise a transfer that becomes shipped, or ceases to be.              *)
LEMMA ShippedGrows ==
  ASSUME BalanceAssumption, TransferAssumption,
         NEW T \in [TransferId -> Transfer],
         NEW U \in [TransferId -> Transfer],
         NEW t \in TransferId, \A u \in TransferId \ {t} : U[u] = T[u],
         T[t].status # "shipped", U[t].status = "shipped", NEW k
  PROVE  Shipped(U, k) = Shipped(T, k) + IF k \in KeysOf(U[t])
                                     THEN AmountIn(U[t], k) ELSE 0
<1> DEFINE f == [u \in TransferId |-> AmountIn(T[u], k)]
           g == [u \in TransferId |-> AmountIn(U[u], k)]
<1>1. \A u \in Shipping(T, k) : f[u] = g[u]
  BY DEF Shipping
<1>2. IsFiniteSet(Shipping(T, k)) /\ t \notin Shipping(T, k)
  BY ShippingIsFinite DEF Shipping
<1>3. \A u \in Shipping(U, k) : g[u] \in Nat
  BY AmountsInTransitAreNat
<1> DEFINE A == Shipping(T, k)
           B == Shipping(U, k)
<1>4. /\ t \in B <=> k \in KeysOf(U[t])
      /\ B = IF t \in B THEN A \cup {t} ELSE A
  <2>1. B \ {t} = A
    BY DEF Shipping
  <2>2. t \in B <=> k \in KeysOf(U[t])
    BY DEF Shipping
  <2> HIDE DEF A, B
  <2> QED BY <2>1, <2>2
<1>5. g[t] = AmountIn(U[t], k)
  OBVIOUS
<1> HIDE DEF f, g, A, B
<1>6. /\ t \in B => Total(g, B) = Total(f, A) + g[t]
      /\ t \notin B => Total(g, B) = Total(f, A)
  <2>1. /\ IsFiniteSet(A) /\ t \notin A
        /\ \A u \in B : g[u] \in Int
        /\ \A u \in A : f[u] = g[u]
    BY <1>1, <1>2, <1>3 DEF A, B
  <2>2. Total(f, A) = Total(g, A)
    BY <2>1, TotalOfSame
  <2>3. ASSUME t \in B PROVE Total(g, A \cup {t}) = Total(g, A) + g[t]
    <3>1. g[t] \in Int /\ \A y \in A : g[y] \in Int
      BY <1>4, <2>1, <2>3
    <3> QED BY <2>1, <3>1, TotalTakesIn
  <2> QED BY <1>4, <2>2, <2>3
<1>7. Total(f, A) \in Int
  <2>1. \A u \in A : f[u] \in Nat
    BY AmountsInTransitAreNat DEF A, f
  <2> QED BY <1>2, <2>1, TotalIsInt DEF A
<1> QED BY <1>4, <1>5, <1>6, <1>7 DEF Shipped, f, g, A, B

LEMMA ShippedIsNat ==
  ASSUME BalanceAssumption, TransferAssumption,
         NEW T \in [TransferId -> Transfer], NEW k
  PROVE  /\ Shipped(T, k) \in Nat
         /\ \A t \in Shipping(T, k) : Shipped(T, k) >= AmountIn(T[t], k)
<1> DEFINE f == [t \in TransferId |-> AmountIn(T[t], k)]
<1>1. \A t \in Shipping(T, k) : f[t] \in Nat /\ f[t] = AmountIn(T[t], k)
  BY AmountsInTransitAreNat DEF Shipping
<1>2. IsFiniteSet(Shipping(T, k))
  BY ShippingIsFinite
<1> HIDE DEF f
<1>3. /\ Total(f, Shipping(T, k)) \in Nat
      /\ \A t \in Shipping(T, k) : Total(f, Shipping(T, k)) >= f[t]
  BY <1>1, <1>2, TotalIsNat, TotalIsAtLeast
<1> QED BY <1>1, <1>3 DEF Shipped, f

LEMMA ShippedIsKept ==
  ASSUME TransferAssumption, NEW T, NEW U, NEW k,
         \A t \in TransferId : \/ U[t] = T[t]
                               \/ "shipped" \notin {T[t].status, U[t].status}
  PROVE  Shipped(U, k) = Shipped(T, k)
<1> DEFINE A == Shipping(T, k)
           f == [t \in TransferId |-> AmountIn(T[t], k)]
           g == [t \in TransferId |-> AmountIn(U[t], k)]
<1>1. Shipping(U, k) = A
  BY DEF Shipping
<1>2. \A t \in A : f[t] = g[t]
  BY DEF Shipping
<1>3. IsFiniteSet(A)
  BY ShippingIsFinite
<1> HIDE DEF A, f, g
<1>4. Total(f, A) = Total(g, A)
  BY <1>2, <1>3, TotalOfSame
<1> QED BY <1>1, <1>4 DEF Shipped, A, f, g

-----------------------------------------------------------------------------
(***************************************************************************)
(* Every step keeps what is reserved and what is in transit in step        *)
(***************************************************************************)
HeldInv == \A k \in Key : balance[k].reserved = Held(reservation, k)

ShippedInv == \A k \in Key : balance[k].inTransit = Shipped(transfer, k)

(* Commands on movements change neither.                                   *)
LEMMA MovementsLeaveThem ==
  ASSUME MovementNext, NEW k \in Key
  PROVE  /\ balance'[k].reserved = balance[k].reserved
         /\ balance'[k].inTransit = balance[k].inTransit
<1>1. ASSUME NEW lines, NEW m, PostOnHand(lines, m)
      PROVE  /\ balance'[k].reserved = balance[k].reserved
             /\ balance'[k].inTransit = balance[k].inTransit
  BY <1>1 DEF PostOnHand, Written
<1>2. \/ \E lines, m : PostOnHand(lines, m)
      \/ UNCHANGED balance
  BY DEF MovementNext, MovementCommand, Create, CreateDraft, Edit, PatchHeader,
         AddLine, PatchLine, DeleteLine, RewriteLines, CancelDraft, Submit, Post,
         Reverse
<1> QED BY <1>1, <1>2

LEMMA TransfersLeaveReserved ==
  ASSUME TransferNext, NEW k \in Key
  PROVE  balance'[k].reserved = balance[k].reserved
<1>1. ASSUME NEW t, NEW expected, NEW m,
             Ship(t, expected, m) \/ Receive(t, expected, m)
      PROVE  balance'[k].reserved = balance[k].reserved
  BY <1>1 DEF Ship, Receive, Written
<1>2. \/ \E t, expected, m : Ship(t, expected, m) \/ Receive(t, expected, m)
      \/ UNCHANGED balance
  BY DEF TransferNext, TransferCommand, CreateTransfer, Approve, Reject,
         CancelTransfer, Transition
<1> QED BY <1>1, <1>2

LEMMA ReservationsLeaveTransit ==
  ASSUME ReservationNext, NEW k \in Key
  PROVE  balance'[k].inTransit = balance[k].inTransit
<1>1. ASSUME NEW r, NEW m, Settle(r, m)
      PROVE  balance'[k].inTransit = balance[k].inTransit
  BY <1>1 DEF Settle, Written
<1>2. ASSUME NEW r, NEW b, NEW lines, NEW e, CreateReservation(r, b, lines, e)
      PROVE  balance'[k].inTransit = balance[k].inTransit
  BY <1>2 DEF CreateReservation, Written
<1>3. \/ \E r, m : Settle(r, m)
      \/ \E r, b, lines, e : CreateReservation(r, b, lines, e)
      \/ UNCHANGED balance
  BY DEF ReservationNext, ReservationCommand, Confirm, GiveBack, Expire, Tick
<1> QED BY <1>1, <1>2, <1>3

LEMMA CreationHolds ==
  ASSUME BalanceAssumption, ReservationAssumption, HeldInv, BalanceInv,
         reservation \in [ReservationId -> Reservation],
         reservation' \in [ReservationId -> Reservation],
         NEW r \in ReservationId, NEW b, NEW lines, NEW e,
         CreateReservation(r, b, lines, e), NEW k \in Key
  PROVE  balance'[k].reserved = Held(reservation', k)
<1> DEFINE R == reservation
           Q == reservation'
<1>1. /\ \A q \in ReservationId \ {r} : Q[q] = R[q]
      /\ R[r].status # "active" /\ Q[r].status = "active" /\ Q[r].lines = lines
  BY DEF CreateReservation
<1>2. balance'[k].reserved =
        IF k \in ReservedKeys(lines) THEN balance[k].reserved + AmountOf(lines, k)
                                     ELSE balance[k].reserved
  BY DEF CreateReservation, Written
<1>3. balance[k].reserved = Held(R, k) /\ balance[k].reserved \in Nat
  BY RowFacts DEF HeldInv
<1> HIDE DEF R, Q
<1>4. R \in [ReservationId -> Reservation] /\ Q \in [ReservationId -> Reservation]
  BY DEF R, Q
<1>5. Held(Q, k) = Held(R, k) + IF k \in ReservedKeys(Q[r].lines)
                                  THEN AmountOf(Q[r].lines, k) ELSE 0
  BY <1>1, <1>4, HeldGrows
<1> QED BY <1>1, <1>2, <1>3, <1>5 DEF R, Q

LEMMA SettlementReleases ==
  ASSUME BalanceAssumption, ReservationAssumption, HeldInv, BalanceInv,
         reservation \in [ReservationId -> Reservation],
         reservation' \in [ReservationId -> Reservation],
         NEW r \in ReservationId, NEW status, NEW m, status # "active",
         reservation[r].status = "active", Settle(r, m), Complete(r, status, m),
         NEW k \in Key
  PROVE  balance'[k].reserved = Held(reservation', k)
<1> DEFINE R == reservation
           Q == reservation'
           lines == R[r].lines
<1>1. /\ \A q \in ReservationId \ {r} : R[q] = Q[q]
      /\ Q[r].status # "active" /\ R[r].status = "active"
  BY DEF Complete, Reservation
<1>2. balance'[k].reserved =
        IF k \in ReservedKeys(lines) THEN balance[k].reserved - AmountOf(lines, k)
                                     ELSE balance[k].reserved
  BY DEF Settle, Written, ReleasedBy
<1>3. balance[k].reserved = Held(R, k) /\ balance[k].reserved \in Nat
  BY RowFacts DEF HeldInv
<1>4. k \in ReservedKeys(lines) => AmountOf(lines, k) \in Nat
  BY AmountInRange DEF Reservation
<1> HIDE DEF R, Q
<1>5. R \in [ReservationId -> Reservation] /\ Q \in [ReservationId -> Reservation]
  BY DEF R, Q
<1>6. Held(R, k) = Held(Q, k) + IF k \in ReservedKeys(R[r].lines)
                                  THEN AmountOf(R[r].lines, k) ELSE 0
  BY <1>1, <1>5, HeldGrows
<1>7. Held(Q, k) \in Nat
  BY <1>5, HeldIsNat
<1> QED BY <1>2, <1>3, <1>4, <1>6, <1>7 DEF Q

LEMMA NextPreservesHeldInv ==
  StockInv /\ HeldInv /\ [Next]_vars => HeldInv'
<1> SUFFICES ASSUME StockInv, HeldInv, [Next]_vars, NEW k \in Key
             PROVE  balance'[k].reserved = Held(reservation', k)
  BY DEF HeldInv, Held, Holding
<1> USE BalanceAssumption, ReservationAssumption
<1>1. /\ BalanceInv /\ reservation \in [ReservationId -> Reservation]
      /\ reservation' \in [ReservationId -> Reservation]
  BY NextPreservesStockInv DEF StockInv, TypeOK, BalanceInv, ReservationTypeOK
<1>2. CASE UNCHANGED reservation
  <2>1. balance'[k].reserved = balance[k].reserved
    <3>1. CASE ReservationNext
      <4>1. ~ \E r \in ReservationId : \E b, lines, e :
                CreateReservation(r, b, lines, e)
        BY <1>1, <1>2 DEF CreateReservation
      <4>2. ASSUME NEW r \in ReservationId, NEW status, NEW m,
                   reservation[r].status = "active", status # "active",
                   Complete(r, status, m)
            PROVE  FALSE
        <5>1. reservation'[r].status = status
          BY <1>1, <4>2 DEF Complete, Reservation
        <5> QED BY <1>2, <4>2, <5>1
      <4> QED BY <3>1, <4>1, <4>2
              DEF ReservationNext, ReservationCommand, Confirm, GiveBack, Expire,
                  VersionAndActive, Tick
    <3> QED BY <3>1, MovementsLeaveThem, TransfersLeaveReserved DEF Next, vars
  <2> QED BY <1>2, <2>1 DEF HeldInv
<1>3. CASE ReservationNext
  <2>1. ASSUME NEW r \in ReservationId, NEW b, NEW lines, NEW e,
               CreateReservation(r, b, lines, e)
        PROVE  balance'[k].reserved = Held(reservation', k)
    BY <1>1, <2>1, CreationHolds
  <2>2. ASSUME NEW r \in ReservationId, NEW status, NEW m, status # "active",
               reservation[r].status = "active", Settle(r, m),
               Complete(r, status, m)
        PROVE  balance'[k].reserved = Held(reservation', k)
    BY <1>1, <2>2, SettlementReleases
  <2>3. CASE Tick
    BY <1>2, <2>3 DEF Tick
  <2> QED BY <1>3, <2>1, <2>2, <2>3
          DEF ReservationNext, ReservationCommand, Confirm, GiveBack, Expire,
              VersionAndActive
<1> QED BY <1>2, <1>3 DEF Next, vars

LEMMA ShipmentTravels ==
  ASSUME BalanceAssumption, TransferAssumption, ShippedInv, BalanceInv,
         RoutesAreDistinct,
         transfer \in [TransferId -> Transfer],
         transfer' \in [TransferId -> Transfer],
         NEW t \in TransferId, NEW expected, NEW m, Ship(t, expected, m),
         NEW k \in Key
  PROVE  balance'[k].inTransit = Shipped(transfer', k)
<1> DEFINE T == transfer
           U == transfer'
<1>1. /\ \A u \in TransferId \ {t} : U[u] = T[u]
      /\ T[t].status # "shipped" /\ U[t].status = "shipped"
      /\ U[t].lines = T[t].lines /\ U[t].transit = T[t].transit
  BY DEF Ship, VersionAndState, Transfer
<1>2. T[t].source # T[t].transit
  BY DEF RoutesAreDistinct, RouteIsDistinct, Ship, VersionAndState
<1>3. balance'[k].inTransit =
        IF k \in KeysOf(T[t]) THEN balance[k].inTransit + AmountIn(T[t], k)
                              ELSE balance[k].inTransit
  BY <1>2 DEF Ship, Written, KeysAt, KeysOf, ShippedAmount, AmountIn
<1>4. balance[k].inTransit = Shipped(T, k) /\ balance[k].inTransit \in Nat
  BY RowFacts DEF ShippedInv
<1>5. KeysOf(U[t]) = KeysOf(T[t]) /\ AmountIn(U[t], k) = AmountIn(T[t], k)
  BY <1>1 DEF KeysOf, AmountIn
<1> HIDE DEF T, U
<1>6. T \in [TransferId -> Transfer] /\ U \in [TransferId -> Transfer]
  BY DEF T, U
<1>7. Shipped(U, k) = Shipped(T, k) + IF k \in KeysOf(U[t])
                                        THEN AmountIn(U[t], k) ELSE 0
  BY <1>1, <1>6, ShippedGrows
<1> QED BY <1>3, <1>4, <1>5, <1>7 DEF U

LEMMA ReceiptArrives ==
  ASSUME BalanceAssumption, TransferAssumption, ShippedInv, BalanceInv,
         transfer \in [TransferId -> Transfer],
         transfer' \in [TransferId -> Transfer],
         NEW t \in TransferId, NEW expected, NEW m, Receive(t, expected, m),
         NEW k \in Key
  PROVE  balance'[k].inTransit = Shipped(transfer', k)
<1> DEFINE T == transfer
           U == transfer'
<1>1. /\ \A u \in TransferId \ {t} : T[u] = U[u]
      /\ U[t].status # "shipped" /\ T[t].status = "shipped"
  BY DEF Receive, VersionAndState, Transfer
<1>2. balance'[k].inTransit =
        IF k \in KeysOf(T[t]) THEN balance[k].inTransit - AmountIn(T[t], k)
                              ELSE balance[k].inTransit
  BY DEF Receive, Written, KeysAt, KeysOf, ShippedAmount, AmountIn
<1>3. balance[k].inTransit = Shipped(T, k) /\ balance[k].inTransit \in Nat
  BY RowFacts DEF ShippedInv
<1>4. k \in KeysOf(T[t]) => AmountIn(T[t], k) \in Nat
  <2>1. k \in KeysAt(t, T[t].transit) => ShippedAmount(t, k) \in Nat
    BY ShippedAmountInRange DEF TransferTypeOK
  <2> QED BY <2>1 DEF KeysAt, KeysOf, ShippedAmount, AmountIn
<1> HIDE DEF T, U
<1>5. T \in [TransferId -> Transfer] /\ U \in [TransferId -> Transfer]
  BY DEF T, U
<1>6. Shipped(T, k) = Shipped(U, k) + IF k \in KeysOf(T[t])
                                        THEN AmountIn(T[t], k) ELSE 0
  BY <1>1, <1>5, ShippedGrows
<1>7. Shipped(U, k) \in Nat
  BY <1>5, ShippedIsNat
<1> QED BY <1>2, <1>3, <1>4, <1>6, <1>7 DEF U

LEMMA NextPreservesShippedInv ==
  StockInv /\ DocumentInv /\ ShippedInv /\ [Next]_vars => ShippedInv'
<1> SUFFICES ASSUME StockInv, DocumentInv, ShippedInv, [Next]_vars, NEW k \in Key
             PROVE  balance'[k].inTransit = Shipped(transfer', k)
  BY DEF ShippedInv, Shipped, Shipping
<1> USE BalanceAssumption, TransferAssumption
<1>1. /\ BalanceInv /\ RoutesAreDistinct
      /\ transfer \in [TransferId -> Transfer]
      /\ transfer' \in [TransferId -> Transfer]
  BY NextPreservesStockInv
     DEF StockInv, TypeOK, BalanceInv, TransferTypeOK, DocumentInv
<1>2. ASSUME balance'[k].inTransit = balance[k].inTransit,
             \A t \in TransferId :
               \/ transfer'[t] = transfer[t]
               \/ "shipped" \notin {transfer[t].status, transfer'[t].status}
      PROVE  balance'[k].inTransit = Shipped(transfer', k)
  <2>1. Shipped(transfer', k) = Shipped(transfer, k)
    BY <1>2, ShippedIsKept
  <2> QED BY <1>2, <2>1 DEF ShippedInv
<1>3. CASE UNCHANGED transfer /\ (MovementNext \/ ReservationNext \/ UNCHANGED balance)
  BY <1>2, <1>3, MovementsLeaveThem, ReservationsLeaveTransit
<1>4. CASE TransferNext
  <2>1. ASSUME NEW t \in TransferId, NEW source, NEW transit, NEW destination,
               NEW lines, CreateTransfer(t, source, transit, destination, lines)
        PROVE  balance'[k].inTransit = Shipped(transfer', k)
    BY <1>1, <1>2, <2>1 DEF CreateTransfer
  <2>2. ASSUME NEW t \in TransferId, NEW expected, NEW from, NEW to,
               "shipped" \notin from, to # "shipped", Transition(t, expected, from, to)
        PROVE  balance'[k].inTransit = Shipped(transfer', k)
    BY <1>1, <1>2, <2>2 DEF Transition, VersionAndState, Transfer
  <2>3. ASSUME NEW t \in TransferId, NEW expected, NEW m,
               Ship(t, expected, m) \/ Receive(t, expected, m)
        PROVE  balance'[k].inTransit = Shipped(transfer', k)
    BY <1>1, <2>3, ShipmentTravels, ReceiptArrives
  <2> QED BY <1>4, <2>1, <2>2, <2>3
          DEF TransferNext, TransferCommand, Approve, Reject, CancelTransfer
<1> QED BY <1>3, <1>4 DEF Next, vars

(* Rows of nothing: an absent row has neither reserved nor travelling      *)
(* stock, for what is not there is written with its first quantity.        *)
LEMMA InitEstablishesSums == Init => HeldInv /\ ShippedInv
<1> SUFFICES ASSUME Init, NEW k \in Key
             PROVE  /\ balance[k].reserved = Held(reservation, k)
                    /\ balance[k].inTransit = Shipped(transfer, k)
  BY DEF HeldInv, ShippedInv
<1>1. balance[k].reserved = 0 /\ balance[k].inTransit = 0
  BY DEF Init, BalanceInit, NoRow
<1>2. Holding(reservation, k) = {} /\ Shipping(transfer, k) = {}
  BY DEF Init, ReservationInit, NoReservation, Holding, TransferInit, NoTransfer,
         Shipping
<1> QED BY <1>1, <1>2, TotalOfEmpty DEF Held, Shipped

(* quantity_reserved is, in every row, the sum of what the active          *)
(* reservations hold of it: no command of any document changes the one     *)
(* without the other.                                                      *)
THEOREM ReservedIsHeld == Spec => []ReservedIsActiveHolds
<1>1. HeldInv => ReservedIsActiveHolds
  BY HeldIsSum DEF HeldInv, ReservedIsActiveHolds, Holding
<1> QED BY <1>1, InitEstablishesSums, InitEstablishesStockInv, NextPreservesStockInv,
           NextPreservesHeldInv, PTL DEF Spec

(* quantity_in_transit is, in every row, the sum of what was shipped and   *)
(* not received.                                                           *)
THEOREM InTransitIsOnItsWay == Spec => []InTransitIsShipped
<1>1. ShippedInv => InTransitIsShipped
  <2>1. ASSUME NEW k \in Key
        PROVE  Sum(LAMBDA t : AmountIn(transfer[t], k), Shipping(transfer, k))
                 = Shipped(transfer, k)
    BY ShippedIsSum
  <2> QED BY <2>1 DEF ShippedInv, InTransitIsShipped, Shipping, KeysAt, KeysOf,
                      ShippedAmount, AmountIn
<1> QED BY <1>1, InitEstablishesSums, InitEstablishesStockInv, NextPreservesStockInv,
           InitEstablishesDocumentInv, NextPreservesDocumentInv,
           NextPreservesShippedInv, PTL DEF Spec

(* A row that was never inserted holds nothing, for whatever changes a row *)
(* leaves it existing.                                                     *)
LEMMA AbsentRowsAreEmpty == Spec => []AbsentRowIsEmpty
<1> DEFINE Changes ==
      \A k \in Key : balance'[k] # balance[k] =>
        /\ balance'[k].version = balance[k].version + 1
        /\ balance'[k].exists
        /\ \/ /\ balance'[k].onHand = balance[k].onHand
              /\ balance'[k].inTransit = balance[k].inTransit
              /\ balance'[k].last = balance[k].last
           \/ /\ balance'[k].last \in MovementId
              /\ movement[balance'[k].last].status # "posted"
              /\ movement'[balance'[k].last].status = "posted"
<1>1. Init => AbsentRowIsEmpty
  BY DEF Init, BalanceInit, AbsentRowIsEmpty
<1>2. AbsentRowIsEmpty /\ [Changes]_vars => AbsentRowIsEmpty'
  BY DEF AbsentRowIsEmpty, vars
<1>3. Spec => [][Changes]_vars
  BY RowChangesTraced DEF RowChangesAreTraced
<1> QED BY <1>1, <1>2, <1>3, PTL DEF Spec

LEMMA HeldStockIsThere ==
  ASSUME StockInv, HeldInv, AbsentRowIsEmpty, NEW r \in ReservationId,
         reservation[r].status = "active",
         NEW k \in ReservedKeys(reservation[r].lines)
  PROVE  /\ balance[k].exists
         /\ balance[k].reserved >= AmountOf(reservation[r].lines, k)
         /\ balance[k].onHand >= AmountOf(reservation[r].lines, k)
<1> USE BalanceAssumption, ReservationAssumption
<1> DEFINE lines == reservation[r].lines
           amount == AmountOf(lines, k)
<1>1. /\ reservation \in [ReservationId -> Reservation]
      /\ lines \in SUBSET ReservedLine /\ BalanceInv
  BY DEF StockInv, TypeOK, ReservationTypeOK, Reservation, BalanceInv
<1>2. k \in Key /\ r \in Holding(reservation, k)
  BY <1>1 DEF ReservedKeys, ReservedKey, ReservedLine, Key, Holding
<1>3. amount \in Nat /\ amount > 0
  <2>1. PICK l \in lines : amount = l.quantity
    BY <1>1, AmountOfLine
  <2>2. l.quantity \in Quantity \ {0}
    BY <1>1, <2>1 DEF ReservedLine
  <2> HIDE DEF amount
  <2> QED BY <2>1, <2>2 DEF Quantity, BalanceAssumption
<1>4. balance[k].reserved >= amount
  BY <1>1, <1>2, HeldIsNat DEF HeldInv
<1>5. /\ balance[k].reserved \in Nat /\ balance[k].onHand \in Nat
      /\ balance[k].reserved <= balance[k].onHand
  BY <1>1, <1>2, RowFacts
<1>6. balance[k].exists
  BY <1>2, <1>3, <1>4 DEF AbsentRowIsEmpty, NoRow
<1> HIDE DEF amount
<1> QED BY <1>3, <1>4, <1>5, <1>6 DEF amount

LEMMA TravellingStockIsThere ==
  ASSUME StockInv, ShippedInv, AbsentRowIsEmpty, NEW t \in TransferId,
         transfer[t].status = "shipped",
         NEW k \in KeysAt(t, transfer[t].transit)
  PROVE  balance[k].exists /\ balance[k].inTransit >= ShippedAmount(t, k)
<1> USE BalanceAssumption, TransferAssumption
<1>1. /\ transfer \in [TransferId -> Transfer]
      /\ transfer[t].lines \in SUBSET TransferLine
  BY DEF StockInv, TypeOK, TransferTypeOK, Transfer
<1>2. k \in Key /\ t \in Shipping(transfer, k)
  BY <1>1 DEF KeysAt, KeysOf, Transfer, TransferLine, Key, Shipping
<1>3. ShippedAmount(t, k) = AmountIn(transfer[t], k)
  BY DEF ShippedAmount, AmountIn
<1>4. AmountIn(transfer[t], k) \in Nat /\ AmountIn(transfer[t], k) > 0
  <2>1. (CHOOSE l \in transfer[t].lines : l.variant = k[2]) \in TransferLine
    BY <1>1 DEF KeysAt
  <2>2. AmountIn(transfer[t], k) \in Quantity \ {0}
    BY <2>1 DEF AmountIn, TransferLine
  <2> QED BY <2>2 DEF Quantity, BalanceAssumption
<1>5. balance[k].inTransit >= AmountIn(transfer[t], k)
  BY <1>1, <1>2, ShippedIsNat DEF ShippedInv
<1>6. balance[k].exists
  BY <1>2, <1>4, <1>5 DEF AbsentRowIsEmpty, NoRow
<1> QED BY <1>3, <1>5, <1>6

(* What an active reservation holds can be taken or given back, and what a *)
(* shipment sent can be received: whatever was posted, reversed, confirmed *)
(* or shipped in between, the rows still have it.                          *)
THEOREM SetAsideStockStays == Spec => []SetAsideStockIsThere
<1>1. StockInv /\ HeldInv /\ ShippedInv /\ AbsentRowIsEmpty => SetAsideStockIsThere
  BY HeldStockIsThere, TravellingStockIsThere DEF SetAsideStockIsThere
<1> QED BY <1>1, AbsentRowsAreEmpty, InitEstablishesSums, InitEstablishesStockInv,
           NextPreservesStockInv, InitEstablishesDocumentInv,
           NextPreservesDocumentInv, NextPreservesHeldInv, NextPreservesShippedInv,
           PTL DEF Spec

-----------------------------------------------------------------------------
(***************************************************************************)
(* The effect of lines                                                     *)
(***************************************************************************)
LEMMA LinesAreFinite ==
  ASSUME BalanceAssumption
  PROVE  IsFiniteSet(Line)
<1> DEFINE Ends == Location \cup {NoLocation}
           Codes == (Variant \X Ends) \X (Ends \X Quantity)
           code == [l \in Line |-> <<<<l.variant, l.source>>,
                                     <<l.destination, l.quantity>>>>]
<1>1. IsFiniteSet(Ends) /\ IsFiniteSet(Quantity) /\ IsFiniteSet(Variant)
  <2>1. IsFiniteSet(Ends)
    BY FS_AddElement DEF BalanceAssumption
  <2>2. IsFiniteSet(Quantity)
    BY FS_Interval DEF BalanceAssumption, Quantity
  <2> QED BY <2>1, <2>2 DEF BalanceAssumption
<1>2. IsFiniteSet(Codes)
  <2> HIDE DEF Ends
  <2>1. IsFiniteSet(Variant \X Ends) /\ IsFiniteSet(Ends \X Quantity)
    BY <1>1, FS_Product
  <2> QED BY <2>1, FS_Product
<1>3. code \in Injection(Line, Codes)
  <2>1. code \in [Line -> Codes]
    BY DEF Line
  <2>2. ASSUME NEW l1 \in Line, NEW l2 \in Line, code[l1] = code[l2]
        PROVE  l1 = l2
    BY <2>2 DEF Line
  <2> HIDE DEF code, Codes
  <2> QED BY <2>1, <2>2 DEF Injection, IsInjective
<1> HIDE DEF code, Codes
<1> QED BY <1>2, <1>3, FS_Injection

Into(lines, k) == {l \in lines : DestinationKey(l) = k}
OutOf(lines, k) == {l \in lines : SourceKey(l) = k}

QuantityOf == [l \in Line |-> l.quantity]

LEMMA QuantitiesAreInt ==
  ASSUME BalanceAssumption, NEW lines \in SUBSET Line
  PROVE  /\ IsFiniteSet(lines)
         /\ \A l \in lines : QuantityOf[l] = l.quantity /\ QuantityOf[l] \in Int
<1>1. \A l \in lines : l.quantity \in Quantity
  BY DEF Line
<1>2. \A l \in lines : l.quantity \in Int
  BY <1>1, BalanceAssumption DEF Quantity, BalanceAssumption
<1> QED BY <1>2, LinesAreFinite, FS_Subset DEF QuantityOf

LEMMA QuantitySum ==
  ASSUME NEW A \in SUBSET Line
  PROVE  MapThenSumSet(LAMBDA l : l.quantity, A) = Total(QuantityOf, A)
<1>1. ASSUME NEW s \in SUBSET A, s # {}
      PROVE  QuantityOf[First(s)] = First(s).quantity
  BY <1>1, FirstIsIn DEF QuantityOf
<1>2. ASSUME NEW h
      PROVE  Adds(h, QuantityOf, A)
               <=> h = [s \in SUBSET A |->
                          IF s = {} THEN 0
                          ELSE First(s).quantity + h[s \ {First(s)}]]
  BY <1>1 DEF Adds
<1>3. (CHOOSE h : Adds(h, QuantityOf, A))
        = CHOOSE h : h = [s \in SUBSET A |->
                            IF s = {} THEN 0
                            ELSE First(s).quantity + h[s \ {First(s)}]]
  BY <1>2, Zenon
<1>4. MapThenSumSet(LAMBDA l : l.quantity, A)
        = (CHOOSE h : h = [s \in SUBSET A |->
                            IF s = {} THEN 0
                            ELSE First(s).quantity + h[s \ {First(s)}]])[A]
  BY DEF MapThenSumSet, MapThenFoldSet, First
<1> QED BY <1>3, <1>4 DEF Total

LEMMA DeltaIsTotals ==
  ASSUME BalanceAssumption, NEW lines \in SUBSET Line, NEW k
  PROVE  /\ Delta(lines, k) = Total(QuantityOf, Into(lines, k))
                                - Total(QuantityOf, OutOf(lines, k))
         /\ Total(QuantityOf, Into(lines, k)) \in Int
         /\ Total(QuantityOf, OutOf(lines, k)) \in Int
<1>1. Into(lines, k) \in SUBSET Line /\ OutOf(lines, k) \in SUBSET Line
  BY DEF Into, OutOf
<1>2. /\ Total(QuantityOf, Into(lines, k)) \in Int
      /\ Total(QuantityOf, OutOf(lines, k)) \in Int
  BY <1>1, QuantitiesAreInt, TotalIsInt
<1>3. /\ MapThenSumSet(LAMBDA l : l.quantity, Into(lines, k))
           = Total(QuantityOf, Into(lines, k))
      /\ MapThenSumSet(LAMBDA l : l.quantity, OutOf(lines, k))
           = Total(QuantityOf, OutOf(lines, k))
  BY <1>1, QuantitySum
<1> QED BY <1>2, <1>3 DEF Delta, Into, OutOf

LEMMA DeltaElsewhere ==
  ASSUME BalanceAssumption, NEW lines \in SUBSET Line, NEW k,
         k \notin TouchedKeys(lines)
  PROVE  Delta(lines, k) = 0
<1>1. Into(lines, k) = {} /\ OutOf(lines, k) = {}
  BY DEF Into, OutOf, TouchedKeys
<1>2. Total(QuantityOf, {}) = 0
  BY TotalOfEmpty
<1>3. Delta(lines, k) = Total(QuantityOf, {}) - Total(QuantityOf, {})
  BY <1>1, DeltaIsTotals
<1> QED BY <1>2, <1>3

LEMMA SwappedTwice ==
  ASSUME NEW l \in Line PROVE Swapped(Swapped(l)) = l
BY DEF Swapped, Line

(* Exchanging the ends of lines undoes their effect.                       *)
LEMMA DeltaOfSwapped ==
  ASSUME BalanceAssumption, NEW lines \in SUBSET Line, NEW k
  PROVE  Delta({Swapped(l) : l \in lines}, k) = 0 - Delta(lines, k)
<1> DEFINE swapped == {Swapped(l) : l \in lines}
           swap == [l \in Line |-> Swapped(l)]
<1>1. swapped \in SUBSET Line
  BY SwappedIsLine
<1>2. ASSUME NEW l \in Line
      PROVE  /\ SourceKey(Swapped(l)) = DestinationKey(l)
             /\ DestinationKey(Swapped(l)) = SourceKey(l)
             /\ QuantityOf[Swapped(l)] = QuantityOf[l]
  <2>1. /\ Swapped(l).source = l.destination
        /\ Swapped(l).destination = l.source
        /\ Swapped(l).variant = l.variant /\ Swapped(l).quantity = l.quantity
    BY DEF Swapped, Line
  <2> QED BY <2>1, SwappedIsLine DEF SourceKey, DestinationKey, QuantityOf
<1>3. ASSUME NEW l1 \in Line, NEW l2 \in Line, Swapped(l1) = Swapped(l2)
      PROVE  l1 = l2
  <2>1. Swapped(Swapped(l1)) = l1 /\ Swapped(Swapped(l2)) = l2
    BY SwappedTwice
  <2> QED BY <1>3, <2>1
<1>4. ASSUME NEW A \in SUBSET lines
      PROVE  Total(QuantityOf, {Swapped(l) : l \in A}) = Total(QuantityOf, A)
  <2>1. /\ IsFiniteSet(A)
        /\ \A l \in A : QuantityOf[l] \in Int /\ QuantityOf[swap[l]] = QuantityOf[l]
        /\ \A l1, l2 \in A : swap[l1] = swap[l2] => l1 = l2
    BY <1>2, <1>3, QuantitiesAreInt
  <2>2. {Swapped(l) : l \in A} = {swap[l] : l \in A}
    OBVIOUS
  <2> HIDE DEF swap
  <2>3. Total(QuantityOf, {swap[l] : l \in A}) = Total(QuantityOf, A)
    BY <2>1, TotalOfImage
  <2> QED BY <2>2, <2>3
<1>5. /\ Into(swapped, k) = {Swapped(l) : l \in OutOf(lines, k)}
      /\ OutOf(swapped, k) = {Swapped(l) : l \in Into(lines, k)}
  BY <1>2 DEF Into, OutOf
<1>6. Into(lines, k) \in SUBSET lines /\ OutOf(lines, k) \in SUBSET lines
  BY DEF Into, OutOf
<1> HIDE DEF swapped
<1>7. /\ Total(QuantityOf, Into(swapped, k)) = Total(QuantityOf, OutOf(lines, k))
      /\ Total(QuantityOf, OutOf(swapped, k)) = Total(QuantityOf, Into(lines, k))
  BY <1>4, <1>5, <1>6
<1>8. Delta(swapped, k) = 0 - Delta(lines, k)
  BY <1>1, <1>7, DeltaIsTotals
<1> QED BY <1>8 DEF swapped

(* Lines of which just one leaves a key, or just one enters it.            *)
LEMMA DeltaOfLeaving ==
  ASSUME BalanceAssumption, NEW lines \in SUBSET Line, NEW k, NEW l \in lines,
         SourceKey(l) = k, \A other \in lines : SourceKey(other) = k => other = l,
         \A other \in lines : DestinationKey(other) # k
  PROVE  Delta(lines, k) = 0 - l.quantity
<1>1. Into(lines, k) = {} /\ OutOf(lines, k) = {l}
  BY DEF Into, OutOf
<1>2. QuantityOf[l] = l.quantity /\ QuantityOf[l] \in Int
  BY QuantitiesAreInt
<1>3. Total(QuantityOf, {}) = 0 /\ Total(QuantityOf, {l}) = l.quantity
  BY <1>2, TotalOfEmpty, TotalOfOne
<1> QED BY <1>1, <1>2, <1>3, DeltaIsTotals

LEMMA DeltaOfEntering ==
  ASSUME BalanceAssumption, NEW lines \in SUBSET Line, NEW k, NEW l \in lines,
         DestinationKey(l) = k,
         \A other \in lines : DestinationKey(other) = k => other = l,
         \A other \in lines : SourceKey(other) # k
  PROVE  Delta(lines, k) = l.quantity
<1>1. OutOf(lines, k) = {} /\ Into(lines, k) = {l}
  BY DEF Into, OutOf
<1>2. QuantityOf[l] = l.quantity /\ QuantityOf[l] \in Int
  BY QuantitiesAreInt
<1>3. Total(QuantityOf, {}) = 0 /\ Total(QuantityOf, {l}) = l.quantity
  BY <1>2, TotalOfEmpty, TotalOfOne
<1>4. Delta(lines, k) = l.quantity - 0
  BY <1>1, <1>3, DeltaIsTotals
<1> QED BY <1>2, <1>4

LEMMA DeltaOfIssue ==
  ASSUME BalanceAssumption, ReservationTypeOK, HoldsAreDistinct,
         NEW r \in ReservationId, NEW k \in Key
  PROVE  Delta(IssueLines(r), k) =
           IF k \in ReservedKeys(reservation[r].lines)
             THEN 0 - AmountOf(reservation[r].lines, k) ELSE 0
<1> DEFINE lines == reservation[r].lines
           issue(l) == [variant |-> l.variant, source |-> l.location,
                        destination |-> NoLocation, quantity |-> l.quantity]
<1>1. lines \in SUBSET ReservedLine /\ LinesUnique(lines)
  BY DEF ReservationTypeOK, Reservation, HoldsAreDistinct
<1>2. IssueLines(r) = {issue(l) : l \in lines}
  BY DEF IssueLines
<1>3. ASSUME NEW l \in lines
      PROVE  /\ issue(l) \in Line /\ SourceKey(issue(l)) = ReservedKey(l)
             /\ DestinationKey(issue(l)) # k /\ issue(l).quantity = l.quantity
  <2>1. l \in ReservedLine
    BY <1>1
  <2>2. issue(l) \in Line
    BY <2>1 DEF ReservedLine, Line
  <2> QED BY <2>2 DEF SourceKey, DestinationKey, ReservedKey, Key, BalanceAssumption
<1> HIDE DEF issue
<1>4. IssueLines(r) \in SUBSET Line
  BY <1>2, <1>3
<1>5. CASE k \in ReservedKeys(lines)
  <2>1. PICK l \in lines : ReservedKey(l) = k /\ AmountOf(lines, k) = l.quantity
    BY <1>1, <1>5, AmountOfLine
  <2>2. /\ issue(l) \in IssueLines(r) /\ SourceKey(issue(l)) = k
        /\ \A other \in IssueLines(r) : SourceKey(other) = k => other = issue(l)
        /\ \A other \in IssueLines(r) : DestinationKey(other) # k
    <3> HIDE DEF lines
    <3> QED BY <1>1, <1>2, <1>3, <2>1 DEF LinesUnique
  <2>3. Delta(IssueLines(r), k) = 0 - issue(l).quantity
    BY <1>4, <2>2, DeltaOfLeaving
  <2> QED BY <1>3, <1>5, <2>1, <2>3
<1>6. CASE k \notin ReservedKeys(lines)
  <2>1. k \notin TouchedKeys(IssueLines(r))
    BY <1>2, <1>3, <1>6 DEF TouchedKeys, ReservedKeys
  <2> QED BY <1>4, <1>6, <2>1, DeltaElsewhere
<1> QED BY <1>5, <1>6

(* A movement that only takes a transfer's quantities from a location, or  *)
(* only brings them there.                                                 *)
LEMMA DeltaOfTransfer ==
  ASSUME BalanceAssumption, TransferTypeOK, RoutesAreDistinct,
         NEW t \in TransferId, transfer[t].status # "none",
         NEW at \in Location, NEW k \in Key
  PROVE  /\ Delta(TransferMovementLines(t, at, NoLocation), k) =
              IF k \in KeysAt(t, at) THEN 0 - ShippedAmount(t, k) ELSE 0
         /\ Delta(TransferMovementLines(t, NoLocation, at), k) =
              IF k \in KeysAt(t, at) THEN ShippedAmount(t, k) ELSE 0
<1> DEFINE lines == transfer[t].lines
           moved(l, from, to) == [variant |-> l.variant, source |-> from,
                                  destination |-> to, quantity |-> l.quantity]
           Leaving == TransferMovementLines(t, at, NoLocation)
           Entering == TransferMovementLines(t, NoLocation, at)
<1>1. /\ lines \in SUBSET TransferLine
      /\ \A l1, l2 \in lines : l1.variant = l2.variant => l1 = l2
  BY DEF TransferTypeOK, Transfer, RoutesAreDistinct, RouteIsDistinct
<1>2. /\ Leaving = {moved(l, at, NoLocation) : l \in lines}
      /\ Entering = {moved(l, NoLocation, at) : l \in lines}
  BY DEF TransferMovementLines
<1>3. ASSUME NEW l \in lines
      PROVE  /\ moved(l, at, NoLocation) \in Line
             /\ moved(l, NoLocation, at) \in Line
             /\ SourceKey(moved(l, at, NoLocation)) = <<at, l.variant>>
             /\ DestinationKey(moved(l, NoLocation, at)) = <<at, l.variant>>
             /\ DestinationKey(moved(l, at, NoLocation)) # k
             /\ SourceKey(moved(l, NoLocation, at)) # k
             /\ moved(l, at, NoLocation).quantity = l.quantity
             /\ moved(l, NoLocation, at).quantity = l.quantity
  <2>1. l \in TransferLine
    BY <1>1
  <2>2. moved(l, at, NoLocation) \in Line /\ moved(l, NoLocation, at) \in Line
    BY <2>1 DEF TransferLine, Line
  <2> QED BY <2>2 DEF SourceKey, DestinationKey, Key, BalanceAssumption
<1> HIDE DEF moved
<1>4. Leaving \in SUBSET Line /\ Entering \in SUBSET Line
  BY <1>2, <1>3
<1> HIDE DEF Leaving, Entering
<1>5. CASE k \in KeysAt(t, at)
  <2> DEFINE l == CHOOSE l \in lines : l.variant = k[2]
  <2>1. l \in lines /\ l.variant = k[2] /\ k = <<at, l.variant>>
    BY <1>5 DEF KeysAt
  <2>2. ShippedAmount(t, k) = l.quantity
    BY DEF ShippedAmount
  <2> HIDE DEF l
  <2>3. \A other \in lines : <<at, other.variant>> = k => other = l
    BY <1>1, <2>1
  <2> HIDE DEF lines
  <2>4. Delta(Leaving, k) = 0 - l.quantity
    <3>1. /\ moved(l, at, NoLocation) \in Leaving
          /\ SourceKey(moved(l, at, NoLocation)) = k
          /\ \A other \in Leaving : SourceKey(other) = k => other = moved(l, at, NoLocation)
          /\ \A other \in Leaving : DestinationKey(other) # k
      BY <1>2, <1>3, <2>1, <2>3
    <3> QED BY <1>3, <1>4, <2>1, <3>1, DeltaOfLeaving
  <2>5. Delta(Entering, k) = l.quantity
    <3>1. /\ moved(l, NoLocation, at) \in Entering
          /\ DestinationKey(moved(l, NoLocation, at)) = k
          /\ \A other \in Entering :
               DestinationKey(other) = k => other = moved(l, NoLocation, at)
          /\ \A other \in Entering : SourceKey(other) # k
      BY <1>2, <1>3, <2>1, <2>3
    <3> QED BY <1>3, <1>4, <2>1, <3>1, DeltaOfEntering
  <2> QED BY <1>5, <2>2, <2>4, <2>5 DEF Leaving, Entering
<1>6. CASE k \notin KeysAt(t, at)
  <2>1. \A l \in lines : <<at, l.variant>> # k
    BY <1>6 DEF KeysAt
  <2> HIDE DEF lines
  <2>2. k \notin TouchedKeys(Leaving) /\ k \notin TouchedKeys(Entering)
    BY <1>2, <1>3, <2>1 DEF TouchedKeys
  <2> QED BY <1>4, <1>6, <2>2, DeltaElsewhere DEF Leaving, Entering
<1> QED BY <1>5, <1>6

-----------------------------------------------------------------------------
(***************************************************************************)
(* Quantities on hand                                                      *)
(***************************************************************************)
Standing(M) == {m \in MovementId : /\ M[m].status = "posted"
                                   /\ M[m].type # "reversal"}

Effect(record) ==
  CASE record.type = "transfer_shipment" ->
         {[l EXCEPT !.destination = NoLocation] : l \in record.lines}
    [] record.type = "transfer_receipt" ->
         {[l EXCEPT !.source = NoLocation] : l \in record.lines}
    [] OTHER -> record.lines

Stood(M, k) ==
  Total([m \in MovementId |-> Delta(Effect(M[m]), k)], Standing(M))

LEMMA StandingIsStood ==
  ASSUME NEW k PROVE StandingDelta(k) = Stood(movement, k)
<1> DEFINE A == Standing(movement)
           amount(m) == Delta(Effect(movement[m]), k)
           f == [m \in MovementId |-> amount(m)]
<1>1. ASSUME NEW s \in SUBSET A, s # {}
      PROVE  f[First(s)] = amount(First(s))
  <2>1. First(s) \in MovementId
    BY <1>1, FirstIsIn DEF Standing
  <2> HIDE DEF amount
  <2> QED BY <2>1
<1>2. ASSUME NEW h
      PROVE  Adds(h, f, A)
               <=> h = [s \in SUBSET A |->
                          IF s = {} THEN 0 ELSE amount(First(s)) + h[s \ {First(s)}]]
  <2> HIDE DEF A, f, amount
  <2> QED BY <1>1 DEF Adds
<1>3. (CHOOSE h : Adds(h, f, A))
        = CHOOSE h : h = [s \in SUBSET A |->
                            IF s = {} THEN 0
                            ELSE amount(First(s)) + h[s \ {First(s)}]]
  <2> HIDE DEF A, f, amount
  <2> QED BY <1>2, Zenon
<1>4. StandingDelta(k) = Sum(LAMBDA m : Delta(Effect(movement[m]), k), A)
  BY Zenon DEF StandingDelta, Standing, Effect
<1>5. Sum(LAMBDA m : Delta(Effect(movement[m]), k), A)
        = (CHOOSE h : h = [s \in SUBSET A |->
                            IF s = {} THEN 0
                            ELSE amount(First(s)) + h[s \ {First(s)}]])[A]
  <2> HIDE DEF A
  <2> QED BY DEF Sum, MapThenSumSet, MapThenFoldSet, First
<1> QED BY <1>3, <1>4, <1>5 DEF Stood, Total

LEMMA EffectIsInt ==
  ASSUME BalanceAssumption, NEW record \in Movement, NEW k
  PROVE  Delta(Effect(record), k) \in Int
<1>1. record.lines \in SUBSET Line
  BY DEF Movement
<1>2. Effect(record) \in SUBSET Line
  BY <1>1 DEF Effect, Line
<1> QED BY <1>2, DeltaIsTotals

(* A movement that comes to stand: its effect is added.  Read backwards,   *)
(* one that was reversed.                                                  *)
LEMMA StoodGrows ==
  ASSUME BalanceAssumption, NEW M \in [MovementId -> Movement],
         NEW N \in [MovementId -> Movement], NEW m \in MovementId,
         \A n \in MovementId \ {m} :
           N[n] = M[n] \/ (n \notin Standing(M) /\ n \notin Standing(N)),
         m \notin Standing(M), m \in Standing(N), NEW k
  PROVE  /\ Stood(N, k) = Stood(M, k) + Delta(Effect(N[m]), k)
         /\ Stood(M, k) \in Int /\ Delta(Effect(N[m]), k) \in Int
<1> DEFINE f == [n \in MovementId |-> Delta(Effect(M[n]), k)]
           g == [n \in MovementId |-> Delta(Effect(N[n]), k)]
           A == Standing(M)
<1>1. Standing(N) = A \cup {m}
  BY DEF Standing
<1>2. IsFiniteSet(A) /\ m \notin A
  BY FS_Subset DEF Standing, BalanceAssumption
<1>3. \A n \in A : f[n] = g[n]
  <2>1. \A n \in A : n \in MovementId /\ N[n] = M[n]
    BY DEF Standing
  <2> QED BY <2>1
<1>4. \A n \in MovementId : f[n] \in Int /\ g[n] \in Int
  BY EffectIsInt
<1>5. A \subseteq MovementId /\ g[m] = Delta(Effect(N[m]), k)
  BY DEF Standing
<1> HIDE DEF f, g, A
<1>6. Total(g, A \cup {m}) = Total(g, A) + g[m] /\ Total(f, A) \in Int
  BY <1>2, <1>4, <1>5, TotalTakesIn, TotalIsInt
<1>7. Total(f, A) = Total(g, A)
  BY <1>2, <1>3, TotalOfSame
<1> QED BY <1>1, <1>4, <1>5, <1>6, <1>7 DEF Stood, f, g, A

LEMMA StoodIsKept ==
  ASSUME BalanceAssumption, NEW M, NEW N, NEW k,
         \A n \in MovementId :
           N[n] = M[n] \/ (n \notin Standing(M) /\ n \notin Standing(N))
  PROVE  Stood(N, k) = Stood(M, k)
<1> DEFINE f == [n \in MovementId |-> Delta(Effect(M[n]), k)]
           g == [n \in MovementId |-> Delta(Effect(N[n]), k)]
           A == Standing(M)
<1>1. Standing(N) = A
  BY DEF Standing
<1>2. IsFiniteSet(A)
  BY FS_Subset DEF Standing, BalanceAssumption
<1>3. \A n \in A : f[n] = g[n]
  <2>1. \A n \in A : n \in MovementId /\ N[n] = M[n]
    BY DEF Standing
  <2> QED BY <2>1
<1> HIDE DEF f, g, A
<1>4. Total(f, A) = Total(g, A)
  BY <1>2, <1>3, TotalOfSame
<1> QED BY <1>1, <1>4 DEF Stood, f, g, A

OnHandInv == \A k \in Key : balance[k].onHand = Stood(movement, k)

(* Commands that post nothing: nothing stands before or after.             *)
LEMMA DraftsStandNowhere ==
  ASSUME BalanceAssumption, OnHandInv, UNCHANGED balance, NEW m \in MovementId,
         Advances(m), movement'[m].status # "posted", NEW k \in Key
  PROVE  balance'[k].onHand = Stood(movement', k)
<1>1. \A n \in MovementId :
        \/ movement'[n] = movement[n]
        \/ n \notin Standing(movement) /\ n \notin Standing(movement')
  BY DEF Advances, Standing
<1> DEFINE M == movement
           N == movement'
<1> HIDE DEF M, N
<1>2. Stood(N, k) = Stood(M, k)
  BY <1>1, StoodIsKept DEF M, N
<1> QED BY <1>2 DEF M, N, OnHandInv

LEMMA PostingStands ==
  ASSUME BalanceAssumption, OnHandInv, ManualUntilPosted, BalanceInv,
         movement \in [MovementId -> Movement],
         movement' \in [MovementId -> Movement],
         NEW m \in MovementId, NEW expected, Post(m, expected), NEW k \in Key
  PROVE  balance'[k].onHand = Stood(movement', k)
<1> DEFINE M == movement
           N == movement'
           lines == M[m].lines
<1>1. /\ \A n \in MovementId \ {m} : N[n] = M[n]
      /\ M[m].type \in DraftType /\ M[m].status = "pending"
      /\ N[m].type = M[m].type /\ N[m].lines = lines /\ N[m].status = "posted"
  BY DEF Post, ManualUntilPosted, Movement
<1>2. m \notin Standing(M) /\ m \in Standing(N)
  BY <1>1 DEF Standing, DraftType
<1>3. Effect(N[m]) = lines
  BY <1>1 DEF Effect, DraftType
<1>4. balance'[k].onHand = IF k \in TouchedKeys(lines)
                             THEN balance[k].onHand + Delta(lines, k)
                             ELSE balance[k].onHand
  BY DEF Post, PostOnHand, Written
<1>5. k \notin TouchedKeys(lines) => Delta(lines, k) = 0
  <2>1. lines \in SUBSET Line
    BY DEF Movement
  <2> QED BY <2>1, DeltaElsewhere
<1>6. balance[k].onHand = Stood(M, k) /\ balance[k].onHand \in Nat
  BY RowFacts DEF OnHandInv
<1>7. M \in [MovementId -> Movement] /\ N \in [MovementId -> Movement]
  OBVIOUS
<1> HIDE DEF M, N
<1>8. Stood(N, k) = Stood(M, k) + Delta(Effect(N[m]), k)
  BY <1>1, <1>2, <1>7, StoodGrows
<1> QED BY <1>3, <1>4, <1>5, <1>6, <1>8 DEF N

(* The original ceases to stand, and its reversal never does.              *)
LEMMA ReversalUndoes ==
  ASSUME BalanceAssumption, OnHandInv, BalanceInv,
         movement \in [MovementId -> Movement],
         movement' \in [MovementId -> Movement],
         NEW m \in MovementId, NEW expected, NEW r \in MovementId \ {m},
         Reverse(m, expected, r), NEW k \in Key
  PROVE  balance'[k].onHand = Stood(movement', k)
<1> DEFINE M == movement
           N == movement'
           lines == M[m].lines
<1>1. /\ \A n \in MovementId \ {m, r} : N[n] = M[n]
      /\ M[m].type \in DraftType /\ M[m].status = "posted"
      /\ M[r].status = "none" /\ N[m].status = "reversed"
  BY DEF Reverse, Reversible, Movement
<1>2. N[r].type = "reversal"
  BY DEF Reverse, PostedMovement
<1>3. m \notin Standing(N) /\ m \in Standing(M)
  BY <1>1 DEF Standing, DraftType
<1>4. \A n \in MovementId \ {m} :
        M[n] = N[n] \/ (n \notin Standing(N) /\ n \notin Standing(M))
  BY <1>1, <1>2 DEF Standing
<1>5. Effect(M[m]) = lines
  BY <1>1 DEF Effect, DraftType
<1>6. /\ InverseLines(m) = {Swapped(l) : l \in lines}
      /\ lines \in SUBSET Line /\ InverseLines(m) \in SUBSET Line
  BY SwappedIsLine DEF InverseLines, Movement
<1>7. balance'[k].onHand = IF k \in TouchedKeys(InverseLines(m))
                             THEN balance[k].onHand + Delta(InverseLines(m), k)
                             ELSE balance[k].onHand
  BY DEF Reverse, PostOnHand, Written
<1>8. k \notin TouchedKeys(InverseLines(m)) => Delta(InverseLines(m), k) = 0
  BY <1>6, DeltaElsewhere
<1>9. Delta(InverseLines(m), k) = 0 - Delta(lines, k)
  BY <1>6, DeltaOfSwapped
<1>10. balance[k].onHand = Stood(M, k) /\ balance[k].onHand \in Nat
  BY RowFacts DEF OnHandInv
<1>11. M \in [MovementId -> Movement] /\ N \in [MovementId -> Movement]
  OBVIOUS
<1> HIDE DEF M, N
<1>12. /\ Stood(M, k) = Stood(N, k) + Delta(Effect(M[m]), k)
       /\ Stood(N, k) \in Int /\ Delta(Effect(M[m]), k) \in Int
  BY <1>3, <1>4, <1>11, StoodGrows
<1> HIDE DEF lines
<1> QED BY <1>5, <1>7, <1>8, <1>9, <1>10, <1>12 DEF N

(* A movement inserted as posted stands at once.                           *)
LEMMA InsertionStands ==
  ASSUME BalanceAssumption, OnHandInv,
         movement \in [MovementId -> Movement],
         movement' \in [MovementId -> Movement],
         NEW m \in MovementId, NEW posted, NEW k \in Key,
         movement[m].status = "none",
         posted.status = "posted", posted.type # "reversal",
         movement'[m] = posted,
         \A n \in MovementId \ {m} : movement'[n] = movement[n],
         balance'[k].onHand = balance[k].onHand + Delta(Effect(posted), k)
  PROVE  balance'[k].onHand = Stood(movement', k)
<1> DEFINE M == movement
           N == movement'
<1>1. /\ \A n \in MovementId \ {m} : N[n] = M[n]
      /\ N[m] = posted
  OBVIOUS
<1>2. m \notin Standing(M) /\ m \in Standing(N)
  BY <1>1 DEF Standing
<1>3. balance[k].onHand = Stood(M, k)
  BY DEF OnHandInv
<1>4. M \in [MovementId -> Movement] /\ N \in [MovementId -> Movement]
  OBVIOUS
<1>5. balance'[k].onHand = balance[k].onHand + Delta(Effect(posted), k)
  OBVIOUS
<1> HIDE DEF M, N
<1>6. Stood(N, k) = Stood(M, k) + Delta(Effect(N[m]), k)
  <2>1. \A n \in MovementId \ {m} :
          N[n] = M[n] \/ (n \notin Standing(M) /\ n \notin Standing(N))
    BY <1>1
  <2> QED BY <1>2, <1>4, <2>1, StoodGrows
<1> QED BY <1>1, <1>3, <1>5, <1>6 DEF N

LEMMA ConfirmationStands ==
  ASSUME BalanceAssumption, OnHandInv, BalanceInv, ReservationTypeOK,
         HoldsAreDistinct,
         movement \in [MovementId -> Movement],
         movement' \in [MovementId -> Movement],
         NEW r \in ReservationId, NEW expected, NEW m \in MovementId,
         Confirm(r, expected, m), NEW k \in Key
  PROVE  balance'[k].onHand = Stood(movement', k)
<1> DEFINE lines == reservation[r].lines
           posted == PostedMovement("issue", reservation[r].branch, IssueLines(r),
                                    NoMovement)
<1>0. /\ posted.type = "issue" /\ posted.status = "posted"
      /\ posted.lines = IssueLines(r)
  BY DEF PostedMovement
<1>1. Effect(posted) = IssueLines(r)
  <2> HIDE DEF posted
  <2> QED BY <1>0 DEF Effect
<1>2. balance'[k].onHand =
        IF k \in ReservedKeys(lines) THEN balance[k].onHand - AmountOf(lines, k)
                                     ELSE balance[k].onHand
  BY DEF Confirm, Settle, Written, ConsumedBy, BalanceAssumption
<1>3. Delta(IssueLines(r), k) =
        IF k \in ReservedKeys(lines) THEN 0 - AmountOf(lines, k) ELSE 0
  BY DeltaOfIssue
<1>4. k \in ReservedKeys(lines) => AmountOf(lines, k) \in Nat
  BY AmountInRange DEF ReservationTypeOK, Reservation
<1>5. balance[k].onHand \in Nat
  BY RowFacts
<1> HIDE DEF lines
<1>6. balance'[k].onHand = balance[k].onHand + Delta(Effect(posted), k)
  BY <1>1, <1>2, <1>3, <1>4, <1>5
<1>7. /\ movement[m].status = "none" /\ movement'[m] = posted
      /\ \A n \in MovementId \ {m} : movement'[n] = movement[n]
  BY DEF Confirm
<1> HIDE DEF posted
<1> QED BY <1>0, <1>6, <1>7, InsertionStands

LEMMA MovedAlong ==
  ASSUME NEW t, NEW from, NEW to
  PROVE  /\ {[l EXCEPT !.destination = NoLocation] :
               l \in TransferMovementLines(t, from, to)}
              = TransferMovementLines(t, from, NoLocation)
         /\ {[l EXCEPT !.source = NoLocation] :
               l \in TransferMovementLines(t, from, to)}
              = TransferMovementLines(t, NoLocation, to)
<1> DEFINE moved(l, a, b) == [variant |-> l.variant, source |-> a,
                              destination |-> b, quantity |-> l.quantity]
           lines == transfer[t].lines
<1>1. \A a, b : TransferMovementLines(t, a, b) = {moved(l, a, b) : l \in lines}
  BY DEF TransferMovementLines
<1>2. \A l \in lines :
        /\ [moved(l, from, to) EXCEPT !.destination = NoLocation]
             = moved(l, from, NoLocation)
        /\ [moved(l, from, to) EXCEPT !.source = NoLocation]
             = moved(l, NoLocation, to)
  OBVIOUS
<1> HIDE DEF moved, lines
<1>3. /\ TransferMovementLines(t, from, to) = {moved(l, from, to) : l \in lines}
      /\ TransferMovementLines(t, from, NoLocation)
           = {moved(l, from, NoLocation) : l \in lines}
      /\ TransferMovementLines(t, NoLocation, to)
           = {moved(l, NoLocation, to) : l \in lines}
  BY <1>1
<1>4. {[l EXCEPT !.destination = NoLocation] : l \in {moved(x, from, to) : x \in lines}}
        = {moved(l, from, NoLocation) : l \in lines}
  BY <1>2
<1>5. {[l EXCEPT !.source = NoLocation] : l \in {moved(x, from, to) : x \in lines}}
        = {moved(l, NoLocation, to) : l \in lines}
  BY <1>2
<1> QED BY <1>3, <1>4, <1>5, Zenon

LEMMA ShipmentStands ==
  ASSUME BalanceAssumption, OnHandInv, BalanceInv, TransferTypeOK,
         RoutesAreDistinct,
         movement \in [MovementId -> Movement],
         movement' \in [MovementId -> Movement],
         NEW t \in TransferId, NEW expected, NEW m \in MovementId,
         Ship(t, expected, m), NEW k \in Key
  PROVE  balance'[k].onHand = Stood(movement', k)
<1> DEFINE record == transfer[t]
           lines == TransferMovementLines(t, record.source, record.transit)
           left == TransferMovementLines(t, record.source, NoLocation)
           posted == PostedMovement("transfer_shipment", BranchOf[record.source],
                                    lines, NoMovement)
<1>0. /\ posted.type = "transfer_shipment" /\ posted.status = "posted"
      /\ posted.lines = lines
  BY DEF PostedMovement
<1>1. Effect(posted) = left
  <2>1. {[l EXCEPT !.destination = NoLocation] : l \in lines} = left
    BY MovedAlong
  <2> HIDE DEF posted, lines, left
  <2> QED BY <1>0, <2>1 DEF Effect
<1>2. balance'[k].onHand =
        IF k \in KeysAt(t, record.source)
          THEN balance[k].onHand - ShippedAmount(t, k) ELSE balance[k].onHand
  BY DEF Ship, Written
<1>3. Delta(left, k) = IF k \in KeysAt(t, record.source)
                         THEN 0 - ShippedAmount(t, k) ELSE 0
  <2>1. record.source \in Location /\ record.status # "none"
    BY DEF TransferTypeOK, Transfer, Ship, VersionAndState
  <2> QED BY <2>1, DeltaOfTransfer
<1>4. k \in KeysAt(t, record.source) => ShippedAmount(t, k) \in Nat
  BY ShippedAmountInRange
<1>5. balance[k].onHand \in Nat
  BY RowFacts
<1>6. /\ movement[m].status = "none" /\ movement'[m] = posted
      /\ \A n \in MovementId \ {m} : movement'[n] = movement[n]
  BY DEF Ship
<1> HIDE DEF left, lines
<1>7. balance'[k].onHand = balance[k].onHand + Delta(Effect(posted), k)
  BY <1>1, <1>2, <1>3, <1>4, <1>5
<1> HIDE DEF posted
<1> QED BY <1>0, <1>6, <1>7, InsertionStands

LEMMA ReceiptStands ==
  ASSUME BalanceAssumption, OnHandInv, BalanceInv, TransferTypeOK,
         RoutesAreDistinct,
         movement \in [MovementId -> Movement],
         movement' \in [MovementId -> Movement],
         NEW t \in TransferId, NEW expected, NEW m \in MovementId,
         Receive(t, expected, m), NEW k \in Key
  PROVE  balance'[k].onHand = Stood(movement', k)
<1> DEFINE record == transfer[t]
           lines == TransferMovementLines(t, record.transit, record.destination)
           brought == TransferMovementLines(t, NoLocation, record.destination)
           posted == PostedMovement("transfer_receipt", BranchOf[record.destination],
                                    lines, NoMovement)
<1>0. /\ posted.type = "transfer_receipt" /\ posted.status = "posted"
      /\ posted.lines = lines
  BY DEF PostedMovement
<1>1. Effect(posted) = brought
  <2>1. {[l EXCEPT !.source = NoLocation] : l \in lines} = brought
    BY MovedAlong
  <2> HIDE DEF posted, lines, brought
  <2> QED BY <1>0, <2>1 DEF Effect
<1>2. record.status # "none"
  BY DEF Receive, VersionAndState
<1>3. k \in KeysAt(t, record.transit) => k \notin KeysAt(t, record.destination)
  BY <1>2 DEF KeysAt, RoutesAreDistinct, RouteIsDistinct
<1>4. balance'[k].onHand =
        IF k \in KeysAt(t, record.destination)
          THEN balance[k].onHand + ShippedAmount(t, k) ELSE balance[k].onHand
  BY <1>3 DEF Receive, Written
<1>5. Delta(brought, k) = IF k \in KeysAt(t, record.destination)
                            THEN ShippedAmount(t, k) ELSE 0
  <2>1. record.destination \in Location
    BY DEF TransferTypeOK, Transfer
  <2> QED BY <1>2, <2>1, DeltaOfTransfer
<1>6. balance[k].onHand \in Nat
  BY RowFacts
<1>7. /\ movement[m].status = "none" /\ movement'[m] = posted
      /\ \A n \in MovementId \ {m} : movement'[n] = movement[n]
  BY DEF Receive
<1> HIDE DEF brought, lines
<1>8. balance'[k].onHand = balance[k].onHand + Delta(Effect(posted), k)
  BY <1>1, <1>4, <1>5, <1>6
<1> HIDE DEF posted
<1> QED BY <1>0, <1>7, <1>8, InsertionStands

(* Commands that leave the movements alone leave what is on hand alone.    *)
LEMMA OnHandIsLeft ==
  ASSUME BalanceInv, BalanceAssumption, OnHandInv, UNCHANGED movement,
         NEW k \in Key, balance'[k].onHand = balance[k].onHand
  PROVE  balance'[k].onHand = Stood(movement', k)
BY DEF OnHandInv

LEMMA MovementsStand ==
  ASSUME StockInv, DocumentInv, OnHandInv, MovementNext, MovementTypeOK',
         NEW k \in Key
  PROVE  balance'[k].onHand = Stood(movement', k)
<1> USE BalanceAssumption
<1>1. /\ BalanceInv /\ MovementTypeOK /\ ManualUntilPosted
      /\ movement \in [MovementId -> Movement]
      /\ movement' \in [MovementId -> Movement]
  BY DEF StockInv, TypeOK, BalanceInv, MovementTypeOK, DocumentInv
<1>2. ASSUME NEW m \in MovementId, Create(m)
      PROVE  balance'[k].onHand = Stood(movement', k)
  <2>1. PICK type \in DraftType, b \in Branch : CreateDraft(m, type, b)
    BY <1>2 DEF Create
  <2> DEFINE draft == [Unused EXCEPT !.status = "draft", !.type = type,
                                     !.branch = b, !.version = 1]
  <2>2. draft.status = "draft" /\ draft.reversedBy = NoMovement
          /\ draft.reversalOf = NoMovement
    BY DEF Unused
  <2>3. /\ movement[m].status = "none" /\ movement' = [movement EXCEPT ![m] = draft]
        /\ UNCHANGED balance
    BY <2>1 DEF CreateDraft
  <2> HIDE DEF draft
  <2>4. Advances(m) /\ movement'[m].status # "posted"
    BY <1>1, <2>2, <2>3 DEF Advances
  <2> QED BY <2>3, <2>4, DraftsStandNowhere
<1>3. ASSUME NEW m \in MovementId, NEW expected, NEW kept, NEW added,
             RewriteLines(m, expected, kept, added)
      PROVE  balance'[k].onHand = Stood(movement', k)
  <2> DEFINE lines == kept \cup added
  <2>1. /\ movement' = WithLines(m, lines) /\ movement[m].status = "draft"
        /\ UNCHANGED balance
    BY <1>3 DEF RewriteLines, Editable
  <2> HIDE DEF lines
  <2>2. movement'[m].status # "posted"
    BY <1>1, <2>1 DEF WithLines, Movement
  <2> QED BY <1>1, <1>3, <2>1, <2>2, RewriteIsAdvance, DraftsStandNowhere
<1>4. ASSUME NEW m \in MovementId, NEW expected,
             \/ \E type \in DraftType, b \in Branch :
                  PatchHeader(m, expected, type, b)
             \/ CancelDraft(m, expected)
             \/ Submit(m, expected)
      PROVE  balance'[k].onHand = Stood(movement', k)
  <2>1. CASE \E type \in DraftType, b \in Branch : PatchHeader(m, expected, type, b)
    <3>1. Advances(m) /\ movement'[m].status # "posted" /\ UNCHANGED balance
      BY <1>1, <2>1 DEF PatchHeader, Editable, Advances, Movement
    <3> QED BY <3>1, DraftsStandNowhere
  <2>2. CASE CancelDraft(m, expected) \/ Submit(m, expected)
    <3>1. Advances(m) /\ movement'[m].status # "posted" /\ UNCHANGED balance
      BY <1>1, <2>2 DEF CancelDraft, Submit, Advances, Movement
    <3> QED BY <3>1, DraftsStandNowhere
  <2> QED BY <1>4, <2>1, <2>2
<1>5. ASSUME NEW m \in MovementId, NEW expected, Post(m, expected)
      PROVE  balance'[k].onHand = Stood(movement', k)
  BY <1>1, <1>5, PostingStands
<1>6. ASSUME NEW m \in MovementId, NEW expected, NEW r \in MovementId \ {m},
             Reverse(m, expected, r)
      PROVE  balance'[k].onHand = Stood(movement', k)
  BY <1>1, <1>6, ReversalUndoes
<1> QED BY <1>2, <1>3, <1>4, <1>5, <1>6
        DEF MovementNext, MovementCommand, Edit, AddLine, PatchLine, DeleteLine

LEMMA ReservationsStand ==
  ASSUME StockInv, DocumentInv, OnHandInv, ReservationNext, MovementTypeOK',
         NEW k \in Key
  PROVE  balance'[k].onHand = Stood(movement', k)
<1> USE BalanceAssumption
<1>1. /\ BalanceInv /\ ReservationTypeOK /\ HoldsAreDistinct
      /\ movement \in [MovementId -> Movement]
      /\ movement' \in [MovementId -> Movement]
  BY DEF StockInv, TypeOK, BalanceInv, MovementTypeOK, DocumentInv
<1>2. ASSUME NEW r, NEW b, NEW lines, NEW e, CreateReservation(r, b, lines, e)
      PROVE  balance'[k].onHand = Stood(movement', k)
  <2>1. balance'[k].onHand = balance[k].onHand /\ UNCHANGED movement
    BY <1>2 DEF CreateReservation, Written
  <2> QED BY <1>1, <2>1, OnHandIsLeft
<1>3. ASSUME NEW r \in ReservationId, NEW expected, NEW m \in MovementId,
             Confirm(r, expected, m)
      PROVE  balance'[k].onHand = Stood(movement', k)
  BY <1>1, <1>3, ConfirmationStands
<1>4. ASSUME NEW r, Settle(r, NoMovement), UNCHANGED movement
      PROVE  balance'[k].onHand = Stood(movement', k)
  <2>1. balance'[k].onHand = balance[k].onHand
    BY <1>1, <1>4, RowFacts DEF Settle, Written, ConsumedBy
  <2> QED BY <1>1, <1>4, <2>1, OnHandIsLeft
<1>5. CASE Tick
  BY <1>1, <1>5, OnHandIsLeft DEF Tick
<1> QED BY <1>2, <1>3, <1>4, <1>5
        DEF ReservationNext, ReservationCommand, GiveBack, Expire

LEMMA TransfersStand ==
  ASSUME StockInv, DocumentInv, OnHandInv, TransferNext, MovementTypeOK',
         NEW k \in Key
  PROVE  balance'[k].onHand = Stood(movement', k)
<1> USE BalanceAssumption
<1>1. /\ BalanceInv /\ TransferTypeOK /\ RoutesAreDistinct
      /\ movement \in [MovementId -> Movement]
      /\ movement' \in [MovementId -> Movement]
  BY DEF StockInv, TypeOK, BalanceInv, MovementTypeOK, DocumentInv
<1>2. ASSUME UNCHANGED <<balance, movement>>
      PROVE  balance'[k].onHand = Stood(movement', k)
  BY <1>1, <1>2, OnHandIsLeft
<1>3. ASSUME NEW t \in TransferId, NEW expected, NEW m \in MovementId,
             Ship(t, expected, m)
      PROVE  balance'[k].onHand = Stood(movement', k)
  BY <1>1, <1>3, ShipmentStands
<1>4. ASSUME NEW t \in TransferId, NEW expected, NEW m \in MovementId,
             Receive(t, expected, m)
      PROVE  balance'[k].onHand = Stood(movement', k)
  BY <1>1, <1>4, ReceiptStands
<1> QED BY <1>2, <1>3, <1>4
        DEF TransferNext, TransferCommand, CreateTransfer, Approve, Reject,
            CancelTransfer, Transition

LEMMA NextPreservesOnHandInv ==
  StockInv /\ DocumentInv /\ OnHandInv /\ [Next]_vars => OnHandInv'
<1> SUFFICES ASSUME StockInv, DocumentInv, OnHandInv, [Next]_vars, NEW k \in Key
             PROVE  balance'[k].onHand = Stood(movement', k)
  BY DEF OnHandInv, Stood, Standing, Effect
<1>1. MovementTypeOK'
  BY NextPreservesStockInv DEF StockInv, TypeOK
<1>2. CASE UNCHANGED vars
  BY <1>2 DEF vars, OnHandInv
<1> QED BY <1>1, <1>2, MovementsStand, ReservationsStand, TransfersStand DEF Next

LEMMA InitEstablishesOnHandInv == Init => OnHandInv
<1> SUFFICES ASSUME Init, NEW k \in Key PROVE balance[k].onHand = Stood(movement, k)
  BY DEF OnHandInv
<1>1. balance[k].onHand = 0 /\ Standing(movement) = {}
  BY DEF Init, BalanceInit, NoRow, MovementInit, Unused, Standing
<1> QED BY <1>1, TotalOfEmpty DEF Stood

(* Stock on hand is, in every row, the sum of what the standing movements  *)
(* put there: no command changes it without a movement, none applies       *)
(* twice, and a reversal undoes exactly its original.                      *)
THEOREM OnHandIsPosted == Spec => []OnHandIsStandingMovements
<1>1. OnHandInv => OnHandIsStandingMovements
  BY StandingIsStood DEF OnHandInv, OnHandIsStandingMovements
<1> QED BY <1>1, InitEstablishesOnHandInv, InitEstablishesStockInv,
           NextPreservesStockInv, InitEstablishesDocumentInv,
           NextPreservesDocumentInv, NextPreservesOnHandInv, PTL DEF Spec

-----------------------------------------------------------------------------
(***************************************************************************)
(* The refinement: what a command of Inventory writes                      *)
(***************************************************************************)
LEMMA LeftUnderMovement ==
  ASSUME BalanceAssumption, NEW row \in Row, NEW m \in MovementId,
         NEW onHand, NEW reserved, NEW inTransit, NEW then \in Row,
         then = Written(row, m, onHand, reserved, inTransit),
         reserved <= row.reserved, reserved <= onHand,
         row.exists \/ onHand + inTransit > 0
  PROVE  then \in Writers!Leaves(row, m)
<1>1. m # NoMovement
  BY DEF BalanceAssumption
<1>2. then = [exists |-> TRUE, onHand |-> onHand, reserved |-> reserved,
              inTransit |-> inTransit, version |-> row.version + 1, last |-> m]
  BY <1>1 DEF Written
<1>3. onHand \in Quantity /\ reserved \in Quantity /\ inTransit \in Quantity
  BY <1>2 DEF Row
<1>4. reserved \in 0 .. row.reserved
  BY <1>3, BalanceAssumption DEF Quantity, Row, BalanceAssumption
<1>5. then \in [exists : {TRUE}, onHand : Quantity, reserved : 0 .. row.reserved,
               inTransit : {row.inTransit} \cup Quantity,
               version : {row.version + 1}, last : {m}]
  BY <1>2, <1>3, <1>4
<1>6. /\ then.reserved <= then.onHand
      /\ row.exists \/ then.onHand + then.inTransit > 0
  BY <1>2
<1>7. then \in Writers!Moved(row, m)
  BY <1>5, <1>6 DEF Writers!Moved, Writers!Quantity, Quantity
<1> QED BY <1>1, <1>7 DEF Writers!Leaves

LEMMA LeftReserved ==
  ASSUME NEW row \in Row, NEW reserved, NEW then \in Row,
         then = Written(row, NoMovement, row.onHand, reserved, row.inTransit),
         reserved \in 0 .. row.onHand, reserved # row.reserved, row.exists
  PROVE  then \in Writers!Leaves(row, NoMovement)
<1>1. then = [row EXCEPT !.reserved = reserved, !.version = row.version + 1]
  <2>1. then = [exists |-> TRUE, onHand |-> row.onHand, reserved |-> reserved,
                inTransit |-> row.inTransit, version |-> row.version + 1,
                last |-> row.last]
    BY DEF Written
  <2>2. PICK new : new = [row EXCEPT !.reserved = reserved, !.version = row.version + 1]
    OBVIOUS
  <2>3. new = [exists |-> row.exists, onHand |-> row.onHand, reserved |-> reserved,
               inTransit |-> row.inTransit, version |-> row.version + 1,
               last |-> row.last]
    BY <2>2 DEF Row
  <2>4. row.exists = TRUE
    BY DEF Row
  <2> QED BY <2>1, <2>2, <2>3, <2>4
<1>2. reserved \in {r \in 0 .. row.onHand : row.exists /\ r # row.reserved}
  OBVIOUS
<1>3. then \in Writers!Reserved(row)
  BY <1>1, <1>2, Zenon DEF Writers!Reserved
<1> QED BY <1>3 DEF Writers!Leaves

(* Movement m, and no other, is posted by this step. *)
Posting(m) == /\ m \in MovementId \ Posted
              /\ Posted' = Posted \cup {m}

LEMMA InsertionIsPosting ==
  ASSUME MovementTypeOK, NEW m \in MovementId, NEW type, NEW branch, NEW lines,
         movement[m].status = "none",
         movement' = [movement EXCEPT
           ![m] = PostedMovement(type, branch, lines, NoMovement)]
  PROVE  Posting(m)
<1>1. /\ movement'[m].status = "posted"
      /\ \A n \in MovementId \ {m} : movement'[n] = movement[n]
  BY DEF MovementTypeOK, PostedMovement
<1> QED BY <1>1 DEF Posting, Posted

LEMMA CommandWrites ==
  ASSUME BalanceAssumption, NEW m \in MovementId, Posting(m),
         DOMAIN balance' = Key,
         \A k \in Key : balance'[k] \in Writers!Leaves(balance[k], m)
  PROVE  Writers!WriteStock(m)
BY DEF Posting, Posted, Writers!WriteStock, Writers!Key, Key, BalanceAssumption

(* Posting and reversing rewrite the touched rows; a row is made only      *)
(* where something arrives.                                                *)
LEMMA PostOnHandWrites ==
  ASSUME BalanceAssumption, BalanceInv, BalanceInv', NEW lines \in SUBSET Line,
         NEW m \in MovementId, Posting(m), Postable(lines), PostOnHand(lines, m)
  PROVE  Writers!WriteStock(m)
<1>1. DOMAIN balance' = Key
  BY DEF PostOnHand
<1>2. ASSUME NEW k \in Key
      PROVE  balance'[k] \in Writers!Leaves(balance[k], m)
  <2>1. CASE k \notin TouchedKeys(lines)
    BY <2>1 DEF PostOnHand, Writers!Leaves
  <2>2. CASE k \in TouchedKeys(lines)
    <3> DEFINE onHand == balance[k].onHand + Delta(lines, k)
    <3>1. /\ balance'[k] = Written(balance[k], m, onHand, balance[k].reserved,
                                   balance[k].inTransit)
          /\ onHand \in balance[k].reserved .. MaxQuantity
          /\ balance[k].exists \/ Delta(lines, k) > 0
      BY <2>2 DEF PostOnHand, Postable
    <3>2. /\ balance[k] \in Row /\ balance'[k] \in Row
          /\ balance[k].onHand \in Nat /\ balance[k].reserved \in Nat
          /\ balance[k].inTransit \in Nat
      BY RowFacts DEF BalanceInv, BalanceTypeOK
    <3>3. Delta(lines, k) \in Int
      BY DeltaIsTotals
    <3>4. balance[k].exists \/ onHand + balance[k].inTransit > 0
      BY <3>1, <3>2, <3>3
    <3>5. balance[k].reserved <= onHand /\ balance[k].reserved <= balance[k].reserved
      BY <3>1, <3>2, BalanceAssumption DEF BalanceAssumption
    <3> HIDE DEF onHand
    <3> QED BY <3>1, <3>2, <3>4, <3>5, LeftUnderMovement
  <2> QED BY <2>1, <2>2
<1> QED BY <1>1, <1>2, CommandWrites

(* Reserving stock makes no row and moves none. *)
LEMMA CreationWrites ==
  ASSUME BalanceAssumption, BalanceInv, BalanceInv', UNCHANGED movement,
         NEW r, NEW b, NEW lines \in SUBSET ReservedLine, NEW e,
         CreateReservation(r, b, lines, e)
  PROVE  Writers!WriteStock(NoMovement)
<1>1. DOMAIN balance' = Key /\ Posted' = Posted /\ NoMovement \notin Posted
  BY DEF CreateReservation, Posted, BalanceAssumption
<1>2. ASSUME NEW k \in Key
      PROVE  balance'[k] \in Writers!Leaves(balance[k], NoMovement)
  <2>1. CASE k \notin ReservedKeys(lines)
    BY <2>1 DEF CreateReservation, Writers!Leaves
  <2>2. CASE k \in ReservedKeys(lines)
    <3> DEFINE reserved == balance[k].reserved + AmountOf(lines, k)
    <3>1. balance'[k] = Written(balance[k], NoMovement, balance[k].onHand, reserved,
                                balance[k].inTransit)
      BY <2>2 DEF CreateReservation
    <3>2. PICK l \in lines : ReservedKey(l) = k /\ AmountOf(lines, k) = l.quantity
      BY <2>2, AmountOfLine
    <3>3. /\ balance[k].exists
          /\ balance[k].onHand - balance[k].reserved >= AmountOf(lines, k)
      BY <3>2 DEF CreateReservation, Available
    <3>4. AmountOf(lines, k) \in Nat /\ AmountOf(lines, k) # 0
      <4>1. l.quantity \in Quantity \ {0}
        BY DEF ReservedLine
      <4> QED BY <2>2, <3>2, <4>1, AmountInRange
    <3>5. /\ balance[k] \in Row /\ balance'[k] \in Row
          /\ balance[k].onHand \in Nat /\ balance[k].reserved \in Nat
      BY RowFacts DEF BalanceInv, BalanceTypeOK
    <3>6. reserved \in 0 .. balance[k].onHand /\ reserved # balance[k].reserved
      BY <3>3, <3>4, <3>5
    <3> HIDE DEF reserved
    <3> QED BY <3>1, <3>3, <3>5, <3>6, LeftReserved
  <2> QED BY <2>1, <2>2
<1> QED BY <1>1, <1>2 DEF Writers!WriteStock, Writers!Key, Key

(* Settling takes what was reserved, and the stock too if a movement does. *)
LEMMA SettlementWrites ==
  ASSUME BalanceAssumption, BalanceInv, BalanceInv', ReservationTypeOK,
         NEW r \in ReservationId, NEW m \in MovementId \cup {NoMovement},
         IF m = NoMovement THEN UNCHANGED movement ELSE Posting(m),
         Settle(r, m)
  PROVE  Writers!WriteStock(m)
<1> DEFINE lines == reservation[r].lines
<1>1. lines \in SUBSET ReservedLine
  BY DEF ReservationTypeOK, Reservation
<1>2. DOMAIN balance' = Key
  BY DEF Settle
<1>3. ASSUME NEW k \in Key
      PROVE  balance'[k] \in Writers!Leaves(balance[k], m)
  <2>1. CASE k \notin ReservedKeys(lines)
    BY <2>1 DEF Settle, Writers!Leaves
  <2>2. CASE k \in ReservedKeys(lines)
    <3> DEFINE amount == AmountOf(lines, k)
    <3>1. /\ balance'[k] = Written(balance[k], m, balance[k].onHand - ConsumedBy(m, amount),
                                   balance[k].reserved - amount, balance[k].inTransit)
          /\ balance[k].exists /\ balance[k].reserved >= amount
      BY <2>2 DEF Settle, ReleasedBy
    <3>2. PICK l \in lines : amount = l.quantity
      BY <1>1, <2>2, AmountOfLine
    <3>3. amount \in Nat /\ amount # 0
      <4>1. l.quantity \in Quantity \ {0}
        BY <1>1 DEF ReservedLine
      <4> QED BY <1>1, <2>2, <3>2, <4>1, AmountInRange
    <3>4. /\ balance[k] \in Row /\ balance'[k] \in Row
          /\ balance[k].onHand \in Nat /\ balance[k].reserved \in Nat
          /\ balance[k].reserved <= balance[k].onHand
      BY RowFacts DEF BalanceInv, BalanceTypeOK
    <3> HIDE DEF amount, lines
    <3>5. balance[k].reserved - amount <= balance[k].reserved
      BY <3>3, <3>4
    <3>6. CASE m = NoMovement
      <4>1. balance[k].onHand - ConsumedBy(m, amount) = balance[k].onHand
        BY <3>4, <3>6 DEF ConsumedBy
      <4>2. balance[k].reserved - amount \in 0 .. balance[k].onHand
        BY <3>1, <3>3, <3>4
      <4>3. balance[k].reserved - amount # balance[k].reserved
        BY <3>3, <3>4
      <4> QED BY <3>1, <3>4, <3>6, <4>1, <4>2, <4>3, LeftReserved
    <3>7. CASE m # NoMovement
      <4>1. balance[k].reserved - amount <= balance[k].onHand - ConsumedBy(m, amount)
        BY <3>3, <3>4, <3>7 DEF ConsumedBy
      <4> QED BY <3>1, <3>4, <3>5, <3>7, <4>1, LeftUnderMovement
    <3> QED BY <3>6, <3>7
  <2> QED BY <2>1, <2>2
<1>4. CASE m # NoMovement
  BY <1>2, <1>3, <1>4, CommandWrites
<1>5. CASE m = NoMovement
  <2>1. Posted' = Posted /\ NoMovement \notin Posted
    BY <1>5 DEF Posted, BalanceAssumption
  <2> QED BY <1>2, <1>3, <1>5, <2>1 DEF Writers!WriteStock, Writers!Key, Key
<1> QED BY <1>4, <1>5

(* What a shipment or a receipt writes: what leaves was there, and what    *)
(* arrives is more than nothing.                                           *)
LEMMA TransferWrites ==
  ASSUME BalanceAssumption, BalanceInv, BalanceInv', MovementTypeOK, TransferTypeOK,
         NEW t \in TransferId, NEW expected, NEW m \in MovementId,
         Ship(t, expected, m) \/ Receive(t, expected, m)
  PROVE  Writers!WriteStock(m)
<1>1. Posting(m) /\ DOMAIN balance' = Key
  BY InsertionIsPosting DEF Ship, Receive
<1>2. ASSUME NEW location, NEW k \in KeysAt(t, location)
      PROVE  ShippedAmount(t, k) \in Nat /\ ShippedAmount(t, k) > 0
  <2>1. ShippedAmount(t, k) \in Nat
    BY <1>2, ShippedAmountInRange
  <2>2. transfer[t].lines \in SUBSET TransferLine
    BY DEF TransferTypeOK, Transfer
  <2>3. \E l \in transfer[t].lines : l.variant = k[2]
    BY <1>2 DEF KeysAt
  <2>4. (CHOOSE l \in transfer[t].lines : l.variant = k[2]) \in TransferLine
    BY <2>2, <2>3
  <2>5. ShippedAmount(t, k) # 0
    BY <2>4 DEF ShippedAmount, TransferLine
  <2> QED BY <2>1, <2>5
<1>3. ASSUME NEW k \in Key
      PROVE  balance'[k] \in Writers!Leaves(balance[k], m)
  <2>1. /\ balance[k] \in Row /\ balance'[k] \in Row
        /\ balance[k].onHand \in Nat /\ balance[k].reserved \in Nat
        /\ balance[k].inTransit \in Nat
        /\ balance[k].reserved <= balance[k].onHand
        /\ balance'[k].reserved <= balance'[k].onHand
    BY RowFacts DEF BalanceInv, BalanceTypeOK, ReservedIsCovered
  <2>2. ASSUME NEW onHand, NEW inTransit,
               balance'[k] = Written(balance[k], m, onHand, balance[k].reserved,
                                     inTransit),
               balance[k].exists \/ onHand + inTransit > 0
        PROVE  balance'[k] \in Writers!Leaves(balance[k], m)
    <3>1. balance[k].reserved <= onHand
      BY <2>1, <2>2 DEF Written
    <3> QED BY <2>1, <2>2, <3>1, LeftUnderMovement
  <2>3. CASE balance'[k] = balance[k]
    BY <2>3 DEF Writers!Leaves
  <2>4. CASE Ship(t, expected, m) /\ balance'[k] # balance[k]
    <3>1. CASE k \in KeysAt(t, transfer[t].source)
      <4>1. /\ balance'[k] = Written(balance[k], m,
                                     balance[k].onHand - ShippedAmount(t, k),
                                     balance[k].reserved, balance[k].inTransit)
            /\ balance[k].exists
        BY <2>4, <3>1 DEF Ship, ShipmentCovered
      <4> QED BY <2>2, <4>1
    <3>2. CASE /\ k \notin KeysAt(t, transfer[t].source)
               /\ k \in KeysAt(t, transfer[t].transit)
      <4>1. balance'[k] = Written(balance[k], m, balance[k].onHand,
                                  balance[k].reserved,
                                  balance[k].inTransit + ShippedAmount(t, k))
        BY <2>4, <3>2 DEF Ship
      <4>2. balance[k].onHand + (balance[k].inTransit + ShippedAmount(t, k)) > 0
        BY <1>2, <2>1, <3>2
      <4> QED BY <2>2, <4>1, <4>2
    <3> QED BY <2>4, <3>1, <3>2 DEF Ship
  <2>5. CASE Receive(t, expected, m) /\ balance'[k] # balance[k]
    <3>1. CASE k \in KeysAt(t, transfer[t].transit)
      <4>1. /\ balance'[k] = Written(balance[k], m, balance[k].onHand,
                                     balance[k].reserved,
                                     balance[k].inTransit - ShippedAmount(t, k))
            /\ balance[k].exists
        BY <2>5, <3>1 DEF Receive
      <4> QED BY <2>2, <4>1
    <3>2. CASE /\ k \notin KeysAt(t, transfer[t].transit)
               /\ k \in KeysAt(t, transfer[t].destination)
      <4>1. balance'[k] = Written(balance[k], m,
                                  balance[k].onHand + ShippedAmount(t, k),
                                  balance[k].reserved, balance[k].inTransit)
        BY <2>5, <3>2 DEF Receive
      <4>2. (balance[k].onHand + ShippedAmount(t, k)) + balance[k].inTransit > 0
        BY <1>2, <2>1, <3>2
      <4> QED BY <2>2, <4>1, <4>2
    <3> QED BY <2>5, <3>1, <3>2 DEF Receive
  <2> QED BY <2>3, <2>4, <2>5
<1> QED BY <1>1, <1>3, CommandWrites

(* Editing, submitting and cancelling a movement post nothing. *)
LEMMA MovementWrites ==
  ASSUME BalanceAssumption, BalanceInv, BalanceInv', MovementTypeOK, MovementNext
  PROVE  \/ \E m \in MovementId \cup {NoMovement} : Writers!WriteStock(m)
         \/ UNCHANGED balance /\ Posted' = Posted
<1>1. ASSUME NEW m \in MovementId, NEW expected, Post(m, expected)
      PROVE  Writers!WriteStock(m)
  <2>1. Posting(m)
    <3>1. /\ movement[m].status = "pending" /\ movement'[m].status = "posted"
          /\ \A n \in MovementId \ {m} : movement'[n] = movement[n]
      BY <1>1 DEF Post, MovementTypeOK, Movement
    <3> QED BY <3>1 DEF Posting, Posted
  <2>2. movement[m].lines \in SUBSET Line
    BY DEF MovementTypeOK, Movement
  <2> QED BY <1>1, <2>1, <2>2, PostOnHandWrites DEF Post
<1>2. ASSUME NEW m \in MovementId, NEW expected, NEW r \in MovementId \ {m},
             Reverse(m, expected, r)
      PROVE  Writers!WriteStock(r)
  <2>1. Posting(r)
    <3>1. /\ movement[m].status = "posted" /\ movement'[m].status = "reversed"
          /\ movement[r].status = "none" /\ movement'[r].status = "posted"
          /\ \A n \in MovementId \ {m, r} : movement'[n] = movement[n]
      BY <1>2 DEF Reverse, Reversible, PostedMovement, MovementTypeOK, Movement
    <3> QED BY <3>1 DEF Posting, Posted
  <2>2. InverseLines(m) \in SUBSET Line
    <3>1. movement[m].lines \in SUBSET Line
      BY DEF MovementTypeOK, Movement
    <3> QED BY <3>1, SwappedIsLine DEF InverseLines
  <2> QED BY <1>2, <2>1, <2>2, PostOnHandWrites DEF Reverse
<1>3. ASSUME NEW m \in MovementId, NEW expected,
             Create(m) \/ Edit(m, expected) \/ CancelDraft(m, expected)
               \/ Submit(m, expected)
      PROVE  UNCHANGED balance /\ Posted' = Posted
  <2> DEFINE StaysUnposted ==
        /\ UNCHANGED balance
        /\ movement[m].status \notin {"posted", "reversed"}
        /\ movement'[m].status \notin {"posted", "reversed"}
        /\ \A n \in MovementId \ {m} : movement'[n] = movement[n]
  <2>1. ASSUME Create(m) PROVE StaysUnposted
    <3>1. PICK type \in DraftType, b \in Branch : CreateDraft(m, type, b)
      BY <2>1 DEF Create
    <3> DEFINE draft == [Unused EXCEPT !.status = "draft", !.type = type,
                                       !.branch = b, !.version = 1]
    <3>2. draft.status = "draft"
      BY DEF Unused
    <3>3. /\ movement[m].status = "none" /\ movement' = [movement EXCEPT ![m] = draft]
          /\ UNCHANGED balance
      BY <3>1 DEF CreateDraft
    <3> HIDE DEF draft
    <3> QED BY <3>2, <3>3 DEF MovementTypeOK
  <2>2. ASSUME NEW type, NEW b, PatchHeader(m, expected, type, b)
        PROVE  StaysUnposted
    BY <2>2 DEF PatchHeader, Editable, MovementTypeOK, Movement
  <2>3. ASSUME NEW kept, NEW added, RewriteLines(m, expected, kept, added)
        PROVE  StaysUnposted
    <3> DEFINE lines == kept \cup added
    <3>1. /\ movement' = WithLines(m, lines) /\ movement[m].status = "draft"
          /\ UNCHANGED balance
      BY <2>3 DEF RewriteLines, Editable
    <3> HIDE DEF lines
    <3> QED BY <3>1 DEF WithLines, MovementTypeOK, Movement
  <2>4. ASSUME CancelDraft(m, expected) \/ Submit(m, expected)
        PROVE  StaysUnposted
    BY <2>4 DEF CancelDraft, Submit, MovementTypeOK, Movement
  <2>5. ASSUME Edit(m, expected) PROVE StaysUnposted
    <3> HIDE DEF StaysUnposted
    <3> QED BY <2>2, <2>3, <2>5 DEF Edit, AddLine, PatchLine, DeleteLine
  <2>6. StaysUnposted => UNCHANGED balance /\ Posted' = Posted
    BY DEF Posted
  <2> HIDE DEF StaysUnposted
  <2> QED BY <1>3, <2>1, <2>4, <2>5, <2>6
<1> QED BY <1>1, <1>2, <1>3 DEF MovementNext, MovementCommand

(* Whatever command of whatever document runs, it writes as StockWriters   *)
(* says: all its rows in one step and each once, stock only under a        *)
(* movement posted by that very step, and reservations without one.        *)
THEOREM CommandsImplementWriters == Spec => ImplementsWriters
<1>1. Init => Writers!BalanceInit /\ Posted = {}
  BY DEF Init, BalanceInit, MovementInit, Unused, Posted, Writers!BalanceInit,
         Writers!Key, Key, Writers!NoRow, NoRow
<1>2. ASSUME StockInv, [Next]_vars
      PROVE  \/ \E m \in MovementId \cup {NoMovement} : Writers!WriteStock(m)
             \/ UNCHANGED balance /\ Posted' = Posted
  <2>1. /\ BalanceInv /\ MovementTypeOK /\ ReservationTypeOK /\ TransferTypeOK
        /\ BalanceInv'
    BY <1>2, NextPreservesStockInv DEF StockInv, TypeOK, BalanceInv
  <2>2. CASE MovementNext
    BY <2>1, <2>2, BalanceAssumption, MovementWrites
  <2>3. CASE ReservationNext
    <3>1. ASSUME NEW r \in ReservationId, NEW b, NEW lines \in SUBSET ReservedLine,
                 NEW e, CreateReservation(r, b, lines, e)
          PROVE  Writers!WriteStock(NoMovement)
      <4>1. UNCHANGED movement
        BY <3>1 DEF CreateReservation
      <4> QED BY <2>1, <3>1, <4>1, BalanceAssumption, CreationWrites
    <3>2. ASSUME NEW r \in ReservationId, NEW expected, NEW m \in MovementId,
                 Confirm(r, expected, m)
          PROVE  Writers!WriteStock(m)
      <4>1. Posting(m) /\ m # NoMovement
        BY <2>1, <3>2, BalanceAssumption, InsertionIsPosting
        DEF Confirm, BalanceAssumption
      <4> QED BY <2>1, <3>2, <4>1, BalanceAssumption, SettlementWrites DEF Confirm
    <3>3. ASSUME NEW r \in ReservationId, Settle(r, NoMovement), UNCHANGED movement
          PROVE  Writers!WriteStock(NoMovement)
      BY <2>1, <3>3, BalanceAssumption, SettlementWrites
    <3>4. CASE Tick
      BY <3>4 DEF Tick, Posted
    <3> QED BY <2>3, <3>1, <3>2, <3>3, <3>4
            DEF ReservationNext, ReservationCommand, GiveBack, Expire
  <2>4. CASE TransferNext
    <3>1. ASSUME NEW t \in TransferId, NEW expected, NEW m \in MovementId,
                 Ship(t, expected, m) \/ Receive(t, expected, m)
          PROVE  Writers!WriteStock(m)
      BY <2>1, <3>1, BalanceAssumption, TransferWrites
    <3>2. CASE UNCHANGED <<balance, movement>>
      BY <3>2 DEF Posted
    <3> QED BY <2>4, <3>1, <3>2
            DEF TransferNext, TransferCommand, CreateTransfer, Approve, Reject,
                CancelTransfer, Transition
  <2>5. CASE UNCHANGED vars
    BY <2>5 DEF vars, Posted
  <2> QED BY <1>2, <2>2, <2>3, <2>4, <2>5 DEF Next
<1>3. ASSUME StockInv, [Next]_vars
      PROVE  [\E m \in MovementId \cup {NoMovement} :
                Writers!WriteStock(m)]_(Writers!writerVars)
  BY <1>2, <1>3 DEF Writers!writerVars
<1> QED BY <1>1, <1>3, InitEstablishesStockInv, NextPreservesStockInv, PTL
        DEF Spec, ImplementsWriters, Writers!WriterSpec
=============================================================================
