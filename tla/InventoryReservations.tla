------------------------ MODULE InventoryReservations ------------------------
(***************************************************************************)
(* Reservations: a hold on available stock that is confirmed into an issue *)
(* movement, or given back by release, cancellation or expiry.             *)
(*                                                                         *)
(* No worker expires a reservation: a command that finds it past its       *)
(* deadline expires it instead of doing what it was asked (expireOutcome). *)
(* The deadline is compared with the timestamp taken when the request      *)
(* began, which the clock may have left behind when the transaction runs.  *)
(***************************************************************************)
EXTENDS InventoryMovements

CONSTANTS
  ReservationId,
  Never,         \* expires_at is null
  MaxTime,       \* bound: the clock stops here
  MaxDelay       \* bound: how old a request's timestamp may be when it runs

ASSUME ReservationAssumption ==
  /\ MaxTime \in Nat /\ MaxDelay \in Nat
  /\ Never \notin Nat
  /\ IsFiniteSet(ReservationId)

VARIABLES reservation, now

ReservationStatus ==
  {"none", "active", "confirmed", "released", "cancelled", "expired"}

ReservedLine == [location : Location, variant : Variant,
                 quantity : Quantity \ {0}]

Reservation == [status : ReservationStatus, branch : Branch,
                lines : SUBSET ReservedLine,
                expiresAt : (1..MaxTime) \cup {Never}, version : Nat,
                movement : MovementId \cup {NoMovement}]

ReservationTypeOK == /\ reservation \in [ReservationId -> Reservation]
                     /\ now \in 0..MaxTime

NoReservation == [status |-> "none", branch |-> CHOOSE b \in Branch : TRUE,
                  lines |-> {}, expiresAt |-> Never, version |-> 0,
                  movement |-> NoMovement]

ReservationInit == /\ reservation = [r \in ReservationId |-> NoReservation]
                   /\ now = 0

(* The timestamps a request running now may carry. *)
RequestTime == {at \in 0..now : now - at <= MaxDelay}

ReservedKey(l) == <<l.location, l.variant>>

(* The lines of a reservation name each key once. *)
AmountOf(lines, k) == (CHOOSE l \in lines : ReservedKey(l) = k).quantity

LinesUnique(lines) == \A l1, l2 \in lines :
                        ReservedKey(l1) = ReservedKey(l2) => l1 = l2

ReservedKeys(lines) == {ReservedKey(l) : l \in lines}

(***************************************************************************)
(* Commands                                                                *)
(***************************************************************************)
Available(l) ==
  /\ balance[ReservedKey(l)].exists
  /\ balance[ReservedKey(l)].onHand - balance[ReservedKey(l)].reserved
       >= l.quantity

CreateReservation(r, branch, lines, expiresAt) ==
  /\ reservation[r].status = "none"
  /\ lines # {} /\ LinesUnique(lines)
  /\ \A l \in lines : LocationIn(branch, l.location) /\ l.location \in Issuing
  /\ \E at \in RequestTime : expiresAt # Never => expiresAt > at
  /\ \A l \in lines : Available(l)
  /\ balance' = [k \in Key |->
       IF k \in ReservedKeys(lines)
         THEN Written(balance[k], NoMovement, balance[k].onHand,
                      balance[k].reserved + AmountOf(lines, k),
                      balance[k].inTransit)
         ELSE balance[k]]
  /\ reservation' = [reservation EXCEPT ![r] =
       [status |-> "active", branch |-> branch, lines |-> lines,
        expiresAt |-> expiresAt, version |-> 1, movement |-> NoMovement]]
  /\ UNCHANGED <<movement, now>>

VersionMatches(r, expected) == reservation[r].version = expected

VersionAndActive(r, expected) == /\ reservation[r].version = expected
                                 /\ reservation[r].status = "active"

IsExpired(r, at) == /\ reservation[r].expiresAt # Never
                    /\ reservation[r].expiresAt <= at

(* mutate: take what the reservation holds off the reserved quantity, and  *)
(* off the quantity on hand too when it is confirmed by movement m.        *)
ConsumedBy(m, amount) == IF m = NoMovement THEN 0 ELSE amount

NotReleasedIfConsumed(m, amount) == IF m = NoMovement THEN amount ELSE 0
ReleasedBy(m, amount) == amount

Settle(r, m) ==
  LET lines == reservation[r].lines
      amount(k) == AmountOf(lines, k)
  IN  /\ \A k \in ReservedKeys(lines) :
           /\ balance[k].exists
           /\ balance[k].reserved >= ReleasedBy(m, amount(k))
           /\ balance[k].onHand >= ConsumedBy(m, amount(k))
      /\ balance' = [k \in Key |->
           IF k \in ReservedKeys(lines)
             THEN Written(balance[k], m,
                          balance[k].onHand - ConsumedBy(m, amount(k)),
                          balance[k].reserved - ReleasedBy(m, amount(k)),
                          balance[k].inTransit)
             ELSE balance[k]]

Complete(r, status, m) ==
  reservation' = [reservation EXCEPT ![r].status = status,
                                     ![r].movement = m,
                                     ![r].version = @ + 1]

IssueLines(r) ==
  {[variant |-> l.variant, source |-> l.location, destination |-> NoLocation,
    quantity |-> l.quantity] : l \in reservation[r].lines}

Confirm(r, expected, m) ==
  /\ VersionAndActive(r, expected)
  /\ \E at \in RequestTime : ~IsExpired(r, at)
  /\ movement[m].status = "none"
  /\ Settle(r, m)
  /\ movement' = [movement EXCEPT ![m] =
       PostedMovement("issue", reservation[r].branch, IssueLines(r),
                      NoMovement)]
  /\ Complete(r, "confirmed", m)
  /\ UNCHANGED now

(* The release endpoint with action release or cancel. *)
GiveBack(r, expected, status) ==
  /\ VersionAndActive(r, expected)
  /\ \E at \in RequestTime : ~IsExpired(r, at)
  /\ Settle(r, NoMovement)
  /\ Complete(r, status, NoMovement)
  /\ UNCHANGED <<movement, now>>

(* The release endpoint with action expire, and what confirm, release and  *)
(* cancel do (answering 409) when they find the reservation expired.       *)
Expire(r, expected) ==
  /\ VersionAndActive(r, expected)
  /\ \E at \in RequestTime : IsExpired(r, at)
  /\ Settle(r, NoMovement)
  /\ Complete(r, "expired", NoMovement)
  /\ UNCHANGED <<movement, now>>

Tick == /\ now < MaxTime
        /\ now' = now + 1
        /\ UNCHANGED <<balance, movement, reservation>>

ReservationCommand(r, expected) ==
  \/ \E m \in MovementId : Confirm(r, expected, m)
  \/ \E status \in {"released", "cancelled"} : GiveBack(r, expected, status)
  \/ Expire(r, expected)

ReservationNext ==
  \/ \E r \in ReservationId :
       \/ \E b \in Branch, lines \in SUBSET ReservedLine,
             e \in (1..MaxTime) \cup {Never} : CreateReservation(r, b, lines, e)
       \/ ReservationCommand(r, reservation[r].version)
  \/ Tick
=============================================================================
