--------------------------- MODULE AtomicPosting ---------------------------
(***************************************************************************)
(* How Inventory sees the writers of balance rows: each changes every row  *)
(* it has an effect on in one step, or none.                               *)
(***************************************************************************)
EXTENDS Integers

CONSTANTS
  Txn,           \* transactions, each of which writes balances once
  Key,           \* balance keys, numbered in sorted order
  Effect,        \* the signed quantity each transaction adds to each key
  Absent,        \* no row is committed under a key
  InitialRows    \* the rows there may be when the transactions start

VARIABLES
  rows,          \* the committed quantity under each key
  status         \* of each transaction

postingVars == <<rows, status>>

KeysOf(t) == DOMAIN Effect[t]

(* The quantity a row ends with; a missing inbound row counts from zero. *)
Result(quantity, effect) == IF quantity = Absent THEN effect
                                                 ELSE quantity + effect

Init == /\ rows \in InitialRows
        /\ status = [t \in Txn |-> "running"]

Commit(t) ==
  /\ status[t] = "running"
  /\ \A k \in KeysOf(t) : /\ rows[k] # Absent \/ Effect[t][k] > 0
                          /\ Result(rows[k], Effect[t][k]) >= 0
  /\ rows' = [k \in Key |-> IF k \in KeysOf(t)
                              THEN Result(rows[k], Effect[t][k])
                              ELSE rows[k]]
  /\ status' = [status EXCEPT ![t] = "committed"]

Abort(t) ==
  /\ status[t] = "running"
  /\ status' = [status EXCEPT ![t] = "aborted"]
  /\ UNCHANGED rows

Next == \E t \in Txn : Commit(t) \/ Abort(t)

Spec == Init /\ [][Next]_postingVars
=============================================================================
