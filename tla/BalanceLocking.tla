--------------------------- MODULE BalanceLocking ---------------------------
(***************************************************************************)
(* The transactions of AtomicPosting statement by statement, under READ    *)
(* COMMITTED.  A writer walks its keys in sorted order and                 *)
(*   - posting, reversal and count application lock the rows there are,    *)
(*     insert the missing inbound ones, then lock all rows;                *)
(*   - shipment and receipt insert the inbound rows, then lock all rows;   *)
(*   - reservation commands only lock rows.                                *)
(* A row inserted and not committed is invisible to others, but their      *)
(* insert of the same key waits for its fate.                              *)
(***************************************************************************)
EXTENDS Integers, FiniteSetsExt

CONSTANTS Txn, Key, Effect, Absent, InitialRows,
          Kind,  \* "lockFirst", "insertFirst" or "lockOnly"
          Free

ASSUME LockingAssumption ==
  /\ Key \subseteq Nat /\ Key # {}
  /\ \A t \in Txn : DOMAIN Effect[t] \subseteq Key
  /\ \A t \in Txn : \A k \in DOMAIN Effect[t] : Effect[t][k] \in Int
  /\ Absent \notin Nat
  /\ InitialRows \subseteq [Key -> Nat \cup {Absent}]
  /\ Kind \in [Txn -> {"lockFirst", "insertFirst", "lockOnly"}]
  /\ Free \notin Txn

VARIABLES
  rows, status,
  phase,         \* the pass of each transaction over its keys: "lock",
                 \* "insert" or "relock", and then "write"
  todo,          \* the keys it has still to visit in this pass
  owner,         \* who holds the lock of a row, or is inserting it
  read           \* quantities read under lock

lockingVars == <<rows, status, phase, todo, owner, read>>

KeysOf(t) == DOMAIN Effect[t]
Inbound(t) == {k \in KeysOf(t) : Effect[t][k] > 0}

FirstPhase(t) == CASE Kind[t] = "lockFirst" -> "lock"
                   [] Kind[t] = "insertFirst" -> "insert"
                   [] Kind[t] = "lockOnly" -> "relock"

FirstKeys(t) == IF Kind[t] = "insertFirst" THEN Inbound(t) ELSE KeysOf(t)

LockingInit ==
  /\ rows \in InitialRows
  /\ status = [t \in Txn |-> "running"]
  /\ phase = [t \in Txn |-> FirstPhase(t)]
  /\ todo = [t \in Txn |-> FirstKeys(t)]
  /\ owner = [k \in Key |-> Free]
  /\ read = [t \in Txn |-> [k \in Key |-> Absent]]

(* The key a transaction visits next, if its pass is not over. *)
NextKey(t) == Min(todo[t])
Visible(t, k) == rows[k] # Absent \/ owner[k] = t
Quantity(k) == IF rows[k] = Absent THEN 0 ELSE rows[k]

(* A lock waits for its owner; so does an insert, unless a committed row   *)
(* makes it do nothing.                                                    *)
BlockedOn(t, k) ==
  /\ owner[k] \notin {t, Free}
  /\ IF phase[t] = "insert" THEN rows[k] = Absent ELSE Visible(t, k)

Visit(t, k) ==
  /\ status[t] = "running"
  /\ k \in todo[t] /\ k = NextKey(t)
  /\ todo' = [todo EXCEPT ![t] = @ \ {k}]
  /\ UNCHANGED <<rows, status, phase>>

-----------------------------------------------------------------------------
(* lockBalances: select ... for update of one key, which finds no row when *)
(* none is visible.                                                        *)
LockWithoutWaiting(t, k) ==
  /\ phase[t] \in {"lock", "relock"}
  /\ Visit(t, k)
  /\ owner' = IF Visible(t, k) THEN [owner EXCEPT ![k] = t] ELSE owner
  /\ read' = IF Visible(t, k) THEN [read EXCEPT ![t][k] = Quantity(k)]
                              ELSE read

LockRow(t, k) ==
  /\ phase[t] \in {"lock", "relock"}
  /\ ~BlockedOn(t, k)
  /\ Visit(t, k)
  /\ owner' = IF Visible(t, k) THEN [owner EXCEPT ![k] = t] ELSE owner
  /\ read' = IF Visible(t, k) THEN [read EXCEPT ![t][k] = Quantity(k)]
                              ELSE read

(* createInboundBalances: insert ... on conflict do nothing, of one key. *)
InsertRow(t, k) ==
  /\ phase[t] = "insert"
  /\ ~BlockedOn(t, k)
  /\ Visit(t, k)
  /\ owner' = IF rows[k] = Absent THEN [owner EXCEPT ![k] = t] ELSE owner
  /\ UNCHANGED read

EnterPhase(t, from, to, keys) ==
  /\ status[t] = "running" /\ phase[t] = from /\ todo[t] = {}
  /\ phase' = [phase EXCEPT ![t] = to]
  /\ todo' = [todo EXCEPT ![t] = keys]
  /\ UNCHANGED <<rows, status, owner, read>>

(* The inbound rows the first pass did not find are to be inserted. *)
FirstPassDone(t) ==
  EnterPhase(t, "lock", "insert", {k \in Inbound(t) : owner[k] # t})

InsertsDone(t) == EnterPhase(t, "insert", "relock", KeysOf(t))

LocksDone(t) == EnterPhase(t, "relock", "write", {})

-----------------------------------------------------------------------------
StillHeldBy(t) == owner

ReleasedBy(t) == [k \in Key |-> IF owner[k] = t THEN Free ELSE owner[k]]

End(t, to) == /\ status[t] = "running"
              /\ status' = [status EXCEPT ![t] = to]
              /\ owner' = ReleasedBy(t)
              /\ UNCHANGED <<phase, todo, read>>

Found(t, k) == read[t][k] # Absent

EffectAllowed(t) ==
  \A k \in KeysOf(t) : Found(t, k) /\ read[t][k] + Effect[t][k] >= 0

(* The updates of a transaction become visible when it commits. *)
Commit(t) ==
  /\ phase[t] = "write"
  /\ EffectAllowed(t)
  /\ rows' = [k \in Key |-> IF k \in KeysOf(t)
                              THEN read[t][k] + Effect[t][k] ELSE rows[k]]
  /\ End(t, "committed")

(* A row is missing, or holds too little. *)
Refuse(t) == /\ phase[t] = "write"
             /\ ~EffectAllowed(t)
             /\ UNCHANGED rows
             /\ End(t, "aborted")

(* Whom each transaction waits for: nobody waits for two at once. *)
Waiting == [t \in Txn |->
  IF status[t] = "running" /\ todo[t] # {} /\ BlockedOn(t, NextKey(t))
    THEN owner[NextKey(t)]
    ELSE Free]

(* A set of transactions each of which waits for another of the set.       *)
InCycle(t) == LET waits == Waiting
              IN  \E S \in SUBSET Txn : t \in S /\ {waits[u] : u \in S} = S

(* PostgreSQL aborts a member of a cycle; no command retries.              *)
DeadlockVictim(t) == /\ InCycle(t)
                     /\ UNCHANGED rows
                     /\ End(t, "aborted")

-----------------------------------------------------------------------------
Step(t) ==
  \/ \E k \in KeysOf(t) : LockRow(t, k) \/ InsertRow(t, k)
  \/ FirstPassDone(t) \/ InsertsDone(t) \/ LocksDone(t)
  \/ Commit(t) \/ Refuse(t)

LockingNext == \E t \in Txn : Step(t) \/ DeadlockVictim(t)

(* Sessions run, and the detector runs after deadlock_timeout. *)
LockingSpec ==
  /\ LockingInit
  /\ [][LockingNext]_lockingVars
  /\ \A t \in Txn : WF_lockingVars(Step(t)) /\ WF_lockingVars(DeadlockVictim(t))

-----------------------------------------------------------------------------
(* No update is lost and no half of a command shows, however statements    *)
(* of the writers interleave: this is why Inventory may treat each command *)
(* as one step.                                                            *)
Atomically == INSTANCE AtomicPosting WITH
  Txn <- Txn, Key <- Key, Effect <- Effect, Absent <- Absent,
  InitialRows <- InitialRows,
  rows <- rows,
  status <- status

CommitsAreAtomic == Atomically!Spec

(* Every writer commits or is refused: nobody waits for ever.              *)
EveryWriterEnds == \A t \in Txn : <>(status[t] # "running")
=============================================================================
