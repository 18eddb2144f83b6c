------------------------- MODULE IdempotentCommand -------------------------
(***************************************************************************)
(* The transaction every inventory command runs in, statement by           *)
(* statement: begin, advisory lock on the key, look the key up, insert its *)
(* row, lock the document and check its version, act, store the response,  *)
(* commit.  An attempt may fail between any two statements, which rolls    *)
(* it back, and its answer may be lost after it committed.                 *)
(***************************************************************************)
EXTENDS Naturals, FiniteSets

CONSTANTS Attempt, Key, Version, NoRequest, NoRow, Pending, Refused,
          Free       \* a lock nobody holds

(* A key is a string of at most 255 characters. *)
ASSUME RequestAssumption ==
  /\ IsFiniteSet(Key)
  /\ Version \subseteq Nat
  /\ NoRequest \notin [key : Key, expected : Version]
  /\ NoRow \notin [expected : Version, answer : Nat]
  /\ Pending \notin Nat /\ Refused \notin Nat /\ Pending # Refused
  /\ Free \notin Attempt

VARIABLES
  pc,            \* where the transaction of each attempt is
  request, outcome, version, stored,      \* as in ExactlyOnce, committed
  keyLock,       \* holders of pg_advisory_xact_lock
  rowLock        \* holder of the document row (select ... for update)

commandVars == <<pc, request, outcome, version, stored, keyLock, rowLock>>

Request == [key : Key, expected : Version]
Row == [expected : Version, answer : Nat]

Ended == {"answered", "refused", "lost"}
Control == {"idle", "begun", "owner", "absent", "inserted", "acted",
            "replaying", "committed"} \cup Ended

(* No more effects than keys: the version cannot run past their number. *)
CommandTypeOK ==
  /\ pc \in [Attempt -> Control]
  /\ request \in [Attempt -> Request \cup {NoRequest}]
  /\ outcome \in [Attempt -> Nat \cup {Pending, Refused}]
  /\ version \in 0..Cardinality(Key)
  /\ stored \in [Key -> Row \cup {NoRow}]
  /\ keyLock \in [Key -> Attempt \cup {Free}]
  /\ rowLock \in Attempt \cup {Free}

CommandInit ==
  /\ pc = [a \in Attempt |-> "idle"]
  /\ request = [a \in Attempt |-> NoRequest]
  /\ outcome = [a \in Attempt |-> Pending]
  /\ version = 0
  /\ stored = [k \in Key |-> NoRow]
  /\ keyLock = [k \in Key |-> Free]
  /\ rowLock = Free

KeyOf(a) == request[a].key
Goto(a, from, to) == pc[a] = from /\ pc' = [pc EXCEPT ![a] = to]

(* Commit and rollback release every lock of the transaction. *)
ReleaseLocks(a) ==
  /\ keyLock' = [k \in Key |-> IF keyLock[k] = a THEN Free ELSE keyLock[k]]
  /\ rowLock' = IF rowLock = a THEN Free ELSE rowLock

-----------------------------------------------------------------------------
Begin(a, req) ==
  /\ Goto(a, "idle", "begun")
  /\ request' = [request EXCEPT ![a] = req]
  /\ UNCHANGED <<outcome, version, stored, keyLock, rowLock>>

KeyIsFree(a) == keyLock[KeyOf(a)] = Free

LockKey(a) ==
  /\ Goto(a, "begun", "owner")
  /\ KeyIsFree(a)
  /\ keyLock' = [keyLock EXCEPT ![KeyOf(a)] = a]
  /\ UNCHANGED <<request, outcome, version, stored, rowLock>>

PayloadUnchecked(a) == stored[KeyOf(a)] # NoRow

(* The recorded response is for this very request (request_hash). *)
SamePayload(a) == /\ stored[KeyOf(a)] # NoRow
                  /\ stored[KeyOf(a)].expected = request[a].expected

Replay(a) ==
  /\ Goto(a, "owner", "replaying")
  /\ SamePayload(a)
  /\ UNCHANGED <<request, outcome, version, stored, keyLock, rowLock>>

KeyConflict(a) ==
  /\ Goto(a, "owner", "refused")
  /\ stored[KeyOf(a)] # NoRow /\ ~SamePayload(a)
  /\ outcome' = [outcome EXCEPT ![a] = Refused]
  /\ ReleaseLocks(a)
  /\ UNCHANGED <<request, version, stored>>

KeyUnused(a) ==
  /\ Goto(a, "owner", "absent")
  /\ stored[KeyOf(a)] = NoRow
  /\ UNCHANGED <<request, outcome, version, stored, keyLock, rowLock>>

(* The unique index makes an insert wait for an uncommitted row, and fail  *)
(* on a committed one.                                                     *)
InsertKey(a) ==
  /\ Goto(a, "absent", "inserted")
  /\ stored[KeyOf(a)] = NoRow
  /\ \A other \in Attempt \ {a} :
       pc[other] \in {"inserted", "acted"} => KeyOf(other) # KeyOf(a)
  /\ UNCHANGED <<request, outcome, version, stored, keyLock, rowLock>>

VersionUnchecked(a) == TRUE

VersionMatches(a) == version = request[a].expected

(* The document's row lock is taken and its version checked under it. *)
Act(a) ==
  /\ Goto(a, "inserted", "acted")
  /\ rowLock = Free
  /\ VersionMatches(a)
  /\ rowLock' = a
  /\ UNCHANGED <<request, outcome, version, stored, keyLock>>

VersionConflict(a) ==
  /\ Goto(a, "inserted", "refused")
  /\ rowLock = Free
  /\ ~VersionMatches(a)
  /\ outcome' = [outcome EXCEPT ![a] = Refused]
  /\ ReleaseLocks(a)
  /\ UNCHANGED <<request, version, stored>>

BumpedTwice(a) ==
  /\ Goto(a, "acted", "committed")
  /\ version' = version + 2
  /\ stored' = [stored EXCEPT ![KeyOf(a)] =
       [expected |-> request[a].expected, answer |-> version + 2]]
  /\ ReleaseLocks(a)
  /\ UNCHANGED <<request, outcome>>

(* The effect and the key's row with its response become visible at once.  *)
Commit(a) ==
  /\ Goto(a, "acted", "committed")
  /\ version' = version + 1
  /\ stored' = [stored EXCEPT ![KeyOf(a)] =
       [expected |-> request[a].expected, answer |-> version + 1]]
  /\ ReleaseLocks(a)
  /\ UNCHANGED <<request, outcome>>

CommitReplay(a) ==
  /\ Goto(a, "replaying", "committed")
  /\ ReleaseLocks(a)
  /\ UNCHANGED <<request, outcome, version, stored>>

(* Rows never change once committed: this is the answer it computed. *)
Respond(a) ==
  /\ Goto(a, "committed", "answered")
  /\ outcome' = [outcome EXCEPT ![a] = stored[KeyOf(a)].answer]
  /\ UNCHANGED <<request, version, stored, keyLock, rowLock>>

(* The process, its connection or a statement fails, or the answer is lost.*)
FailKeepingLocks(a) ==
  /\ pc[a] \notin {"idle"} \cup Ended
  /\ pc' = [pc EXCEPT ![a] = "lost"]
  /\ UNCHANGED <<request, outcome, version, stored, keyLock, rowLock>>

Fail(a) ==
  /\ pc[a] \notin {"idle"} \cup Ended
  /\ pc' = [pc EXCEPT ![a] = "lost"]
  /\ ReleaseLocks(a)
  /\ UNCHANGED <<request, outcome, version, stored>>

-----------------------------------------------------------------------------
(* What the server does by itself; failing and sending are not among it. *)
Progress(a) ==
  \/ LockKey(a)
  \/ Replay(a) \/ KeyConflict(a) \/ KeyUnused(a)
  \/ InsertKey(a)
  \/ Act(a) \/ VersionConflict(a)
  \/ Commit(a) \/ CommitReplay(a)
  \/ Respond(a)

CommandNext ==
  \E a \in Attempt :
    \/ \E req \in Request : Begin(a, req)
    \/ Progress(a)
    \/ Fail(a)

CommandSpec == /\ CommandInit
               /\ [][CommandNext]_commandVars
               /\ \A a \in Attempt : WF_commandVars(Progress(a))

-----------------------------------------------------------------------------
(* Every effect on the document has one row, and every row one effect,     *)
(* whose version it answers: the key's row and the effect share their      *)
(* transaction, so that none survives a failure without the other          *)
(* (idempotent in the repositories).                                       *)
EffectsAreRecorded ==
  /\ version = Cardinality({k \in Key : stored[k] # NoRow})
  /\ \A k \in Key : stored[k] # NoRow =>
       /\ stored[k].answer = stored[k].expected + 1
       /\ \A other \in Key \ {k} :
            stored[other] # NoRow => stored[other].answer # stored[k].answer

Promise == INSTANCE ExactlyOnce WITH
  Attempt <- Attempt, Key <- Key, Version <- Version,
  NoRequest <- NoRequest, NoRow <- NoRow, Pending <- Pending,
  Refused <- Refused,
  request <- request,
  outcome <- outcome,
  version <- version,
  stored <- stored

(* The statements implement the promise made to callers. *)
KeepsThePromise == Promise!Spec

(* Whatever attempts fail or wait, every attempt that began comes to an    *)
(* end: no lock outlives its transaction and no two wait for each other.   *)
EveryAttemptEnds ==
  \A a \in Attempt : pc[a] = "begun" ~> pc[a] \in Ended
=============================================================================
