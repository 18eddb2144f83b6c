---------------------- MODULE IdempotentCommandProofs ----------------------
(***************************************************************************)
(* What holds of idempotent commands for any number of attempts and keys:  *)
(* an attempt knows, from the lock on its key on, what is stored under it, *)
(* and from the lock on the document on, its version.                      *)
(***************************************************************************)
EXTENDS IdempotentCommand, FiniteSetTheorems, TLAPS

TypeInv ==
  /\ pc \in [Attempt -> Control]
  /\ request \in [Attempt -> Request \cup {NoRequest}]
  /\ outcome \in [Attempt -> Nat \cup {Pending, Refused}]
  /\ version \in Nat
  /\ stored \in [Key -> Row \cup {NoRow}]
  /\ keyLock \in [Key -> Attempt \cup {Free}]
  /\ rowLock \in Attempt \cup {Free}

Asked(a) == pc[a] # "idle" <=> request[a] # NoRequest

Unanswered(a) == pc[a] \notin {"answered", "refused", "lost"} => outcome[a] = Pending

OwnsItsKey(a) ==
  pc[a] \in {"owner", "absent", "inserted", "acted", "replaying"} =>
    keyLock[KeyOf(a)] = a

KnowsWhatIsStored(a) ==
  /\ pc[a] \in {"absent", "inserted", "acted"} => stored[KeyOf(a)] = NoRow
  /\ pc[a] \in {"replaying", "committed"} =>
       /\ stored[KeyOf(a)] # NoRow
       /\ stored[KeyOf(a)].expected = request[a].expected

KnowsTheVersion(a) ==
  pc[a] = "acted" => rowLock = a /\ version = request[a].expected

Knows(a) == /\ Asked(a) /\ Unanswered(a) /\ OwnsItsKey(a)
            /\ KnowsWhatIsStored(a) /\ KnowsTheVersion(a)

(* The keys whose command has taken effect.                                *)
Used == {k \in Key : stored[k] # NoRow}

AnswersInRange == \A k \in Used : stored[k].answer <= version

Inv == /\ TypeInv
       /\ \A a \in Attempt : Knows(a)
       /\ IsFiniteSet(Used)
       /\ AnswersInRange
       /\ EffectsAreRecorded

-----------------------------------------------------------------------------
LEMMA RequestIs ==
  ASSUME TypeInv, NEW a \in Attempt, Asked(a), pc[a] # "idle"
  PROVE  /\ request[a] \in Request /\ KeyOf(a) \in Key
         /\ request[a].expected \in Version /\ request[a].expected \in Nat
BY RequestAssumption DEF TypeInv, Asked, Request, KeyOf

(* What Goto does to the attempts.                                         *)
LEMMA GotoIs ==
  ASSUME TypeInv, NEW a \in Attempt, NEW from \in Control, NEW to \in Control,
         Goto(a, from, to)
  PROVE  /\ pc[a] = from /\ pc'[a] = to /\ pc' \in [Attempt -> Control]
         /\ \A b \in Attempt \ {a} : pc'[b] = pc[b]
BY DEF Goto, TypeInv

LEMMA ReleaseIs ==
  ASSUME TypeInv, NEW a \in Attempt, ReleaseLocks(a)
  PROVE  /\ keyLock' \in [Key -> Attempt \cup {Free}]
         /\ rowLock' \in Attempt \cup {Free}
         /\ \A b \in Attempt \ {a}, k \in Key : keyLock[k] = b => keyLock'[k] = b
         /\ \A b \in Attempt \ {a} : rowLock = b => rowLock' = b
BY RequestAssumption DEF ReleaseLocks, TypeInv

(* What another attempt knows survives a step that leaves its locks and,   *)
(* under them, the rows and the version alone.                             *)
LEMMA OthersKnow ==
  ASSUME TypeInv, NEW b \in Attempt, Knows(b),
         pc'[b] = pc[b], request'[b] = request[b], outcome'[b] = outcome[b],
         \A k \in Key : keyLock[k] = b => keyLock'[k] = b,
         rowLock = b => rowLock' = b /\ version' = version,
         \A k \in Key : \/ stored'[k] = stored[k]
                        \/ stored[k] = NoRow /\ keyLock[k] # b
  PROVE  Knows(b)'
<1>1. pc[b] # "idle" => KeyOf(b) \in Key /\ KeyOf(b)' = KeyOf(b)
  BY RequestIs DEF Knows, KeyOf
<1>2. Asked(b)' /\ Unanswered(b)'
  BY DEF Knows, Asked, Unanswered
<1>3. OwnsItsKey(b)' /\ KnowsTheVersion(b)'
  BY <1>1 DEF Knows, OwnsItsKey, KnowsTheVersion
<1>4. KnowsWhatIsStored(b)'
  BY <1>1 DEF Knows, OwnsItsKey, KnowsWhatIsStored
<1> QED
  BY <1>2, <1>3, <1>4 DEF Knows

(* A step that commits nothing.                                            *)
LEMMA NothingCommitted ==
  ASSUME Inv, NEW a \in Attempt, TypeInv', version' = version, stored' = stored,
         \A b \in Attempt \ {a} :
           /\ pc'[b] = pc[b] /\ request'[b] = request[b] /\ outcome'[b] = outcome[b]
           /\ \A k \in Key : keyLock[k] = b => keyLock'[k] = b
           /\ rowLock = b => rowLock' = b,
         Knows(a)'
  PROVE  Inv'
<1>1. \A b \in Attempt \ {a} : Knows(b)'
  BY OthersKnow DEF Inv
<1>2. Used' = Used
  BY DEF Used
<1> QED
  BY <1>1, <1>2 DEF Inv, AnswersInRange, EffectsAreRecorded

LEMMA BeginPreserves ==
  ASSUME Inv, NEW a \in Attempt, NEW req \in Request, Begin(a, req)
  PROVE  Inv'
<1>1. Goto(a, "idle", "begun") /\ "idle" \in Control /\ "begun" \in Control /\ TypeInv
  BY DEF Begin, Control, Inv
<1>2. /\ pc[a] = "idle" /\ pc'[a] = "begun" /\ pc' \in [Attempt -> Control]
      /\ \A b \in Attempt \ {a} : pc'[b] = pc[b]
  BY <1>1, GotoIs
<1>3. /\ request' = [request EXCEPT ![a] = req] /\ req # NoRequest
      /\ UNCHANGED <<outcome, version, stored, keyLock, rowLock>>
  BY RequestAssumption DEF Begin, Request
<1>4. TypeInv' /\ request'[a] = req
  BY <1>1, <1>2, <1>3 DEF TypeInv
<1>5. Knows(a)'
  BY <1>2, <1>3, <1>4 DEF Inv, Knows, Asked, Unanswered, OwnsItsKey,
     KnowsWhatIsStored, KnowsTheVersion
<1> QED
  BY <1>1, <1>2, <1>3, <1>4, <1>5, NothingCommitted DEF TypeInv

(* A statement that only moves the attempt on, or gives it a lock.         *)
LEMMA MovesOn ==
  ASSUME Inv, NEW a \in Attempt, NEW from \in Control, NEW to \in Control,
         Goto(a, from, to), from # "idle", to # "idle",
         UNCHANGED <<request, version, stored>>,
         outcome' \in [Attempt -> Nat \cup {Pending, Refused}],
         \A b \in Attempt \ {a} : outcome'[b] = outcome[b],
         keyLock' \in [Key -> Attempt \cup {Free}],
         rowLock' \in Attempt \cup {Free},
         \A b \in Attempt \ {a}, k \in Key : keyLock[k] = b => keyLock'[k] = b,
         \A b \in Attempt \ {a} : rowLock = b => rowLock' = b,
         Unanswered(a)', OwnsItsKey(a)', KnowsWhatIsStored(a)', KnowsTheVersion(a)'
  PROVE  Inv'
<1>1. /\ TypeInv /\ Asked(a)
      /\ pc[a] = from /\ pc'[a] = to /\ pc' \in [Attempt -> Control]
      /\ \A b \in Attempt \ {a} : pc'[b] = pc[b]
  BY GotoIs DEF Inv, Knows
<1>2. TypeInv'
  BY <1>1 DEF TypeInv
<1>3. Knows(a)'
  BY <1>1 DEF Knows, Asked
<1> QED
  BY <1>1, <1>2, <1>3, NothingCommitted

(* What an attempt knows that is past its first statement.                 *)
LEMMA UnderWay ==
  ASSUME Inv, NEW a \in Attempt, pc[a] # "idle"
  PROVE  /\ TypeInv /\ Knows(a) /\ pc[a] \in Control
         /\ request[a] \in Request /\ KeyOf(a) \in Key
         /\ request[a].expected \in Nat /\ request[a].expected \in Version
BY RequestIs DEF Inv, TypeInv, Knows

LEMMA LockKeyPreserves ==
  ASSUME Inv, NEW a \in Attempt, LockKey(a)
  PROVE  Inv'
<1>1. /\ Goto(a, "begun", "owner") /\ "begun" \in Control /\ "owner" \in Control
      /\ pc[a] = "begun" /\ keyLock[KeyOf(a)] = Free
      /\ keyLock' = [keyLock EXCEPT ![KeyOf(a)] = a]
      /\ UNCHANGED <<request, outcome, version, stored, rowLock>>
  BY DEF LockKey, KeyIsFree, Goto, Control
<1>2. /\ TypeInv /\ Knows(a) /\ KeyOf(a) \in Key /\ KeyOf(a)' = KeyOf(a)
      /\ pc'[a] = "owner"
  BY <1>1, UnderWay, GotoIs DEF KeyOf
<1>3. /\ keyLock' \in [Key -> Attempt \cup {Free}] /\ keyLock'[KeyOf(a)] = a
      /\ \A b \in Attempt \ {a}, k \in Key : keyLock[k] = b => keyLock'[k] = b
  BY <1>1, <1>2, RequestAssumption DEF TypeInv
<1>4. Unanswered(a)' /\ OwnsItsKey(a)' /\ KnowsWhatIsStored(a)' /\ KnowsTheVersion(a)'
  BY <1>1, <1>2, <1>3 DEF Knows, Unanswered, OwnsItsKey, KnowsWhatIsStored,
     KnowsTheVersion
<1> QED
  BY <1>1, <1>2, <1>3, <1>4, MovesOn DEF TypeInv

(* The statements that read, or insert the row nobody else sees yet.       *)
LEMMA ReadsPreserve ==
  ASSUME Inv, NEW a \in Attempt, Replay(a) \/ KeyUnused(a) \/ InsertKey(a)
  PROVE  Inv'
<1>1. PICK from \in Control, to \in Control :
        /\ Goto(a, from, to) /\ pc[a] = from /\ from # "idle"
        /\ from \in {"owner", "absent"}
        /\ to \in {"absent", "inserted", "replaying"}
        /\ to \in {"absent", "inserted"} => stored[KeyOf(a)] = NoRow
        /\ to = "replaying" => SamePayload(a)
  BY DEF Replay, KeyUnused, InsertKey, Goto, Control
<1>2. UNCHANGED <<request, outcome, version, stored, keyLock, rowLock>>
  BY DEF Replay, KeyUnused, InsertKey
<1>3. /\ TypeInv /\ Knows(a) /\ KeyOf(a) \in Key /\ KeyOf(a)' = KeyOf(a)
      /\ pc'[a] = to
  BY <1>1, <1>2, UnderWay, GotoIs DEF KeyOf
<1>4. Unanswered(a)' /\ OwnsItsKey(a)' /\ KnowsWhatIsStored(a)' /\ KnowsTheVersion(a)'
  BY <1>1, <1>2, <1>3 DEF Knows, Unanswered, OwnsItsKey, KnowsWhatIsStored,
     KnowsTheVersion, SamePayload
<1> QED
  BY <1>1, <1>2, <1>3, <1>4, MovesOn DEF TypeInv

LEMMA ActPreserves ==
  ASSUME Inv, NEW a \in Attempt, Act(a)
  PROVE  Inv'
<1>1. /\ Goto(a, "inserted", "acted") /\ "inserted" \in Control /\ "acted" \in Control
      /\ pc[a] = "inserted" /\ rowLock = Free /\ rowLock' = a
      /\ version = request[a].expected
      /\ UNCHANGED <<request, outcome, version, stored, keyLock>>
  BY DEF Act, VersionMatches, Goto, Control
<1>2. /\ TypeInv /\ Knows(a) /\ KeyOf(a) \in Key /\ KeyOf(a)' = KeyOf(a)
      /\ pc'[a] = "acted"
  BY <1>1, UnderWay, GotoIs DEF KeyOf
<1>3. Unanswered(a)' /\ OwnsItsKey(a)' /\ KnowsWhatIsStored(a)' /\ KnowsTheVersion(a)'
  BY <1>1, <1>2 DEF Knows, Unanswered, OwnsItsKey, KnowsWhatIsStored, KnowsTheVersion
<1>4. \A b \in Attempt : rowLock # b
  BY <1>1, RequestAssumption
<1> QED
  BY <1>1, <1>2, <1>3, <1>4, MovesOn DEF TypeInv

(* The statements that end a transaction without committing an effect, and *)
(* the answer afterwards.                                                  *)
LEMMA EndsPreserve ==
  ASSUME Inv, NEW a \in Attempt,
         KeyConflict(a) \/ VersionConflict(a) \/ CommitReplay(a) \/ Fail(a)
  PROVE  Inv'
<1>1. PICK from \in Control, to \in Control :
        /\ Goto(a, from, to) /\ pc[a] = from /\ from # "idle"
        /\ to \in {"refused", "lost", "committed"}
        /\ to = "committed" => from = "replaying"
        /\ \/ outcome' = outcome /\ to # "refused"
           \/ outcome' = [outcome EXCEPT ![a] = Refused] /\ to = "refused"
  <2>1. pc[a] \in Control
    BY DEF Inv, TypeInv
  <2> QED
    BY <2>1 DEF KeyConflict, VersionConflict, CommitReplay, Fail, Goto, Control, Ended
<1>2. /\ ReleaseLocks(a) /\ UNCHANGED <<request, version, stored>>
  BY DEF KeyConflict, VersionConflict, CommitReplay, Fail
<1>3. /\ TypeInv /\ Knows(a) /\ KeyOf(a)' = KeyOf(a) /\ pc'[a] = to
  BY <1>1, <1>2, UnderWay, GotoIs DEF KeyOf
<1>4. /\ outcome' \in [Attempt -> Nat \cup {Pending, Refused}]
      /\ \A b \in Attempt \ {a} : outcome'[b] = outcome[b]
      /\ to = "committed" => outcome' = outcome
  BY <1>1, <1>3 DEF TypeInv
<1>5. Unanswered(a)' /\ OwnsItsKey(a)' /\ KnowsWhatIsStored(a)' /\ KnowsTheVersion(a)'
  BY <1>1, <1>2, <1>3, <1>4 DEF Knows, Unanswered, OwnsItsKey, KnowsWhatIsStored,
     KnowsTheVersion
<1> QED
  BY <1>1, <1>2, <1>3, <1>4, <1>5, ReleaseIs, MovesOn

LEMMA RespondPreserves ==
  ASSUME Inv, NEW a \in Attempt, Respond(a)
  PROVE  Inv'
<1>1. /\ Goto(a, "committed", "answered") /\ pc[a] = "committed"
      /\ "committed" \in Control /\ "answered" \in Control
      /\ outcome' = [outcome EXCEPT ![a] = stored[KeyOf(a)].answer]
      /\ UNCHANGED <<request, version, stored, keyLock, rowLock>>
  BY DEF Respond, Goto, Control, Ended
<1>2. /\ TypeInv /\ Knows(a) /\ KeyOf(a) \in Key /\ pc'[a] = "answered"
  BY <1>1, UnderWay, GotoIs
<1>3. stored[KeyOf(a)] \in Row
  BY <1>1, <1>2 DEF TypeInv, Knows, KnowsWhatIsStored
<1>4. /\ outcome' \in [Attempt -> Nat \cup {Pending, Refused}]
      /\ \A b \in Attempt \ {a} : outcome'[b] = outcome[b]
  BY <1>1, <1>2, <1>3 DEF TypeInv, Row
<1>5. Unanswered(a)' /\ OwnsItsKey(a)' /\ KnowsWhatIsStored(a)' /\ KnowsTheVersion(a)'
  BY <1>2 DEF Unanswered, OwnsItsKey, KnowsWhatIsStored, KnowsTheVersion
<1> QED
  BY <1>1, <1>2, <1>4, <1>5, MovesOn DEF TypeInv

(* The effect and its row: the version moves on by one, the answer is the  *)
(* greatest there is.                                                      *)
LEMMA CommitPreserves ==
  ASSUME Inv, NEW a \in Attempt, Commit(a)
  PROVE  Inv'
<1> DEFINE k == KeyOf(a)
           row == [expected |-> request[a].expected, answer |-> version + 1]
<1>1. /\ Goto(a, "acted", "committed") /\ pc[a] = "acted"
      /\ "acted" \in Control /\ "committed" \in Control
      /\ version' = version + 1 /\ stored' = [stored EXCEPT ![k] = row]
      /\ ReleaseLocks(a) /\ UNCHANGED <<request, outcome>>
  BY DEF Commit, Goto, Control
<1>2. /\ TypeInv /\ Knows(a) /\ k \in Key /\ request[a].expected \in Version
      /\ k' = k
  BY <1>1, UnderWay DEF KeyOf
<1>3. /\ pc' \in [Attempt -> Control] /\ pc'[a] = "committed"
      /\ \A b \in Attempt \ {a} : pc'[b] = pc[b]
  BY <1>1, <1>2, GotoIs
<1>4. /\ stored[k] = NoRow /\ version = request[a].expected /\ rowLock = a
      /\ keyLock[k] = a /\ version \in Nat
  BY <1>1, <1>2 DEF Knows, KnowsWhatIsStored, KnowsTheVersion, OwnsItsKey, TypeInv
<1>5. row \in Row /\ row # NoRow /\ row.expected = version /\ row.answer = version + 1
  BY <1>2, <1>4, RequestAssumption DEF Row
<1> HIDE DEF k, row
<1>6. /\ stored' \in [Key -> Row \cup {NoRow}] /\ stored'[k] = row
      /\ \A other \in Key \ {k} : stored'[other] = stored[other]
  BY <1>1, <1>2, <1>5 DEF TypeInv
<1>7. TypeInv'
  BY <1>1, <1>2, <1>3, <1>4, <1>6, ReleaseIs DEF TypeInv
<1>8. \A b \in Attempt \ {a} : Knows(b)'
  <2> TAKE b \in Attempt \ {a}
  <2>1. /\ \A i \in Key : keyLock[i] = b => keyLock'[i] = b
        /\ rowLock = b => rowLock' = b /\ version' = version
        /\ \A i \in Key : \/ stored'[i] = stored[i]
                          \/ stored[i] = NoRow /\ keyLock[i] # b
    BY <1>1, <1>2, <1>4, <1>6, ReleaseIs
  <2>2. TypeInv /\ Knows(b) /\ pc'[b] = pc[b] /\ request'[b] = request[b]
        /\ outcome'[b] = outcome[b]
    BY <1>1, <1>2, <1>3 DEF Inv
  <2> QED
    BY <2>1, <2>2, OthersKnow
<1>9. Knows(a)'
  <2>1. Asked(a)' /\ Unanswered(a)' /\ OwnsItsKey(a)' /\ KnowsTheVersion(a)'
    BY <1>1, <1>2, <1>3 DEF Knows, Asked, Unanswered, OwnsItsKey, KnowsTheVersion
  <2>2. KnowsWhatIsStored(a)'
    BY <1>1, <1>2, <1>3, <1>4, <1>5, <1>6 DEF KnowsWhatIsStored, k
  <2> QED
    BY <2>1, <2>2 DEF Knows
<1>10. Used' = Used \cup {k} /\ k \notin Used
  BY <1>2, <1>4, <1>5, <1>6 DEF Used
<1>11. IsFiniteSet(Used)' /\ Cardinality(Used') = Cardinality(Used) + 1
  BY <1>10, FS_AddElement DEF Inv
<1>12. \A i \in Used : stored[i].answer \in Nat /\ stored[i].answer <= version
  BY <1>2 DEF Inv, AnswersInRange, TypeInv, Used, Row
<1>13. AnswersInRange'
  BY <1>1, <1>4, <1>5, <1>6, <1>10, <1>12 DEF AnswersInRange, Used
<1>14. EffectsAreRecorded'
  <2>1. version = Cardinality(Used)
    BY DEF Inv, EffectsAreRecorded, Used
  <2>2. version' = Cardinality(Used')
    BY <1>1, <1>11, <2>1
  <2>3. \A i \in Used' : stored'[i].answer = stored'[i].expected + 1
    BY <1>5, <1>6, <1>10 DEF Inv, EffectsAreRecorded, Used
  <2>4. \A i, j \in Used' : i # j => stored'[i].answer # stored'[j].answer
    <3> SUFFICES ASSUME NEW i \in Used', NEW j \in Used', i # j
                 PROVE  stored'[i].answer # stored'[j].answer
      OBVIOUS
    <3>1. CASE i \in Used /\ j \in Used
      BY <1>6, <1>10, <3>1 DEF Inv, EffectsAreRecorded, Used
    <3>2. CASE i = k
      BY <1>4, <1>5, <1>6, <1>10, <1>12, <3>2 DEF Used
    <3>3. CASE j = k
      BY <1>4, <1>5, <1>6, <1>10, <1>12, <3>3 DEF Used
    <3> QED
      BY <1>10, <3>1, <3>2, <3>3
  <2> QED
    BY <2>2, <2>3, <2>4 DEF EffectsAreRecorded, Used
<1> QED
  BY <1>7, <1>8, <1>9, <1>11, <1>13, <1>14 DEF Inv

-----------------------------------------------------------------------------
LEMMA InitHolds ==
  ASSUME CommandInit
  PROVE  Inv
<1>1. TypeInv
  BY DEF CommandInit, TypeInv, Control
<1>2. \A a \in Attempt : Knows(a)
  BY DEF CommandInit, Knows, Asked, Unanswered, OwnsItsKey, KnowsWhatIsStored,
     KnowsTheVersion
<1>3. Used = {} /\ version = 0
  BY DEF CommandInit, Used
<1>4. IsFiniteSet(Used) /\ Cardinality(Used) = 0
  BY <1>3, FS_EmptySet
<1> QED
  BY <1>1, <1>2, <1>3, <1>4 DEF Inv, AnswersInRange, EffectsAreRecorded, Used

LEMMA NextPreserves ==
  ASSUME Inv, [CommandNext]_commandVars
  PROVE  Inv'
<1>1. ASSUME NEW a \in Attempt, Progress(a)
      PROVE  Inv'
  BY <1>1, LockKeyPreserves, ReadsPreserve, ActPreserves, EndsPreserve,
     CommitPreserves, RespondPreserves DEF Progress
<1>2. CASE UNCHANGED commandVars
  <2>1. UNCHANGED <<pc, request, outcome, version, stored, keyLock, rowLock>>
    BY <1>2 DEF commandVars
  <2>2. TypeInv' /\ Used' = Used
    BY <2>1 DEF Inv, TypeInv, Used
  <2>3. \A a \in Attempt : Knows(a)'
    BY <2>1, OthersKnow DEF Inv
  <2> QED
    BY <2>1, <2>2, <2>3 DEF Inv, AnswersInRange, EffectsAreRecorded
<1> QED
  BY <1>1, <1>2, BeginPreserves, EndsPreserve DEF CommandNext

LEMMA InvHolds == CommandSpec => []Inv
<1>1. CommandInit => Inv
  BY InitHolds
<1>2. Inv /\ [CommandNext]_commandVars => Inv'
  BY NextPreserves
<1> QED
  BY <1>1, <1>2, PTL DEF CommandSpec

(* The version never runs past the number of keys used.                    *)
THEOREM CommandsAreTyped == CommandSpec => []CommandTypeOK
<1>1. Inv => CommandTypeOK
  <2> SUFFICES ASSUME Inv
               PROVE  CommandTypeOK
    OBVIOUS
  <2>1. Used \subseteq Key /\ IsFiniteSet(Key) /\ version = Cardinality(Used)
    BY RequestAssumption DEF Inv, Used, EffectsAreRecorded
  <2>2. /\ Cardinality(Used) <= Cardinality(Key)
        /\ Cardinality(Key) \in Nat
    BY <2>1, FS_Subset, FS_CardinalityType
  <2>3. version \in 0..Cardinality(Key)
    BY <2>1, <2>2 DEF Inv, TypeInv
  <2> QED
    BY <2>3 DEF Inv, TypeInv, CommandTypeOK
<1> QED
  BY <1>1, InvHolds, PTL

(* As many effects as keys used, each answered with the version it made,   *)
(* whichever attempts fail between which statements.                       *)
THEOREM EveryEffectIsRecorded == CommandSpec => []EffectsAreRecorded
<1>1. Inv => EffectsAreRecorded
  BY DEF Inv
<1> QED
  BY <1>1, InvHolds, PTL

-----------------------------------------------------------------------------
(***************************************************************************)
(* Exactly once.  A command takes effect when it commits, a caller hears   *)
(* when the response leaves or the refusal ends the transaction; every     *)
(* other statement leaves what is promised as it is.                       *)
(***************************************************************************)
LEMMA CommitApplies ==
  ASSUME Inv, NEW a \in Attempt, Commit(a)
  PROVE  Promise!Apply(a)
<1>1. pc[a] = "acted" /\ UNCHANGED <<request, outcome>>
  BY DEF Commit, Goto
<1>2. /\ request[a] # NoRequest /\ outcome[a] = Pending
      /\ stored[request[a].key] = NoRow /\ version = request[a].expected
  BY <1>1 DEF Inv, Knows, Asked, Unanswered, KnowsWhatIsStored, KnowsTheVersion, KeyOf
<1> QED
  BY <1>1, <1>2 DEF Promise!Apply, Promise!Recorded, Commit, KeyOf

LEMMA RespondAnswers ==
  ASSUME Inv, NEW a \in Attempt, Respond(a)
  PROVE  Promise!Answer(a)
<1>1. pc[a] = "committed" /\ UNCHANGED <<request, version, stored>>
  BY DEF Respond, Goto
<1>2. /\ request[a] # NoRequest /\ outcome[a] = Pending
      /\ stored[request[a].key] # NoRow
      /\ stored[request[a].key].expected = request[a].expected
  BY <1>1 DEF Inv, Knows, Asked, Unanswered, KnowsWhatIsStored, KeyOf
<1> QED
  BY <1>1, <1>2 DEF Promise!Answer, Respond, KeyOf

LEMMA ConflictsRefuse ==
  ASSUME Inv, NEW a \in Attempt, KeyConflict(a) \/ VersionConflict(a)
  PROVE  Promise!Refuse(a)
<1>1. /\ pc[a] \in {"owner", "inserted"}
      /\ outcome' = [outcome EXCEPT ![a] = Refused]
      /\ UNCHANGED <<request, version, stored>>
  BY DEF KeyConflict, VersionConflict, Goto
<1>2. request[a] # NoRequest /\ outcome[a] = Pending
  BY <1>1 DEF Inv, Knows, Asked, Unanswered
<1>3. CASE KeyConflict(a)
  BY <1>1, <1>2, <1>3 DEF Promise!Refuse, KeyConflict, SamePayload, KeyOf
<1>4. CASE VersionConflict(a)
  <2>1. stored[request[a].key] = NoRow /\ version # request[a].expected
    BY <1>4 DEF VersionConflict, VersionMatches, Goto, Inv, Knows,
       KnowsWhatIsStored, KeyOf
  <2> QED
    BY <1>1, <1>2, <2>1 DEF Promise!Refuse
<1> QED
  BY <1>3, <1>4

LEMMA BeginSubmits ==
  ASSUME Inv, NEW a \in Attempt, NEW req \in Request, Begin(a, req)
  PROVE  Promise!Submit(a, req) /\ req \in Promise!Request
<1>1. request[a] = NoRequest
  BY DEF Begin, Goto, Inv, Knows, Asked
<1> QED
  BY <1>1 DEF Promise!Submit, Promise!Request, Begin, Request

LEMMA NextKeepsThePromise ==
  ASSUME Inv, [CommandNext]_commandVars
  PROVE  [Promise!Next]_(Promise!promiseVars)
<1>1. ASSUME UNCHANGED <<request, outcome, version, stored>>
      PROVE  UNCHANGED Promise!promiseVars
  BY <1>1 DEF Promise!promiseVars
<1>2. ASSUME NEW a \in Attempt, NEW req \in Request, Begin(a, req)
      PROVE  Promise!Next
  BY <1>2, BeginSubmits DEF Promise!Next
<1>3. ASSUME NEW a \in Attempt, Commit(a) \/ Respond(a) \/ KeyConflict(a) \/ VersionConflict(a)
      PROVE  Promise!Next
  BY <1>3, CommitApplies, RespondAnswers, ConflictsRefuse DEF Promise!Next
<1>4. ASSUME NEW a \in Attempt,
             \/ LockKey(a) \/ Replay(a) \/ KeyUnused(a) \/ InsertKey(a)
             \/ Act(a) \/ CommitReplay(a) \/ Fail(a)
      PROVE  UNCHANGED Promise!promiseVars
  BY <1>1, <1>4 DEF LockKey, Replay, KeyUnused, InsertKey, Act, CommitReplay, Fail
<1>5. CASE UNCHANGED commandVars
  BY <1>1, <1>5 DEF commandVars
<1> QED
  BY <1>2, <1>3, <1>4, <1>5 DEF CommandNext, Progress

(* However often a request is sent, it takes effect once at most, whoever  *)
(* is answered hears of his own effect, and nobody is refused whose        *)
(* request has taken effect: for any attempts, failures and lost answers.  *)
THEOREM CommandsHappenOnce == CommandSpec => KeepsThePromise
<1>1. CommandInit => Promise!Init
  BY DEF CommandInit, Promise!Init
<1>2. Inv /\ [CommandNext]_commandVars => [Promise!Next]_(Promise!promiseVars)
  BY NextKeepsThePromise
<1> QED
  BY <1>1, <1>2, InvHolds, PTL DEF CommandSpec, KeepsThePromise, Promise!Spec
=============================================================================
