------------------------ MODULE BalanceLockingProofs ------------------------
(***************************************************************************)
(* Why a command may be seen as one step on the rows it writes: whatever   *)
(* transaction has read a row under lock still owns it when it commits, so *)
(* that what it read is what is there.                                     *)
(***************************************************************************)
EXTENDS BalanceLocking, TLAPS

TypeInv ==
  /\ rows \in [Key -> Nat \cup {Absent}]
  /\ status \in [Txn -> {"running", "committed", "aborted"}]
  /\ phase \in [Txn -> {"lock", "insert", "relock", "write"}]
  /\ todo \in [Txn -> SUBSET Key]
  /\ owner \in [Key -> Txn \cup {Free}]
  /\ read \in [Txn -> [Key -> Nat \cup {Absent}]]

(* What a transaction that runs has found, it owns, and nobody has changed.*)
ReadsStand(t) ==
  \A k \in Key : Found(t, k) => owner[k] = t /\ read[t][k] = Quantity(k)

(* A row that is not there is inserted only by one that adds to it.        *)
InsertsInbound(t) ==
  /\ phase[t] = "insert" => todo[t] \subseteq Inbound(t)
  /\ \A k \in Key : owner[k] = t /\ rows[k] = Absent => k \in Inbound(t)

Knows(t) == status[t] = "running" => ReadsStand(t) /\ InsertsInbound(t)

(* An ended transaction holds nothing. *)
Releases(t) == status[t] # "running" => \A k \in Key : owner[k] # t

Inv == TypeInv /\ \A t \in Txn : Knows(t) /\ Releases(t)

-----------------------------------------------------------------------------
LEMMA KeysAreKeys ==
  ASSUME NEW t \in Txn
  PROVE  /\ KeysOf(t) \subseteq Key /\ Inbound(t) \subseteq Key
         /\ \A k \in KeysOf(t) : Effect[t][k] \in Int
         /\ \A k \in Inbound(t) : k \in KeysOf(t) /\ Effect[t][k] > 0
BY LockingAssumption DEF KeysOf, Inbound

(* What others know survives a step that takes no row of theirs, and       *)
(* changes none.                                                           *)
LEMMA OthersKnow ==
  ASSUME Inv, NEW t \in Txn, NEW u \in Txn, u # t,
         status'[u] = status[u], phase'[u] = phase[u], todo'[u] = todo[u],
         read'[u] = read[u],
         \A k \in Key : owner'[k] = u <=> owner[k] = u,
         \A k \in Key : owner[k] = u => rows'[k] = rows[k]
  PROVE  Knows(u)' /\ Releases(u)'
<1>1. Knows(u) /\ Releases(u)
  BY DEF Inv
<1>2. status[u] = "running" => ReadsStand(u)'
  BY <1>1 DEF Knows, ReadsStand, Found, Quantity
<1>3. status[u] = "running" => InsertsInbound(u)'
  BY <1>1 DEF Knows, InsertsInbound, Inbound, KeysOf
<1> QED
  BY <1>1, <1>2, <1>3 DEF Knows, Releases

(* A statement of t over one key: it takes the row if it is free or its    *)
(* own, or leaves it.                                                      *)
LEMMA VisitPreserves ==
  ASSUME Inv, NEW t \in Txn, NEW k \in Key, Visit(t, k),
         \/ owner' = owner
         \/ owner' = [owner EXCEPT ![k] = t] /\ owner[k] \in {t, Free},
         rows[k] = Absent => owner'[k] # t \/ k \in Inbound(t),
         \/ read' = read
         \/ read' = [read EXCEPT ![t][k] = Quantity(k)] /\ owner'[k] = t
  PROVE  Inv'
<1>1. /\ TypeInv /\ status[t] = "running" /\ k \in todo[t]
      /\ todo' = [todo EXCEPT ![t] = @ \ {k}]
      /\ rows' = rows /\ status' = status /\ phase' = phase
      /\ Knows(t)
  BY DEF Visit, Inv
<1>2. /\ todo' \in [Txn -> SUBSET Key] /\ todo'[t] \subseteq todo[t]
      /\ \A u \in Txn \ {t} : todo'[u] = todo[u]
  BY <1>1 DEF TypeInv
<1>3. /\ owner' \in [Key -> Txn \cup {Free}]
      /\ owner[k] # t => owner'[k] = owner[k] \/ (owner[k] = Free /\ owner'[k] = t)
      /\ owner[k] = t => owner'[k] = t
      /\ \A i \in Key \ {k} : owner'[i] = owner[i]
  BY <1>1 DEF TypeInv
<1>4. /\ read' \in [Txn -> [Key -> Nat \cup {Absent}]]
      /\ read'[t][k] = read[t][k] \/ (read'[t][k] = Quantity(k) /\ owner'[k] = t)
      /\ \A i \in Key \ {k} : read'[t][i] = read[t][i]
      /\ \A u \in Txn \ {t} : read'[u] = read[u]
  <2>1. Quantity(k) \in Nat
    BY <1>1 DEF TypeInv, Quantity
  <2>2. read \in [Txn -> [Key -> Nat \cup {Absent}]]
    BY <1>1 DEF TypeInv
  <2>3. CASE read' = read
    BY <2>2, <2>3
  <2>4. CASE read' = [read EXCEPT ![t][k] = Quantity(k)] /\ owner'[k] = t
    BY <2>1, <2>2, <2>4
  <2> QED
    BY <2>3, <2>4
<1>5. TypeInv'
  BY <1>1, <1>2, <1>3, <1>4 DEF TypeInv
<1>6. ASSUME NEW u \in Txn \ {t}
      PROVE  Knows(u)' /\ Releases(u)'
  <2>1. \A i \in Key : owner'[i] = u <=> owner[i] = u
    BY <1>3, LockingAssumption
  <2> QED
    BY <1>1, <1>2, <1>4, <2>1, OthersKnow
<1>7. ReadsStand(t)'
  <2> SUFFICES ASSUME NEW i \in Key, read'[t][i] # Absent
               PROVE  owner'[i] = t /\ read'[t][i] = Quantity(i)
    BY <1>1 DEF ReadsStand, Found, Quantity
  <2>1. read[t][i] # Absent => owner[i] = t /\ read[t][i] = Quantity(i)
    BY <1>1 DEF Knows, ReadsStand, Found
  <2> QED
    BY <1>3, <1>4, <2>1
<1>8. InsertsInbound(t)'
  BY <1>1, <1>2, <1>3 DEF Knows, InsertsInbound, Inbound, KeysOf
<1> QED
  BY <1>1, <1>5, <1>6, <1>7, <1>8 DEF Inv, Knows, Releases

LEMMA LockRowPreserves ==
  ASSUME Inv, NEW t \in Txn, NEW k \in KeysOf(t), LockRow(t, k)
  PROVE  Inv'
<1>1. /\ k \in Key /\ Visit(t, k) /\ ~ BlockedOn(t, k)
      /\ phase[t] # "insert" /\ status[t] = "running" /\ Knows(t)
  BY KeysAreKeys DEF LockRow, Visit, Inv
<1>2. CASE Visible(t, k)
  <2>1. owner[k] \in {t, Free} /\ owner' = [owner EXCEPT ![k] = t]
    BY <1>1, <1>2 DEF BlockedOn, LockRow
  <2>2. rows[k] = Absent => k \in Inbound(t)
    BY <1>1, <1>2 DEF Visible, Knows, InsertsInbound
  <2>3. owner'[k] = t /\ read' = [read EXCEPT ![t][k] = Quantity(k)]
    BY <1>1, <1>2, <2>1 DEF LockRow, Inv, TypeInv
  <2> QED
    BY <1>1, <2>1, <2>2, <2>3, VisitPreserves
<1>3. CASE ~ Visible(t, k)
  <2>1. owner' = owner /\ read' = read /\ owner[k] # t
    BY <1>3 DEF LockRow, Visible
  <2> QED
    BY <1>1, <2>1, VisitPreserves
<1> QED
  BY <1>2, <1>3

LEMMA InsertRowPreserves ==
  ASSUME Inv, NEW t \in Txn, NEW k \in KeysOf(t), InsertRow(t, k)
  PROVE  Inv'
<1>1. /\ k \in Key /\ Visit(t, k) /\ ~ BlockedOn(t, k) /\ phase[t] = "insert"
      /\ read' = read
  BY KeysAreKeys DEF InsertRow
<1>2. k \in Inbound(t)
  BY <1>1 DEF Inv, Knows, InsertsInbound, Visit
<1>3. \/ owner' = owner
      \/ owner' = [owner EXCEPT ![k] = t] /\ owner[k] \in {t, Free}
  BY <1>1 DEF InsertRow, BlockedOn
<1> QED
  BY <1>1, <1>2, <1>3, VisitPreserves

LEMMA EnterPhasePreserves ==
  ASSUME Inv, NEW t \in Txn, FirstPassDone(t) \/ InsertsDone(t) \/ LocksDone(t)
  PROVE  Inv'
<1>1. PICK to \in {"insert", "relock", "write"}, keys \in SUBSET Key :
        /\ phase' = [phase EXCEPT ![t] = to]
        /\ todo' = [todo EXCEPT ![t] = keys]
        /\ to = "insert" => keys \subseteq Inbound(t)
        /\ UNCHANGED <<rows, status, owner, read>>
  BY KeysAreKeys DEF FirstPassDone, InsertsDone, LocksDone, EnterPhase
<1>2. /\ TypeInv' /\ phase'[t] = to /\ todo'[t] = keys
      /\ \A u \in Txn \ {t} : phase'[u] = phase[u] /\ todo'[u] = todo[u]
  BY <1>1 DEF Inv, TypeInv
<1>3. ASSUME NEW u \in Txn \ {t}
      PROVE  Knows(u)' /\ Releases(u)'
  BY <1>1, <1>2, OthersKnow
<1>4. Knows(t)' /\ Releases(t)'
  BY <1>1, <1>2 DEF Inv, Knows, Releases, ReadsStand, InsertsInbound, Found,
     Quantity, Inbound, KeysOf
<1> QED
  BY <1>2, <1>3, <1>4 DEF Inv

LEMMA EndPreserves ==
  ASSUME Inv, NEW t \in Txn, NEW to \in {"committed", "aborted"}, End(t, to),
         rows' \in [Key -> Nat \cup {Absent}],
         \A k \in Key : rows'[k] = rows[k] \/ owner[k] = t
  PROVE  Inv'
<1>1. /\ TypeInv /\ status[t] = "running"
      /\ status' = [status EXCEPT ![t] = to]
      /\ owner' = [k \in Key |-> IF owner[k] = t THEN Free ELSE owner[k]]
      /\ UNCHANGED <<phase, todo, read>>
  BY DEF End, ReleasedBy, Inv
<1>2. /\ TypeInv' /\ status'[t] = to
      /\ \A u \in Txn \ {t} : status'[u] = status[u]
  BY <1>1 DEF TypeInv
<1>3. ASSUME NEW u \in Txn \ {t}
      PROVE  Knows(u)' /\ Releases(u)'
  <2>1. /\ \A k \in Key : owner'[k] = u <=> owner[k] = u
        /\ \A k \in Key : owner[k] = u => rows'[k] = rows[k]
    BY <1>1, LockingAssumption
  <2> QED
    BY <1>1, <1>2, <2>1, OthersKnow
<1>4. Knows(t)' /\ Releases(t)'
  BY <1>1, <1>2, LockingAssumption DEF Knows, Releases
<1> QED
  BY <1>2, <1>3, <1>4 DEF Inv

(* What a transaction writes that commits.                                 *)
LEMMA CommitWrites ==
  ASSUME Inv, NEW t \in Txn, Commit(t)
  PROVE  /\ End(t, "committed")
         /\ rows' \in [Key -> Nat \cup {Absent}]
         /\ \A k \in Key : rows'[k] = rows[k] \/ owner[k] = t
         /\ Atomically!Commit(t)
<1>1. /\ End(t, "committed") /\ status[t] = "running" /\ TypeInv
      /\ status' = [status EXCEPT ![t] = "committed"]
      /\ rows' = [k \in Key |-> IF k \in KeysOf(t) THEN read[t][k] + Effect[t][k]
                                                   ELSE rows[k]]
  BY DEF Commit, End, Inv
<1>2. ASSUME NEW k \in KeysOf(t)
      PROVE  /\ k \in Key /\ owner[k] = t /\ read[t][k] \in Nat
             /\ read[t][k] + Effect[t][k] \in Nat
             /\ rows[k] # Absent \/ Effect[t][k] > 0
             /\ Atomically!Result(rows[k], Effect[t][k]) = read[t][k] + Effect[t][k]
  <2>1. /\ k \in Key /\ Effect[t][k] \in Int /\ read[t][k] # Absent
        /\ read[t][k] + Effect[t][k] >= 0
    BY <1>2, KeysAreKeys DEF Commit, EffectAllowed, Found
  <2>2. owner[k] = t /\ read[t][k] = Quantity(k) /\ read[t][k] \in Nat
    BY <1>1, <2>1 DEF Inv, Knows, ReadsStand, Found, TypeInv
  <2>3. rows[k] = Absent => Effect[t][k] > 0
    BY <1>1, <2>1, <2>2, KeysAreKeys DEF Inv, Knows, InsertsInbound
  <2>4. Atomically!Result(rows[k], Effect[t][k]) = read[t][k] + Effect[t][k]
    BY <2>1, <2>2 DEF Quantity, Atomically!Result
  <2> QED
    BY <2>1, <2>2, <2>3, <2>4
<1>3. rows' \in [Key -> Nat \cup {Absent}]
  BY <1>1, <1>2 DEF TypeInv
<1>4. \A k \in Key : rows'[k] = rows[k] \/ owner[k] = t
  BY <1>1, <1>2
<1>5. Atomically!KeysOf(t) = KeysOf(t)
  BY DEF Atomically!KeysOf, KeysOf
<1>6. rows' = [k \in Key |-> IF k \in KeysOf(t)
                               THEN Atomically!Result(rows[k], Effect[t][k])
                               ELSE rows[k]]
  BY <1>1, <1>2
<1>7. \A k \in KeysOf(t) : /\ rows[k] # Absent \/ Effect[t][k] > 0
                           /\ Atomically!Result(rows[k], Effect[t][k]) >= 0
  BY <1>2
<1> QED
  BY <1>1, <1>3, <1>4, <1>5, <1>6, <1>7 DEF Atomically!Commit

-----------------------------------------------------------------------------
LEMMA InitHolds ==
  ASSUME LockingInit
  PROVE  Inv
<1>1. \A t \in Txn : /\ FirstPhase(t) \in {"lock", "insert", "relock"}
                     /\ FirstKeys(t) \subseteq Key
                     /\ FirstPhase(t) = "insert" => FirstKeys(t) = Inbound(t)
  BY KeysAreKeys, LockingAssumption DEF FirstPhase, FirstKeys
<1>2. rows \in [Key -> Nat \cup {Absent}]
  BY LockingAssumption DEF LockingInit
<1>3. TypeInv
  BY <1>1, <1>2 DEF LockingInit, TypeInv
<1>4. \A t \in Txn : Knows(t) /\ Releases(t)
  BY <1>1, LockingAssumption
     DEF LockingInit, Knows, Releases, ReadsStand, InsertsInbound, Found
<1> QED
  BY <1>3, <1>4 DEF Inv

LEMMA NextIs ==
  ASSUME Inv, [LockingNext]_lockingVars
  PROVE  Inv' /\ [Atomically!Next]_(Atomically!postingVars)
<1>1. ASSUME UNCHANGED <<rows, status>>
      PROVE  UNCHANGED Atomically!postingVars
  BY <1>1 DEF Atomically!postingVars
<1>2. ASSUME NEW t \in Txn, NEW k \in KeysOf(t), LockRow(t, k) \/ InsertRow(t, k)
      PROVE  Inv' /\ UNCHANGED Atomically!postingVars
  BY <1>1, <1>2, LockRowPreserves, InsertRowPreserves DEF LockRow, InsertRow, Visit
<1>3. ASSUME NEW t \in Txn, FirstPassDone(t) \/ InsertsDone(t) \/ LocksDone(t)
      PROVE  Inv' /\ UNCHANGED Atomically!postingVars
  BY <1>1, <1>3, EnterPhasePreserves
     DEF FirstPassDone, InsertsDone, LocksDone, EnterPhase
<1>4. ASSUME NEW t \in Txn, Commit(t)
      PROVE  Inv' /\ Atomically!Next
  BY <1>4, CommitWrites, EndPreserves DEF Atomically!Next
<1>5. ASSUME NEW t \in Txn, Refuse(t) \/ DeadlockVictim(t)
      PROVE  Inv' /\ Atomically!Next
  <2>1. End(t, "aborted") /\ rows' = rows
    BY <1>5 DEF Refuse, DeadlockVictim
  <2>2. Inv'
    BY <2>1, EndPreserves DEF Inv, TypeInv
  <2>3. Atomically!Abort(t)
    BY <2>1 DEF End, Atomically!Abort
  <2> QED
    BY <2>2, <2>3 DEF Atomically!Next
<1>6. CASE UNCHANGED lockingVars
  <2>1. UNCHANGED <<rows, status, phase, todo, owner, read>>
    BY <1>6 DEF lockingVars
  <2>2. Inv'
    BY <2>1 DEF Inv, TypeInv, Knows, Releases, ReadsStand, InsertsInbound,
       Found, Quantity, Inbound, KeysOf
  <2> QED
    BY <1>1, <2>1, <2>2
<1> QED
  BY <1>2, <1>3, <1>4, <1>5, <1>6 DEF LockingNext, Step

(* Every writer changes all its rows in one step by its effect on what is  *)
(* there, or none: for any writers, kinds, keys and initial rows.          *)
THEOREM WritersAreAtomic == LockingSpec => CommitsAreAtomic
<1>1. LockingInit => Inv /\ Atomically!Init
  BY InitHolds DEF LockingInit, Atomically!Init
<1>2. Inv /\ [LockingNext]_lockingVars =>
        Inv' /\ [Atomically!Next]_(Atomically!postingVars)
  BY NextIs
<1> QED
  BY <1>1, <1>2, PTL DEF LockingSpec, CommitsAreAtomic, Atomically!Spec
=============================================================================
