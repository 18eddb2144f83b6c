-------------------- MODULE InventoryReconciliationProofs --------------------
(***************************************************************************)
(* What holds of reconciliation and repair for any number of scans,        *)
(* repairs, movements and reservations, any size of chunk and any delay:   *)
(* rows and findings stay well formed, repairs do as they were previewed,  *)
(* and a finding ends only where it was repaired, dismissed or gone.       *)
(***************************************************************************)
EXTENDS InventoryReconciliation, FiniteSetTheorems, WellFoundedInduction, TLAPS

-----------------------------------------------------------------------------
(***************************************************************************)
(* The inductive invariant                                                 *)
(***************************************************************************)
MovementState == [status : {"none", "posted", "reversed", "reversal"},
                  delta : {-1, 0, 1}, at : Nat]

ReservationState == [status : {"none", "active", "released"}, at : Nat]

RowState == [exists : BOOLEAN, onHand : Nat, reserved : Nat,
             last : Movement \cup {None}]

(* What the movements and reservations amount to, if they are damaged too. *)
AuthorityState == [onHand : Int, reserved : Nat, last : Movement \cup {None}]

Evidences ==
  [expected : {Restrict(a, C) : a \in AuthorityState, C \in SUBSET Column},
   actual : {Restrict(row, C) : row \in RowState, C \in SUBSET Column}]

FindingState == [type : Type,
                 status : {"none", "open", "acknowledged", "dismissed", "resolved"},
                 evidence : Evidences \cup {None}, version : Nat, first : Nat]

ScanState == [phase : {"none", "scanning", "ended"}, at : Nat,
              cursor : Type \cup {0},
              page : SUBSET [type : Type, evidence : Evidences],
              more : BOOLEAN, observed : SUBSET Type]

RepairState ==
  [phase : {"none", "previewed", "validated", "refused", "applied"},
   finding : Finding \cup {None}, version : Nat,
   evidence : Evidences \cup {None}, issued : Nat,
   write : {Restrict(a, C) : a \in AuthorityState, C \in SUBSET Column}
             \cup {None}]

StockInv == /\ now \in Time
            /\ movement \in [Movement -> MovementState]
            /\ \A m \in Movement : movement[m].at <= now
            /\ reservation \in [Reservation -> ReservationState]
            /\ balance \in RowState
            /\ Covered(balance)
            /\ ~ balance.exists => balance = NoRow

(* Of each type there is one live revision. *)
FindingInv ==
  /\ finding \in [Finding -> FindingState]
  /\ \A f, g \in Finding : Live(f) /\ Live(g) /\ finding[f].type = finding[g].type
                             => f = g

(* What a scan has come through it has persisted, has still on its page, or*)
(* has read as being in order.                                             *)
Passed(s, type) == type <= scan[s].cursor \/ ~ scan[s].more

KnowsItsChunk(s) ==
  /\ IsFiniteSet(scan[s].page) /\ Cardinality(scan[s].page) <= ChunkSize
  /\ scan[s].at <= now
  /\ scan[s].phase = "scanning" =>
       \A type \in Type : Passed(s, type) =>
         \/ type \in scan[s].observed \cup absent[s]
         \/ \E found \in scan[s].page : found.type = type

ScanInv == /\ scan \in [Scan -> ScanState]
           /\ absent \in [Scan -> SUBSET Type]
           /\ \A s \in Scan : KnowsItsChunk(s)

(* A repair that has validated its finding holds it, as it was previewed,  *)
(* and will write what the preview showed.                                 *)
WritesWhatWasShown(p) ==
  LET type == finding[repair[p].finding].type
  IN  \E a \in AuthorityState, C \in SUBSET Column :
        /\ ColumnsOf(type) \subseteq C /\ C \subseteq ColumnsOf(type) \cup {"last"}
        /\ repair[p].write = Restrict(a, C)
        /\ repair[p].evidence.expected = Restrict(a, ColumnsOf(type))

KnowsItsFinding(p) ==
  /\ repair[p].phase \in {"previewed", "validated"} => repair[p].finding \in Finding
  /\ repair[p].phase = "validated" =>
       /\ Live(repair[p].finding)
       /\ finding[repair[p].finding].version = repair[p].version
       /\ WritesWhatWasShown(p)
       /\ \A q \in Repair \ {p} : repair[q].phase = "validated"
                                    => repair[q].finding # repair[p].finding

RepairInv == /\ repair \in [Repair -> RepairState]
             /\ \A p \in Repair : KnowsItsFinding(p)

RecInv == StockInv /\ FindingInv /\ ScanInv /\ RepairInv

-----------------------------------------------------------------------------
(***************************************************************************)
(* Least and greatest members                                              *)
(***************************************************************************)
(* Any set of finite sets has a member none of whose strict subsets is one. *)
LEMMA SmallestSet ==
  ASSUME NEW S, IsFiniteSet(S), NEW T \in SUBSET SUBSET S, T # {}
  PROVE  \E s \in T : \A t \in T : t \subseteq s => t = s
<1>1. T \subseteq FiniteSubsetsOf(S)
  BY FS_FiniteSubsetsOfFinite
<1>2. PICK s \in T : \A t \in T : <<t, s>> \notin StrictSubsetOrdering(S)
  BY <1>1, FS_StrictSubsetOrderingWellFounded, WFMin
<1>3. ASSUME NEW t \in T, t \subseteq s, t # s PROVE FALSE
  BY <1>2, <1>3 DEF StrictSubsetOrdering
<1> QED BY <1>3

LEMMA LeastIsThere ==
  ASSUME NEW S \in SUBSET Nat, S # {}
  PROVE  /\ Min(S) \in S
         /\ \A x \in S : Min(S) <= x
<1> PICK z \in S : TRUE
  OBVIOUS
<1> DEFINE T == {0..x : x \in {y \in S : y <= z}}
<1>1. PICK s \in T : \A t \in T : t \subseteq s => t = s
  <2>1. T \in SUBSET SUBSET (0..z) /\ T # {}
    OBVIOUS
  <2>2. IsFiniteSet(0..z)
    <3>1. 0 \in Int /\ z \in Int
      OBVIOUS
    <3> QED BY <3>1, FS_Interval
  <2> DEFINE Z == 0..z
  <2>3. IsFiniteSet(Z) /\ T \in SUBSET SUBSET Z /\ T # {}
    BY <2>1, <2>2
  <2> HIDE DEF T, Z
  <2> QED BY <2>3, SmallestSet
<1>2. PICK x \in S : x <= z /\ s = 0..x
  BY <1>1
<1>3. ASSUME NEW y \in S, y < x PROVE FALSE
  <2>1. 0..y \in T /\ 0..y \subseteq s /\ x \in s /\ x \notin 0..y
    BY <1>2, <1>3
  <2> HIDE DEF T
  <2> QED BY <1>1, <2>1
<1>4. \A y \in S : x <= y
  BY <1>3
<1> QED BY <1>4 DEF Min

LEMMA LastTypeIsThere ==
  ASSUME NEW S \in SUBSET Type, S # {}
  PROVE  /\ Max(S) \in S
         /\ \A x \in S : x <= Max(S)
<1>1. \E x \in S : \A y \in S : x >= y
  <2>1. \A x \in S : x \in 1..4
    BY DEF Type, OnHandDrift, MissingBalance
  <2>2. CASE 4 \in S
    BY <2>1, <2>2
  <2>3. CASE 4 \notin S /\ 3 \in S
    BY <2>1, <2>3
  <2>4. CASE 4 \notin S /\ 3 \notin S /\ 2 \in S
    BY <2>1, <2>4
  <2>5. CASE 4 \notin S /\ 3 \notin S /\ 2 \notin S
    <3>1. \A x \in S : x = 1
      BY <2>1, <2>5
    <3> QED BY <3>1
  <2> QED BY <2>2, <2>3, <2>4, <2>5
<1> QED BY <1>1 DEF Max, Type, OnHandDrift, MissingBalance

(* Of the movements up to a time there is a last one.                      *)
LEMMA LatestIsThere ==
  ASSUME ReconciliationAssumption, movement \in [Movement -> MovementState],
         NEW cut, Effects(cut) # {}
  PROVE  Latest(cut) \in Effects(cut)
<1> DEFINE Before(i, j) == \/ movement[i].at < movement[j].at
                           \/ movement[i].at = movement[j].at /\ i < j
           Later(i) == {j \in Effects(cut) : Before(i, j)}
           T == {Later(i) : i \in Effects(cut)}
<1>1. /\ Effects(cut) \subseteq Movement /\ Movement \subseteq Nat
      /\ \A m \in Effects(cut) : movement[m].at \in Nat
      /\ IsFiniteSet(Effects(cut))
  BY FS_Subset DEF Effects, ReconciliationAssumption, MovementState
<1>2. PICK s \in T : \A t \in T : t \subseteq s => t = s
  <2>1. T \in SUBSET SUBSET Effects(cut)
    <3>1. \A m \in Effects(cut) : Later(m) \in SUBSET Effects(cut)
      OBVIOUS
    <3> HIDE DEF Later
    <3> QED BY <3>1
  <2>2. T # {}
    <3> HIDE DEF Later
    <3> QED OBVIOUS
  <2> HIDE DEF T
  <2> QED BY <1>1, <2>1, <2>2, SmallestSet
<1>3. PICK m \in Effects(cut) : s = Later(m)
  <2> HIDE DEF Later
  <2> QED BY <1>2
<1> HIDE DEF T, Later
<1>4. ASSUME NEW n \in Effects(cut), Before(m, n) PROVE FALSE
  <2>1. ASSUME NEW x \in Effects(cut), Before(n, x) PROVE Before(m, x)
    <3>1. /\ movement[m].at \in Nat /\ movement[n].at \in Nat /\ movement[x].at \in Nat
          /\ m \in Nat /\ n \in Nat /\ x \in Nat
      BY <1>1
    <3> QED BY <1>4, <2>1, <3>1
  <2>2. ~ Before(n, n)
    <3>1. movement[n].at \in Nat /\ n \in Nat
      BY <1>1
    <3> QED BY <3>1
  <2> HIDE DEF Before
  <2>3. Later(n) \subseteq Later(m) /\ n \in Later(m) /\ n \notin Later(n)
    BY <1>4, <2>1, <2>2 DEF Later
  <2>4. Later(n) \in T
    BY DEF T
  <2> QED BY <1>2, <1>3, <2>3, <2>4
<1>5. ASSUME NEW n \in Effects(cut)
      PROVE  \/ movement[n].at < movement[m].at
             \/ movement[n].at = movement[m].at /\ n <= m
  <2>1. /\ movement[m].at \in Nat /\ movement[n].at \in Nat
        /\ m \in Nat /\ n \in Nat
    BY <1>1
  <2> QED BY <1>4, <2>1
<1> QED BY <1>5 DEF Latest

-----------------------------------------------------------------------------
(***************************************************************************)
(* Chunks: the first of the candidates, no more than fit, and all of them  *)
(* if there are no more                                                    *)
(***************************************************************************)
Smaller(types, t) == {u \in types : u < t}

LEMMA TypesAreFinite ==
  ASSUME NEW types \in SUBSET Type
  PROVE  /\ IsFiniteSet(types) /\ Cardinality(types) \in Nat
         /\ \A t \in types : t \in Nat
<1>1. IsFiniteSet(Type)
  <2>1. 1 \in Int /\ 4 \in Int /\ Type = 1..4
    BY DEF Type, OnHandDrift, MissingBalance
  <2> QED BY <2>1, FS_Interval
<1>2. IsFiniteSet(types)
  BY <1>1, FS_Subset
<1>3. Cardinality(types) \in Nat
  BY <1>2, FS_CardinalityType
<1> QED BY <1>2, <1>3 DEF Type, OnHandDrift, MissingBalance

LEMMA ChunkIsShort ==
  ASSUME ReconciliationAssumption, NEW types \in SUBSET Type
  PROVE  /\ Chunk(types) \subseteq types
         /\ Cardinality(Chunk(types)) <= ChunkSize
<1> DEFINE C == Chunk(types)
<1>1. C \in SUBSET Type /\ C \subseteq types /\ ChunkSize \in Nat \ {0}
  BY DEF Chunk, ReconciliationAssumption
<1>2. CASE C = {}
  BY <1>1, <1>2, FS_EmptySet
<1>3. CASE C # {}
  <2>1. /\ Max(C) \in C /\ \A x \in C : x <= Max(C)
        /\ IsFiniteSet(C) /\ Cardinality(C) \in Nat
        /\ IsFiniteSet(Smaller(types, Max(C)))
        /\ \A x \in types : x \in Nat
    <3>1. Smaller(types, Max(C)) \in SUBSET Type
      BY DEF Smaller
    <3> QED BY <1>1, <1>3, <3>1, LastTypeIsThere, TypesAreFinite
  <2>2. Cardinality(Smaller(types, Max(C))) < ChunkSize
    BY <2>1 DEF Chunk, Smaller
  <2>3. C \ {Max(C)} \subseteq Smaller(types, Max(C))
    BY <1>1, <2>1 DEF Smaller
  <2>4. Cardinality(C \ {Max(C)}) = Cardinality(C) - 1
    BY <2>1, FS_RemoveElement
  <2>5. /\ Cardinality(C \ {Max(C)}) <= Cardinality(Smaller(types, Max(C)))
        /\ Cardinality(Smaller(types, Max(C))) \in Nat
    BY <2>1, <2>3, FS_Subset, FS_CardinalityType
  <2> QED BY <1>1, <2>1, <2>2, <2>4, <2>5
<1> QED BY <1>1, <1>2, <1>3

LEMMA ChunkIsFirst ==
  ASSUME ReconciliationAssumption, NEW types \in SUBSET Type,
         NEW t \in Chunk(types), NEW u \in types, u < t
  PROVE  u \in Chunk(types)
<1>1. t \in types /\ t \in Nat /\ u \in Nat /\ \A x \in types : x \in Nat
  BY TypesAreFinite DEF Chunk
<1>2. ASSUME NEW x \in Smaller(types, u) PROVE x \in Smaller(types, t)
  <2>1. x \in types /\ x \in Nat /\ x < u
    BY <1>1 DEF Smaller
  <2> QED BY <1>1, <2>1 DEF Smaller
<1>3. /\ IsFiniteSet(Smaller(types, t))
      /\ Cardinality(Smaller(types, t)) \in Nat /\ Cardinality(Smaller(types, u)) \in Nat
  <2>1. Smaller(types, t) \in SUBSET Type /\ Smaller(types, u) \in SUBSET Type
    BY DEF Smaller
  <2> QED BY <2>1, TypesAreFinite
<1>4. Cardinality(Smaller(types, u)) <= Cardinality(Smaller(types, t))
  BY <1>2, <1>3, FS_Subset
<1>5. Cardinality(Smaller(types, t)) < ChunkSize
  BY DEF Chunk, Smaller
<1> QED BY <1>3, <1>4, <1>5 DEF Chunk, Smaller, ReconciliationAssumption

LEMMA ChunkHasSome ==
  ASSUME ReconciliationAssumption, NEW types \in SUBSET Type, types # {}
  PROVE  Chunk(types) # {}
<1>1. \A x \in types : x \in Nat
  BY TypesAreFinite
<1>2. Min(types) \in types /\ \A x \in types : Min(types) <= x
  BY <1>1, LeastIsThere
<1>3. Smaller(types, Min(types)) = {}
  BY <1>1, <1>2 DEF Smaller
<1>4. Cardinality(Smaller(types, Min(types))) = 0
  BY <1>3, FS_EmptySet
<1> QED BY <1>2, <1>4 DEF Chunk, Smaller, ReconciliationAssumption

LEMMA LastChunkIsWhole ==
  ASSUME ReconciliationAssumption, NEW types \in SUBSET Type, ~ More(types)
  PROVE  Chunk(types) = types
<1> SUFFICES ASSUME NEW t \in types PROVE t \in Chunk(types)
  BY DEF Chunk
<1>1. /\ IsFiniteSet(types) /\ Cardinality(types) \in Nat
      /\ \A x \in types : x \in Nat
  BY TypesAreFinite
<1>2. Smaller(types, t) \subseteq types \ {t}
  BY <1>1 DEF Smaller
<1>3. /\ IsFiniteSet(types \ {t})
      /\ Cardinality(types \ {t}) = Cardinality(types) - 1
  BY <1>1, FS_RemoveElement
<1>4. /\ Cardinality(Smaller(types, t)) <= Cardinality(types \ {t})
      /\ Cardinality(Smaller(types, t)) \in Nat
  BY <1>2, <1>3, FS_Subset, FS_CardinalityType
<1>5. Cardinality(types) <= ChunkSize
  BY <1>1 DEF More, ReconciliationAssumption
<1>6. Cardinality(Smaller(types, t)) < ChunkSize
  BY <1>1, <1>3, <1>4, <1>5 DEF ReconciliationAssumption
<1> QED BY <1>6 DEF Chunk, Smaller

-----------------------------------------------------------------------------
(***************************************************************************)
(* The stock                                                               *)
(***************************************************************************)
LEMMA AuthorityIsTyped ==
  ASSUME ReconciliationAssumption, movement \in [Movement -> MovementState], NEW cut
  PROVE  Authority(cut) \in AuthorityState
<1>1. Latest(cut) \in Movement \cup {None}
  BY LatestIsThere DEF Latest, Effects
<1>2. ASSUME NEW S \in SUBSET Movement PROVE Cardinality(S) \in Nat
  BY FS_Subset, FS_CardinalityType DEF ReconciliationAssumption
<1>3. ASSUME NEW S \in SUBSET Reservation PROVE Cardinality(S) \in Nat
  BY FS_Subset, FS_CardinalityType DEF ReconciliationAssumption
<1> DEFINE In == {m \in Effects(cut) : movement[m].delta = 1}
           Out == {m \in Effects(cut) : movement[m].delta = -1}
           Held == {v \in Reservation : /\ reservation[v].status = "active"
                                        /\ reservation[v].at <= cut}
<1>4. /\ Cardinality(In) \in Nat /\ Cardinality(Out) \in Nat
      /\ Cardinality(Held) \in Nat
  <2>1. /\ In \in SUBSET Movement /\ Out \in SUBSET Movement
        /\ Held \in SUBSET Reservation
    BY DEF Effects
  <2> HIDE DEF In, Out, Held
  <2> QED BY <1>2, <1>3, <2>1
<1>5. Authority(cut) = [onHand |-> Cardinality(In) - Cardinality(Out),
                        reserved |-> Cardinality(Held), last |-> Latest(cut)]
  BY DEF Authority
<1> HIDE DEF In, Out, Held
<1> QED BY <1>1, <1>4, <1>5 DEF AuthorityState

LEMMA ColumnsAreColumns ==
  ASSUME NEW type
  PROVE  type \in Type => ColumnsOf(type) \in SUBSET Column
BY DEF Type, ColumnsOf, Column, OnHandDrift, ReservedDrift, LastMovementMismatch,
       MissingBalance

LEMMA EvidenceIsTyped ==
  ASSUME ReconciliationAssumption, StockInv, NEW type \in Type, NEW cut
  PROVE  Evidence(type, cut) \in Evidences
<1>1. ColumnsOf(type) \in SUBSET Column
  BY ColumnsAreColumns
<1>2. Authority(cut) \in AuthorityState
  BY AuthorityIsTyped DEF StockInv
<1>3. Restrict(Authority(cut), ColumnsOf(type))
        \in {Restrict(a, C) : a \in AuthorityState, C \in SUBSET Column}
  BY <1>1, <1>2
<1>4. Restrict(balance, IF balance.exists THEN ColumnsOf(type) ELSE {})
        \in {Restrict(row, C) : row \in RowState, C \in SUBSET Column}
  <2>1. balance \in RowState
    BY DEF StockInv
  <2>2. (IF balance.exists THEN ColumnsOf(type) ELSE {}) \in SUBSET Column
    BY <1>1
  <2> QED BY <2>1, <2>2
<1> QED BY <1>3, <1>4 DEF Evidence, Evidences

LEMMA CommandKeepsStock ==
  ASSUME ReconciliationAssumption, StockInv, Command
  PROVE  StockInv'
<1>0. balance \in RowState /\ movement \in [Movement -> MovementState]
  BY DEF StockInv
<1> USE DEF StockInv
<1>1. now' = now /\ now \in Nat /\ \A at \in RequestTimes : at \in Nat /\ at <= now
  BY DEF Command, RequestTimes, Time, ReconciliationAssumption
<1>2. ASSUME NEW m \in Movement, NEW delta \in {1, -1}, NEW at \in RequestTimes,
             Post(m, delta, at)
      PROVE  StockInv'
  <2>1. /\ movement' \in [Movement -> MovementState]
        /\ \A n \in Movement : movement'[n].at <= now'
    BY <1>1, <1>2 DEF Post, MovementState
  <2>2. /\ balance' \in RowState /\ balance'.exists /\ Covered(balance')
    <3>1. balance.onHand + delta \in Int /\ balance.reserved \in Nat
      BY <1>0, <1>2 DEF RowState
    <3>4. balance' = [exists |-> TRUE, onHand |-> balance.onHand + delta,
                      reserved |-> balance.reserved, last |-> m]
      BY <1>0, <1>2 DEF Post, RowState
    <3>2. Covered(balance')
      BY <1>2 DEF Post
    <3> QED BY <3>1, <3>2, <3>4 DEF RowState, Covered
  <2> QED BY <1>1, <1>2, <2>1, <2>2 DEF Post
<1>3. ASSUME NEW m \in Movement, NEW r \in Movement, NEW at \in RequestTimes,
             Reverse(m, r, at)
      PROVE  StockInv'
  <2>1. m # r
    BY <1>3 DEF Reverse
  <2>2. /\ movement' \in [Movement -> MovementState]
        /\ \A n \in Movement : movement'[n].at <= now'
    BY <1>1, <1>3, <2>1 DEF Reverse, MovementState
  <2>3. /\ balance' \in RowState /\ balance'.exists /\ Covered(balance')
    <3>1. balance.onHand - movement[m].delta \in Int /\ balance.reserved \in Nat
      BY <1>0 DEF RowState, MovementState
    <3>4. balance' = [exists |-> TRUE, onHand |-> balance.onHand - movement[m].delta,
                      reserved |-> balance.reserved, last |-> r]
      BY <1>0, <1>3 DEF Reverse, RowState
    <3>2. Covered(balance')
      BY <1>3 DEF Reverse
    <3> QED BY <3>1, <3>2, <3>4 DEF RowState, Covered
  <2> QED BY <1>1, <1>3, <2>2, <2>3 DEF Reverse
<1>4. ASSUME NEW v \in Reservation, NEW at \in RequestTimes, Reserve(v, at)
      PROVE  StockInv'
  <2>1. reservation' \in [Reservation -> ReservationState]
    BY <1>1, <1>4 DEF Reserve, ReservationState
  <2>2. /\ balance' \in RowState /\ balance'.exists /\ Covered(balance')
    BY <1>4 DEF Reserve, RowState, Covered
  <2> QED BY <1>1, <1>4, <2>1, <2>2 DEF Reserve
<1>5. ASSUME NEW v \in Reservation, Release(v)
      PROVE  StockInv'
  <2>1. reservation' \in [Reservation -> ReservationState]
    BY <1>5 DEF Release, ReservationState
  <2>2. balance.exists
    BY <1>5 DEF Release, NoRow
  <2>3. /\ balance' \in RowState /\ balance'.exists /\ Covered(balance')
    BY <1>5, <2>2 DEF Release, RowState, Covered
  <2> QED BY <1>1, <1>5, <2>1, <2>3 DEF Release
<1> QED BY <1>2, <1>3, <1>4, <1>5 DEF Command

-----------------------------------------------------------------------------
(***************************************************************************)
(* Findings                                                                *)
(***************************************************************************)
(* A revision that is locked is left alone. *)
LockedStay == \A f \in Finding : Locked(f) => finding'[f] = finding[f]

LEMMA RepairsGoOn ==
  ASSUME RepairInv, UNCHANGED repair, LockedStay
  PROVE  RepairInv'
<1> SUFFICES ASSUME NEW p \in Repair PROVE KnowsItsFinding(p)'
  BY DEF RepairInv
<1>1. KnowsItsFinding(p) /\ repair' = repair
  BY DEF RepairInv
<1>2. CASE repair[p].phase = "validated"
  <2>1. /\ repair[p].finding \in Finding
        /\ finding'[repair[p].finding] = finding[repair[p].finding]
    BY <1>1, <1>2 DEF KnowsItsFinding, LockedStay, Locked
  <2>2. WritesWhatWasShown(p)'
    BY <1>1, <1>2, <2>1 DEF KnowsItsFinding, WritesWhatWasShown
  <2> QED BY <1>1, <1>2, <2>1, <2>2 DEF KnowsItsFinding, Live
<1>3. CASE repair[p].phase # "validated"
  BY <1>1, <1>3 DEF KnowsItsFinding
<1> QED BY <1>2, <1>3

LEMMA OneIsRevised ==
  ASSUME FindingInv, NEW f \in Finding, NEW new \in FindingState,
         finding' = [finding EXCEPT ![f] = new], Live(f), new.type = finding[f].type
  PROVE  FindingInv'
<1> QED BY DEF FindingInv, Live

LEMMA OneIsMade ==
  ASSUME FindingInv, NEW f \in Finding, NEW new \in FindingState,
         finding' = [finding EXCEPT ![f] = new], LiveOf(new.type) = {}
  PROVE  FindingInv'
<1>1. finding' \in [Finding -> FindingState]
  BY DEF FindingInv
<1>2. \A g \in Finding \ {f} : finding'[g] = finding[g]
  BY DEF FindingInv
<1>3. \A g \in Finding : Live(g) => finding[g].type # new.type
  BY DEF LiveOf
<1>4. finding'[f] = new
  BY DEF FindingInv
<1> QED BY <1>1, <1>2, <1>3, <1>4 DEF FindingInv, Live

LEMMA SomeAreResolved ==
  ASSUME FindingInv, NEW F, finding' = Resolved(F)
  PROVE  FindingInv'
<1>1. ASSUME NEW f \in Finding
      PROVE  /\ finding'[f] \in FindingState
             /\ finding'[f].type = finding[f].type
             /\ Live(f)' => Live(f)
  <2>1. finding[f] \in FindingState
    BY DEF FindingInv
  <2>2. CASE f \in F
    <3>1. finding'[f] = [finding[f] EXCEPT !.status = "resolved",
                                           !.version = finding[f].version + 1]
      BY <2>2 DEF Resolved
    <3>2. finding'[f] = [type |-> finding[f].type, status |-> "resolved",
                         evidence |-> finding[f].evidence,
                         version |-> finding[f].version + 1, first |-> finding[f].first]
      BY <2>1, <3>1 DEF FindingState
    <3>3. /\ finding'[f].status = "resolved" /\ finding'[f].type = finding[f].type
          /\ finding'[f] \in FindingState
      BY <2>1, <3>2 DEF FindingState
    <3> QED BY <3>3 DEF Live
  <2>3. CASE f \notin F
    <3>1. finding'[f] = finding[f]
      BY <2>3 DEF Resolved
    <3> QED BY <2>1, <3>1 DEF Live
  <2> QED BY <2>2, <2>3
<1>2. finding' \in [Finding -> FindingState]
  BY <1>1 DEF Resolved
<1> QED BY <1>1, <1>2 DEF FindingInv

-----------------------------------------------------------------------------
(***************************************************************************)
(* Scans                                                                   *)
(***************************************************************************)
LEMMA ScansStay ==
  ASSUME ScanInv, UNCHANGED <<scan, absent>>, now \in Nat, now' \in Nat, now <= now'
  PROVE  ScanInv'
<1> SUFFICES ASSUME NEW s \in Scan PROVE KnowsItsChunk(s)'
  BY DEF ScanInv
<1>1. KnowsItsChunk(s) /\ scan[s] \in ScanState /\ scan' = scan /\ absent' = absent
  BY DEF ScanInv
<1>2. scan[s].at <= now'
  <2>1. scan[s].at \in Nat /\ scan[s].at <= now
    BY <1>1 DEF KnowsItsChunk, ScanState
  <2> QED BY <2>1
<1> QED BY <1>1, <1>2 DEF KnowsItsChunk, Passed

LEMMA OneScanGoesOn ==
  ASSUME ScanInv, UNCHANGED now, NEW s \in Scan, NEW new \in ScanState,
         scan' = [scan EXCEPT ![s] = new],
         NEW order \in SUBSET Type, absent' = [absent EXCEPT ![s] = order],
         KnowsItsChunk(s)'
  PROVE  ScanInv'
<1>1. scan' \in [Scan -> ScanState] /\ absent' \in [Scan -> SUBSET Type]
  BY DEF ScanInv
<1>2. ASSUME NEW t \in Scan, t # s PROVE KnowsItsChunk(t)'
  <2>1. KnowsItsChunk(t) /\ scan'[t] = scan[t] /\ absent'[t] = absent[t]
    BY <1>2 DEF ScanInv
  <2> QED BY <2>1 DEF KnowsItsChunk, Passed
<1> QED BY <1>1, <1>2 DEF ScanInv

LEMMA NewScanIsAScan ==
  ASSUME ScanInv, NEW s \in Scan, UNCHANGED now, now \in Nat,
         NEW new \in ScanState, scan' = [scan EXCEPT ![s] = new],
         new.page = {}, new.cursor = 0, new.at <= now,
         new.phase = "scanning" => new.more,
         NEW order \in SUBSET Type, absent' = [absent EXCEPT ![s] = order]
  PROVE  ScanInv'
<1>1. scan'[s] = new
  BY DEF ScanInv
<1>2. IsFiniteSet({}) /\ Cardinality({}) <= ChunkSize
  BY FS_EmptySet, ReconciliationAssumption DEF ReconciliationAssumption
<1>3. \A type \in Type : ~ type <= 0
  BY DEF Type, OnHandDrift, MissingBalance
<1>4. KnowsItsChunk(s)'
  BY <1>1, <1>2, <1>3 DEF KnowsItsChunk, Passed
<1> QED BY <1>4, OneScanGoesOn

LEMMA ScanEnds ==
  ASSUME ScanInv, NEW s \in Scan, UNCHANGED now, now \in Nat, Ends(s)
  PROVE  ScanInv'
<1> DEFINE new == [NoScan EXCEPT !.phase = "ended"]
<1>1. /\ new \in ScanState /\ new.page = {} /\ new.cursor = 0 /\ new.at = 0
      /\ new.phase = "ended"
  BY DEF NoScan, ScanState
<1>2. /\ scan' = [scan EXCEPT ![s] = new]
      /\ {} \in SUBSET Type /\ absent' = [absent EXCEPT ![s] = {}]
  BY DEF Ends
<1> HIDE DEF new
<1>3. new.at <= now /\ (new.phase = "scanning" => new.more)
  BY <1>1
<1> QED BY <1>1, <1>2, <1>3, NewScanIsAScan

LEMMA StartIsAScan ==
  ASSUME StockInv, ScanInv, NEW s \in Scan, StartScan(s)
  PROVE  ScanInv'
<1> DEFINE new == [NoScan EXCEPT !.phase = "scanning", !.at = now, !.more = TRUE]
<1>1. now \in Nat /\ now' = now
  BY DEF StockInv, Time, StartScan
<1>2. /\ new \in ScanState /\ new.page = {} /\ new.cursor = 0 /\ new.at = now
      /\ new.more
  BY <1>1 DEF NoScan, ScanState
<1>3. /\ scan' = [scan EXCEPT ![s] = new]
      /\ absent[s] \in SUBSET Type /\ absent' = [absent EXCEPT ![s] = absent[s]]
  BY DEF StartScan, ScanInv
<1> HIDE DEF new
<1>4. new.at <= now /\ (new.phase = "scanning" => new.more)
  BY <1>1, <1>2
<1> QED BY <1>1, <1>2, <1>3, <1>4, NewScanIsAScan

(* A page holds one row of each type of the chunk. *)
LEMMA PageIsShort ==
  ASSUME NEW S \in SUBSET Type, NEW cut
  PROVE  LET page == {[type |-> t, evidence |-> Evidence(t, cut)] : t \in S}
         IN  IsFiniteSet(page) /\ Cardinality(page) <= Cardinality(S)
<1> DEFINE row(t) == [type |-> t, evidence |-> Evidence(t, cut)]
           page == {row(t) : t \in S}
           h == [t \in S |-> row(t)]
<1>1. IsFiniteSet(S)
  BY TypesAreFinite
<1>2. h \in Surjection(S, page)
  <2> HIDE DEF row
  <2> QED BY DEF Surjection
<1>3. IsFiniteSet(page) /\ Cardinality(page) <= Cardinality(S)
  <2> HIDE DEF h, page
  <2> QED BY <1>1, <1>2, FS_Surjection
<1> QED BY <1>3

LEMMA ChunkIsRead ==
  ASSUME StockInv, ScanInv, NEW s \in Scan, ReadChunk(s)
  PROVE  ScanInv'
<1> DEFINE rows == Beyond(scan[s].cursor, scan[s].at)
           C == Chunk(rows)
           page == {[type |-> t, evidence |-> Evidence(t, scan[s].at)] : t \in C}
           cursor == IF C = {} THEN scan[s].cursor ELSE Max(C)
           order == absent[s] \cup {t \in Type : ~ IsCandidate(t, scan[s].at)}
           new == [scan[s] EXCEPT !.page = page, !.more = More(rows),
                                  !.cursor = cursor]
<1> USE ReconciliationAssumption
<1>1. /\ scan[s] \in ScanState /\ KnowsItsChunk(s) /\ absent[s] \in SUBSET Type
      /\ scan[s].phase = "scanning" /\ scan[s].page = {} /\ scan[s].more
  BY DEF ScanInv, ReadChunk
<1>2. rows \in SUBSET Type
  BY DEF Beyond
<1>3. C \in SUBSET Type /\ C \subseteq rows /\ Cardinality(C) <= ChunkSize
  <2> HIDE DEF rows
  <2> QED BY <1>2, ChunkIsShort
<1>4. cursor \in Type \cup {0}
  <2>1. scan[s].cursor \in Type \cup {0}
    BY <1>1 DEF ScanState
  <2> HIDE DEF C
  <2> QED BY <1>3, <2>1, LastTypeIsThere
<1>5. /\ IsFiniteSet(page) /\ Cardinality(page) <= ChunkSize
      /\ page \in SUBSET [type : Type, evidence : Evidences]
  <2> HIDE DEF C
  <2>1. IsFiniteSet(page) /\ Cardinality(page) <= Cardinality(C)
    BY <1>3, PageIsShort
  <2>2. Cardinality(C) \in Nat /\ Cardinality(page) \in Nat /\ ChunkSize \in Nat
    <3> HIDE DEF page
    <3> QED BY <1>3, <2>1, TypesAreFinite, FS_CardinalityType
            DEF ReconciliationAssumption
  <2>3. \A t \in C : t \in Type /\ Evidence(t, scan[s].at) \in Evidences
    BY <1>3, EvidenceIsTyped
  <2>4. page \in SUBSET [type : Type, evidence : Evidences]
    BY <2>3
  <2> HIDE DEF page
  <2> QED BY <1>3, <2>1, <2>2, <2>4
<1>6. More(rows) \in BOOLEAN
  BY DEF More
<1>7. /\ new \in ScanState /\ new.page = page /\ new.cursor = cursor
      /\ new.more = More(rows) /\ new.at = scan[s].at /\ new.observed = scan[s].observed
      /\ new.phase = "scanning"
  <2> HIDE DEF rows, C, page, cursor
  <2> QED BY <1>1, <1>4, <1>5, <1>6 DEF ScanState
<1>8. /\ scan' = [scan EXCEPT ![s] = new] /\ order \in SUBSET Type
      /\ absent' = [absent EXCEPT ![s] = order] /\ now' = now
  <2>1. scan' = [scan EXCEPT ![s] = new]
    BY DEF ReadChunk, ScanInv
  <2>2. absent' = [absent EXCEPT ![s] = order] /\ now' = now
    BY DEF ReadChunk
  <2> QED BY <1>1, <2>1, <2>2
<1>9. scan'[s] = new /\ absent'[s] = order
  <2> HIDE DEF new, order
  <2> QED BY <1>8 DEF ScanInv
<1>10. ASSUME NEW t \in Type, t <= cursor \/ ~ More(rows)
       PROVE  \/ t \in scan[s].observed \cup order
              \/ \E found \in page : found.type = t
  <2>1. CASE t <= scan[s].cursor
    BY <1>1, <2>1 DEF KnowsItsChunk, Passed
  <2>2. CASE ~ IsCandidate(t, scan[s].at)
    BY <2>2
  <2>3. CASE t > scan[s].cursor /\ IsCandidate(t, scan[s].at)
    <3>1. t \in rows
      BY <2>3 DEF Beyond
    <3>2. t \in C
      <4>1. CASE ~ More(rows)
        <5> HIDE DEF rows
        <5> QED BY <1>2, <3>1, <4>1, LastChunkIsWhole
      <4>2. CASE t <= cursor
        <5>1. C # {}
          BY <1>2, <3>1, ChunkHasSome
        <5>2. /\ Max(C) \in C /\ cursor = Max(C) /\ Max(C) \in Nat /\ t \in Nat
          <6>1. Max(C) \in C
            BY <1>3, <5>1, LastTypeIsThere
          <6> QED BY <1>3, <5>1, <6>1 DEF Type, OnHandDrift, MissingBalance
        <5>3. CASE t = Max(C)
          BY <5>2, <5>3
        <5>4. CASE t < Max(C)
          <6> HIDE DEF rows, cursor
          <6> QED BY <1>2, <3>1, <5>2, <5>4, ChunkIsFirst
        <5> HIDE DEF C
        <5> QED BY <4>2, <5>2, <5>3, <5>4
      <4> QED BY <1>10, <4>1, <4>2
    <3>3. [type |-> t, evidence |-> Evidence(t, scan[s].at)] \in page
      BY <3>2
    <3> HIDE DEF page
    <3> QED BY <3>3
  <2>4. t \in Nat /\ scan[s].cursor \in Nat
    BY <1>1 DEF Type, OnHandDrift, MissingBalance, ScanState
  <2> QED BY <2>1, <2>2, <2>3, <2>4
<1>11. KnowsItsChunk(s)'
  <2>1. scan[s].at <= now'
    BY <1>1, <1>8 DEF KnowsItsChunk
  <2> HIDE DEF new, order, page, cursor, rows
  <2> QED BY <1>5, <1>7, <1>9, <1>10, <2>1 DEF KnowsItsChunk, Passed
<1> HIDE DEF new, order
<1> QED BY <1>7, <1>8, <1>11, OneScanGoesOn

LEMMA LockedIsLive ==
  ASSUME RepairInv, NEW f, Locked(f)
  PROVE  Live(f)
BY DEF RepairInv, Locked, KnowsItsFinding

(* A statement that persists a finding revises a live one that nobody      *)
(* holds, or makes one of a type that has none; or the scan fails over it. *)
LEMMA PersistScans ==
  ASSUME StockInv, ScanInv, NEW s \in Scan, NEW found \in scan[s].page,
         Persist(s, found)
  PROVE  ScanInv'
<1>1. now \in Nat /\ now' = now
  BY DEF StockInv, Time, Persist
<1>2. CASE Ends(s)
  BY <1>1, <1>2, ScanEnds
<1>3. CASE /\ scan' = [scan EXCEPT ![s].page = @ \ {found},
                                  ![s].observed = @ \cup {found.type}]
           /\ UNCHANGED absent
  <2> DEFINE new == [scan[s] EXCEPT !.page = @ \ {found},
                                    !.observed = @ \cup {found.type}]
  <2>1. /\ scan[s] \in ScanState /\ KnowsItsChunk(s) /\ absent[s] \in SUBSET Type
    BY DEF ScanInv
  <2>2. found.type \in Type
    BY <2>1 DEF ScanState
  <2>3. /\ new \in ScanState /\ new.page = scan[s].page \ {found}
        /\ new.observed = scan[s].observed \cup {found.type}
        /\ new.at = scan[s].at /\ new.phase = scan[s].phase
        /\ new.cursor = scan[s].cursor /\ new.more = scan[s].more
    BY <2>1, <2>2 DEF ScanState
  <2>4. scan' = [scan EXCEPT ![s] = new] /\ absent' = [absent EXCEPT ![s] = absent[s]]
    BY <1>3 DEF ScanInv
  <2> HIDE DEF new
  <2>5. scan'[s] = new /\ absent'[s] = absent[s]
    BY <2>4, <1>3 DEF ScanInv
  <2>6. IsFiniteSet(new.page) /\ Cardinality(new.page) <= ChunkSize
    <3>1. /\ IsFiniteSet(scan[s].page) /\ Cardinality(scan[s].page) <= ChunkSize
          /\ Cardinality(scan[s].page) \in Nat
      BY <2>1, FS_CardinalityType DEF KnowsItsChunk
    <3>2. /\ IsFiniteSet(new.page) /\ Cardinality(new.page) \in Nat
          /\ Cardinality(new.page) <= Cardinality(scan[s].page)
      BY <2>3, <3>1, FS_Subset, FS_CardinalityType
    <3> QED BY <3>1, <3>2, ReconciliationAssumption DEF ReconciliationAssumption
  <2>7. KnowsItsChunk(s)'
    BY <1>1, <2>1, <2>3, <2>5, <2>6 DEF KnowsItsChunk, Passed
  <2> QED BY <1>1, <2>1, <2>3, <2>4, <2>7, OneScanGoesOn
<1> QED BY <1>2, <1>3 DEF Persist

LEMMA PersistFinds ==
  ASSUME StockInv, FindingInv, ScanInv, RepairInv,
         NEW s \in Scan, NEW found \in scan[s].page, Persist(s, found)
  PROVE  /\ FindingInv' /\ LockedStay
         /\ \A f \in Finding : finding[f].status # "none" /\ ~ Live(f)
                                 => finding'[f] = finding[f]
         /\ \A f \in Finding : finding'[f].status = "resolved"
                                 => finding[f].status = "resolved"
<1>1. /\ scan[s] \in ScanState /\ found \in [type : Type, evidence : Evidences]
      /\ scan[s].at \in Nat
  BY DEF ScanInv, ScanState
<1>2. CASE UNCHANGED finding
  BY <1>2 DEF LockedStay, FindingInv, Live
<1>3. ASSUME NEW f \in LiveOf(found.type), ~ Locked(f),
             finding' = [finding EXCEPT ![f].evidence = found.evidence,
                                        ![f].version = @ + 1]
      PROVE  /\ FindingInv' /\ LockedStay
             /\ \A g \in Finding : finding[g].status # "none" /\ ~ Live(g)
                                     => finding'[g] = finding[g]
             /\ \A g \in Finding : finding'[g].status = "resolved"
                                     => finding[g].status = "resolved"
  <2> DEFINE new == [finding[f] EXCEPT !.evidence = found.evidence,
                                       !.version = finding[f].version + 1]
  <2>1. f \in Finding /\ Live(f) /\ finding[f] \in FindingState
    BY <1>3 DEF LiveOf, FindingInv
  <2>2. /\ new \in FindingState /\ new.type = finding[f].type
        /\ new.status = finding[f].status
    <3>1. ASSUME NEW x, x = new
          PROVE  x = [type |-> finding[f].type, status |-> finding[f].status,
                      evidence |-> found.evidence, version |-> finding[f].version + 1,
                      first |-> finding[f].first]
      BY <2>1, <3>1 DEF FindingState
    <3> HIDE DEF new
    <3> QED BY <1>1, <2>1, <3>1 DEF FindingState
  <2>3. finding' = [finding EXCEPT ![f] = new]
    BY <1>3, <2>1 DEF FindingInv
  <2> HIDE DEF new
  <2>4. FindingInv'
    BY <2>1, <2>2, <2>3, OneIsRevised
  <2>5. /\ \A g \in Finding \ {f} : finding'[g] = finding[g]
        /\ finding'[f].status # "resolved"
    BY <2>1, <2>2, <2>3 DEF FindingInv, Live
  <2> QED BY <1>3, <2>1, <2>4, <2>5 DEF LockedStay
<1>4. ASSUME LiveOf(found.type) = {}, Unused # {},
             finding' = [finding EXCEPT
               ![Min(Unused)] = [type |-> found.type, status |-> "open",
                                 evidence |-> found.evidence, version |-> 1,
                                 first |-> scan[s].at]]
      PROVE  /\ FindingInv' /\ LockedStay
             /\ \A g \in Finding : finding[g].status # "none" /\ ~ Live(g)
                                     => finding'[g] = finding[g]
             /\ \A g \in Finding : finding'[g].status = "resolved"
                                     => finding[g].status = "resolved"
  <2> DEFINE f == Min(Unused)
             new == [type |-> found.type, status |-> "open",
                     evidence |-> found.evidence, version |-> 1, first |-> scan[s].at]
  <2>1. f \in Unused
    <3>1. Unused \in SUBSET Nat
      BY ReconciliationAssumption DEF Unused, ReconciliationAssumption
    <3> QED BY <1>4, <3>1, LeastIsThere
  <2>2. f \in Finding /\ finding[f].status = "none" /\ ~ Live(f) /\ ~ Locked(f)
    BY <2>1, LockedIsLive DEF Unused, Live
  <2>3. new \in FindingState /\ new.type = found.type /\ new.status = "open"
    BY <1>1 DEF FindingState
  <2>4. finding' = [finding EXCEPT ![f] = new]
    BY <1>4
  <2> HIDE DEF new, f
  <2>5. FindingInv'
    BY <1>4, <2>2, <2>3, <2>4, OneIsMade
  <2>6. /\ \A g \in Finding \ {f} : finding'[g] = finding[g]
        /\ finding'[f].status # "resolved"
    BY <2>2, <2>3, <2>4 DEF FindingInv
  <2> QED BY <2>2, <2>5, <2>6 DEF LockedStay
<1> QED BY <1>2, <1>3, <1>4 DEF Persist

LEMMA EndResolves ==
  ASSUME FindingInv, ScanInv, NEW s \in Scan, EndScan(s)
  PROVE  /\ FindingInv' /\ LockedStay
         /\ \A f \in Finding : ~ Live(f) => finding'[f] = finding[f]
         /\ \A f \in Finding :
               finding[f].status # "resolved" /\ finding'[f].status = "resolved"
                 => finding[f].type \in absent[s]
<1>1. CASE UNCHANGED finding
  BY <1>1 DEF LockedStay, FindingInv, Live
<1>2. CASE /\ \A f \in NotObserved(s) : ~ Locked(f)
           /\ finding' = Resolved(NotObserved(s))
  <2>1. FindingInv'
    BY <1>2, SomeAreResolved
  <2>2. \A f \in Finding \ NotObserved(s) : finding'[f] = finding[f]
    BY <1>2 DEF Resolved
  <2>3. LockedStay /\ \A f \in Finding : ~ Live(f) => finding'[f] = finding[f]
    BY <1>2, <2>2 DEF LockedStay, NotObserved
  <2>4. ASSUME NEW f \in NotObserved(s) PROVE finding[f].type \in absent[s]
    <3>1. finding[f].type \in Type /\ finding[f].type \notin scan[s].observed
      BY <2>4 DEF NotObserved, FindingInv, FindingState
    <3>2. Passed(s, finding[f].type) /\ scan[s].page = {} /\ scan[s].phase = "scanning"
      BY DEF EndScan, Passed
    <3>3. KnowsItsChunk(s)
      BY DEF ScanInv
    <3> QED BY <3>1, <3>2, <3>3 DEF KnowsItsChunk
  <2> QED BY <2>1, <2>2, <2>3, <2>4
<1> QED BY <1>1, <1>2 DEF EndScan

LEMMA StatusIsChanged ==
  ASSUME FindingInv, NEW f \in Finding, NEW status \in {"acknowledged", "dismissed"},
         Live(f), ChangeStatus(f, status)
  PROVE  /\ FindingInv' /\ LockedStay
         /\ \A g \in Finding : ~ Live(g) => finding'[g] = finding[g]
         /\ \A g \in Finding : finding'[g].status = "resolved"
                                 => finding[g].status = "resolved"
<1> DEFINE new == [finding[f] EXCEPT !.status = status,
                                    !.version = finding[f].version + 1]
<1>1. finding[f] \in FindingState
  BY DEF FindingInv
<1>2. new \in FindingState /\ new.type = finding[f].type /\ new.status = status
  <2>1. ASSUME NEW x, x = new
        PROVE  x = [type |-> finding[f].type, status |-> status,
                    evidence |-> finding[f].evidence, version |-> finding[f].version + 1,
                    first |-> finding[f].first]
    BY <1>1, <2>1 DEF FindingState
  <2> HIDE DEF new
  <2> QED BY <1>1, <2>1 DEF FindingState
<1>3. finding' = [finding EXCEPT ![f] = new] /\ ~ Locked(f)
  BY DEF ChangeStatus, FindingInv
<1> HIDE DEF new
<1>4. FindingInv'
  BY <1>2, <1>3, OneIsRevised
<1>5. /\ \A g \in Finding \ {f} : finding'[g] = finding[g]
      /\ finding'[f].status # "resolved"
  BY <1>2, <1>3 DEF FindingInv
<1> QED BY <1>3, <1>4, <1>5 DEF LockedStay

-----------------------------------------------------------------------------
(***************************************************************************)
(* Repairs                                                                 *)
(***************************************************************************)
(* A repair that goes on is no other's business. *)
LEMMA OneRepairGoesOn ==
  ASSUME RepairInv, UNCHANGED finding, NEW p \in Repair, NEW new \in RepairState,
         repair' = [repair EXCEPT ![p] = new],
         new.phase = "validated" => ~ Locked(new.finding),
         KnowsItsFinding(p)' \/ new.phase \notin {"previewed", "validated"}
  PROVE  RepairInv'
<1>1. /\ repair' \in [Repair -> RepairState] /\ repair'[p] = new
      /\ \A q \in Repair \ {p} : repair'[q] = repair[q]
  BY DEF RepairInv
<1>2. KnowsItsFinding(p)'
  BY <1>1 DEF KnowsItsFinding
<1>3. ASSUME NEW q \in Repair, q # p PROVE KnowsItsFinding(q)'
  <2>1. KnowsItsFinding(q) /\ repair'[q] = repair[q]
    BY <1>1, <1>3 DEF RepairInv
  <2>2. CASE repair[q].phase = "validated"
    <3>1. new.phase = "validated" => new.finding # repair[q].finding
      BY <2>2 DEF Locked
    <3>2. \A r \in Repair \ {q} : repair'[r].phase = "validated"
                                  => repair'[r].finding # repair'[q].finding
      BY <1>1, <2>1, <2>2, <3>1 DEF KnowsItsFinding
    <3>3. WritesWhatWasShown(q)'
      BY <2>1, <2>2 DEF KnowsItsFinding, WritesWhatWasShown
    <3> QED BY <2>1, <2>2, <3>2, <3>3 DEF KnowsItsFinding, Live
  <2>3. CASE repair[q].phase # "validated"
    BY <2>1, <2>3 DEF KnowsItsFinding
  <2> QED BY <2>2, <2>3
<1> QED BY <1>1, <1>2, <1>3 DEF RepairInv

LEMMA PreviewIsARepair ==
  ASSUME StockInv, FindingInv, RepairInv,
         NEW p \in Repair, NEW f \in Finding, Preview(p, f)
  PROVE  RepairInv'
<1> DEFINE new == [NoRepair EXCEPT
             !.phase = "previewed", !.finding = f, !.version = finding[f].version,
             !.evidence = finding[f].evidence, !.issued = now]
<1>1. /\ finding[f].version \in Nat /\ finding[f].evidence \in Evidences \cup {None}
      /\ now \in Nat
  BY DEF FindingInv, FindingState, StockInv, Time
<1>2. /\ new \in RepairState /\ new.phase = "previewed" /\ new.finding = f
  <2>1. ASSUME NEW x, x = new
        PROVE  x = [phase |-> "previewed", finding |-> f, version |-> finding[f].version,
                    evidence |-> finding[f].evidence, issued |-> now, write |-> None]
    BY <2>1 DEF NoRepair
  <2> HIDE DEF new
  <2> QED BY <1>1, <2>1 DEF RepairState
<1>3. repair' = [repair EXCEPT ![p] = new] /\ finding' = finding
  BY DEF Preview
<1> HIDE DEF new
<1>4. repair'[p] = new
  BY <1>3 DEF RepairInv
<1>5. KnowsItsFinding(p)'
  BY <1>2, <1>4 DEF KnowsItsFinding
<1> QED BY <1>2, <1>3, <1>5, OneRepairGoesOn

LEMMA Refusal ==
  ASSUME RepairInv, NEW p \in Repair, UNCHANGED finding,
         repair' = [repair EXCEPT ![p] = [NoRepair EXCEPT !.phase = "refused"]]
  PROVE  RepairInv'
<1> DEFINE new == [NoRepair EXCEPT !.phase = "refused"]
<1>1. new \in RepairState /\ new.phase = "refused"
  BY DEF NoRepair, RepairState
<1>2. repair' = [repair EXCEPT ![p] = new]
  OBVIOUS
<1> HIDE DEF new
<1> QED BY <1>1, <1>2, OneRepairGoesOn

LEMMA ValidatedRepair ==
  ASSUME NEW old \in RepairState, NEW write
  PROVE  [old EXCEPT !.phase = "validated", !.write = write]
           = [phase |-> "validated", finding |-> old.finding, version |-> old.version,
              evidence |-> old.evidence, issued |-> old.issued, write |-> write]
<1>1. old = [phase |-> old.phase, finding |-> old.finding, version |-> old.version,
             evidence |-> old.evidence, issued |-> old.issued, write |-> old.write]
  BY DEF RepairState
<1>2. ASSUME NEW x, x = [old EXCEPT !.phase = "validated", !.write = write]
      PROVE  x = [phase |-> "validated", finding |-> old.finding,
                  version |-> old.version, evidence |-> old.evidence,
                  issued |-> old.issued, write |-> write]
  BY <1>1, <1>2
<1> QED BY <1>2

LEMMA ValidationIsARepair ==
  ASSUME StockInv, FindingInv, RepairInv, NEW p \in Repair, NEW at, Validate(p, at)
  PROVE  RepairInv'
<1> USE ReconciliationAssumption
<1> DEFINE f == repair[p].finding
           type == finding[f].type
           C == ColumnsOf(type) \cup (IF /\ type = OnHandDrift
                                        /\ IsCandidate(LastMovementMismatch, at)
                                        THEN {"last"} ELSE {})
           a == Authority(at)
           new == [repair[p] EXCEPT !.phase = "validated", !.write = Restrict(a, C)]
<1>1. finding' = finding /\ repair[p].phase = "previewed" /\ ~ Locked(f)
  BY DEF Validate
<1>2. CASE repair' = [repair EXCEPT ![p] = [NoRepair EXCEPT !.phase = "refused"]]
  BY <1>1, <1>2, Refusal
<1>3. CASE /\ AsPreviewed(p, at) /\ IsCurrent(f, at)
           /\ repair' = [repair EXCEPT ![p] = [@ EXCEPT
                !.phase = "validated", !.write = Restrict(Authority(at), C)]]
  <2>1. /\ repair[p] \in RepairState /\ f \in Finding
    BY <1>1 DEF RepairInv, KnowsItsFinding
  <2>2. type \in Type
    BY <2>1 DEF FindingInv, FindingState
  <2>3. C \in SUBSET Column /\ ColumnsOf(type) \subseteq C
        /\ C \subseteq ColumnsOf(type) \cup {"last"}
    <3>1. ColumnsOf(type) \in SUBSET Column
      BY <2>2, ColumnsAreColumns
    <3> QED BY <3>1 DEF Column
  <2>4. a \in AuthorityState
    BY AuthorityIsTyped DEF StockInv
  <2> HIDE DEF C, a
  <2>5. /\ new \in RepairState /\ new.phase = "validated" /\ new.finding = f
        /\ new.write = Restrict(a, C) /\ new.version = repair[p].version
        /\ new.evidence = repair[p].evidence
    <3>1. Restrict(a, C)
            \in {Restrict(b, D) : b \in AuthorityState, D \in SUBSET Column}
      BY <2>3, <2>4
    <3>2. new = [phase |-> "validated", finding |-> f, version |-> repair[p].version,
                 evidence |-> repair[p].evidence, issued |-> repair[p].issued,
                 write |-> Restrict(a, C)]
      BY <2>1, ValidatedRepair
    <3>3. /\ f \in Finding \cup {None} /\ repair[p].version \in Nat
          /\ repair[p].evidence \in Evidences \cup {None} /\ repair[p].issued \in Nat
      BY <2>1 DEF RepairState
    <3> HIDE DEF new
    <3> QED BY <3>1, <3>2, <3>3 DEF RepairState
  <2>6. repair' = [repair EXCEPT ![p] = new]
    BY <1>3 DEF RepairInv, a
  <2> HIDE DEF new
  <2>7. repair'[p] = new
    BY <2>6 DEF RepairInv
  <2>8. repair[p].evidence.expected = Restrict(a, ColumnsOf(type))
    BY <1>3 DEF AsPreviewed, IsCurrent, Evidence, a
  <2>9. WritesWhatWasShown(p)'
    BY <1>1, <2>3, <2>4, <2>5, <2>7, <2>8 DEF WritesWhatWasShown
  <2>10. \A q \in Repair \ {p} : repair'[q].phase = "validated"
                                  => repair'[q].finding # f
    <3>1. \A q \in Repair \ {p} : repair'[q] = repair[q]
      BY <2>6 DEF RepairInv
    <3>2. \A q \in Repair : repair[q].phase = "validated" => repair[q].finding # f
      BY <1>1 DEF Locked
    <3> HIDE DEF f
    <3> QED BY <3>1, <3>2
  <2>11. KnowsItsFinding(p)'
    BY <1>1, <1>3, <2>1, <2>5, <2>7, <2>9, <2>10 DEF KnowsItsFinding, AsPreviewed, Live
  <2> QED BY <1>1, <2>5, <2>6, <2>11, OneRepairGoesOn
<1> QED BY <1>2, <1>3 DEF Validate

(* What a repair writes is a row: the values it was approved for in their  *)
(* columns, and what is there in the others.                               *)
LEMMA OverwrittenColumns ==
  ASSUME NEW a \in AuthorityState, NEW C \in SUBSET Column
  PROVE  LET row == Overwritten(Restrict(a, C))
             put(c) == IF c \in C THEN a[c] ELSE balance[c]
         IN  row = [exists |-> TRUE, onHand |-> put("onHand"),
                    reserved |-> put("reserved"), last |-> put("last")]
BY DEF Overwritten, Restrict

LEMMA AppliedRowIsARow ==
  ASSUME StockInv, NEW a \in AuthorityState, NEW C \in SUBSET Column,
         balance' = Overwritten(Restrict(a, C)), Covered(balance')
  PROVE  balance' \in RowState /\ balance'.exists
<1> DEFINE onHand == IF "onHand" \in C THEN a.onHand ELSE balance.onHand
           reserved == IF "reserved" \in C THEN a.reserved ELSE balance.reserved
           last == IF "last" \in C THEN a.last ELSE balance.last
<1>1. balance' = [exists |-> TRUE, onHand |-> onHand, reserved |-> reserved,
                  last |-> last]
  BY OverwrittenColumns
<1>2. onHand \in Int /\ reserved \in Nat /\ last \in Movement \cup {None}
  BY DEF StockInv, AuthorityState, RowState
<1> HIDE DEF onHand, reserved, last
<1> QED BY <1>1, <1>2 DEF RowState, Covered

LEMMA RepairLeaves ==
  ASSUME RepairInv, NEW p \in Repair, repair[p].phase = "validated",
         NEW new \in RepairState, new.phase \notin {"previewed", "validated"},
         repair' = [repair EXCEPT ![p] = new],
         \A f \in Finding : f # repair[p].finding => finding'[f] = finding[f]
  PROVE  RepairInv'
<1>1. /\ repair' \in [Repair -> RepairState] /\ repair'[p] = new
      /\ \A q \in Repair \ {p} : repair'[q] = repair[q]
  BY DEF RepairInv
<1>2. KnowsItsFinding(p)'
  BY <1>1 DEF KnowsItsFinding
<1>3. ASSUME NEW q \in Repair, q # p PROVE KnowsItsFinding(q)'
  <2>1. KnowsItsFinding(q) /\ repair'[q] = repair[q]
    BY <1>1, <1>3 DEF RepairInv
  <2>2. CASE repair[q].phase = "validated"
    <3>1. finding'[repair[q].finding] = finding[repair[q].finding]
      BY <1>3, <2>1, <2>2 DEF KnowsItsFinding
    <3>2. \A r \in Repair \ {q} : repair'[r].phase = "validated"
                                  => repair'[r].finding # repair'[q].finding
      BY <1>1, <2>1, <2>2 DEF KnowsItsFinding
    <3>3. WritesWhatWasShown(q)'
      BY <2>1, <2>2, <3>1 DEF KnowsItsFinding, WritesWhatWasShown
    <3> QED BY <2>1, <2>2, <3>1, <3>2, <3>3 DEF KnowsItsFinding, Live
  <2>3. CASE repair[q].phase # "validated"
    BY <2>1, <2>3 DEF KnowsItsFinding
  <2> QED BY <2>2, <2>3
<1> QED BY <1>1, <1>2, <1>3 DEF RepairInv

(* What a repair does when it is applied, and not refused after all. *)
Repairs(p) == /\ repair[p].phase = "validated"
              /\ balance' = Overwritten(repair[p].write)
              /\ finding' = Resolved({repair[p].finding})
              /\ repair' = [repair EXCEPT ![p] = [NoRepair EXCEPT !.phase = "applied"]]

LEMMA ApplicationKeepsAll ==
  ASSUME RecInv, NEW p \in Repair, Apply(p)
  PROVE  /\ RecInv'
         /\ Repairs(p) \/ UNCHANGED finding
         /\ \A f \in Finding : ~ Live(f) => finding'[f] = finding[f]
<1> USE DEF RecInv
<1>1. /\ repair[p].phase = "validated" /\ repair[p].finding \in Finding
      /\ Live(repair[p].finding) /\ WritesWhatWasShown(p)
  BY DEF Apply, RepairInv, KnowsItsFinding
<1>2. ScanInv'
  <2>1. now \in Nat /\ now' = now /\ UNCHANGED <<scan, absent>>
    BY DEF Apply, StockInv, Time
  <2> QED BY <2>1, ScansStay
<1>3. CASE Repairs(p) /\ Covered(balance')
  <2>1. StockInv'
    <3>1. PICK a \in AuthorityState, C \in SUBSET Column :
            repair[p].write = Restrict(a, C)
      BY <1>1 DEF WritesWhatWasShown
    <3>2. balance' \in RowState /\ balance'.exists
      BY <1>3, <3>1, AppliedRowIsARow DEF Repairs
    <3>3. UNCHANGED <<now, movement, reservation>>
      BY DEF Apply
    <3> QED BY <1>3, <3>2, <3>3 DEF StockInv
  <2>2. FindingInv'
    BY <1>3, SomeAreResolved DEF Repairs
  <2>3. \A f \in Finding : f # repair[p].finding => finding'[f] = finding[f]
    BY <1>3 DEF Repairs, Resolved
  <2>4. RepairInv'
    <3> DEFINE new == [NoRepair EXCEPT !.phase = "applied"]
    <3>1. new \in RepairState /\ new.phase = "applied"
      BY DEF NoRepair, RepairState
    <3>2. repair' = [repair EXCEPT ![p] = new]
      BY <1>3 DEF Repairs
    <3> HIDE DEF new
    <3> QED BY <1>1, <2>3, <3>1, <3>2, RepairLeaves
  <2> QED BY <1>1, <1>2, <1>3, <2>1, <2>2, <2>3, <2>4
<1>4. CASE /\ repair' = [repair EXCEPT ![p] = [NoRepair EXCEPT !.phase = "refused"]]
           /\ UNCHANGED <<balance, finding>>
  <2>1. RepairInv'
    BY <1>4, Refusal
  <2>2. FindingInv'
    BY <1>4 DEF FindingInv, Live
  <2>3. StockInv'
    BY <1>4 DEF Apply, StockInv, Covered
  <2> QED BY <1>2, <1>4, <2>1, <2>2, <2>3
<1> QED BY <1>3, <1>4 DEF Apply, Repairs, Safe

-----------------------------------------------------------------------------
(***************************************************************************)
(* The first state, and every step                                         *)
(***************************************************************************)
LEMMA InitEstablishesRecInv ==
  Init => RecInv
<1> SUFFICES ASSUME Init PROVE RecInv
  OBVIOUS
<1> USE ReconciliationAssumption DEF Init
<1>1. Min(Movement) \in Movement
  BY LeastIsThere DEF ReconciliationAssumption
<1>2. StockInv
  <2>1. now \in Time /\ now = 0
    BY DEF Time, ReconciliationAssumption
  <2>2. /\ movement \in [Movement -> MovementState]
        /\ \A m \in Movement : movement[m].at <= now
    BY <1>1, <2>1 DEF MovementState, NoMovement
  <2>3. reservation \in [Reservation -> ReservationState]
    BY DEF ReservationState
  <2>4. /\ balance \in RowState /\ Covered(balance)
        /\ ~ balance.exists => balance = NoRow
    <3>1. CASE balance = NoRow
      BY <3>1 DEF NoRow, RowState, Covered
    <3>2. ASSUME NEW q \in Damaged,
                 balance = [exists |-> TRUE, onHand |-> q[1], reserved |-> q[2],
                            last |-> Min(Movement)]
          PROVE  /\ balance \in RowState /\ Covered(balance)
                 /\ ~ balance.exists => balance = NoRow
      <4>1. q[1] \in Nat /\ q[2] \in Nat /\ q[2] <= q[1]
        BY DEF ReconciliationAssumption
      <4> QED BY <1>1, <3>2, <4>1 DEF RowState, Covered
    <3> QED BY <3>1, <3>2
  <2> QED BY <2>1, <2>2, <2>3, <2>4 DEF StockInv
<1>3. FindingInv
  <2>1. NoFinding \in FindingState /\ NoFinding.status = "none"
    BY DEF NoFinding, FindingState, Type, OnHandDrift, MissingBalance
  <2> QED BY <2>1 DEF FindingInv, Live
<1>4. ScanInv
  <2>1. /\ NoScan \in ScanState /\ NoScan.phase = "none" /\ NoScan.page = {}
        /\ NoScan.at = 0
    BY DEF NoScan, ScanState
  <2>2. IsFiniteSet({}) /\ Cardinality({}) = 0 /\ 0 <= ChunkSize
    BY FS_EmptySet DEF ReconciliationAssumption
  <2>3. scan \in [Scan -> ScanState] /\ absent \in [Scan -> SUBSET Type]
    BY <2>1
  <2>4. ASSUME NEW s \in Scan PROVE KnowsItsChunk(s)
    <3>1. /\ scan[s].phase = "none" /\ scan[s].page = {} /\ scan[s].at = 0
          /\ now = 0
      BY <2>1
    <3>2. scan[s].at <= now /\ Cardinality(scan[s].page) <= ChunkSize
      <4>1. Cardinality(scan[s].page) = 0
        BY <2>2, <3>1
      <4> QED BY <2>2, <3>1, <4>1
    <3> QED BY <2>2, <3>1, <3>2 DEF KnowsItsChunk
  <2> QED BY <2>3, <2>4 DEF ScanInv
<1>5. RepairInv
  BY DEF RepairInv, RepairState, NoRepair, KnowsItsFinding
<1> QED BY <1>2, <1>3, <1>4, <1>5 DEF RecInv

(* What has ended stays as it is. *)
EndedStay == \A f \in Finding : finding[f].status \in {"resolved", "dismissed"}
                                 => finding'[f] = finding[f]

(* What is resolved is resolved by a scan that did not see it, or repaired.*)
ResolvedForAReason ==
  \A f \in Finding :
    finding[f].status # "resolved" /\ finding'[f].status = "resolved" =>
      \/ \E s \in Scan : EndScan(s) /\ finding[f].type \in absent[s]
      \/ \E p \in Repair : Repairs(p) /\ repair[p].finding = f

(* A repair that is applied now is one that does what Repairs says. *)
AppliedRepairs == \A p \in Repair :
  repair[p].phase # "applied" /\ repair'[p].phase = "applied" => Repairs(p)

StepInv == RecInv' /\ EndedStay /\ ResolvedForAReason /\ AppliedRepairs

LEMMA FindingsRest ==
  ASSUME FindingInv, UNCHANGED finding
  PROVE  FindingInv' /\ LockedStay /\ EndedStay /\ ResolvedForAReason
BY DEF FindingInv, Live, LockedStay, EndedStay, ResolvedForAReason

LEMMA StockRests ==
  ASSUME StockInv, UNCHANGED <<now, stock>>
  PROVE  StockInv'
BY DEF StockInv, stock, Covered

(* Steps that leave the repairs alone. *)
LEMMA RepairsRest ==
  ASSUME UNCHANGED repair
  PROVE  AppliedRepairs
BY DEF AppliedRepairs

LEMMA NowIsANumber ==
  ASSUME StockInv, UNCHANGED now
  PROVE  now \in Nat /\ now' \in Nat /\ now <= now'
BY DEF StockInv, Time

LEMMA StockSteps ==
  ASSUME RecInv, Command \/ Tick
  PROVE  StepInv
<1> USE ReconciliationAssumption DEF RecInv
<1>1. UNCHANGED <<finding, scan, repair, absent>>
  BY DEF Command, Tick
<1>2. StockInv' /\ now \in Nat /\ now' \in Nat /\ now <= now'
  <2>1. CASE Command
    <3>1. UNCHANGED now
      BY <2>1 DEF Command
    <3> QED BY <2>1, <3>1, CommandKeepsStock, NowIsANumber
  <2>2. CASE Tick
    <3>1. /\ now \in Nat /\ now' = now + 1 /\ now' \in Time /\ now <= now'
      BY <2>2 DEF Tick, StockInv, Time, ReconciliationAssumption
    <3>2. UNCHANGED <<movement, reservation, balance>>
      BY <2>2 DEF Tick, stock
    <3>3. \A m \in Movement : movement'[m].at <= now'
      <4> TAKE m \in Movement
      <4>1. movement[m].at \in Nat /\ movement[m].at <= now
        BY DEF StockInv, MovementState
      <4>2. movement'[m].at = movement[m].at
        BY <3>2
      <4> QED BY <3>1, <4>1, <4>2
    <3> QED BY <3>1, <3>2, <3>3 DEF StockInv, Covered
  <2> QED BY <2>1, <2>2
<1>3. ScanInv'
  BY <1>1, <1>2, ScansStay
<1>4. FindingInv' /\ LockedStay /\ EndedStay /\ ResolvedForAReason
  BY <1>1, FindingsRest
<1>5. RepairInv' /\ AppliedRepairs
  BY <1>1, <1>4, RepairsGoOn, RepairsRest
<1> QED BY <1>2, <1>3, <1>4, <1>5 DEF StepInv

LEMMA ScanSteps ==
  ASSUME RecInv, NEW s \in Scan, StartScan(s) \/ ScanStep(s) \/ FailScan(s)
  PROVE  StepInv
<1> USE DEF RecInv
<1>1. UNCHANGED <<now, stock, repair>>
  BY DEF StartScan, ScanStep, FailScan, ReadChunk, Persist, EndScan
<1>2. StockInv' /\ AppliedRepairs /\ now \in Nat /\ UNCHANGED now
  BY <1>1, StockRests, RepairsRest, NowIsANumber
<1>3. ASSUME LockedStay PROVE RepairInv'
  BY <1>1, <1>3, RepairsGoOn
<1>4. CASE StartScan(s)
  <2>1. FindingInv' /\ LockedStay /\ EndedStay /\ ResolvedForAReason
    BY <1>4, FindingsRest DEF StartScan
  <2>2. ScanInv'
    BY <1>4, StartIsAScan
  <2> QED BY <1>2, <1>3, <2>1, <2>2 DEF StepInv
<1>5. CASE ReadChunk(s)
  <2>1. FindingInv' /\ LockedStay /\ EndedStay /\ ResolvedForAReason
    BY <1>5, FindingsRest DEF ReadChunk
  <2>2. ScanInv'
    BY <1>5, ChunkIsRead
  <2> QED BY <1>2, <1>3, <2>1, <2>2 DEF StepInv
<1>6. ASSUME NEW found \in scan[s].page, Persist(s, found) PROVE StepInv
  <2>1. /\ FindingInv' /\ LockedStay
        /\ \A f \in Finding : finding[f].status # "none" /\ ~ Live(f)
                                => finding'[f] = finding[f]
        /\ \A f \in Finding : finding'[f].status = "resolved"
                                => finding[f].status = "resolved"
    BY <1>6, PersistFinds
  <2>2. EndedStay /\ ResolvedForAReason
    BY <2>1 DEF EndedStay, ResolvedForAReason, Live
  <2>3. ScanInv'
    BY <1>6, PersistScans
  <2> QED BY <1>2, <1>3, <2>1, <2>2, <2>3 DEF StepInv
<1>7. CASE EndScan(s)
  <2>1. /\ FindingInv' /\ LockedStay
        /\ \A f \in Finding : ~ Live(f) => finding'[f] = finding[f]
        /\ \A f \in Finding :
              finding[f].status # "resolved" /\ finding'[f].status = "resolved"
                => finding[f].type \in absent[s]
    BY <1>7, EndResolves
  <2>2. EndedStay
    BY <2>1 DEF EndedStay, Live
  <2>3. ResolvedForAReason
    BY <1>7, <2>1 DEF ResolvedForAReason
  <2>4. ScanInv'
    BY <1>2, <1>7, ScanEnds DEF EndScan
  <2> QED BY <1>2, <1>3, <2>1, <2>2, <2>3, <2>4 DEF StepInv
<1>8. CASE FailScan(s)
  <2>1. FindingInv' /\ LockedStay /\ EndedStay /\ ResolvedForAReason
    BY <1>8, FindingsRest DEF FailScan
  <2>2. ScanInv'
    BY <1>2, <1>8, ScanEnds DEF FailScan
  <2> QED BY <1>2, <1>3, <2>1, <2>2 DEF StepInv
<1> QED BY <1>4, <1>5, <1>6, <1>7, <1>8 DEF ScanStep

LEMMA StatusSteps ==
  ASSUME RecInv, NEW f \in Finding, Acknowledge(f) \/ Dismiss(f)
  PROVE  StepInv
<1> USE DEF RecInv
<1>1. PICK status \in {"acknowledged", "dismissed"} : Live(f) /\ ChangeStatus(f, status)
  BY DEF Acknowledge, Dismiss, Live
<1>2. UNCHANGED <<now, stock, scan, repair, absent>>
  BY <1>1 DEF ChangeStatus
<1>3. /\ FindingInv' /\ LockedStay
      /\ \A g \in Finding : ~ Live(g) => finding'[g] = finding[g]
      /\ \A g \in Finding : finding'[g].status = "resolved"
                              => finding[g].status = "resolved"
  BY <1>1, StatusIsChanged
<1>4. EndedStay /\ ResolvedForAReason
  BY <1>3 DEF EndedStay, ResolvedForAReason, Live
<1>5. StockInv' /\ ScanInv'
  BY <1>2, StockRests, NowIsANumber, ScansStay
<1>6. RepairInv' /\ AppliedRepairs
  BY <1>2, <1>3, RepairsGoOn, RepairsRest
<1> QED BY <1>3, <1>4, <1>5, <1>6 DEF StepInv

LEMMA PreviewSteps ==
  ASSUME RecInv, NEW p \in Repair,
         \/ \E f \in Finding : Preview(p, f)
         \/ \E at \in RequestTimes : Validate(p, at)
  PROVE  StepInv
<1> USE DEF RecInv
<1>1. UNCHANGED <<now, stock, finding, scan, absent>>
  BY DEF Preview, Validate
<1>2. FindingInv' /\ EndedStay /\ ResolvedForAReason
  BY <1>1, FindingsRest
<1>3. StockInv' /\ ScanInv'
  BY <1>1, StockRests, NowIsANumber, ScansStay
<1>4. RepairInv'
  BY PreviewIsARepair, ValidationIsARepair
<1>5. AppliedRepairs
  <2>1. \A q \in Repair \ {p} : repair'[q] = repair[q]
    BY DEF Preview, Validate, RepairInv
  <2>2. repair'[p].phase # "applied"
    <3>1. ASSUME NEW f \in Finding, Preview(p, f) PROVE repair'[p].phase = "previewed"
      BY <3>1 DEF Preview, RepairInv, NoRepair
    <3>2. ASSUME NEW at, Validate(p, at)
          PROVE  repair'[p].phase \in {"validated", "refused"}
      <4>1. repair[p] \in RepairState
        BY DEF RepairInv
      <4>2. CASE repair' = [repair EXCEPT ![p] = [NoRepair EXCEPT !.phase = "refused"]]
        BY <4>2 DEF RepairInv, NoRepair
      <4>3. ASSUME NEW write,
                   repair' = [repair EXCEPT ![p] = [@ EXCEPT !.phase = "validated",
                                                             !.write = write]]
            PROVE  repair'[p].phase = "validated"
        <5>1. repair'[p] = [repair[p] EXCEPT !.phase = "validated", !.write = write]
          BY <4>3 DEF RepairInv
        <5>2. repair'[p] = [phase |-> "validated", finding |-> repair[p].finding,
                            version |-> repair[p].version,
                            evidence |-> repair[p].evidence,
                            issued |-> repair[p].issued, write |-> write]
          BY <4>1, <5>1, ValidatedRepair
        <5> QED BY <5>2
      <4> QED BY <3>2, <4>2, <4>3 DEF Validate
    <3> QED BY <3>1, <3>2
  <2> QED BY <2>1, <2>2 DEF AppliedRepairs
<1> QED BY <1>2, <1>3, <1>4, <1>5 DEF StepInv

LEMMA ApplySteps ==
  ASSUME RecInv, NEW p \in Repair, Apply(p)
  PROVE  StepInv
<1>1. /\ RecInv'
      /\ Repairs(p) \/ UNCHANGED finding
      /\ \A f \in Finding : ~ Live(f) => finding'[f] = finding[f]
  BY ApplicationKeepsAll
<1>2. EndedStay
  BY <1>1 DEF EndedStay, Live
<1>3. ResolvedForAReason
  <2>1. CASE UNCHANGED finding
    BY <2>1 DEF ResolvedForAReason
  <2>2. CASE Repairs(p)
    <3>1. \A f \in Finding : f # repair[p].finding => finding'[f] = finding[f]
      BY <2>2 DEF Repairs, Resolved
    <3> QED BY <2>2, <3>1 DEF ResolvedForAReason
  <2> QED BY <1>1, <2>1, <2>2
<1>4. AppliedRepairs
  <2>1. repair \in [Repair -> RepairState]
    BY DEF RecInv, RepairInv
  <2>2. CASE repair' = [repair EXCEPT ![p] = [NoRepair EXCEPT !.phase = "refused"]]
    <3>1. repair'[p].phase = "refused" /\ \A q \in Repair \ {p} : repair'[q] = repair[q]
      BY <2>1, <2>2 DEF NoRepair
    <3> QED BY <3>1 DEF AppliedRepairs
  <2>3. CASE Repairs(p)
    <3>1. \A q \in Repair \ {p} : repair'[q] = repair[q]
      BY <2>1, <2>3 DEF Repairs
    <3> QED BY <2>3, <3>1 DEF AppliedRepairs
  <2> QED BY <2>2, <2>3 DEF Apply, Repairs
<1> QED BY <1>1, <1>2, <1>3, <1>4 DEF StepInv

LEMMA EveryStep ==
  ASSUME RecInv, [Next]_vars
  PROVE  StepInv
<1>1. CASE UNCHANGED vars
  <2> USE <1>1 DEF vars, stock, RecInv
  <2>1. StockInv' /\ ScanInv'
    BY StockRests, NowIsANumber, ScansStay
  <2>2. FindingInv' /\ LockedStay /\ EndedStay /\ ResolvedForAReason
    BY FindingsRest
  <2>3. RepairInv' /\ AppliedRepairs
    BY <2>2, RepairsGoOn, RepairsRest
  <2> QED BY <2>1, <2>2, <2>3 DEF StepInv
<1>2. CASE Command \/ Tick
  BY <1>2, StockSteps
<1>3. ASSUME NEW s \in Scan, StartScan(s) \/ ScanStep(s) \/ FailScan(s)
      PROVE  StepInv
  BY <1>3, ScanSteps
<1>4. ASSUME NEW f \in Finding, Acknowledge(f) \/ Dismiss(f)
      PROVE  StepInv
  BY <1>4, StatusSteps
<1>5. ASSUME NEW p \in Repair,
             \/ \E f \in Finding : Preview(p, f)
             \/ \E at \in RequestTimes : Validate(p, at)
      PROVE  StepInv
  BY <1>5, PreviewSteps
<1>6. ASSUME NEW p \in Repair, Apply(p)
      PROVE  StepInv
  BY <1>6, ApplySteps
<1> QED BY <1>1, <1>2, <1>3, <1>4, <1>5, <1>6 DEF Next

LEMMA RecInvHolds ==
  Spec => []RecInv
<1>1. RecInv /\ [Next]_vars => RecInv'
  BY EveryStep DEF StepInv
<1> QED BY InitEstablishesRecInv, <1>1, PTL DEF Spec

-----------------------------------------------------------------------------
(***************************************************************************)
(* What follows                                                            *)
(***************************************************************************)
LEMMA LiveAreOne ==
  ASSUME FindingInv, NEW type
  PROVE  Cardinality(LiveOf(type)) <= 1
<1>1. \A f, g \in LiveOf(type) : f = g
  BY DEF LiveOf, FindingInv
<1>2. CASE LiveOf(type) = {}
  BY <1>2, FS_EmptySet
<1>3. CASE LiveOf(type) # {}
  <2>1. PICK f \in LiveOf(type) : TRUE
    BY <1>3
  <2>2. LiveOf(type) = {f}
    BY <1>1, <2>1
  <2>3. Cardinality(LiveOf(type)) = 1
    BY <2>2, FS_Singleton
  <2> QED BY <2>3
<1> QED BY <1>2, <1>3

(* However scans, repairs and commands interleave: the row is well formed, *)
(* it covers what is reserved, and repairing never makes it otherwise;     *)
(* there is one live revision of a type of finding; and a page of a scan is*)
(* no longer than a chunk (reconciliation scan and repair repositories).   *)
THEOREM ReconciliationIsTyped ==
  Spec => []ReconciliationTypeOK
<1>1. RecInv => ReconciliationTypeOK
  <2> SUFFICES ASSUME RecInv PROVE ReconciliationTypeOK
    OBVIOUS
  <2>1. /\ now \in Time
        /\ \A m \in Movement : /\ movement[m].delta \in {-1, 0, 1}
                               /\ movement[m].at <= now
        /\ balance \in RowState
        /\ Covered(balance)
        /\ ~ balance.exists => balance = NoRow
    BY DEF RecInv, StockInv, MovementState
  <2>2. \A type \in Type : Cardinality(LiveOf(type)) <= 1
    BY LiveAreOne DEF RecInv
  <2>3. \A s \in Scan : /\ scan[s].phase \in {"none", "scanning", "ended"}
                        /\ scan[s].at <= now
                        /\ scan[s].cursor \in Type \cup {0}
                        /\ Cardinality(scan[s].page) <= ChunkSize
                        /\ scan[s].observed \subseteq Type
    <3> TAKE s \in Scan
    <3>1. scan[s] \in ScanState /\ KnowsItsChunk(s)
      BY DEF RecInv, ScanInv
    <3> QED BY <3>1 DEF ScanState, KnowsItsChunk
  <2> QED BY <2>1, <2>2, <2>3 DEF ReconciliationTypeOK, RowState
<1> QED BY RecInvHolds, <1>1, PTL

(* An approved repair changes the columns its approver was shown, to what  *)
(* he was shown, of the very revision he was shown, and ends that: the     *)
(* validation locks the finding, so that no scan revises it before the row *)
(* is written (the repair service, between validate and apply).            *)
THEOREM RepairsAreAsShown ==
  Spec => RepairsDoAsPreviewed
<1> DEFINE Shown(p) ==
      LET f == repair[p].finding
          expected == repair[p].evidence.expected
      IN  /\ finding[f].version = repair[p].version
          /\ \A c \in DOMAIN expected : balance'[c] = expected[c]
          /\ \A c \in {"onHand", "reserved"} \ DOMAIN expected :
               balance'[c] = balance[c]
          /\ finding'[f].status = "resolved"
<1>1. ASSUME RecInv, NEW p \in Repair, Repairs(p) PROVE Shown(p)
  <2> DEFINE f == repair[p].finding
             type == finding[f].type
             D == ColumnsOf(type)
  <2>1. /\ f \in Finding /\ WritesWhatWasShown(p)
        /\ finding[f].version = repair[p].version
        /\ finding[f] \in FindingState
    BY <1>1 DEF RecInv, RepairInv, FindingInv, KnowsItsFinding, Repairs
  <2>2. finding'[f].status = "resolved"
    <3>1. finding'[f] = [finding[f] EXCEPT !.status = "resolved",
                                           !.version = finding[f].version + 1]
      BY <1>1, <2>1 DEF Repairs, Resolved
    <3> QED BY <2>1, <3>1 DEF FindingState
  <2>3. PICK a \in AuthorityState, C \in SUBSET Column :
          /\ D \subseteq C /\ C \subseteq D \cup {"last"}
          /\ repair[p].write = Restrict(a, C)
          /\ repair[p].evidence.expected = Restrict(a, D)
    BY <2>1 DEF WritesWhatWasShown
  <2>4. balance' = [exists |-> TRUE,
                    onHand |-> IF "onHand" \in C THEN a["onHand"] ELSE balance["onHand"],
                    reserved |-> IF "reserved" \in C THEN a["reserved"]
                                                     ELSE balance["reserved"],
                    last |-> IF "last" \in C THEN a["last"] ELSE balance["last"]]
    BY <1>1, <2>3, OverwrittenColumns DEF Repairs
  <2>5. D \subseteq Column
    <3>1. type \in Type
      BY <2>1 DEF FindingState
    <3> QED BY <3>1, ColumnsAreColumns
  <2>6. DOMAIN repair[p].evidence.expected = D
        /\ \A c \in D : repair[p].evidence.expected[c] = a[c]
    <3> HIDE DEF D
    <3> QED BY <2>3 DEF Restrict
  <2> HIDE DEF D, f
  <2>7. ASSUME NEW c \in D PROVE balance'[c] = a[c]
    <3>1. c \in C /\ c \in Column
      BY <2>3, <2>5
    <3>2. CASE c = "onHand"
      BY <2>4, <3>1, <3>2
    <3>3. CASE c = "reserved"
      BY <2>4, <3>1, <3>3
    <3>4. CASE c = "last"
      BY <2>4, <3>1, <3>4
    <3> QED BY <3>1, <3>2, <3>3, <3>4 DEF Column
  <2>8. \A c \in {"onHand", "reserved"} \ D : balance'[c] = balance[c]
    BY <2>3, <2>4
  <2> QED BY <2>1, <2>2, <2>6, <2>7, <2>8 DEF f
<1>2. ASSUME RecInv, [Next]_vars
      PROVE  \A p \in Repair :
               repair[p].phase # "applied" /\ repair'[p].phase = "applied" => Shown(p)
  <2> HIDE DEF Shown
  <2> QED BY <1>1, <1>2, EveryStep DEF StepInv, AppliedRepairs
<1>3. RecInv /\ [Next]_vars =>
        [\A p \in Repair :
           repair[p].phase # "applied" /\ repair'[p].phase = "applied" => Shown(p)]_vars
  <2> HIDE DEF Shown
  <2> QED BY <1>2
<1> QED BY RecInvHolds, <1>3, PTL DEF Spec, RepairsDoAsPreviewed

(* A revision that was resolved or dismissed is never touched again, not by*)
(* a scan that finds the same drift and not by a repair previewed before.  *)
THEOREM EndedRevisionsStay ==
  Spec => RevisionsEnd
<1>1. RecInv /\ [Next]_vars =>
        [\A f \in Finding : finding[f].status \in {"resolved", "dismissed"} =>
           finding'[f] = finding[f]]_vars
  BY EveryStep DEF StepInv, EndedStay
<1> QED BY RecInvHolds, <1>1, PTL DEF Spec, RevisionsEnd

(* A scan resolves what it did not meet only if it has read that type as   *)
(* being in order: in however many chunks it read, nothing is passed over, *)
(* and what it persisted it does not resolve (resolveMissing).             *)
THEOREM FindingsEndForAReason ==
  Spec => ResolvedBecauseGone
<1>1. ASSUME RecInv, NEW s \in Scan, EndScan(s)
      PROVE  scan[s].phase = "scanning" /\ scan'[s].phase = "ended"
  BY <1>1 DEF EndScan, Ends, RecInv, ScanInv, NoScan
<1>2. ASSUME RecInv, NEW p \in Repair, Repairs(p) PROVE repair'[p].phase = "applied"
  BY <1>2 DEF Repairs, RecInv, RepairInv, NoRepair
<1>3. RecInv /\ [Next]_vars =>
        [\A f \in Finding :
           finding[f].status # "resolved" /\ finding'[f].status = "resolved" =>
             \/ \E s \in Scan : /\ scan[s].phase = "scanning"
                                /\ scan'[s].phase = "ended"
                                /\ finding[f].type \in absent[s]
             \/ \E p \in Repair : /\ repair[p].finding = f
                                  /\ repair'[p].phase = "applied"]_vars
  BY <1>1, <1>2, EveryStep DEF StepInv, ResolvedForAReason
<1> QED BY RecInvHolds, <1>3, PTL DEF Spec, ResolvedBecauseGone
=============================================================================
