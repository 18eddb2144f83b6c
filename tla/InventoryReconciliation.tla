----------------------- MODULE InventoryReconciliation -----------------------
(***************************************************************************)
(* The reconciliation of one balance row with the movements and the        *)
(* reservations it is a projection of, and the repair of what is found,    *)
(* while both go on changing.  Commands and repairs are transactions that  *)
(* lock the row; a scan is a series of snapshots and of single statements. *)
(*                                                                         *)
(* Transit quantities are reconciled as reserved ones are and are left out,*)
(* with the findings that nothing repairs.  Every quantity moved or        *)
(* reserved is one.                                                        *)
(***************************************************************************)
EXTENDS Integers, FiniteSets, FiniteSetsExt, Functions

CONSTANTS
  Movement,     \* numbered in the order of their identifiers
  Reservation,
  Scan, Repair, \* scans and repairs, each done once
  Damaged,      \* quantities on hand and reserved that a row may start with
  Finding,      \* revisions of findings, numbered as they are made
  ChunkSize,
  Lifetime,     \* how long a preview is good for
  MaxDelay,     \* bound: a command takes no longer than this
  MaxTime,      \* bound of the clock
  MaxVersion,   \* bound: people leave a finding of this version alone
  None

ASSUME ReconciliationAssumption ==
  /\ Movement \subseteq Nat /\ Movement # {} /\ Finding \subseteq Nat
  /\ IsFiniteSet(Movement) /\ IsFiniteSet(Reservation)
  /\ ChunkSize \in Nat \ {0}
  /\ \A q \in Damaged : q \in Nat \X Nat /\ q[2] <= q[1]
  /\ Lifetime \in Nat /\ MaxDelay \in Nat /\ MaxTime \in Nat /\ MaxVersion \in Nat
  /\ None \notin Movement \cup Finding

VARIABLES
  now, movement, reservation, balance,
  finding, scan, repair,
  absent        \* history: what each scan has read as being in order

stock == <<movement, reservation, balance>>
vars == <<now, stock, finding, scan, repair, absent>>

Time == 0..MaxTime

(* The types of findings, numbered in the order of their sort keys.        *)
OnHandDrift == 1
ReservedDrift == 2
LastMovementMismatch == 3
MissingBalance == 4
Type == OnHandDrift .. MissingBalance

Column == {"onHand", "reserved", "last"}

ColumnsOf(type) == CASE type = OnHandDrift -> {"onHand"}
                     [] type = ReservedDrift -> {"reserved"}
                     [] type = LastMovementMismatch -> {"last"}
                     [] type = MissingBalance -> Column

NoMovement == [status |-> "none", delta |-> 0, at |-> 0]
NoRow == [exists |-> FALSE, onHand |-> 0, reserved |-> 0, last |-> None]
NoFinding == [type |-> OnHandDrift, status |-> "none", evidence |-> None,
              version |-> 0, first |-> 0]
NoScan == [phase |-> "none", at |-> 0, cursor |-> 0,
           page |-> {}, more |-> FALSE, observed |-> {}]
NoRepair == [phase |-> "none", finding |-> None, version |-> 0,
             evidence |-> None, issued |-> 0, write |-> None]

-----------------------------------------------------------------------------
(* The stock.  What a command writes carries the time of its request.      *)

RequestTimes == {t \in Time : t <= now /\ now <= t + MaxDelay}

Covered(row) == 0 <= row.reserved /\ row.reserved <= row.onHand

(* Posting: one in or one out; the first stock to come in makes the row.   *)
Post(m, delta, at) ==
  LET row == [balance EXCEPT !.exists = TRUE, !.onHand = @ + delta, !.last = m]
  IN  /\ movement[m].status = "none"
      /\ balance.exists \/ delta > 0
      /\ Covered(row)
      /\ movement' = [movement EXCEPT
           ![m] = [status |-> "posted", delta |-> delta, at |-> at]]
      /\ balance' = row
      /\ UNCHANGED reservation

(* Full reversal, whose lines are stored in the direction of the original. *)
Reverse(m, r, at) ==
  LET row == [balance EXCEPT !.onHand = @ - movement[m].delta, !.last = r]
  IN  /\ movement[m].status = "posted"
      /\ movement[r].status = "none"
      /\ balance.exists /\ Covered(row)
      /\ movement' = [movement EXCEPT
           ![m].status = "reversed",
           ![r] = [status |-> "reversal", delta |-> movement[m].delta, at |-> at]]
      /\ balance' = row
      /\ UNCHANGED reservation

Reserve(v, at) ==
  LET row == [balance EXCEPT !.reserved = @ + 1]
  IN  /\ reservation[v].status = "none"
      /\ balance.exists /\ Covered(row)
      /\ reservation' = [reservation EXCEPT ![v] = [status |-> "active", at |-> at]]
      /\ balance' = row
      /\ UNCHANGED movement

Release(v) ==
  /\ reservation[v].status = "active"
  /\ balance.reserved > 0
  /\ reservation' = [reservation EXCEPT ![v].status = "released"]
  /\ balance' = [balance EXCEPT !.reserved = @ - 1]
  /\ UNCHANGED movement

Command ==
  /\ \/ \E at \in RequestTimes :
          \/ \E m \in Movement, delta \in {1, -1} : Post(m, delta, at)
          \/ \E m, r \in Movement : Reverse(m, r, at)
          \/ \E v \in Reservation : Reserve(v, at)
     \/ \E v \in Reservation : Release(v)
  /\ UNCHANGED <<now, finding, scan, repair, absent>>

-----------------------------------------------------------------------------
(* Detection: CANDIDATE_SQL, over what is committed and not later than cut.*)

Effects(cut) == {m \in Movement : /\ movement[m].status # "none"
                                  /\ movement[m].at <= cut}

Latest(cut) ==
  IF Effects(cut) = {} THEN None
  ELSE CHOOSE m \in Effects(cut) :
         \A n \in Effects(cut) :
           \/ movement[n].at < movement[m].at
           \/ movement[n].at = movement[m].at /\ n <= m

Authority(cut) ==
  [onHand |-> Cardinality({m \in Effects(cut) : movement[m].delta = 1})
              - Cardinality({m \in Effects(cut) : movement[m].delta = -1}),
   reserved |-> Cardinality({v \in Reservation : /\ reservation[v].status = "active"
                                                 /\ reservation[v].at <= cut}),
   last |-> Latest(cut)]

IsCandidate(type, cut) ==
  IF type = MissingBalance
    THEN /\ ~ balance.exists
         /\ Authority(cut).onHand # 0 \/ Authority(cut).reserved # 0
    ELSE /\ balance.exists
         /\ \E c \in ColumnsOf(type) : Authority(cut)[c] # balance[c]

Evidence(type, cut) ==
  [expected |-> Restrict(Authority(cut), ColumnsOf(type)),
   actual |-> Restrict(balance, IF balance.exists THEN ColumnsOf(type) ELSE {})]

(* The candidates beyond the cursor, and those of them that make a chunk;  *)
(* one more is read, to know whether there are more.                       *)
Beyond(cursor, cut) == {type \in Type : type > cursor /\ IsCandidate(type, cut)}

Chunk(types) == {t \in types : Cardinality({u \in types : u < t}) < ChunkSize}

MoreIfTwo(types) == Cardinality(types) > ChunkSize + 1

More(types) == Cardinality(types) > ChunkSize

-----------------------------------------------------------------------------
(* The scan.                                                               *)

Live(f) == finding[f].status \in {"open", "acknowledged"}
Unused == {f \in Finding : finding[f].status = "none"}
LiveOf(type) == {f \in Finding : Live(f) /\ finding[f].type = type}

(* A repair that has validated a finding holds its row. *)
Locked(f) == \E p \in Repair : /\ repair[p].phase = "validated"
                               /\ repair[p].finding = f

Ends(s) == /\ scan' = [scan EXCEPT ![s] = [NoScan EXCEPT !.phase = "ended"]]
           /\ absent' = [absent EXCEPT ![s] = {}]

StartScan(s) ==
  /\ scan[s].phase = "none"
  /\ scan' = [scan EXCEPT ![s] = [NoScan EXCEPT
                !.phase = "scanning", !.at = now, !.more = TRUE]]
  /\ UNCHANGED <<now, stock, finding, repair, absent>>

(* readCandidateChunk: a snapshot of its own, cut at the time the scan     *)
(* started.                                                                *)
ReadChunk(s) ==
  LET rows == Beyond(scan[s].cursor, scan[s].at)
      page == Chunk(rows)
  IN  /\ scan[s].phase = "scanning" /\ scan[s].page = {} /\ scan[s].more
      /\ scan' = [scan EXCEPT
           ![s].page = {[type |-> type, evidence |-> Evidence(type, scan[s].at)] :
                          type \in page},
           ![s].more = More(rows),
           ![s].cursor = IF page = {} THEN @ ELSE Max(page)]
      /\ absent' = [absent EXCEPT
           ![s] = @ \cup {type \in Type : ~ IsCandidate(type, scan[s].at)}]
      /\ UNCHANGED <<now, stock, finding, repair>>

(* persistFinding, for the first of the page: the live revision is brought *)
(* up to date, or there is a new one.  A finding is not last detected      *)
(* before it was first.                                                    *)
Persist(s, found) ==
  LET goOn == /\ scan' = [scan EXCEPT ![s].page = @ \ {found},
                                      ![s].observed = @ \cup {found.type}]
              /\ UNCHANGED absent
  IN  /\ scan[s].phase = "scanning"
      /\ \A other \in scan[s].page : found.type <= other.type
      /\ \/ \E f \in LiveOf(found.type) :
              /\ ~ Locked(f)
              /\ IF finding[f].first <= scan[s].at
                   THEN /\ finding' = [finding EXCEPT
                             ![f].evidence = found.evidence, ![f].version = @ + 1]
                        /\ goOn
                   ELSE Ends(s) /\ UNCHANGED finding
         \/ /\ LiveOf(found.type) = {}
            /\ Unused # {}
            /\ finding' = [finding EXCEPT
                 ![Min(Unused)] = [type |-> found.type, status |-> "open",
                                   evidence |-> found.evidence, version |-> 1,
                                   first |-> scan[s].at]]
            /\ goOn
      /\ UNCHANGED <<now, stock, repair>>

(* resolveMissing, if there is someone to resolve in whose name. *)
EvenIfDismissed(s) ==
  {f \in Finding : /\ finding[f].status # "none"
                   /\ finding[f].type \notin scan[s].observed}

NotObserved(s) == {f \in Finding : Live(f) /\ finding[f].type \notin scan[s].observed}

Resolved(F) == [f \in Finding |->
  IF f \in F THEN [finding[f] EXCEPT !.status = "resolved", !.version = @ + 1]
             ELSE finding[f]]

EndScan(s) ==
  /\ scan[s].phase = "scanning" /\ scan[s].page = {} /\ ~ scan[s].more
  /\ \/ /\ \A f \in NotObserved(s) : ~ Locked(f)
        /\ finding' = Resolved(NotObserved(s))
     \/ UNCHANGED finding
  /\ Ends(s)
  /\ UNCHANGED <<now, stock, repair>>

(* A statement of the scan fails: what it has persisted stays. *)
FailScan(s) ==
  /\ scan[s].phase = "scanning"
  /\ Ends(s)
  /\ UNCHANGED <<now, stock, finding, repair>>

ScanStep(s) == \/ ReadChunk(s)
               \/ \E found \in scan[s].page : Persist(s, found)
               \/ EndScan(s)

-----------------------------------------------------------------------------
(* What people do with findings.                                           *)

ChangeStatus(f, status) ==
  /\ ~ Locked(f) /\ finding[f].version < MaxVersion
  /\ finding' = [finding EXCEPT ![f].status = status, ![f].version = @ + 1]
  /\ UNCHANGED <<now, stock, scan, repair, absent>>

Acknowledge(f) == finding[f].status = "open" /\ ChangeStatus(f, "acknowledged")
Dismiss(f) == Live(f) /\ ChangeStatus(f, "dismissed")

(* currentCandidate: the finding as it is detected now is as it was.       *)
IsCurrent(f, cut) == /\ IsCandidate(finding[f].type, cut)
                     /\ Evidence(finding[f].type, cut) = finding[f].evidence

Preview(p, f) ==
  /\ repair[p].phase = "none"
  /\ Live(f) /\ ~ Locked(f)
  /\ IsCurrent(f, now)
  /\ repair' = [repair EXCEPT ![p] = [NoRepair EXCEPT
       !.phase = "previewed", !.finding = f, !.version = finding[f].version,
       !.evidence = finding[f].evidence, !.issued = now]]
  /\ UNCHANGED <<now, stock, finding, scan, absent>>

(* The version, the fingerprints and the time of the request. *)
StillLive(p, at) == Live(repair[p].finding)

AsPreviewed(p, at) ==
  LET f == repair[p].finding
  IN  /\ Live(f)
      /\ finding[f].version = repair[p].version
      /\ finding[f].evidence = repair[p].evidence
      /\ at < repair[p].issued + Lifetime

(* The finding is locked and detected again.  A repair of the quantity on  *)
(* hand restores the last movement too, if that is amiss.                  *)
Validate(p, at) ==
  LET f == repair[p].finding
      last == IF /\ finding[f].type = OnHandDrift
                 /\ IsCandidate(LastMovementMismatch, at)
                THEN {"last"} ELSE {}
  IN  /\ repair[p].phase = "previewed"
      /\ repair[p].issued <= at
      /\ ~ Locked(f)
      /\ repair' = [repair EXCEPT
           ![p] = IF AsPreviewed(p, at) /\ IsCurrent(f, at)
                    THEN [@ EXCEPT !.phase = "validated",
                                   !.write = Restrict(Authority(at),
                                               ColumnsOf(finding[f].type) \cup last)]
                    ELSE [NoRepair EXCEPT !.phase = "refused"]]
      /\ UNCHANGED <<now, stock, finding, scan, absent>>

(* apply: only now is the row locked.  The columns that were amiss are     *)
(* given the quantities that were expected.                                *)
Overwritten(write) ==
  LET put(c) == IF c \in DOMAIN write THEN write[c] ELSE balance[c]
  IN  [exists |-> TRUE, onHand |-> put("onHand"), reserved |-> put("reserved"),
       last |-> put("last")]

SafeColumn(row) == row.reserved >= 0 /\ row.onHand >= 0

Safe(row) == Covered(row)

Apply(p) ==
  LET f == repair[p].finding
      row == Overwritten(repair[p].write)
  IN  /\ repair[p].phase = "validated"
      /\ IF /\ balance.exists <=> finding[f].type # MissingBalance
            /\ Safe(row)
           THEN /\ balance' = row
                /\ finding' = Resolved({f})
                /\ repair' = [repair EXCEPT ![p] = [NoRepair EXCEPT !.phase = "applied"]]
           ELSE /\ repair' = [repair EXCEPT ![p] = [NoRepair EXCEPT !.phase = "refused"]]
                /\ UNCHANGED <<balance, finding>>
      /\ UNCHANGED <<now, movement, reservation, scan, absent>>

Tick == /\ now < MaxTime
        /\ now' = now + 1
        /\ UNCHANGED <<stock, finding, scan, repair, absent>>

-----------------------------------------------------------------------------
(* The row may be damaged or lost: that is what repairs are for.           *)
Init ==
  /\ now = 0
  /\ movement = [m \in Movement |->
       IF m = Min(Movement) THEN [status |-> "posted", delta |-> 1, at |-> 0]
                            ELSE NoMovement]
  /\ reservation = [v \in Reservation |-> [status |-> "none", at |-> 0]]
  /\ \/ balance = NoRow
     \/ \E q \in Damaged : balance = [exists |-> TRUE, onHand |-> q[1],
                                    reserved |-> q[2], last |-> Min(Movement)]
  /\ finding = [f \in Finding |-> NoFinding]
  /\ scan = [s \in Scan |-> NoScan]
  /\ repair = [p \in Repair |-> NoRepair]
  /\ absent = [s \in Scan |-> {}]

Next ==
  \/ Command \/ Tick
  \/ \E s \in Scan : StartScan(s) \/ ScanStep(s) \/ FailScan(s)
  \/ \E f \in Finding : Acknowledge(f) \/ Dismiss(f)
  \/ \E p \in Repair : \/ \E f \in Finding : Preview(p, f)
                       \/ \E at \in RequestTimes : Validate(p, at)
                       \/ Apply(p)

Spec == Init /\ [][Next]_vars

-----------------------------------------------------------------------------
(* Rows are well formed, whatever is repaired: the row never has less on   *)
(* hand than is reserved, and a type of finding has one live revision.     *)
ReconciliationTypeOK ==
  /\ now \in Time
  /\ \A m \in Movement : /\ movement[m].delta \in {-1, 0, 1}
                         /\ movement[m].at <= now
  /\ balance \in [exists : BOOLEAN, onHand : Nat, reserved : Nat,
                  last : Movement \cup {None}]
  /\ Covered(balance)
  /\ ~ balance.exists => balance = NoRow
  /\ \A type \in Type : Cardinality(LiveOf(type)) <= 1
  /\ \A s \in Scan : /\ scan[s].phase \in {"none", "scanning", "ended"}
                     /\ scan[s].at <= now
                     /\ scan[s].cursor \in Type \cup {0}
                     /\ Cardinality(scan[s].page) <= ChunkSize
                     /\ scan[s].observed \subseteq Type

(* A repair changes nothing but the columns it was approved for, gives them*)
(* the quantities its approver was shown, and resolves the very revision   *)
(* he was shown, though scans revise findings and others repair and dismiss*)
(* them meanwhile.                                                         *)
RepairsDoAsPreviewed ==
  [][\A p \in Repair :
       repair[p].phase # "applied" /\ repair'[p].phase = "applied" =>
         LET f == repair[p].finding
             expected == repair[p].evidence.expected
         IN  /\ finding[f].version = repair[p].version
             /\ \A c \in DOMAIN expected : balance'[c] = expected[c]
             /\ \A c \in {"onHand", "reserved"} \ DOMAIN expected :
                  balance'[c] = balance[c]
             /\ finding'[f].status = "resolved"]_vars

(* What is resolved or dismissed stays so: what appears again is a new     *)
(* revision.                                                               *)
RevisionsEnd ==
  [][\A f \in Finding : finding[f].status \in {"resolved", "dismissed"} =>
       finding'[f] = finding[f]]_vars

(* A finding ends by being dismissed, by its own repair, or by a scan *)
(* that read its type as being in order.                                   *)
ResolvedBecauseGone ==
  [][\A f \in Finding :
       finding[f].status # "resolved" /\ finding'[f].status = "resolved" =>
         \/ \E s \in Scan : /\ scan[s].phase = "scanning"
                            /\ scan'[s].phase = "ended"
                            /\ finding[f].type \in absent[s]
         \/ \E p \in Repair : /\ repair[p].finding = f
                              /\ repair'[p].phase = "applied"]_vars

(* Documented: a repair locks the finding and the balance, compares stored *)
(* evidence with current values, and rejects stale drift; what it writes   *)
(* is what the movements and reservations then amount to.                  *)
RepairsLoseNothing ==
  [][\A p \in Repair :
       repair[p].phase # "applied" /\ repair'[p].phase = "applied" =>
         \A c \in DOMAIN repair[p].evidence.expected :
           balance'[c] = Authority(MaxTime)[c]]_vars
=============================================================================
