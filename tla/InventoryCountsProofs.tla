----------------------- MODULE InventoryCountsProofs -----------------------
(***************************************************************************)
(* What holds of physical counts for any locations, variants, counts,      *)
(* other commands and clocks: what was submitted is complete and stands,   *)
(* is applied as a whole, and not at all once stock had moved before.      *)
(***************************************************************************)
EXTENDS InventoryCounts, TLAPS

Lines == UNION {[S -> CountLine] : S \in SUBSET Variant}

CountState == [status : CountStatus, location : Location, scope : SUBSET Variant,
               lines : Lines, lockUntil : 0..(MaxTime + LockTime) \cup {Unlocked},
               movement : MovementId \cup {NoMovement}]

TypeInv == /\ BalanceTypeOK
           /\ count \in [CountId -> CountState]
           /\ comparedAt \in [CountId -> 0..MaxTime \cup {NotCompared}]
           /\ used \subseteq MovementId
           /\ now \in 0..MaxTime

(* A count that was submitted has counted every line. *)
Complete(c) ==
  count[c].status \in {"submitted", "approved", "applied"} =>
    \A v \in DOMAIN count[c].lines : count[c].lines[v].counted # Uncounted

Inv == /\ TypeInv
       /\ ReservedIsCovered
       /\ \A c \in CountId : Complete(c)

-----------------------------------------------------------------------------
(* A row written with quantities in range, covering its reservations, is a *)
(* row that covers its reservations.                                       *)
LEMMA RowWritten ==
  ASSUME NEW row \in Row, NEW m \in MovementId \cup {NoMovement},
         NEW onHand \in Quantity, NEW reserved \in Quantity, reserved <= onHand
  PROVE  LET then == Written(row, m, onHand, reserved, row.inTransit)
         IN  then \in Row /\ then.reserved <= then.onHand
<1>1. /\ row.version + 1 \in Nat \ {0} /\ row.inTransit \in Quantity
      /\ (IF m = NoMovement THEN row.last ELSE m) \in MovementId \cup {NoMovement}
  BY DEF Row
<1> QED
  BY <1>1 DEF Written, Row

LEMMA RowIs ==
  ASSUME TypeInv, NEW k \in Key
  PROVE  /\ balance[k] \in Row /\ balance[k].exists \in BOOLEAN
         /\ balance[k].onHand \in Quantity /\ balance[k].onHand \in Nat
         /\ balance[k].reserved \in Quantity /\ balance[k].reserved \in Nat
         /\ balance[k].version \in Nat \ {0}
         /\ balance[k].last \in MovementId \cup {NoMovement}
BY BalanceAssumption DEF TypeInv, BalanceTypeOK, Row, Quantity

LEMMA CountIs ==
  ASSUME TypeInv, NEW c \in CountId
  PROVE  /\ count[c] \in CountState
         /\ count[c].status \in CountStatus /\ count[c].location \in Location
         /\ count[c].scope \in SUBSET Variant
         /\ count[c].lines \in Lines
         /\ DOMAIN count[c].lines \in SUBSET Variant
         /\ \A v \in DOMAIN count[c].lines :
              /\ v \in Variant /\ count[c].lines[v] \in CountLine
              /\ <<count[c].location, v>> \in Key
<1>1. count[c] \in CountState
  BY DEF TypeInv
<1>2. /\ count[c].lines \in Lines /\ count[c].location \in Location
      /\ count[c].status \in CountStatus /\ count[c].scope \in SUBSET Variant
  BY <1>1 DEF CountState
<1>3. PICK S \in SUBSET Variant : count[c].lines \in [S -> CountLine]
  BY <1>2 DEF Lines
<1> QED
  BY <1>1, <1>2, <1>3 DEF Key

LEMMA LinesAre ==
  ASSUME NEW S \in SUBSET Variant, NEW f \in [S -> CountLine]
  PROVE  f \in Lines
BY DEF Lines

(* A command on one count that leaves stock alone.                         *)
LEMMA CommandPreserves ==
  ASSUME Inv, NEW c \in CountId, NEW then \in CountState,
         count' = [count EXCEPT ![c] = then],
         UNCHANGED <<balance, used, now>>,
         comparedAt' \in [CountId -> 0..MaxTime \cup {NotCompared}],
         then.status \in {"submitted", "approved", "applied"} =>
           \A v \in DOMAIN then.lines : then.lines[v].counted # Uncounted
  PROVE  Inv'
<1>1. /\ count' \in [CountId -> CountState] /\ count'[c] = then
      /\ \A d \in CountId \ {c} : count'[d] = count[d]
  BY DEF Inv, TypeInv
<1>2. TypeInv' /\ ReservedIsCovered'
  BY <1>1 DEF Inv, TypeInv, BalanceTypeOK, ReservedIsCovered
<1>3. \A d \in CountId : Complete(d)'
  BY <1>1 DEF Inv, Complete
<1> QED
  BY <1>2, <1>3 DEF Inv

(* A change of status that keeps the lines.                                *)
LEMMA MoveToPreserves ==
  ASSUME Inv, NEW c \in CountId,
         NEW status \in CountStatus,
         NEW lockUntil \in 0..(MaxTime + LockTime) \cup {Unlocked},
         MoveTo(c, status, lockUntil), UNCHANGED <<balance, used, now>>,
         comparedAt' \in [CountId -> 0..MaxTime \cup {NotCompared}],
         status \in {"submitted", "approved", "applied"} =>
           \A v \in DOMAIN count[c].lines : count[c].lines[v].counted # Uncounted
  PROVE  Inv' /\ count'[c].status = status /\ count'[c].lines = count[c].lines
<1> DEFINE then == [count[c] EXCEPT !.status = status, !.lockUntil = lockUntil]
<1>1. count \in [CountId -> CountState] /\ count[c] \in CountState
  BY DEF Inv, TypeInv
<1>2. count' = [count EXCEPT ![c] = then]
  BY <1>1 DEF MoveTo
<1>3. /\ then \in CountState /\ then.status = status /\ then.lines = count[c].lines
  BY <1>1 DEF CountState
<1> HIDE DEF then
<1>4. count'[c] = then
  BY <1>1, <1>2
<1> QED
  BY <1>2, <1>3, <1>4, CommandPreserves

(* A request's time, and the lock it takes out.                            *)
LEMMA LockIs ==
  ASSUME TypeInv, NEW at \in RequestTime
  PROVE  at + LockTime \in 0..(MaxTime + LockTime) \cup {Unlocked}
BY CountAssumption DEF TypeInv, RequestTime

LEMMA CreatePreserves ==
  ASSUME Inv, NEW c \in CountId, NEW l \in Location, NEW scope \in SUBSET Variant,
         CreateCount(c, l, scope)
  PROVE  Inv'
<1> DEFINE then == [count[c] EXCEPT !.status = "draft", !.location = l,
                                    !.scope = scope]
<1>1. /\ count \in [CountId -> CountState] /\ count[c] \in CountState
      /\ comparedAt' \in [CountId -> 0..MaxTime \cup {NotCompared}]
  BY DEF Inv, TypeInv, CreateCount
<1>2. count' = [count EXCEPT ![c] = then]
  BY <1>1 DEF CreateCount
<1>3. then \in CountState /\ then.status = "draft"
  <2>1. "draft" \in CountStatus
    BY DEF CountStatus
  <2> QED
    BY <1>1, <2>1 DEF CountState
<1> HIDE DEF then
<1> QED
  BY <1>1, <1>2, <1>3, CommandPreserves DEF CreateCount

LEMMA StartPreserves ==
  ASSUME Inv, NEW c \in CountId, NEW at \in RequestTime, StartCount(c, at)
  PROVE  Inv'
<1>1. /\ TypeInv
      /\ comparedAt' \in [CountId -> 0..MaxTime \cup {NotCompared}]
      /\ count \in [CountId -> CountState] /\ count[c] \in CountState
  BY DEF Inv, TypeInv, StartCount
<1>2. PICK S \in SUBSET Variant :
        S = IF count[c].scope # {} THEN count[c].scope
            ELSE {v \in Variant : balance[<<count[c].location, v>>].exists}
  BY <1>1, CountIs
<1>3. PICK lines \in [S -> CountLine] :
        lines = [v \in S |-> Baseline(balance[<<count[c].location, v>>])]
  <2>1. ASSUME NEW v \in S
        PROVE  Baseline(balance[<<count[c].location, v>>]) \in CountLine
    <3>1. <<count[c].location, v>> \in Key
      BY <1>1, CountIs DEF Key
    <3> QED
      BY <1>1, <3>1, RowIs DEF Baseline, CountLine
  <2> QED
    BY <2>1
<1> DEFINE then == [count[c] EXCEPT !.status = "counting", !.lines = lines,
                                    !.lockUntil = at + LockTime]
<1>4. count' = [count EXCEPT ![c] = then]
  BY <1>1, <1>2, <1>3 DEF StartCount
<1>5. then \in CountState /\ then.status = "counting"
  <2>1. "counting" \in CountStatus /\ lines \in Lines
    BY <1>3, LinesAre DEF CountStatus
  <2>2. at + LockTime \in 0..(MaxTime + LockTime) \cup {Unlocked}
    BY <1>1, LockIs
  <2> QED
    BY <1>1, <2>1, <2>2 DEF CountState
<1> HIDE DEF then
<1> QED
  BY <1>1, <1>4, <1>5, CommandPreserves DEF StartCount

LEMMA RecordPreserves ==
  ASSUME Inv, NEW c \in CountId, NEW at \in RequestTime, NEW v \in Variant,
         NEW quantity \in Quantity, RecordLine(c, at, v, quantity)
  PROVE  Inv'
<1>1. /\ TypeInv /\ count[c].status = "counting"
      /\ comparedAt' \in [CountId -> 0..MaxTime \cup {NotCompared}]
      /\ count \in [CountId -> CountState] /\ count[c] \in CountState
      /\ v \in DOMAIN count[c].lines
  BY DEF Inv, TypeInv, RecordLine, Recordable, Ready
<1> DEFINE line == [count[c].lines[v] EXCEPT !.counted = quantity]
           lines == [count[c].lines EXCEPT ![v] = line]
           then == [count[c] EXCEPT !.lines = lines, !.lockUntil = at + LockTime]
<1>2. line \in CountLine
  <2>1. count[c].lines[v] \in CountLine
    BY <1>1, CountIs
  <2> QED
    BY <2>1 DEF CountLine
<1>3. lines \in Lines
  <2>1. PICK S \in SUBSET Variant : count[c].lines \in [S -> CountLine]
    BY <1>1, CountIs DEF Lines
  <2> HIDE DEF line
  <2>2. lines \in [S -> CountLine]
    BY <1>2, <2>1
  <2> QED
    BY <2>2, LinesAre
<1>4. count' = [count EXCEPT ![c] = then]
  BY <1>1 DEF RecordLine
<1> HIDE DEF lines
<1>5. then \in CountState /\ then.status = "counting"
  <2>1. at + LockTime \in 0..(MaxTime + LockTime) \cup {Unlocked}
    BY <1>1, LockIs
  <2> QED
    BY <1>1, <1>3, <2>1 DEF CountState
<1> HIDE DEF then
<1> QED
  BY <1>1, <1>4, <1>5, CommandPreserves DEF RecordLine

(* Submission looks at every line, approval and cancellation keep them.    *)
LEMMA StatusPreserves ==
  ASSUME Inv, NEW c \in CountId, NEW at \in RequestTime,
         SubmitCount(c, at) \/ FinishApprove(c) \/ CancelCount(c)
  PROVE  Inv'
<1>1. TypeInv /\ Complete(c)
  BY DEF Inv
<1>2. at + LockTime \in 0..(MaxTime + LockTime) \cup {Unlocked}
  BY <1>1, LockIs
<1>3. count[c].lockUntil \in 0..(MaxTime + LockTime) \cup {Unlocked}
  BY DEF Inv, TypeInv, CountState
<1>4. comparedAt' \in [CountId -> 0..MaxTime \cup {NotCompared}]
  BY <1>1 DEF TypeInv, SubmitCount, FinishApprove, CancelCount
<1>5. CASE SubmitCount(c, at)
  BY <1>2, <1>4, <1>5, MoveToPreserves DEF SubmitCount, Ready, CountStatus
<1>6. CASE FinishApprove(c)
  <2>1. comparedAt[c] + LockTime \in 0..(MaxTime + LockTime) \cup {Unlocked}
    BY <1>1, <1>6, CountAssumption DEF TypeInv, FinishApprove, Compared
  <2> QED
    BY <1>1, <1>4, <1>6, <2>1, MoveToPreserves DEF FinishApprove, CountStatus, Complete
<1>7. CASE CancelCount(c)
  BY <1>3, <1>4, <1>7, MoveToPreserves DEF CancelCount, Ready, CountStatus
<1> QED
  BY <1>5, <1>6, <1>7

(* Comparing, and giving up, change no more than comparedAt.               *)
LEMMA ComparingPreserves ==
  ASSUME Inv, NEW c \in CountId, NEW at \in RequestTime,
         BeginApprove(c, at) \/ BeginApply(c, at) \/ RollBack(c)
  PROVE  Inv'
<1>1. /\ UNCHANGED <<balance, count, used, now>>
      /\ comparedAt' \in [CountId -> 0..MaxTime \cup {NotCompared}]
  <2>1. /\ at \in 0..MaxTime
        /\ comparedAt \in [CountId -> 0..MaxTime \cup {NotCompared}]
    BY CountAssumption DEF Inv, TypeInv, RequestTime
  <2> QED
    BY <2>1 DEF BeginApprove, BeginApply, Compare, RollBack
<1>2. TypeInv' /\ ReservedIsCovered'
  BY <1>1 DEF Inv, TypeInv, BalanceTypeOK, ReservedIsCovered
<1>3. \A d \in CountId : Complete(d)'
  BY <1>1 DEF Inv, Complete
<1> QED
  BY <1>2, <1>3 DEF Inv

-----------------------------------------------------------------------------
(* What an application does to the rows: by each line, what was counted    *)
(* more or less than expected, and nothing elsewhere.                      *)
LEMMA ApplicationIs ==
  ASSUME Inv, NEW c \in CountId, NEW m \in MovementId \cup {NoMovement},
         FinishApply(c, m)
  PROVE  /\ DifferentKeys(c) \subseteq Key
         /\ \A k \in DifferentKeys(c) : m \in MovementId /\ balance'[k].last = m
         /\ \A k \in Key : /\ balance'[k] \in Row
                           /\ balance'[k].reserved <= balance'[k].onHand
                           /\ k \notin DifferentKeys(c) => balance'[k] = balance[k]
         /\ \A v \in DOMAIN count[c].lines :
              balance'[<<count[c].location, v>>].onHand
                - balance[<<count[c].location, v>>].onHand
                  = count[c].lines[v].counted - count[c].lines[v].expected
         /\ \A k \in DifferentKeys(c) :
              /\ k[1] = count[c].location /\ k[2] \in DOMAIN count[c].lines
              /\ DifferenceAt(c, k) \in Int
<1> DEFINE at(v) == <<count[c].location, v>>
<1>1. /\ TypeInv /\ count[c].status = "approved"
      /\ \A v \in DOMAIN count[c].lines : count[c].lines[v].counted # Uncounted
  BY DEF Inv, FinishApply, BeingApplied, Complete
<1>2. \A v \in DOMAIN count[c].lines :
        /\ at(v) \in Key
        /\ count[c].lines[v].counted \in Nat /\ count[c].lines[v].expected \in Nat
        /\ Difference(count[c].lines[v]) \in Int
  <2> TAKE v \in DOMAIN count[c].lines
  <2>1. at(v) \in Key /\ count[c].lines[v] \in CountLine
    BY <1>1, CountIs
  <2>2. count[c].lines[v].counted \in Nat /\ count[c].lines[v].expected \in Nat
    BY <1>1, <2>1, BalanceAssumption DEF CountLine, Quantity
  <2> QED
    BY <2>1, <2>2 DEF Difference
<1>3. /\ DifferentKeys(c) \subseteq Key
      /\ \A k \in DifferentKeys(c) :
           /\ k[1] = count[c].location /\ k[2] \in DOMAIN count[c].lines
           /\ DifferenceAt(c, k) \in Int
      /\ \A v \in DOMAIN count[c].lines :
           /\ DifferenceAt(c, at(v)) = Difference(count[c].lines[v])
           /\ at(v) \in DifferentKeys(c) <=> Difference(count[c].lines[v]) # 0
  BY <1>2 DEF DifferentKeys, DifferenceAt
<1>4. ASSUME NEW k \in Key, k \in DifferentKeys(c)
      PROVE  /\ balance'[k] = Written(balance[k], m, balance[k].onHand + DifferenceAt(c, k),
                                     balance[k].reserved, balance[k].inTransit)
             /\ balance[k].onHand + DifferenceAt(c, k) \in balance[k].reserved .. MaxQuantity
             /\ m \in MovementId
  BY <1>4 DEF FinishApply, DifferencesPostable
<1>5. ASSUME NEW k \in Key, k \notin DifferentKeys(c)
      PROVE  balance'[k] = balance[k]
  BY <1>5 DEF FinishApply
<1>6. ASSUME NEW k \in Key, k \in DifferentKeys(c)
      PROVE  /\ balance'[k] \in Row /\ balance'[k].reserved <= balance'[k].onHand
             /\ balance'[k].onHand = balance[k].onHand + DifferenceAt(c, k)
             /\ balance'[k].last = m
  <2>1. /\ balance[k].onHand + DifferenceAt(c, k) \in Quantity
        /\ balance[k].reserved <= balance[k].onHand + DifferenceAt(c, k)
    BY <1>1, <1>4, <1>6, RowIs, BalanceAssumption DEF Quantity
  <2>2. balance[k] \in Row /\ balance[k].reserved \in Quantity
    BY <1>1, RowIs
  <2>3. balance'[k] \in Row /\ balance'[k].reserved <= balance'[k].onHand
    BY <1>4, <1>6, <2>1, <2>2, RowWritten
  <2>4. m # NoMovement
    BY <1>4, <1>6, BalanceAssumption
  <2>5. balance'[k] = Written(balance[k], m, balance[k].onHand + DifferenceAt(c, k),
                              balance[k].reserved, balance[k].inTransit)
    BY <1>4, <1>6
  <2>6. balance'[k].onHand = balance[k].onHand + DifferenceAt(c, k) /\ balance'[k].last = m
    BY <2>4, <2>5 DEF Written
  <2> QED
    BY <2>3, <2>6
<1>7. ASSUME NEW v \in DOMAIN count[c].lines
      PROVE  balance'[at(v)].onHand - balance[at(v)].onHand
               = count[c].lines[v].counted - count[c].lines[v].expected
  <2>1. at(v) \in Key /\ balance[at(v)].onHand \in Nat
    BY <1>1, <1>2, RowIs
  <2>2. CASE at(v) \in DifferentKeys(c)
    <3>1. balance'[at(v)].onHand = balance[at(v)].onHand + Difference(count[c].lines[v])
      BY <1>3, <1>6, <2>1, <2>2
    <3> QED
      BY <1>2, <2>1, <3>1 DEF Difference
  <2>3. CASE at(v) \notin DifferentKeys(c)
    <3>1. balance'[at(v)] = balance[at(v)] /\ Difference(count[c].lines[v]) = 0
      BY <1>3, <1>5, <2>1, <2>3
    <3> QED
      BY <1>2, <2>1, <3>1 DEF Difference
  <2> QED
    BY <2>2, <2>3
<1>8. ASSUME NEW k \in Key, k \notin DifferentKeys(c)
      PROVE  balance'[k] \in Row /\ balance'[k].reserved <= balance'[k].onHand
  BY <1>1, <1>5, <1>8, RowIs DEF Inv, ReservedIsCovered
<1> QED
  BY <1>3, <1>4, <1>5, <1>6, <1>7, <1>8

LEMMA FinishIs ==
  ASSUME Inv, NEW c \in CountId, NEW m \in MovementId \cup {NoMovement},
         FinishApply(c, m)
  PROVE  /\ Inv'
         /\ count[c].status = "approved"
         /\ count'[c].movement = m /\ count'[c].lines = count[c].lines
         /\ \A d \in CountId \ {c} : count'[d] = count[d]
<1> DEFINE then == [count[c] EXCEPT !.status = "applied", !.movement = m]
<1>1. /\ count \in [CountId -> CountState] /\ count[c] \in CountState
      /\ count[c].status = "approved" /\ Complete(c)
  BY DEF Inv, TypeInv, FinishApply, BeingApplied
<1>2. count' = [count EXCEPT ![c] = then]
  BY <1>1 DEF FinishApply
<1>3. /\ then \in CountState /\ then.status = "applied" /\ then.movement = m
      /\ then.lines = count[c].lines
  <2>1. "applied" \in CountStatus
    BY DEF CountStatus
  <2> QED
    BY <1>1, <2>1 DEF CountState
<1> HIDE DEF then
<1>4. /\ count' \in [CountId -> CountState] /\ count'[c] = then
      /\ \A d \in CountId \ {c} : count'[d] = count[d]
  BY <1>1, <1>2, <1>3
<1>5. \A k \in Key : balance'[k] \in Row /\ balance'[k].reserved <= balance'[k].onHand
  BY ApplicationIs
<1>6. /\ balance' = [k \in Key |-> balance'[k]]
      /\ used' \subseteq used \cup MovementId
      /\ comparedAt' = [comparedAt EXCEPT ![c] = NotCompared] /\ now' = now
  BY DEF FinishApply
<1>7. TypeInv' /\ ReservedIsCovered'
  <2>1. balance' \in [Key -> Row]
    BY <1>5, <1>6
  <2> QED
    BY <1>4, <1>5, <1>6, <2>1 DEF Inv, TypeInv, BalanceTypeOK, ReservedIsCovered
<1>8. \A d \in CountId : Complete(d)'
  BY <1>1, <1>3, <1>4 DEF Inv, Complete
<1> QED
  BY <1>1, <1>3, <1>4, <1>7, <1>8 DEF Inv

(* What a command leaves of a row is a row that covers its reservations.   *)
LEMMA LeavesIs ==
  ASSUME NEW row \in Row, row.reserved <= row.onHand,
         NEW m \in MovementId \cup {NoMovement}, NEW new \in Leaves(row, m)
  PROVE  new \in Row /\ new.reserved <= new.onHand
<1>1. /\ row.onHand \in Nat /\ row.onHand <= MaxQuantity /\ MaxQuantity \in Nat
      /\ row.reserved \in Nat /\ row.version + 1 \in Nat \ {0}
      /\ row.inTransit \in Quantity /\ row.last \in MovementId \cup {NoMovement}
  BY BalanceAssumption DEF Row, Quantity
<1>2. CASE new \in Reserved(row)
  <2>1. PICK q \in 0 .. row.onHand :
          new = [row EXCEPT !.reserved = q, !.version = row.version + 1]
    BY <1>2 DEF Reserved
  <2>2. q \in Quantity /\ q <= row.onHand
    BY <1>1 DEF Quantity
  <2>3. new = [exists |-> row.exists, onHand |-> row.onHand, reserved |-> q,
               inTransit |-> row.inTransit, version |-> row.version + 1,
               last |-> row.last]
    BY <2>1 DEF Row
  <2>4. row.exists \in BOOLEAN /\ row.onHand \in Quantity
    BY DEF Row
  <2> QED
    BY <1>1, <2>2, <2>3, <2>4 DEF Row
<1>3. CASE m # NoMovement /\ new \in Moved(row, m)
  <2>1. /\ new \in [exists : {TRUE}, onHand : Quantity, reserved : 0 .. row.reserved,
                    inTransit : {row.inTransit} \cup Travelling,
                    version : {row.version + 1}, last : {m}]
        /\ new.reserved <= new.onHand
    BY <1>3 DEF Moved
  <2>2. (0 .. row.reserved) \subseteq Quantity
    BY <1>1 DEF Quantity, Row
  <2> QED
    BY <1>1, <2>1, <2>2, WriterAssumption DEF Row
<1> QED
  BY <1>2, <1>3 DEF Leaves

(* Other commands leave such rows. *)
LEMMA OtherCommandPreserves ==
  ASSUME Inv, NEW m \in MovementId \cup {NoMovement}, OtherCommand(m)
  PROVE  Inv'
<1>1. /\ TypeInv /\ UNCHANGED <<count, comparedAt, now>>
      /\ used' \subseteq used \cup MovementId
      /\ balance' = [k \in Key |-> balance'[k]]
      /\ \A k \in Key : balance'[k] \in Leaves(balance[k], m)
  BY DEF Inv, OtherCommand, WriteStock
<1>2. ASSUME NEW k \in Key
      PROVE  balance'[k] \in Row /\ balance'[k].reserved <= balance'[k].onHand
  BY <1>1, RowIs, LeavesIs DEF Inv, ReservedIsCovered
<1>3. balance' \in [Key -> Row]
  BY <1>1, <1>2
<1>4. TypeInv' /\ ReservedIsCovered'
  BY <1>1, <1>2, <1>3 DEF Inv, TypeInv, BalanceTypeOK, ReservedIsCovered
<1>5. \A d \in CountId : Complete(d)'
  BY <1>1 DEF Inv, Complete
<1> QED
  BY <1>4, <1>5 DEF Inv

LEMMA NothingElse ==
  ASSUME Inv, Tick \/ UNCHANGED countVars
  PROVE  Inv'
<1>1. UNCHANGED <<balance, count, comparedAt, used>> /\ now' \in 0..MaxTime
  BY CountAssumption DEF Tick, countVars, Inv, TypeInv
<1> QED
  BY <1>1 DEF Inv, TypeInv, BalanceTypeOK, ReservedIsCovered, Complete

-----------------------------------------------------------------------------
LEMMA InitHolds ==
  ASSUME CountInit
  PROVE  Inv
<1>1. NoRow \in Row
  BY BalanceAssumption DEF NoRow, Row, Quantity
<1>2. NoLines \in Lines
  <2>1. NoLines \in [{} -> CountLine]
    BY DEF NoLines
  <2> QED
    BY <2>1, LinesAre
<1>3. (CHOOSE l \in Location : TRUE) \in Location
  BY BalanceAssumption
<1>4. count \in [CountId -> CountState]
  BY <1>2, <1>3 DEF CountInit, CountState, CountStatus
<1>5. TypeInv
  BY <1>1, <1>4, CountAssumption DEF CountInit, BalanceInit, TypeInv, BalanceTypeOK
<1>6. ReservedIsCovered
  BY DEF CountInit, BalanceInit, NoRow, ReservedIsCovered
<1>7. \A c \in CountId : Complete(c)
  BY DEF CountInit, Complete
<1> QED
  BY <1>5, <1>6, <1>7 DEF Inv

LEMMA NextPreserves ==
  ASSUME Inv, [CountNext]_countVars
  PROVE  Inv'
<1>1. ASSUME NEW c \in CountId, CountCommand(c)
      PROVE  Inv'
  <2>1. now \in RequestTime
    BY CountAssumption DEF Inv, TypeInv, RequestTime
  <2>2. CASE FinishApprove(c) \/ CancelCount(c) \/ RollBack(c)
    BY <2>1, <2>2, StatusPreserves, ComparingPreserves
  <2> QED
    BY <1>1, <2>2, CreatePreserves, StartPreserves, RecordPreserves,
       StatusPreserves, ComparingPreserves, FinishIs DEF CountCommand
<1> QED
  BY <1>1, OtherCommandPreserves, NothingElse DEF CountNext

LEMMA InvHolds == CountSpec => []Inv
<1>1. CountInit => Inv
  BY InitHolds
<1>2. Inv /\ [CountNext]_countVars => Inv'
  BY NextPreserves
<1> QED
  BY <1>1, <1>2, PTL DEF CountSpec

-----------------------------------------------------------------------------
(* Rows stay in range, and every count is well formed.                     *)
THEOREM CountsAreTyped == CountSpec => []CountTypeOK
<1>1. Inv => CountTypeOK
  <2> SUFFICES ASSUME Inv, NEW c \in CountId
               PROVE  /\ count[c].status \in CountStatus
                      /\ count[c].location \in Location
                      /\ count[c].scope \subseteq Variant
                      /\ DOMAIN count[c].lines \subseteq Variant
                      /\ \A v \in DOMAIN count[c].lines : count[c].lines[v] \in CountLine
                      /\ count[c].lockUntil \in 0..(MaxTime + LockTime) \cup {Unlocked}
                      /\ count[c].movement \in MovementId \cup {NoMovement}
    BY DEF CountTypeOK, Inv, TypeInv
  <2>1. TypeInv /\ count[c] \in CountState
    BY DEF Inv, TypeInv
  <2> QED
    BY <2>1, CountIs DEF CountState
<1> QED
  BY <1>1, InvHolds, PTL

(* Neither the adjustment of a count nor what happens beside it leaves a   *)
(* row with less than is reserved.                                         *)
THEOREM CountsNeverOversell == CountSpec => []ReservedIsCovered
<1>1. Inv => ReservedIsCovered
  BY DEF Inv
<1> QED
  BY <1>1, InvHolds, PTL

(* Which command changes the lines, the status or the comparison of a      *)
(* count.                                                                  *)
LEMMA CountSteps ==
  ASSUME Inv, [CountNext]_countVars
  PROVE  \/ UNCHANGED <<count, comparedAt>>
         \/ \E c \in CountId :
              /\ \A d \in CountId \ {c} : /\ count'[d] = count[d]
                                         /\ comparedAt'[d] = comparedAt[d]
              /\ CountCommand(c)
<1>1. ASSUME NEW c \in CountId, CountCommand(c), NEW d \in CountId \ {c}
      PROVE  count'[d] = count[d] /\ comparedAt'[d] = comparedAt[d]
  <2>1. /\ count \in [CountId -> CountState]
        /\ comparedAt \in [CountId -> 0..MaxTime \cup {NotCompared}]
    BY DEF Inv, TypeInv
  <2>2. ASSUME NEW m \in MovementId \cup {NoMovement}, FinishApply(c, m)
        PROVE  count'[d] = count[d] /\ comparedAt'[d] = comparedAt[d]
    BY <1>1, <2>1, <2>2, FinishIs DEF FinishApply
  <2> QED
    BY <1>1, <2>1, <2>2 DEF CountCommand, CreateCount, StartCount, RecordLine,
       SubmitCount, BeginApprove, BeginApply, Compare, FinishApprove, CancelCount,
       RollBack, MoveTo
<1> QED
  BY <1>1 DEF CountNext, OtherCommand, Tick, countVars

(* What was submitted is complete, and stands ever after.                  *)
THEOREM SubmittedFiguresAreFinal == CountSpec => SubmittedFiguresStand
<1>1. ASSUME Inv, [CountNext]_countVars, NEW c \in CountId,
             count[c].status \in {"submitted", "approved", "applied"}
      PROVE  count'[c].lines = count[c].lines
  <2>1. count \in [CountId -> CountState] /\ count[c] \in CountState
    BY <1>1 DEF Inv, TypeInv
  <2>2. ASSUME CountCommand(c)
        PROVE  count'[c].lines = count[c].lines
    <3>1. ASSUME NEW m \in MovementId \cup {NoMovement}, FinishApply(c, m)
          PROVE  count'[c].lines = count[c].lines
      BY <1>1, <3>1, FinishIs
    <3>2. ASSUME NEW at, BeginApprove(c, at) \/ BeginApply(c, at) \/ RollBack(c)
          PROVE  count'[c].lines = count[c].lines
      BY <3>2 DEF BeginApprove, BeginApply, Compare, RollBack
    <3>3. ASSUME FinishApprove(c) \/ CancelCount(c)
          PROVE  count'[c].lines = count[c].lines
      BY <2>1, <3>3 DEF FinishApprove, CancelCount, MoveTo, CountState
    <3> QED
      BY <1>1, <2>2, <3>1, <3>2, <3>3 DEF CountCommand, CreateCount, StartCount,
         RecordLine, Recordable, SubmitCount, Ready
  <2> QED
    BY <1>1, <2>2, CountSteps
<1>2. Inv /\ [CountNext]_countVars =>
        [\A c \in CountId :
           count[c].status \in {"submitted", "approved", "applied"} =>
             /\ count'[c].lines = count[c].lines
             /\ \A v \in DOMAIN count[c].lines :
                  count[c].lines[v].counted # Uncounted]_countVars
  BY <1>1 DEF Inv, Complete
<1> QED
  BY <1>2, InvHolds, PTL DEF CountSpec, SubmittedFiguresStand

(* A count is applied as a whole and once, under its own movement.         *)
AppliedNow(c) ==
  /\ count[c].status = "approved"
  /\ \A v \in DOMAIN count[c].lines :
       LET k == <<count[c].location, v>>
           line == count[c].lines[v]
       IN  /\ balance'[k].onHand - balance[k].onHand = line.counted - line.expected
           /\ balance'[k] # balance[k] => balance'[k].last = count'[c].movement
  /\ \A k \in Key : balance'[k] # balance[k] =>
       /\ k[1] = count[c].location
       /\ k[2] \in DOMAIN count[c].lines

THEOREM CountsAreAppliedAsAWhole == CountSpec => AppliedAsAWhole
<1>1. ASSUME Inv, NEW c \in CountId, NEW m \in MovementId \cup {NoMovement},
             FinishApply(c, m)
      PROVE  AppliedNow(c)
  <2>1. /\ count[c].status = "approved" /\ count'[c].movement = m
    BY <1>1, FinishIs
  <2>2. \A k \in Key : balance'[k] # balance[k] =>
          /\ k[1] = count[c].location /\ k[2] \in DOMAIN count[c].lines
          /\ balance'[k].last = m
    BY <1>1, ApplicationIs
  <2>3. \A v \in DOMAIN count[c].lines :
          /\ <<count[c].location, v>> \in Key
          /\ balance'[<<count[c].location, v>>].onHand
               - balance[<<count[c].location, v>>].onHand
                 = count[c].lines[v].counted - count[c].lines[v].expected
    BY <1>1, ApplicationIs, CountIs DEF Inv
  <2> QED
    BY <2>1, <2>2, <2>3 DEF AppliedNow
<1>2. ASSUME Inv, [CountNext]_countVars, NEW c \in CountId,
             count[c].status # "applied", count'[c].status = "applied"
      PROVE  AppliedNow(c)
  <2>1. count \in [CountId -> CountState] /\ count[c] \in CountState
    BY <1>2 DEF Inv, TypeInv
  <2>2. CountCommand(c)
    BY <1>2, CountSteps
  <2>3. ASSUME NEW at, BeginApprove(c, at) \/ BeginApply(c, at) \/ RollBack(c)
        PROVE  FALSE
    BY <1>2, <2>3 DEF BeginApprove, BeginApply, Compare, RollBack
  <2>4. ASSUME NEW at, SubmitCount(c, at) \/ FinishApprove(c) \/ CancelCount(c)
        PROVE  FALSE
    BY <1>2, <2>1, <2>4 DEF SubmitCount, FinishApprove, CancelCount, MoveTo, CountState
  <2>5. ASSUME NEW l, NEW scope, CreateCount(c, l, scope)
        PROVE  FALSE
    BY <1>2, <2>1, <2>5 DEF CreateCount, CountState
  <2>6. ASSUME NEW at, StartCount(c, at)
        PROVE  FALSE
    BY <1>2, <2>1, <2>6 DEF StartCount, CountState
  <2>7. ASSUME NEW at, NEW v, NEW q, RecordLine(c, at, v, q)
        PROVE  FALSE
    BY <1>2, <2>1, <2>7 DEF RecordLine, Recordable, Ready, CountState
  <2>8. \E m \in MovementId \cup {NoMovement} : FinishApply(c, m)
    BY <2>2, <2>3, <2>4, <2>5, <2>6, <2>7 DEF CountCommand
  <2> QED
    BY <1>1, <1>2, <2>8
<1>3. Inv /\ [CountNext]_countVars =>
        [\A c \in CountId :
           count[c].status # "applied" /\ count'[c].status = "applied" =>
             AppliedNow(c)]_countVars
  BY <1>2
<1> QED
  BY <1>3, InvHolds, PTL DEF CountSpec, AppliedAsAWhole, AppliedNow
-----------------------------------------------------------------------------
(* Applying a count is a command like the others: it rewrites the rows     *)
(* that differ, all in one step and each once, under a movement that is    *)
(* its own; no other command of a count writes stock.                      *)
LEMMA ApplicationWrites ==
  ASSUME Inv, NEW c \in CountId, NEW m \in MovementId \cup {NoMovement},
         FinishApply(c, m)
  PROVE  WriteStock(m)
<1>1. /\ DOMAIN balance' = Key
      /\ used' = used \cup ({m} \ {NoMovement})
      /\ used \subseteq MovementId /\ m \notin used
  BY BalanceAssumption DEF FinishApply, Inv, TypeInv
<1>2. ASSUME NEW k \in Key
      PROVE  balance'[k] \in Leaves(balance[k], m)
  <2>1. CASE k \notin DifferentKeys(c)
    BY <2>1, ApplicationIs DEF Leaves
  <2>2. CASE k \in DifferentKeys(c)
    <3> DEFINE onHand == balance[k].onHand + DifferenceAt(c, k)
    <3>1. /\ balance'[k] = Written(balance[k], m, onHand, balance[k].reserved,
                                   balance[k].inTransit)
          /\ balance[k].exists \/ DifferenceAt(c, k) > 0
      BY <2>2 DEF FinishApply, DifferencesPostable
    <3>2. /\ m \in MovementId /\ m # NoMovement
          /\ balance'[k] \in Row /\ balance'[k].reserved <= balance'[k].onHand
      BY <2>2, ApplicationIs, BalanceAssumption
    <3>3. /\ balance[k].onHand \in Nat /\ balance[k].reserved \in Nat
          /\ balance[k].exists \in BOOLEAN /\ balance[k].inTransit \in Nat
          /\ balance[k] \in Row
      BY RowIs, BalanceAssumption DEF Inv, Row, Quantity
    <3>4. DifferenceAt(c, k) \in Int
      BY <2>2, ApplicationIs
    <3>5. balance'[k] = [exists |-> TRUE, onHand |-> onHand,
                         reserved |-> balance[k].reserved,
                         inTransit |-> balance[k].inTransit,
                         version |-> balance[k].version + 1, last |-> m]
      BY <3>1, <3>2 DEF Written
    <3>6. onHand \in Quantity
      BY <3>2, <3>5 DEF Row
    <3>7. balance[k].exists \/ onHand + balance[k].inTransit > 0
      BY <3>1, <3>3, <3>4
    <3> HIDE DEF onHand
    <3>8. balance'[k] \in [exists : {TRUE}, onHand : Quantity,
                           reserved : 0 .. balance[k].reserved,
                           inTransit : {balance[k].inTransit} \cup Travelling,
                           version : {balance[k].version + 1}, last : {m}]
      BY <3>3, <3>5, <3>6
    <3>9. balance'[k] \in Moved(balance[k], m)
      BY <3>2, <3>5, <3>7, <3>8 DEF Moved
    <3> QED
      BY <3>2, <3>9 DEF Leaves
  <2> QED
    BY <2>1, <2>2
<1> QED
  BY <1>1, <1>2 DEF WriteStock

LEMMA StepsWrite ==
  ASSUME Inv, [CountNext]_countVars
  PROVE  [\E m \in MovementId \cup {NoMovement} : WriteStock(m)]_writerVars
<1>1. ASSUME NEW c \in CountId, CountCommand(c)
      PROVE  \/ \E m \in MovementId \cup {NoMovement} : WriteStock(m)
             \/ UNCHANGED writerVars
  <2>1. CASE \E m \in MovementId \cup {NoMovement} : FinishApply(c, m)
    BY <2>1, ApplicationWrites
  <2>2. CASE ~\E m \in MovementId \cup {NoMovement} : FinishApply(c, m)
    BY <1>1, <2>2 DEF CountCommand, CreateCount, StartCount, RecordLine,
       SubmitCount, BeginApprove, BeginApply, Compare, FinishApprove, CancelCount,
       RollBack, writerVars
  <2> QED
    BY <2>1, <2>2
<1> QED
  BY <1>1 DEF CountNext, OtherCommand, Tick, countVars, writerVars

THEOREM CountsImplementWriters == CountSpec => WriterSpec
<1>1. CountInit => BalanceInit /\ used = {}
  BY DEF CountInit
<1>2. Inv /\ [CountNext]_countVars =>
        [\E m \in MovementId \cup {NoMovement} : WriteStock(m)]_writerVars
  BY StepsWrite
<1> QED
  BY <1>1, <1>2, InvHolds, PTL DEF CountSpec, WriterSpec

-----------------------------------------------------------------------------
(***************************************************************************)
(* Counts whose stock has moved                                            *)
(***************************************************************************)

(* Versions do not go back, whatever writes. *)
LEMMA RowsGrow ==
  ASSUME Inv, [CountNext]_countVars, NEW k \in Key
  PROVE  /\ balance[k].version \in Nat /\ balance'[k].version \in Nat
         /\ balance[k].version <= balance'[k].version
<1>1. balance[k] \in Row /\ balance[k].version \in Nat
  BY RowIs DEF Inv
<1>2. CASE UNCHANGED writerVars
  BY <1>1, <1>2 DEF writerVars
<1>3. ASSUME NEW m \in MovementId \cup {NoMovement}, WriteStock(m)
      PROVE  balance'[k] = balance[k] \/ balance'[k].version = balance[k].version + 1
  <2>1. balance'[k] \in Leaves(balance[k], m)
    BY <1>3 DEF WriteStock
  <2>2. CASE balance'[k] \in Reserved(balance[k])
    BY <1>1, <2>2 DEF Reserved, Row
  <2>3. CASE balance'[k] \in Moved(balance[k], m)
    BY <2>3 DEF Moved
  <2> QED
    BY <2>1, <2>2, <2>3 DEF Leaves
<1> QED
  BY <1>1, <1>2, <1>3, StepsWrite

(* What a command does to the count it is about: it freezes versions once, *)
(* at start, and no command changes them or the place later.               *)
Begun(c) == count[c].status \notin {"none", "draft"}

KeepsBaseline(c) ==
  /\ count'[c].location = count[c].location
  /\ DOMAIN count'[c].lines = DOMAIN count[c].lines
  /\ \A v \in DOMAIN count[c].lines :
       count'[c].lines[v].version = count[c].lines[v].version

TakesBaseline(c) ==
  /\ count[c].status = "draft" /\ Begun(c)'
  /\ count'[c].location = count[c].location
  /\ UNCHANGED balance
  /\ \A v \in DOMAIN count'[c].lines :
       count'[c].lines[v].version = balance[<<count[c].location, v>>].version

LEMMA BaselineSteps ==
  ASSUME Inv, NEW c \in CountId, CountCommand(c)
  PROVE  \/ /\ count[c].status = "none" /\ ~Begun(c)'
            /\ count'[c].lines = count[c].lines
         \/ TakesBaseline(c)
         \/ KeepsBaseline(c) /\ (~Begun(c)' => ~Begun(c))
<1>1. count \in [CountId -> CountState] /\ count[c] \in CountState /\ TypeInv
  BY DEF Inv, TypeInv
<1>2. ASSUME NEW l, NEW scope, CreateCount(c, l, scope)
      PROVE  /\ count[c].status = "none" /\ ~Begun(c)'
             /\ count'[c].lines = count[c].lines
  BY <1>1, <1>2 DEF CreateCount, Ready, Begun, CountState
<1>3. ASSUME NEW at, StartCount(c, at)
      PROVE  TakesBaseline(c)
  <2>1. PICK S : S = IF count[c].scope # {} THEN count[c].scope
                     ELSE {v \in Variant : balance[<<count[c].location, v>>].exists}
    OBVIOUS
  <2>2. PICK lines : lines = [v \in S |-> Baseline(balance[<<count[c].location, v>>])]
    OBVIOUS
  <2>3. /\ count' = [count EXCEPT ![c] = [count[c] EXCEPT !.status = "counting",
                        !.lines = lines, !.lockUntil = at + LockTime]]
        /\ count[c].status = "draft" /\ UNCHANGED balance
    BY <1>1, <1>3, <2>1, <2>2 DEF StartCount, Ready
  <2>4. /\ count'[c].status = "counting" /\ count'[c].lines = lines
        /\ count'[c].location = count[c].location
    BY <1>1, <2>3 DEF CountState
  <2>5. \A v \in DOMAIN lines :
          lines[v].version = balance[<<count[c].location, v>>].version
    BY <2>2 DEF Baseline
  <2> QED
    BY <2>3, <2>4, <2>5 DEF TakesBaseline, Begun
<1>4. ASSUME NEW at, NEW v \in Variant, NEW q \in Quantity, RecordLine(c, at, v, q)
      PROVE  KeepsBaseline(c) /\ (~Begun(c)' => ~Begun(c))
  <2>1. PICK S \in SUBSET Variant : count[c].lines \in [S -> CountLine]
    BY <1>1, CountIs DEF Lines
  <2>2. PICK lines : lines = [count[c].lines EXCEPT ![v].counted = q]
    OBVIOUS
  <2>3. /\ count' = [count EXCEPT ![c] = [count[c] EXCEPT !.lines = lines,
                                             !.lockUntil = at + LockTime]]
        /\ v \in DOMAIN count[c].lines /\ count[c].status = "counting"
    BY <1>1, <1>4, <2>2 DEF RecordLine, Recordable, Ready
  <2>4. /\ count'[c].status = "counting" /\ count'[c].lines = lines
        /\ count'[c].location = count[c].location
    BY <1>1, <2>3 DEF CountState
  <2>5. /\ DOMAIN lines = DOMAIN count[c].lines
        /\ \A u \in DOMAIN count[c].lines :
             lines[u].version = count[c].lines[u].version
    BY <2>1, <2>2 DEF CountLine
  <2> QED
    BY <2>3, <2>4, <2>5 DEF KeepsBaseline, Begun
<1>5. ASSUME NEW at,
             \/ SubmitCount(c, at) \/ BeginApprove(c, at) \/ BeginApply(c, at)
             \/ FinishApprove(c) \/ CancelCount(c) \/ RollBack(c)
             \/ \E m \in MovementId \cup {NoMovement} : FinishApply(c, m)
      PROVE  KeepsBaseline(c) /\ (~Begun(c)' => ~Begun(c))
  <2>1. \/ count' = count
        \/ /\ count'[c].status \in {"submitted", "approved", "applied", "cancelled"}
           /\ count'[c].lines = count[c].lines
           /\ count'[c].location = count[c].location
    BY <1>1, <1>5 DEF SubmitCount, BeginApprove, BeginApply, Compare, FinishApprove,
       CancelCount, RollBack, FinishApply, MoveTo, CountState
  <2> QED
    BY <2>1 DEF KeepsBaseline, Begun
<1> QED
  BY <1>2, <1>3, <1>4, <1>5 DEF CountCommand

(* The versions a count has frozen lie in the past.                        *)
Based(c) ==
  /\ ~Begun(c) => DOMAIN count[c].lines = {}
  /\ \A v \in DOMAIN count[c].lines :
       count[c].lines[v].version <= RowOf(c, v).version

BasedInv == \A c \in CountId : Based(c)

LEMMA LinesAreVersioned ==
  ASSUME TypeInv, NEW c \in CountId, NEW v \in DOMAIN count[c].lines
  PROVE  /\ <<count[c].location, v>> \in Key
         /\ count[c].lines[v].version \in Nat
BY CountIs DEF CountLine

LEMMA BasedStays ==
  ASSUME Inv, Inv', BasedInv, [CountNext]_countVars
  PROVE  BasedInv'
<1> SUFFICES ASSUME NEW c \in CountId PROVE Based(c)'
  BY DEF BasedInv
<1>1. Based(c)
  BY DEF BasedInv
<1>2. ASSUME KeepsBaseline(c), ~Begun(c)' => ~Begun(c)
      PROVE  Based(c)'
  <2>1. ASSUME NEW v \in DOMAIN count[c].lines
        PROVE  count'[c].lines[v].version <= balance'[<<count'[c].location, v>>].version
    <3>1. /\ <<count[c].location, v>> \in Key
          /\ count[c].lines[v].version \in Nat
      BY LinesAreVersioned DEF Inv
    <3>2. count[c].lines[v].version <= balance[<<count[c].location, v>>].version
      BY <1>1 DEF Based, RowOf
    <3> QED
      BY <1>2, <3>1, <3>2, RowsGrow DEF KeepsBaseline
  <2> QED
    BY <1>1, <1>2, <2>1 DEF KeepsBaseline, Based, RowOf
<1>3. CASE count'[c] = count[c]
  BY <1>2, <1>3 DEF KeepsBaseline, Begun
<1>4. CASE CountCommand(c)
  <2>1. CASE count[c].status = "none" /\ ~Begun(c)' /\ count'[c].lines = count[c].lines
    BY <1>1, <2>1 DEF Based, Begun
  <2>2. CASE TakesBaseline(c)
    <3>1. ASSUME NEW v \in DOMAIN count'[c].lines
          PROVE  count'[c].lines[v].version <= balance'[<<count'[c].location, v>>].version
      <4>1. count'[c].lines[v].version \in Nat
        BY CountIs, Inv' DEF Inv, TypeInv, CountState, Lines, CountLine
      <4> QED
        BY <2>2, <4>1 DEF TakesBaseline
    <3> QED
      BY <2>2, <3>1 DEF TakesBaseline, Based, RowOf
  <2> QED
    BY <1>2, <1>4, <2>1, <2>2, BaselineSteps
<1> QED
  BY <1>3, <1>4, CountSteps

LEMMA BasedHolds == CountSpec => [](Inv /\ BasedInv)
<1>1. CountInit => BasedInv
  BY DEF CountInit, BasedInv, Based, Begun, NoLines
<1>2. BasedInv /\ Inv /\ Inv' /\ [CountNext]_countVars => BasedInv'
  BY BasedStays
<1> QED
  BY <1>1, <1>2, InvHolds, PTL DEF CountSpec

(* Such a count passes no comparison, and its frozen versions cannot be    *)
(* those of the rows again.                                                *)
LEMMA OvertakenStep ==
  ASSUME Inv, BasedInv, [CountNext]_countVars, NEW c \in CountId,
         Overtaken(c), ~BeingApplied(c)
  PROVE  \/ /\ Overtaken(c)' /\ ~BeingApplied(c)'
            /\ ~Compared(c) => ~Compared(c)'
         \/ count'[c].status = "cancelled"
<1>1. PICK v \in DOMAIN count[c].lines :
        RowOf(c, v).version # count[c].lines[v].version
  BY DEF Overtaken
<1>2. /\ <<count[c].location, v>> \in Key /\ count[c].lines[v].version \in Nat
      /\ count[c].lines[v].version <= balance[<<count[c].location, v>>].version
  BY LinesAreVersioned DEF Inv, BasedInv, Based, RowOf
<1>3. count[c].status \in Active /\ count[c].lines[v].version
        # balance'[<<count[c].location, v>>].version
  BY <1>1, <1>2, RowsGrow DEF Overtaken, RowOf
<1>4. ASSUME KeepsBaseline(c), count'[c].status \in Active
      PROVE  Overtaken(c)'
  BY <1>3, <1>4 DEF KeepsBaseline, Overtaken, RowOf
<1>5. CASE count'[c] = count[c] /\ comparedAt'[c] = comparedAt[c]
  BY <1>3, <1>4, <1>5 DEF KeepsBaseline, BeingApplied, Compared
<1>6. CASE CountCommand(c)
  <2>1. /\ count \in [CountId -> CountState] /\ count[c] \in CountState
        /\ comparedAt \in [CountId -> 0..MaxTime \cup {NotCompared}]
    BY DEF Inv, TypeInv
  <2>2. KeepsBaseline(c)
    BY <1>3, <1>6, BaselineSteps DEF TakesBaseline, Active
  <2>3. ~NoDrift(c)
    BY <1>1 DEF NoDrift, Baseline
  <2>4. ASSUME NEW at \in RequestTime,
               \/ SubmitCount(c, at)
               \/ \E u \in Variant, q \in Quantity : RecordLine(c, at, u, q)
        PROVE  count'[c].status \in Active /\ ~Compared(c)'
    <3>1. CASE SubmitCount(c, at)
      BY <2>1, <3>1 DEF SubmitCount, Ready, MoveTo, Active, Compared, CountState
    <3>2. ASSUME NEW u, NEW q, RecordLine(c, at, u, q)
          PROVE  count'[c].status = "counting" /\ ~Compared(c)'
      BY <2>1, <3>2 DEF RecordLine, Recordable, Ready, Compared, CountState
    <3> QED
      BY <2>4, <3>1, <3>2 DEF Active
  <2>5. ASSUME NEW at \in RequestTime, BeginApprove(c, at) \/ BeginApply(c, at)
        PROVE  FALSE
    BY <2>3, <2>5 DEF BeginApprove, BeginApply, Compare
  <2>6. CASE FinishApprove(c) \/ RollBack(c)
    <3>1. count'[c].status \in Active /\ ~Compared(c)'
      BY <1>3, <2>1, <2>6 DEF FinishApprove, RollBack, MoveTo, Active, Compared, CountState
    <3> QED
      BY <1>4, <2>2, <3>1 DEF BeingApplied
  <2>7. CASE CancelCount(c)
    BY <2>1, <2>7 DEF CancelCount, MoveTo, CountState
  <2>8. ASSUME \/ \E l, scope : CreateCount(c, l, scope)
               \/ \E at : StartCount(c, at)
               \/ \E m : FinishApply(c, m)
        PROVE  FALSE
    BY <1>3, <2>8 DEF CreateCount, StartCount, FinishApply, Ready, Active
  <2> QED
    BY <1>4, <1>6, <2>2, <2>4, <2>5, <2>6, <2>7, <2>8 DEF CountCommand, BeingApplied
<1> QED
  BY <1>5, <1>6, CountSteps

(* Nothing passes a comparison whose stock has moved, if only there and    *)
(* back.                                                                   *)
THEOREM OvertakenCountsStay == CountSpec => OvertakenCountsAreNotApplied
<1>1. Inv /\ BasedInv /\ [CountNext]_countVars =>
        [\A c \in CountId :
           Overtaken(c) /\ ~BeingApplied(c) =>
             \/ /\ Overtaken(c)' /\ ~BeingApplied(c)'
                /\ ~Compared(c) => ~Compared(c)'
             \/ count'[c].status = "cancelled"]_countVars
  BY OvertakenStep
<1> QED
  BY <1>1, BasedHolds, PTL DEF CountSpec, OvertakenCountsAreNotApplied

(* A cancelled count stays as it is, and an approved one unless it is      *)
(* being applied.                                                          *)
LEMMA InertStep ==
  ASSUME Inv, [CountNext]_countVars, NEW c \in CountId,
         \/ count[c].status = "cancelled"
         \/ count[c].status = "approved" /\ ~BeingApplied(c)
  PROVE  count'[c] = count[c]
<1>1. CountCommand(c) => count' = count
  BY DEF CountCommand, CreateCount, StartCount, RecordLine, Recordable, SubmitCount,
     BeginApprove, BeginApply, Compare, FinishApprove, CancelCount, RollBack,
     FinishApply, BeingApplied, Ready
<1> QED
  BY <1>1, CountSteps

(* So a count whose stock had moved before application compared it is      *)
(* never applied, even if the move slipped in before its approval.         *)
THEOREM OvertakenCountsNeverApply ==
  ASSUME NEW c \in CountId
  PROVE  CountSpec => [](Overtaken(c) /\ ~BeingApplied(c) =>
                           [](count[c].status # "applied"))
<1> DEFINE Lost == \/ Overtaken(c) /\ ~BeingApplied(c)
                   \/ count[c].status = "cancelled"
<1>1. Inv /\ BasedInv /\ Lost /\ [CountNext]_countVars => Lost'
  BY OvertakenStep, InertStep
<1>2. Lost => count[c].status # "applied"
  BY DEF Overtaken, Active
<1>3. Overtaken(c) /\ ~BeingApplied(c) => Lost
  OBVIOUS
<1> HIDE DEF Lost
<1> QED
  BY <1>1, <1>2, <1>3, BasedHolds, PTL DEF CountSpec

(* Once it is approved, such a count cannot be cancelled either: it stays  *)
(* Active, so that LocationIsFree holds for no other count of its place.   *)
THEOREM OvertakenApprovalsBlock ==
  ASSUME NEW c \in CountId, NEW l \in Location
  PROVE  CountSpec =>
           [](Overtaken(c) /\ count[c].status = "approved" /\ ~BeingApplied(c)
                /\ count[c].location = l =>
              [](\A d \in CountId \ {c} :
                   count[d].location = l => ~LocationIsFree(d)))
<1> DEFINE Stuck == /\ Overtaken(c) /\ ~BeingApplied(c)
                    /\ count[c].status = "approved" /\ count[c].location = l
<1>1. Inv /\ BasedInv /\ Stuck /\ [CountNext]_countVars => Stuck'
  <2> SUFFICES ASSUME Inv, BasedInv, Stuck, [CountNext]_countVars
               PROVE  Stuck'
    OBVIOUS
  <2>1. count'[c] = count[c]
    BY InertStep
  <2> QED
    BY <2>1, OvertakenStep
<1>2. Stuck => \A d \in CountId \ {c} :
                 count[d].location = l => ~LocationIsFree(d)
  BY DEF LocationIsFree, Active
<1>3. Overtaken(c) /\ count[c].status = "approved" /\ ~BeingApplied(c)
        /\ count[c].location = l => Stuck
  OBVIOUS
<1> HIDE DEF Stuck
<1> QED
  BY <1>1, <1>2, <1>3, BasedHolds, PTL DEF CountSpec
=============================================================================
