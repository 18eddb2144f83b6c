---------------------- MODULE CatalogReferencesProofs ----------------------
(***************************************************************************)
(* What holds of the catalog's tree and references for any categories,     *)
(* brands, products and requests.  The inductive invariant says, for each  *)
(* request that is under way, which rows it holds and what it knows of     *)
(* them, because nobody else can write them: the brand it refers to, the   *)
(* brand it retires, and the categories its walk has come through.         *)
(***************************************************************************)
EXTENDS CatalogReferences, TLAPS

RowState == [status : {"none", "active", "inactive", "retired"},
             category : Category \cup {None}, brand : Brand \cup {None},
             version : Nat]

RequestState == [step : {"idle", "own", "done"} \cup Statement,
                 row : Row \cup {None}, version : Nat, new : RowState,
                 next : Category \cup {None}]

CatalogTypeOK == /\ row \in [Row -> RowState]
                 /\ lock \in [Row -> Request \cup {None}]
                 /\ request \in [Request -> RequestState]

VersionsCount == \A r \in Row : row[r].status = "none" <=> row[r].version = 0

Writing(p) == request[p].step \in Statement

(* A request that has come past its own row is about to write the next     *)
(* version of it, and has the row if it was there before.                  *)
KnowsItsRow(p) ==
  /\ UnderWay(p) => request[p].row \in Row
  /\ At(p, "idle") => request[p].version = 0
  /\ At(p, "own") => request[p].version # 0
  /\ Writing(p) =>
       /\ request[p].version # 0 => lock[request[p].row] = p
       /\ request[p].new.version = request[p].version + 1
       /\ request[p].new.status # "none"
       /\ request[p].row \in Brands => request[p].new.category = None
       /\ request[p].row \notin Products => request[p].new.brand = None
       /\ Needed(request[p].step, request[p].row, request[p].new)

(* Which rows it can hold, by what it is doing.                            *)
HoldsInOrder(p) ==
  \A r \in Row : lock[r] = p =>
    /\ Writing(p)
    /\ request[p].row \in Categories => r \in Categories
    /\ request[p].row \in Brands => r = request[p].row
    /\ request[p].row \in Products /\ At(p, "category") => r = request[p].row
    /\ request[p].row \in Products /\ At(p, "brand") =>
         r = request[p].row \/ r \in Categories

(* The brand it is about to name is active, and stays so.                  *)
KnowsItsBrand(p) ==
  At(p, "write") /\ request[p].row \in Products /\ request[p].new.brand # None =>
    /\ lock[BrandRow(request[p].new.brand)] = p
    /\ row[BrandRow(request[p].new.brand)].status = "active"

(* The brand it is about to retire is in no use, and stays so.             *)
KnowsItIsUnused(p) ==
  \A b \in Brand :
    /\ At(p, "write") /\ request[p].row = BrandRow(b)
    /\ request[p].new.status = "retired" /\ request[p].version # 0
    => ~ HasLiveProducts(b)

(* What its walk up the tree has come through, where it will go on, and    *)
(* that from its new parent upwards there is nothing else.                 *)
Passed(p) == {c \in Category : /\ lock[CategoryRow(c)] = p
                               /\ CategoryRow(c) # request[p].row}

KnowsItsWay(p) ==
  Writing(p) /\ request[p].row \in Categories =>
    /\ request[p].next = None <=> ~ At(p, "walk")
    /\ request[p].new.category \in Passed(p) \cup {request[p].next}
    /\ \A c \in Passed(p) :
         /\ row[CategoryRow(c)].status # "none"
         /\ row[CategoryRow(c)].category \in Passed(p) \cup {request[p].next}

Knows(p) == /\ KnowsItsRow(p) /\ HoldsInOrder(p) /\ KnowsItsBrand(p)
            /\ KnowsItIsUnused(p) /\ KnowsItsWay(p)

CatalogInv == /\ CatalogTypeOK
              /\ VersionsCount
              /\ \A p \in Request : Knows(p)
              /\ LiveProductsHaveLiveBrands
              /\ CategoriesFormATree
-----------------------------------------------------------------------------
(* The rows of the three tables differ, and each has one identifier.       *)
LEMMA Kinds ==
  /\ \A c \in Category : CategoryRow(c) \in Categories
  /\ \A b \in Brand : BrandRow(b) \in Brands
  /\ \A x \in Product : ProductRow(x) \in Products
  /\ \A c, d : CategoryRow(c) = CategoryRow(d) => c = d
  /\ \A b, d : BrandRow(b) = BrandRow(d) => b = d
  /\ \A x, y : ProductRow(x) = ProductRow(y) => x = y
  /\ \A r \in Categories : r \in Row /\ r \notin Brands /\ r \notin Products
  /\ \A r \in Brands : r \in Row /\ r \notin Categories /\ r \notin Products
  /\ \A r \in Products : r \in Row /\ r \notin Categories /\ r \notin Brands
  /\ Row = Categories \cup Brands \cup Products
  /\ \A r \in Categories : \E c \in Category : r = CategoryRow(c)
  /\ \A r \in Brands : \E b \in Brand : r = BrandRow(b)
  /\ \A r \in Products : \E x \in Product : r = ProductRow(x)
<1>1. \A x, y, u, v : <<x, u>> = <<y, v>> => x = y /\ u = v
  OBVIOUS
<1> QED
  BY <1>1 DEF CategoryRow, BrandRow, ProductRow, Categories, Brands, Products, Row

(* What may be asked of a row is a row of its kind, in its next version.   *)
LEMMA AskedIsARow ==
  ASSUME CatalogTypeOK, NEW r \in Row, NEW new \in Asked(r)
  PROVE  /\ new \in RowState
         /\ new.version = row[r].version + 1
         /\ new.status # "none"
         /\ r \in Brands => new.category = None
         /\ r \notin Products => new.brand = None
         /\ r \in Products /\ row[r].status = "none" => new.status # "retired"
<1>1. /\ row[r].version \in Nat
      /\ new \in [status : Asking,
                  category : IF r \in Brands THEN {None} ELSE Category \cup {None},
                  brand : IF r \in Products THEN Brand \cup {None} ELSE {None},
                  version : {row[r].version + 1}]
      /\ r \in Products /\ row[r].status = "none" => new.status # "retired"
  BY DEF Asked, CatalogTypeOK, RowState
<1>2. /\ new = [status |-> new.status, category |-> new.category,
                brand |-> new.brand, version |-> new.version]
      /\ new.status \in Asking /\ new.version = row[r].version + 1
      /\ new.category \in IF r \in Brands THEN {None} ELSE Category \cup {None}
      /\ new.brand \in IF r \in Products THEN Brand \cup {None} ELSE {None}
  BY <1>1
<1>3. Asking \subseteq {"active", "inactive", "retired"}
  BY CatalogAssumption
<1>4. new \in RowState
  BY <1>1, <1>2, <1>3 DEF RowState
<1> QED
  BY <1>1, <1>2, <1>3, <1>4

(* No statement that is needed is passed over.                             *)
LEMMA NothingSkipped ==
  ASSUME NEW step, NEW other \in {"own"} \cup Statement, NEW r, NEW new,
         Follows(step, other, r, new)
  PROVE  /\ step \in Statement
         /\ Needed(step, r, new)
         /\ other = "walk" => step # "walk"
         /\ other = "category" => step \notin {"walk", "category"}
         /\ other = "brand" => step \in {"uses", "write"}
         /\ other = "uses" => step = "write"
         /\ other \in {"own", "walk", "category"} /\ new.brand # None =>
              step # "write"
         /\ other # "uses" /\ other # "write" /\ Needed("uses", r, new) =>
              step # "write"
         /\ other = "own" /\ Needed("walk", r, new) => step = "walk"
<1>1. /\ step \in Statement /\ Needed(step, r, new)
      /\ Order(r)[other] < Order(r)[step]
      /\ \A s \in Statement : Needed(s, r, new) /\ Order(r)[other] < Order(r)[s]
                                => Order(r)[step] <= Order(r)[s]
  BY DEF Follows
<1>2. /\ Order(r)["own"] = 0 /\ Order(r)["walk"] = 1 /\ Order(r)["category"] = 2
      /\ Order(r)["brand"] = 3 /\ Order(r)["uses"] = 4 /\ Order(r)["write"] = 5
  BY DEF Order
<1>3. new.brand # None => Needed("brand", r, new)
  BY DEF Needed
<1> QED
  BY <1>1, <1>2, <1>3 DEF Statement

(* A request that does nothing, while nothing is written and it neither    *)
(* gains nor loses a lock, knows what it knew.                             *)
LEMMA OthersKnow ==
  ASSUME NEW q \in Request, CatalogTypeOK, Knows(q),
         request'[q] = request[q], row' = row,
         \A r \in Row : lock'[r] = q <=> lock[r] = q
  PROVE  Knows(q)'
<1>1. request[q] \in RequestState /\ (UnderWay(q) => request[q].row \in Row)
  BY DEF CatalogTypeOK, Knows, KnowsItsRow
<1>2. KnowsItsRow(q)' /\ HoldsInOrder(q)'
  BY <1>1 DEF Knows, KnowsItsRow, HoldsInOrder, UnderWay, At, Writing, Statement
<1>3. KnowsItsBrand(q)'
  <2> SUFFICES ASSUME request[q].step = "write", request[q].row \in Products,
                      request[q].new.brand # None
               PROVE  /\ lock'[BrandRow(request[q].new.brand)] = q
                      /\ row[BrandRow(request[q].new.brand)].status = "active"
    BY DEF KnowsItsBrand, At
  <2>1. BrandRow(request[q].new.brand) \in Row
    BY <1>1, Kinds DEF RequestState, RowState
  <2> QED
    BY <2>1 DEF Knows, KnowsItsBrand, At
<1>4. KnowsItIsUnused(q)'
  BY DEF Knows, KnowsItIsUnused, HasLiveProducts, At
<1>5. Passed(q)' = Passed(q)
  BY Kinds DEF Passed
<1>6. KnowsItsWay(q)'
  BY <1>5 DEF Knows, KnowsItsWay, Writing, At
<1> QED
  BY <1>2, <1>3, <1>4, <1>6 DEF Knows

(* A step of one request that writes no row is judged by what this one     *)
(* knows afterwards.                                                       *)
LEMMA OneGoesOn ==
  ASSUME CatalogInv, NEW p \in Request, row' = row, CatalogTypeOK',
         \A q \in Request \ {p} : request'[q] = request[q],
         \A r \in Row : \/ lock'[r] = lock[r]
                        \/ lock[r] \in {None, p} /\ lock'[r] \in {None, p},
         Knows(p)'
  PROVE  CatalogInv'
<1>1. ASSUME NEW q \in Request, q # p
      PROVE  Knows(q)'
  <2>1. \A r \in Row : lock'[r] = q <=> lock[r] = q
    BY <1>1, CatalogAssumption
  <2> QED
    BY <1>1, <2>1, OthersKnow DEF CatalogInv
<1>2. VersionsCount' /\ LiveProductsHaveLiveBrands' /\ CategoriesFormATree'
  BY DEF CatalogInv, VersionsCount, LiveProductsHaveLiveBrands, CategoriesFormATree
<1> QED
  BY <1>1, <1>2 DEF CatalogInv

(* The end of a transaction leaves every lock to others.                   *)
LEMMA EndedIsOver ==
  ASSUME CatalogInv, NEW p \in Request, End(p)
  PROVE  /\ request' \in [Request -> RequestState]
         /\ lock' \in [Row -> Request \cup {None}]
         /\ \A q \in Request \ {p} : request'[q] = request[q]
         /\ \A r \in Row : \/ lock'[r] = lock[r] /\ lock[r] # p
                           \/ lock[r] = p /\ lock'[r] = None
         /\ Knows(p)'
<1>1. NotSent \in RequestState /\ [NotSent EXCEPT !.step = "done"] \in RequestState
  BY DEF NotSent, NoRow, RequestState, RowState
<1>2. /\ request' \in [Request -> RequestState]
      /\ lock' \in [Row -> Request \cup {None}]
      /\ \A q \in Request \ {p} : request'[q] = request[q]
      /\ \A r \in Row : \/ lock'[r] = lock[r] /\ lock[r] # p
                        \/ lock[r] = p /\ lock'[r] = None
      /\ request'[p].step = "done"
  BY <1>1 DEF End, CatalogInv, CatalogTypeOK, NotSent
<1>3. \A r \in Row : lock'[r] # p
  BY <1>2, CatalogAssumption
<1>4. Knows(p)'
  BY <1>2, <1>3 DEF Knows, KnowsItsRow, HoldsInOrder, KnowsItsBrand,
     KnowsItIsUnused, KnowsItsWay, UnderWay, At, Writing, Statement
<1> QED
  BY <1>2, <1>4

LEMMA RollBackPreserves ==
  ASSUME CatalogInv, NEW p \in Request, RollBack(p)
  PROVE  CatalogInv'
<1>1. End(p) /\ row' = row
  BY DEF RollBack
<1>2. CatalogTypeOK'
  BY <1>1, EndedIsOver DEF CatalogInv, CatalogTypeOK
<1>3. \A r \in Row : \/ lock'[r] = lock[r]
                     \/ lock[r] \in {None, p} /\ lock'[r] \in {None, p}
  BY <1>1, EndedIsOver
<1> QED
  BY <1>1, <1>2, <1>3, EndedIsOver, OneGoesOn

-----------------------------------------------------------------------------
(* A request that begins to write holds at most its own row, and that if   *)
(* it was there before.                                                    *)
LEMMA StartPreserves ==
  ASSUME CatalogInv, NEW p \in Request, NEW r \in Row, NEW new \in Asked(r),
         Start(p, r, new), row' = row, lock' \in [Row -> Request \cup {None}],
         \A q \in Row : lock'[q] = p <=> q = r /\ request[p].version # 0,
         \A q \in Row : \/ lock'[q] = lock[q]
                        \/ lock[q] \in {None, p} /\ lock'[q] \in {None, p},
         request[p].version = row[r].version
  PROVE  CatalogInv'
<1>0. PICK step \in Statement :
      /\ Follows(step, "own", r, new)
      /\ request' = [request EXCEPT ![p].step = step, ![p].row = r, ![p].new = new,
                                    ![p].next = new.category]
  BY DEF Start
<1>1. /\ new \in RowState
      /\ new.version = row[r].version + 1
      /\ new.status # "none"
      /\ r \in Brands => new.category = None
      /\ r \notin Products => new.brand = None
  BY AskedIsARow DEF CatalogInv
<1>2. /\ step \in Statement
      /\ Needed(step, r, new)
      /\ new.brand # None => step # "write"
      /\ Needed("uses", r, new) => step # "write"
      /\ Needed("walk", r, new) => step = "walk"
  BY <1>0, NothingSkipped
<1>3. /\ request'[p].step = step /\ request'[p].row = r /\ request'[p].new = new
      /\ request'[p].next = new.category
      /\ request'[p].version = request[p].version
      /\ request' \in [Request -> RequestState]
      /\ \A q \in Request \ {p} : request'[q] = request[q]
  <2>1. request \in [Request -> RequestState] /\ request[p] \in RequestState
    BY DEF CatalogInv, CatalogTypeOK
  <2> DEFINE starting == [request[p] EXCEPT !.step = step, !.row = r, !.new = new,
                                            !.next = new.category]
  <2>2. request' = [request EXCEPT ![p] = starting]
    BY <1>0, <2>1
  <2>3. new.category \in Category \cup {None}
    BY <1>1 DEF RowState
  <2>4. /\ starting \in RequestState
        /\ starting.step = step /\ starting.row = r /\ starting.new = new
        /\ starting.next = new.category /\ starting.version = request[p].version
    BY <1>1, <2>1, <2>3 DEF RequestState
  <2> HIDE DEF starting
  <2> QED
    BY <2>1, <2>2, <2>4
<1>4. CatalogTypeOK'
  BY <1>3 DEF CatalogInv, CatalogTypeOK
<1>5. KnowsItsRow(p)'
  BY <1>1, <1>2, <1>3 DEF KnowsItsRow, UnderWay, At, Writing, Statement
<1>6. HoldsInOrder(p)'
  BY <1>2, <1>3 DEF HoldsInOrder, Writing, At
<1>7. KnowsItsBrand(p)'
  BY <1>2, <1>3 DEF KnowsItsBrand, At
<1>8. KnowsItIsUnused(p)'
  <2> SUFFICES ASSUME NEW b \in Brand, step = "write", r = BrandRow(b),
                      new.status = "retired", request[p].version # 0
               PROVE  FALSE
    BY <1>3 DEF KnowsItIsUnused, At
  <2>1. row[r].version \in Nat
    BY DEF CatalogInv, CatalogTypeOK, RowState
  <2>2. Needed("uses", r, new)
    BY <1>1, <2>1, Kinds DEF Needed
  <2> QED
    BY <1>2, <2>2
<1>9. KnowsItsWay(p)'
  <2> SUFFICES ASSUME r \in Categories
               PROVE  /\ step # "walk" <=> new.category = None
                      /\ Passed(p)' = {}
    BY <1>3 DEF KnowsItsWay, Writing, At
  <2>1. step # "walk" <=> new.category = None
    BY <1>2 DEF Needed
  <2>2. Passed(p)' = {}
    BY <1>3, Kinds DEF Passed
  <2> QED
    BY <2>1, <2>2
<1> QED
  BY <1>3, <1>4, <1>5, <1>6, <1>7, <1>8, <1>9, OneGoesOn DEF Knows

LEMMA CreatePreserves ==
  ASSUME CatalogInv, NEW p \in Request, NEW r \in Row, Create(p, r)
  PROVE  CatalogInv'
<1>1. PICK new \in Asked(r) : Start(p, r, new)
  BY DEF Create
<1>2. At(p, "idle") /\ row[r].status = "none" /\ row' = row /\ lock' = lock
  BY DEF Create, MaySend
<1>3. request[p].version = 0 /\ row[r].version = 0
  BY <1>2 DEF CatalogInv, Knows, KnowsItsRow, VersionsCount
<1>4. \A q \in Row : lock[q] # p
  BY <1>2 DEF CatalogInv, Knows, HoldsInOrder, Writing, At, Statement
<1>5. lock' \in [Row -> Request \cup {None}]
  BY <1>2 DEF CatalogInv, CatalogTypeOK
<1> QED
  BY <1>1, <1>2, <1>3, <1>4, <1>5, StartPreserves

LEMMA PatchPreserves ==
  ASSUME CatalogInv, NEW p \in Request, NEW r \in Row, Patch(p, r)
  PROVE  CatalogInv'
<1>1. /\ request[p].step = "idle" /\ row[r].status # "none"
      /\ row' = row /\ lock' = lock
      /\ request' = [request EXCEPT ![p] = [@ EXCEPT !.step = "own", !.row = r,
                                                     !.version = row[r].version]]
  BY DEF Patch, MaySend, At, CatalogInv, CatalogTypeOK
<1>2. row[r].version \in Nat /\ row[r].version # 0
  BY <1>1 DEF CatalogInv, VersionsCount, CatalogTypeOK, RowState
<1>3. /\ request' \in [Request -> RequestState]
      /\ request'[p].step = "own" /\ request'[p].row = r
      /\ request'[p].version = row[r].version
      /\ \A q \in Request \ {p} : request'[q] = request[q]
  BY <1>1, <1>2 DEF CatalogInv, CatalogTypeOK, RequestState
<1>4. CatalogTypeOK'
  BY <1>1, <1>3 DEF CatalogInv, CatalogTypeOK
<1>5. \A q \in Row : lock[q] # p
  BY <1>1 DEF CatalogInv, Knows, HoldsInOrder, Writing, At, Statement
<1>6. Knows(p)'
  BY <1>1, <1>2, <1>3, <1>5 DEF Knows, KnowsItsRow, HoldsInOrder, KnowsItsBrand,
     KnowsItIsUnused, KnowsItsWay, UnderWay, At, Writing, Statement
<1> QED
  BY <1>1, <1>3, <1>4, <1>6, OneGoesOn

LEMMA LockOwnPreserves ==
  ASSUME CatalogInv, NEW p \in Request, LockOwn(p)
  PROVE  CatalogInv'
<1> DEFINE r == request[p].row
<1>1. r \in Row /\ request[p].version # 0
  BY DEF LockOwn, CatalogInv, Knows, KnowsItsRow, UnderWay, At
<1>2. \A q \in Row : lock[q] # p
  BY DEF LockOwn, CatalogInv, Knows, HoldsInOrder, Writing, At, Statement
<1>3. CASE RollBack(p)
  BY <1>3, RollBackPreserves
<1>4. CASE /\ row[r].version = request[p].version
           /\ Lock(r, p) /\ row' = row
           /\ \E new \in Asked(r) : Start(p, r, new)
  <2>1. PICK new \in Asked(r) : Start(p, r, new)
    BY <1>4
  <2>2. /\ lock' \in [Row -> Request \cup {None}]
        /\ \A q \in Row : \/ lock'[q] = lock[q]
                          \/ lock[q] \in {None, p} /\ lock'[q] \in {None, p}
        /\ \A q \in Row : lock'[q] = p <=> q = r
    BY <1>1, <1>2, <1>4 DEF Lock, CatalogInv, CatalogTypeOK
  <2> HIDE DEF r
  <2> QED
    BY <1>1, <1>4, <2>1, <2>2, StartPreserves
<1> QED
  BY <1>3, <1>4 DEF LockOwn

(* A request that goes on to its next statement.                           *)
LEMMA GoingOn ==
  ASSUME CatalogInv, NEW p \in Request, Writing(p), Go(p)
  PROVE  /\ request' \in [Request -> RequestState]
         /\ \A q \in Request \ {p} : request'[q] = request[q]
         /\ Follows(request'[p].step, request[p].step, request[p].row,
                    request[p].new)
         /\ request'[p].row = request[p].row /\ request'[p].new = request[p].new
         /\ request'[p].version = request[p].version
         /\ request'[p].next = request[p].next
<1>1. request \in [Request -> RequestState] /\ request[p] \in RequestState
  BY DEF CatalogInv, CatalogTypeOK
<1>2. PICK step \in Statement :
        /\ Follows(step, request[p].step, request[p].row, request[p].new)
        /\ request' = [request EXCEPT ![p].step = step]
  BY DEF Go
<1> DEFINE then == [request[p] EXCEPT !.step = step]
<1>3. request' = [request EXCEPT ![p] = then]
  BY <1>1, <1>2
<1>4. /\ then \in RequestState /\ then.step = step /\ then.next = request[p].next
      /\ then.row = request[p].row /\ then.new = request[p].new
      /\ then.version = request[p].version
  BY <1>1 DEF RequestState
<1> HIDE DEF then
<1> QED
  BY <1>1, <1>2, <1>3, <1>4

LEMMA WalkPreserves ==
  ASSUME CatalogInv, NEW p \in Request, Walk(p)
  PROVE  CatalogInv'
<1> DEFINE c == request[p].next
           r == CategoryRow(c)
<1>1. /\ request[p].step = "walk" /\ Writing(p) /\ request[p].row \in Row
      /\ Knows(p) /\ request[p] \in RequestState
  BY DEF Walk, At, Writing, Statement, CatalogInv, CatalogTypeOK, Knows, KnowsItsRow,
     UnderWay
<1>2. request[p].row \in Categories /\ request[p].new.category # None
  BY <1>1 DEF Knows, KnowsItsRow, Needed
<1>3. c \in Category /\ r \in Categories /\ r \in Row
  BY <1>1, <1>2, Kinds DEF Knows, KnowsItsWay, At, RequestState
<1>4. CASE RollBack(p)
  BY <1>4, RollBackPreserves
<1>5. CASE /\ ~ Visited(p, c) /\ row[r].status # "none" /\ Lock(r, p) /\ row' = row
           /\ \E step \in Statement :
                /\ IF row[r].category = None
                     THEN Follows(step, "walk", request[p].row, request[p].new)
                     ELSE step = "walk"
                /\ request' = [request EXCEPT ![p].step = step,
                                              ![p].next = row[r].category]
  <2>1. PICK step \in Statement :
          /\ IF row[r].category = None
               THEN Follows(step, "walk", request[p].row, request[p].new)
               ELSE step = "walk"
          /\ request' = [request EXCEPT ![p].step = step,
                                        ![p].next = row[r].category]
    BY <1>5
  <2>2. row[r].category \in Category \cup {None}
    BY <1>3 DEF CatalogInv, CatalogTypeOK, RowState
  <2>3. /\ request' \in [Request -> RequestState]
        /\ \A q \in Request \ {p} : request'[q] = request[q]
        /\ request'[p].step = step /\ request'[p].next = row[r].category
        /\ request'[p].row = request[p].row /\ request'[p].new = request[p].new
        /\ request'[p].version = request[p].version
    <3> DEFINE then == [request[p] EXCEPT !.step = step, !.next = row[r].category]
    <3>1. request \in [Request -> RequestState]
      BY DEF CatalogInv, CatalogTypeOK
    <3>2. request' = [request EXCEPT ![p] = then]
      BY <2>1, <3>1
    <3>3. /\ then \in RequestState
          /\ then.step = step /\ then.next = row[r].category
          /\ then.row = request[p].row /\ then.new = request[p].new
          /\ then.version = request[p].version
      BY <1>1, <2>2 DEF RequestState
    <3> HIDE DEF then, r, c
    <3> QED
      BY <3>1, <3>2, <3>3
  <2>4. /\ Needed(step, request[p].row, request[p].new)
        /\ step = "walk" <=> row[r].category # None
    BY <1>1, <1>2, <2>1, NothingSkipped DEF Needed, Statement
  <2>5. /\ lock' = [lock EXCEPT ![r] = p] /\ lock[r] = None
        /\ r # request[p].row
    BY <1>5 DEF Visited, Lock
  <2>6. /\ lock' \in [Row -> Request \cup {None}]
        /\ \A q \in Row : \/ lock'[q] = lock[q]
                          \/ lock[q] \in {None, p} /\ lock'[q] \in {None, p}
        /\ \A q \in Row : lock'[q] = p <=> lock[q] = p \/ q = r
    BY <1>3, <2>5 DEF CatalogInv, CatalogTypeOK
  <2>7. CatalogTypeOK'
    BY <1>5, <2>3, <2>6 DEF CatalogInv, CatalogTypeOK
  <2>8. KnowsItsRow(p)'
    BY <1>1, <2>3, <2>4, <2>6
       DEF Knows, KnowsItsRow, UnderWay, At, Writing, Statement
  <2>9. HoldsInOrder(p)'
    BY <1>1, <1>2, <1>3, <2>3, <2>6, Kinds DEF Knows, HoldsInOrder, Writing, At
  <2>10. KnowsItsBrand(p)' /\ KnowsItIsUnused(p)'
    BY <1>2, <2>3, Kinds DEF KnowsItsBrand, KnowsItIsUnused
  <2>11. KnowsItsWay(p)'
    <3>1. Passed(p)' = Passed(p) \cup {c}
      BY <1>3, <2>3, <2>5, <2>6, Kinds DEF Passed
    <3>2. \A d \in Passed(p) \cup {c} :
            /\ row[CategoryRow(d)].status # "none"
            /\ row[CategoryRow(d)].category \in Passed(p) \cup {c, row[r].category}
      BY <1>1, <1>2, <1>5 DEF Knows, KnowsItsWay
    <3>3. request[p].new.category \in Passed(p) \cup {c}
      BY <1>1, <1>2 DEF Knows, KnowsItsWay
    <3> HIDE DEF c, r
    <3> QED
      BY <1>5, <2>3, <2>4, <3>1, <3>2, <3>3 DEF KnowsItsWay, At
  <2> HIDE DEF c, r
  <2> QED
    BY <1>5, <2>3, <2>6, <2>7, <2>8, <2>9, <2>10, <2>11, OneGoesOn DEF Knows
<1> QED
  BY <1>4, <1>5 DEF Walk

(* One more lock, for a product: of a category, or of its brand.           *)
LEMMA ReferPreserves ==
  ASSUME CatalogInv, NEW p \in Request, NEW r \in Row, Refer(p, r),
         request[p].row \in Products,
         \/ At(p, "category") /\ r \in Categories
         \/ At(p, "brand") /\ r = BrandRow(request[p].new.brand)
  PROVE  CatalogInv'
<1>1. CASE RollBack(p)
  BY <1>1, RollBackPreserves
<1>2. CASE row[r].status = "active" /\ Lock(r, p) /\ Go(p) /\ row' = row
  <2> DEFINE step == request'[p].step
  <2>1. Writing(p) /\ Knows(p) /\ request[p].row \in Row
    BY DEF Writing, At, Statement, CatalogInv, Knows, KnowsItsRow, UnderWay
  <2>2. /\ request' \in [Request -> RequestState]
        /\ \A q \in Request \ {p} : request'[q] = request[q]
        /\ Follows(step, request[p].step, request[p].row, request[p].new)
        /\ request'[p].row = request[p].row /\ request'[p].new = request[p].new
        /\ request'[p].version = request[p].version
    BY <1>2, <2>1, GoingOn
  <2>3. /\ step \in {"brand", "write"}
        /\ Needed(step, request[p].row, request[p].new)
        /\ step = "brand" => At(p, "category")
        /\ step = "write" /\ request[p].new.brand # None => At(p, "brand")
    <3>1. ~ Needed("uses", request[p].row, request[p].new)
      BY Kinds DEF Needed
    <3>2. request[p].step \in {"category", "brand"}
      BY DEF At
    <3> HIDE DEF step
    <3> QED
      BY <2>2, <3>1, <3>2, NothingSkipped DEF At, Statement
  <2>4. /\ lock' \in [Row -> Request \cup {None}]
        /\ \A q \in Row : \/ lock'[q] = lock[q]
                          \/ lock[q] \in {None, p} /\ lock'[q] \in {None, p}
        /\ \A q \in Row : lock'[q] = p <=> lock[q] = p \/ q = r
    BY <1>2 DEF Lock, CatalogInv, CatalogTypeOK
  <2>5. CatalogTypeOK'
    BY <1>2, <2>2, <2>4 DEF CatalogInv, CatalogTypeOK
  <2>6. KnowsItsRow(p)'
    BY <2>1, <2>2, <2>3, <2>4
       DEF Knows, KnowsItsRow, UnderWay, At, Writing, Statement
  <2>7. HoldsInOrder(p)'
    BY <2>1, <2>2, <2>3, <2>4, Kinds DEF Knows, HoldsInOrder, Writing, At, Statement
  <2>8. KnowsItsBrand(p)'
    BY <1>2, <2>2, <2>3, <2>4 DEF KnowsItsBrand, At
  <2>9. KnowsItIsUnused(p)' /\ KnowsItsWay(p)'
    BY <2>2, Kinds DEF KnowsItIsUnused, KnowsItsWay
  <2> HIDE DEF step
  <2> QED
    BY <1>2, <2>2, <2>4, <2>5, <2>6, <2>7, <2>8, <2>9, OneGoesOn DEF Knows
<1> QED
  BY <1>1, <1>2 DEF Refer

LEMMA ReferencePreserves ==
  ASSUME CatalogInv, NEW p \in Request, ReferToCategory(p) \/ ReferToBrand(p)
  PROVE  CatalogInv'
<1>1. Writing(p) /\ Knows(p) /\ request[p].row \in Row /\ request[p].new \in RowState
  BY DEF ReferToCategory, ReferToBrand, Writing, At, Statement, CatalogInv, Knows,
     KnowsItsRow, UnderWay, CatalogTypeOK, RequestState
<1>2. Needed(request[p].step, request[p].row, request[p].new)
  BY <1>1 DEF Knows, KnowsItsRow
<1>3. CASE ReferToCategory(p)
  <2>1. request[p].row \in Products /\ request[p].new.category # None
    BY <1>2, <1>3 DEF ReferToCategory, At, Needed
  <2>2. CategoryRow(request[p].new.category) \in Categories
    BY <1>1, <2>1, Kinds DEF RowState
  <2> QED
    BY <1>3, <2>1, <2>2, Kinds, ReferPreserves DEF ReferToCategory
<1>4. CASE ReferToBrand(p)
  <2>1. request[p].new.brand # None
    BY <1>2, <1>4 DEF ReferToBrand, At, Needed
  <2>2. request[p].row \in Products
    BY <1>1, <2>1 DEF Knows, KnowsItsRow
  <2>3. BrandRow(request[p].new.brand) \in Row
    BY <1>1, <2>1, Kinds DEF RowState
  <2> QED
    BY <1>4, <2>2, <2>3, ReferPreserves DEF ReferToBrand
<1> QED
  BY <1>3, <1>4

LEMMA CheckUsesPreserves ==
  ASSUME CatalogInv, NEW p \in Request, CheckUses(p)
  PROVE  CatalogInv'
<1>1. CASE RollBack(p)
  BY <1>1, RollBackPreserves
<1>2. CASE /\ ~ \E b \in Brand : /\ request[p].row = BrandRow(b)
                                 /\ HasLiveProducts(b)
           /\ Go(p) /\ UNCHANGED <<row, lock>>
  <2> DEFINE step == request'[p].step
  <2>1. /\ request[p].step = "uses" /\ Writing(p) /\ Knows(p)
        /\ request[p].row \in Row
    BY DEF CheckUses, Writing, At, Statement, CatalogInv, Knows, KnowsItsRow, UnderWay
  <2>2. request[p].row \in Brands
    BY <2>1 DEF Knows, KnowsItsRow, Needed
  <2>3. /\ request' \in [Request -> RequestState]
        /\ \A q \in Request \ {p} : request'[q] = request[q]
        /\ Follows(step, request[p].step, request[p].row, request[p].new)
        /\ request'[p].row = request[p].row /\ request'[p].new = request[p].new
        /\ request'[p].version = request[p].version
    BY <1>2, <2>1, GoingOn
  <2>4. step = "write" /\ Needed("write", request[p].row, request[p].new)
    BY <2>1, <2>3, NothingSkipped DEF Statement
  <2>5. CatalogTypeOK'
    BY <1>2, <2>3 DEF CatalogInv, CatalogTypeOK
  <2>6. KnowsItsRow(p)' /\ HoldsInOrder(p)'
    BY <1>2, <2>1, <2>2, <2>3, <2>4, Kinds
       DEF Knows, KnowsItsRow, HoldsInOrder, UnderWay, At, Writing, Statement
  <2>7. KnowsItsBrand(p)' /\ KnowsItsWay(p)'
    BY <2>2, <2>3, Kinds DEF KnowsItsBrand, KnowsItsWay
  <2>8. KnowsItIsUnused(p)'
    BY <1>2, <2>3 DEF KnowsItIsUnused, HasLiveProducts
  <2> HIDE DEF step
  <2> QED
    BY <1>2, <2>3, <2>5, <2>6, <2>7, <2>8, OneGoesOn DEF Knows
<1> QED
  BY <1>1, <1>2 DEF CheckUses

-----------------------------------------------------------------------------
(* A row that is written is a new one, or locked by who writes it: what    *)
(* another request holds and has seen there is not written.                *)
LEMMA WritePreserves ==
  ASSUME CatalogInv, NEW p \in Request, Write(p)
  PROVE  CatalogInv'
<1> DEFINE r == request[p].row
           new == request[p].new
<1>1. End(p)
  BY DEF Write
<1>2. CASE row' = row
  BY <1>1, <1>2, RollBackPreserves DEF RollBack
<1>3. CASE row[r].version = request[p].version /\ row' = [row EXCEPT ![r] = new]
  <2>1. /\ At(p, "write") /\ Writing(p) /\ Knows(p) /\ r \in Row
        /\ new \in RowState /\ request[p].version \in Nat
    BY DEF Write, Writing, At, Statement, CatalogInv, Knows, KnowsItsRow, UnderWay,
       CatalogTypeOK, RequestState
  <2>2. /\ row' \in [Row -> RowState] /\ row'[r] = new
        /\ \A s \in Row \ {r} : row'[s] = row[s]
    BY <1>3, <2>1 DEF CatalogInv, CatalogTypeOK
  <2>3. row[r].status # "none" => lock[r] = p
    BY <1>3, <2>1 DEF CatalogInv, VersionsCount, Knows, KnowsItsRow
  <2>4. new.version = request[p].version + 1 /\ new.status # "none"
    BY <2>1 DEF Knows, KnowsItsRow
  <2> HIDE DEF r, new
  <2>5. CatalogTypeOK'
    BY <1>1, <2>2, EndedIsOver DEF CatalogTypeOK
  <2>6. VersionsCount'
    BY <2>1, <2>2, <2>4 DEF CatalogInv, VersionsCount
  <2>7. ASSUME NEW x \in Product, NEW b \in Brand,
               row'[ProductRow(x)].status \notin {"none", "retired"},
               row'[ProductRow(x)].brand = b, r = ProductRow(x)
        PROVE  /\ lock[BrandRow(b)] = p /\ row[BrandRow(b)].status = "active"
    <3>1. r \in Products /\ new.brand = b
      BY <2>2, <2>7, <2>1, Kinds
    <3> QED
      BY <2>1, <3>1, CatalogAssumption DEF Knows, KnowsItsBrand, r, new
  <2>8. LiveProductsHaveLiveBrands'
    <3> SUFFICES ASSUME NEW x \in Product, NEW b \in Brand,
                        row'[ProductRow(x)].status \notin {"none", "retired"},
                        row'[ProductRow(x)].brand = b
                 PROVE  row'[BrandRow(b)].status \notin {"none", "retired"}
      BY DEF LiveProductsHaveLiveBrands
    <3>1. /\ ProductRow(x) \in Row /\ BrandRow(b) \in Row
          /\ ProductRow(x) # BrandRow(b)
      BY Kinds
    <3>2. CASE r = ProductRow(x)
      BY <2>2, <2>7, <3>1, <3>2
    <3>3. CASE r = BrandRow(b)
      <4>1. /\ row[ProductRow(x)].status \notin {"none", "retired"}
            /\ row[ProductRow(x)].brand = b
        BY <2>2, <3>1, <3>3
      <4>a. LiveProductsHaveLiveBrands
        BY DEF CatalogInv
      <4>b. row[r].status # "none"
        BY <3>3, <4>1, <4>a DEF LiveProductsHaveLiveBrands
      <4>c. HasLiveProducts(b)
        BY <4>1, Kinds DEF HasLiveProducts
      <4>2. HasLiveProducts(b) /\ row[r].status # "none"
        BY <4>b, <4>c
      <4>3. request[p].version # 0
        BY <1>3, <2>1, <4>2 DEF CatalogInv, VersionsCount
      <4>4. new.status # "retired"
        BY <2>1, <3>3, <4>2, <4>3 DEF Knows, KnowsItIsUnused, r, new
      <4> QED
        BY <2>2, <2>4, <3>3, <4>4
    <3>4. CASE r # ProductRow(x) /\ r # BrandRow(b)
      BY <2>2, <3>1, <3>4 DEF CatalogInv, LiveProductsHaveLiveBrands
    <3> QED
      BY <3>2, <3>3, <3>4
  <2>9. CategoriesFormATree'
    <3> SUFFICES ASSUME NEW S \in SUBSET Category, S # {},
                        \A c \in S : row'[CategoryRow(c)].category \in S
                 PROVE  FALSE
      BY DEF CategoriesFormATree
    <3>1. \A T \in SUBSET Category :
            T # {} => \E c \in T : row[CategoryRow(c)].category \notin T
      BY DEF CatalogInv, CategoriesFormATree
    <3>2. \A c \in S : CategoryRow(c) \in Row /\ CategoryRow(c) \in Categories
      BY Kinds
    <3>3. CASE \E c \in S : r = CategoryRow(c)
      <4>1. PICK c \in S : r = CategoryRow(c)
        BY <3>3
      <4>2. new.category \in S
        BY <2>2, <3>2, <4>1
      <4>3. /\ new.category \in Passed(p)
            /\ \A d \in Passed(p) : row[CategoryRow(d)].category \in Passed(p) \cup {None}
        <5>1. r \in Categories /\ request[p].next = None /\ None \notin S
          BY <2>1, <3>2, <4>1, CatalogAssumption
             DEF Knows, KnowsItsWay, At, r
        <5> QED
          BY <2>1, <4>2, <5>1 DEF Knows, KnowsItsWay, r, new
      <4>4. \A d \in S \cap Passed(p) :
              row[CategoryRow(d)].category \in S \cap Passed(p)
        <5> SUFFICES ASSUME NEW d \in S \cap Passed(p)
                     PROVE  row[CategoryRow(d)].category \in S \cap Passed(p)
          OBVIOUS
        <5>1. CategoryRow(d) # r
          BY DEF Passed, r
        <5>2. row[CategoryRow(d)].category \in S
          BY <2>2, <3>2, <5>1
        <5> QED
          BY <4>3, <5>2, CatalogAssumption
      <4> QED
        BY <3>1, <4>2, <4>3, <4>4
    <3>4. CASE \A c \in S : r # CategoryRow(c)
      BY <2>2, <3>1, <3>2, <3>4
    <3> QED
      BY <3>3, <3>4
  <2>10. ASSUME NEW q \in Request, q # p
         PROVE  Knows(q)'
    <3>1. /\ \A s \in Row : lock'[s] = q <=> lock[s] = q
          /\ request'[q] = request[q] /\ request[q] \in RequestState
          /\ Knows(q) /\ (UnderWay(q) => request[q].row \in Row)
      BY <1>1, <2>10, EndedIsOver, CatalogAssumption
         DEF CatalogInv, CatalogTypeOK, Knows, KnowsItsRow
    <3>2. \A s \in Row : lock[s] = q /\ row[s].status # "none" => row'[s] = row[s]
      BY <2>2, <2>3, <2>10
    <3>3. KnowsItsRow(q)' /\ HoldsInOrder(q)'
      BY <3>1 DEF Knows, KnowsItsRow, HoldsInOrder, UnderWay, At, Writing, Statement
    <3>4. KnowsItsBrand(q)'
      <4> SUFFICES ASSUME request[q].step = "write", request[q].row \in Products,
                          request[q].new.brand # None
                   PROVE  /\ lock'[BrandRow(request[q].new.brand)] = q
                          /\ row'[BrandRow(request[q].new.brand)].status = "active"
        BY <3>1 DEF KnowsItsBrand, At
      <4>1. BrandRow(request[q].new.brand) \in Row
        BY <3>1, Kinds DEF RequestState, RowState
      <4> QED
        BY <3>1, <3>2, <4>1 DEF Knows, KnowsItsBrand, At
    <3>5. KnowsItIsUnused(q)'
      <4> SUFFICES ASSUME NEW b \in Brand, request[q].step = "write",
                          request[q].row = BrandRow(b),
                          request[q].new.status = "retired", request[q].version # 0,
                          HasLiveProducts(b)'
                   PROVE  FALSE
        BY <3>1 DEF KnowsItIsUnused, At
      <4> PICK x \in Product : /\ row'[ProductRow(x)].status \notin {"none", "retired"}
                               /\ row'[ProductRow(x)].brand = b
        BY Kinds DEF HasLiveProducts
      <4>1. lock[BrandRow(b)] = q
        BY <3>1 DEF Knows, KnowsItsRow, Writing, At, Statement
      <4>2. r # ProductRow(x)
        BY <2>7, <2>10, <4>1
      <4>3. /\ row[ProductRow(x)].status \notin {"none", "retired"}
            /\ row[ProductRow(x)].brand = b
        BY <2>2, <4>2, Kinds
      <4>4. HasLiveProducts(b)
        BY <4>3, Kinds DEF HasLiveProducts
      <4> QED
        BY <3>1, <4>4 DEF Knows, KnowsItIsUnused, At
    <3>6. KnowsItsWay(q)'
      <4>1. Passed(q)' = Passed(q)
        BY <3>1, Kinds DEF Passed
      <4> SUFFICES ASSUME Writing(q), request[q].row \in Categories
                   PROVE  \A c \in Passed(q) :
                            row'[CategoryRow(c)] = row[CategoryRow(c)]
        BY <3>1, <4>1 DEF Knows, KnowsItsWay, Writing, At
      <4> QED
        BY <3>1, <3>2, Kinds DEF Knows, KnowsItsWay, Passed
    <3> QED
      BY <3>3, <3>4, <3>5, <3>6 DEF Knows
  <2> QED
    BY <1>1, <2>5, <2>6, <2>8, <2>9, <2>10, EndedIsOver DEF CatalogInv
<1> QED
  BY <1>2, <1>3 DEF Write

-----------------------------------------------------------------------------
LEMMA InitEstablishesCatalogInv == Init => CatalogInv
<1> SUFFICES ASSUME Init PROVE CatalogInv
  OBVIOUS
<1>1. NoRow \in RowState /\ Created \in RowState /\ NotSent \in RequestState
  BY DEF NoRow, Created, NotSent, RowState, RequestState
<1>2. PICK early : row = [r \in Row |-> IF r \in early THEN Created ELSE NoRow]
  BY DEF Init
<1>3. CatalogTypeOK
  BY <1>1, <1>2 DEF Init, CatalogTypeOK
<1>4. /\ \A r \in Row : /\ row[r].category = None /\ row[r].brand = None
                        /\ row[r].status = "none" <=> row[r].version = 0
      /\ \A r \in Row : lock[r] = None
      /\ \A p \in Request : request[p].step = "idle" /\ request[p].version = 0
  BY <1>2 DEF Init, NoRow, Created, NotSent
<1>5. ASSUME NEW p \in Request
      PROVE  Knows(p)
  <2>1. \A r \in Row : lock[r] # p
    BY <1>4, CatalogAssumption
  <2> QED
    BY <1>4, <2>1 DEF Knows, KnowsItsRow, HoldsInOrder, KnowsItsBrand,
       KnowsItIsUnused, KnowsItsWay, UnderWay, At, Writing, Statement
<1>6. LiveProductsHaveLiveBrands
  BY <1>4, Kinds, CatalogAssumption DEF LiveProductsHaveLiveBrands
<1>7. CategoriesFormATree
  BY <1>4, Kinds, CatalogAssumption DEF CategoriesFormATree
<1> QED
  BY <1>3, <1>4, <1>5, <1>6, <1>7 DEF CatalogInv, VersionsCount

LEMMA NextPreservesCatalogInv == CatalogInv /\ [Next]_vars => CatalogInv'
<1> SUFFICES ASSUME CatalogInv, [Next]_vars PROVE CatalogInv'
  OBVIOUS
<1>1. CASE UNCHANGED vars
  <2>1. row' = row /\ lock' = lock /\ request' = request
    BY <1>1 DEF vars
  <2>2. \A q \in Request : Knows(q)'
    BY <2>1, OthersKnow DEF CatalogInv
  <2> QED
    BY <2>1, <2>2 DEF CatalogInv, CatalogTypeOK, VersionsCount,
       LiveProductsHaveLiveBrands, CategoriesFormATree
<1>2. CASE Next
  <2> PICK p \in Request : \/ \E r \in Row : Create(p, r) \/ Patch(p, r)
                           \/ Works(p) \/ Fail(p) \/ DeadlockVictim(p)
    BY <1>2 DEF Next
  <2>1. ASSUME NEW r \in Row, Create(p, r) \/ Patch(p, r)
        PROVE  CatalogInv'
    BY <2>1, CreatePreserves, PatchPreserves
  <2>2. CASE LockOwn(p)
    BY <2>2, LockOwnPreserves
  <2>3. CASE Walk(p)
    BY <2>3, WalkPreserves
  <2>4. CASE ReferToCategory(p) \/ ReferToBrand(p)
    BY <2>4, ReferencePreserves
  <2>5. CASE CheckUses(p)
    BY <2>5, CheckUsesPreserves
  <2>6. CASE Write(p)
    BY <2>6, WritePreserves
  <2>7. CASE Fail(p) \/ DeadlockVictim(p)
    BY <2>7, RollBackPreserves DEF Fail, DeadlockVictim
  <2> QED
    BY <2>1, <2>2, <2>3, <2>4, <2>5, <2>6, <2>7 DEF Works
<1> QED
  BY <1>1, <1>2

(* However moves of categories interleave, no category comes to be above   *)
(* itself: the walk of assertCategoryParentIsAcyclic, which locks its way  *)
(* up, is enough.                                                          *)
THEOREM TreeStaysATree == Spec => []CategoriesFormATree
<1>1. CatalogInv => CategoriesFormATree
  BY DEF CatalogInv
<1> QED
  BY <1>1, InitEstablishesCatalogInv, NextPreservesCatalogInv, PTL DEF Spec

(* The lock of the brand, taken by who names it and by who retires it, is  *)
(* enough to keep retired brands out of live products.                     *)
THEOREM LiveBrandsStay == Spec => []LiveProductsHaveLiveBrands
<1>1. CatalogInv => LiveProductsHaveLiveBrands
  BY DEF CatalogInv
<1> QED
  BY <1>1, InitEstablishesCatalogInv, NextPreservesCatalogInv, PTL DEF Spec

(* What a request wants next, and what it is then doing.                   *)
LEMMA Wants ==
  ASSUME CatalogInv, NEW q \in Request, NEW r \in Wanted(q)
  PROVE  /\ r \in Row
         /\ \/ At(q, "own")
            \/ At(q, "walk") /\ request[q].row \in Categories /\ r \in Categories
            \/ /\ At(q, "category") /\ request[q].row \in Products
               /\ r \in Categories
            \/ At(q, "brand") /\ request[q].row \in Products /\ r \in Brands
<1>1. /\ Knows(q) /\ request[q] \in RequestState
      /\ UnderWay(q) => request[q].row \in Row
  BY DEF CatalogInv, CatalogTypeOK, Knows, KnowsItsRow
<1>2. Writing(q) => Needed(request[q].step, request[q].row, request[q].new)
  BY <1>1 DEF Knows, KnowsItsRow
<1>3. CASE request[q].step = "own"
  BY <1>1, <1>3 DEF Wanted, At, UnderWay
<1>4. CASE request[q].step = "walk"
  <2>1. r = CategoryRow(request[q].next) /\ request[q].row \in Categories
    BY <1>2, <1>4 DEF Wanted, At, Needed, Writing, Statement
  <2>2. request[q].next \in Category
    BY <1>1, <1>4, <2>1 DEF Knows, KnowsItsWay, At, Writing, Statement, RequestState
  <2> QED
    BY <1>4, <2>1, <2>2, Kinds DEF At
<1>5. CASE request[q].step = "category"
  <2>1. /\ r = CategoryRow(request[q].new.category) /\ request[q].row \in Products
        /\ request[q].new.category # None
    BY <1>2, <1>5 DEF Wanted, At, Needed, Writing, Statement
  <2>2. request[q].new.category \in Category
    BY <1>1, <2>1 DEF RequestState, RowState
  <2> QED
    BY <1>5, <2>1, <2>2, Kinds DEF At
<1>6. CASE request[q].step = "brand"
  <2>1. r = BrandRow(request[q].new.brand) /\ request[q].new.brand # None
    BY <1>2, <1>6 DEF Wanted, At, Needed, Writing, Statement
  <2>2. request[q].new.brand \in Brand /\ request[q].row \in Products
    BY <1>1, <1>6, <2>1 DEF RequestState, RowState, Knows, KnowsItsRow, Writing, At,
       Statement, UnderWay
  <2> QED
    BY <1>6, <2>1, <2>2, Kinds DEF At
<1> QED
  BY <1>3, <1>4, <1>5, <1>6 DEF Wanted, At

(* Who waits while others wait for it is past its own row.  A brand then   *)
(* waits for nothing; a product that waits for a category is waited for    *)
(* only by who wants that product, and holds nothing yet; and a product    *)
(* that waits for a brand waits for who holds that brand and nothing more  *)
(* to wait for.                                                            *)
LEMMA CyclesAreOfCategories == CatalogInv => OnlyTheTreeDeadlocks
<1> SUFFICES ASSUME CatalogInv, NEW p \in Request, InCycle(p),
                    request[p].row \notin Categories
             PROVE  FALSE
  BY DEF OnlyTheTreeDeadlocks
<1>1. PICK S \in SUBSET Request :
        /\ p \in S
        /\ \A q \in S : /\ \E s \in S : WaitsFor(q, s)
                        /\ \E s \in S : WaitsFor(s, q)
  BY DEF InCycle
<1>2. \A q \in S : Knows(q)
  BY <1>1 DEF CatalogInv
<1>3. ASSUME NEW q \in S, NEW r \in Row, lock[r] = q
      PROVE  /\ ~ At(q, "own")
             /\ request[q].row \in Categories => r \in Categories
             /\ request[q].row \in Products /\ At(q, "category") => r \in Products
             /\ request[q].row \in Products /\ At(q, "brand") => r \notin Brands
  BY <1>2, <1>3, Kinds DEF Knows, HoldsInOrder, Writing, At, Statement
<1>4. ASSUME NEW q \in S
      PROVE  ~ At(q, "own")
  <2>1. PICK s \in S : WaitsFor(s, q)
    BY <1>1
  <2>2. PICK r \in Wanted(s) : lock[r] = q
    BY <2>1 DEF WaitsFor
  <2> QED
    BY <1>1, <1>3, <2>2, Wants
<1>5. ASSUME NEW q \in S
      PROVE  ~ (At(q, "category") /\ request[q].row \in Products)
  <2>1. PICK s \in S : WaitsFor(s, q)
    BY <1>1
  <2>2. PICK r \in Wanted(s) : lock[r] = q
    BY <2>1 DEF WaitsFor
  <2>3. r \in Row /\ r \in Categories \cup Brands
    BY <1>1, <1>4, <2>2, Wants
  <2> QED
    BY <1>3, <2>2, <2>3, Kinds
<1>6. At(p, "brand") /\ request[p].row \in Products
  <2>1. PICK s \in S, r \in Row : r \in Wanted(p) /\ lock[r] = s
    BY <1>1, Wants DEF WaitsFor
  <2> QED
    BY <1>1, <1>4, <1>5, <2>1, Wants
<1>7. PICK h \in S, b \in Brands : lock[b] = h
  <2>1. PICK s \in S : WaitsFor(p, s)
    BY <1>1
  <2>2. PICK r \in Wanted(p) : lock[r] = s
    BY <2>1 DEF WaitsFor
  <2> QED
    BY <1>6, <2>2, Wants, Kinds DEF At
<1>8. PICK w \in Wanted(h) : w \in Row
  BY <1>1, Wants DEF WaitsFor
<1> QED
  BY <1>1, <1>3, <1>4, <1>5, <1>7, <1>8, Wants, Kinds

(* The order of locks, own row, category, brand, keeps every request that  *)
(* changes a product or a brand out of deadlock.                           *)
THEOREM DeadlocksAreInTheTree == Spec => []OnlyTheTreeDeadlocks
BY CyclesAreOfCategories, InitEstablishesCatalogInv, NextPreservesCatalogInv, PTL
   DEF Spec
=============================================================================
