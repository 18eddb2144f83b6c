------------------------- MODULE CatalogReferences -------------------------
(***************************************************************************)
(* Categories, brands and products under concurrent requests: what names   *)
(* what.  Each request is one READ COMMITTED transaction.  A SELECT ... FOR*)
(* UPDATE waits for the row's lock and reads what is then committed; the   *)
(* row is written by the last statement, with which the transaction commits*)
(* and gives up its locks.                                                 *)
(*                                                                         *)
(* Variants are CatalogVariants' business; a request they, or anything else*)
(* in it, make fail is Fail.  Codes and the idempotency of creation are not*)
(* modelled here.                                                          *)
(***************************************************************************)
EXTENDS Naturals

CONSTANTS Category, Brand, Product,
          Request,   \* numbered in the order in which they are sent, once
          Asking,    \* bound: the statuses that requests ask for
          None

ASSUME CatalogAssumption ==
  /\ Request \subseteq Nat
  /\ Asking \subseteq {"active", "inactive", "retired"}
  /\ None \notin Category \cup Brand \cup Request

CategoryRow(c) == <<"category", c>>
BrandRow(b) == <<"brand", b>>
ProductRow(x) == <<"product", x>>

Categories == {CategoryRow(c) : c \in Category}
Brands == {BrandRow(b) : b \in Brand}
Products == {ProductRow(x) : x \in Product}
Row == Categories \cup Brands \cup Products

VARIABLES
  row,      \* the committed rows
  lock,     \* who holds each row
  request   \* what each request is doing

vars == <<row, lock, request>>

(* There is a row that is "active", "inactive" (as a draft product is here)*)
(* or "retired".  The category of a category is its parent.                *)
NoRow == [status |-> "none", category |-> None, brand |-> None, version |-> 0]

(* Of a request: its next statement; the row it writes; the version of     *)
(* that row it was sent with (If-Match; 0 to create); what it will write;  *)
(* and the category its walk up the tree has come to.                      *)
NotSent == [step |-> "idle", row |-> None, version |-> 0, new |-> NoRow,
            next |-> None]

Created == [NoRow EXCEPT !.status = "active", !.version = 1]

(* Some categories and brands were created before, at the root.            *)
Init == /\ \E early \in SUBSET (Categories \cup Brands) :
             row = [r \in Row |-> IF r \in early THEN Created ELSE NoRow]
        /\ lock = [r \in Row |-> None]
        /\ request = [p \in Request |-> NotSent]

-----------------------------------------------------------------------------
(* Transactions                                                            *)

At(p, step) == request[p].step = step
UnderWay(p) == ~ At(p, "idle") /\ ~ At(p, "done")

End(p) == /\ request' = [request EXCEPT ![p] = [NotSent EXCEPT !.step = "done"]]
          /\ lock' = [r \in Row |-> IF lock[r] = p THEN None ELSE lock[r]]

RollBack(p) == End(p) /\ UNCHANGED row

Fail(p) == UnderWay(p) /\ RollBack(p)

(* The row whose lock p's next statement takes. *)
Wanted(p) ==
  CASE At(p, "own") -> {request[p].row}
    [] At(p, "walk") -> {CategoryRow(request[p].next)}
    [] At(p, "category") -> {CategoryRow(request[p].new.category)}
    [] At(p, "brand") -> {BrandRow(request[p].new.brand)}
    [] OTHER -> {}

(* FOR UPDATE *)
LockUnheld(r, p) == UNCHANGED lock
Lock(r, p) == lock[r] \in {None, p} /\ lock' = [lock EXCEPT ![r] = p]

WaitsFor(p, q) == q # p /\ \E r \in Wanted(p) : lock[r] = q

InCycle(p) == \E S \in SUBSET Request :
                /\ p \in S
                /\ \A q \in S : /\ \E s \in S : WaitsFor(q, s)
                                /\ \E s \in S : WaitsFor(s, q)

DeadlockVictim(p) == InCycle(p) /\ RollBack(p)

-----------------------------------------------------------------------------
(* What a request may ask of a row: a brand names nothing, a category its  *)
(* parent, a product a category and a brand; or it leaves them as they are.*)
Asked(r) ==
  {new \in [status : Asking,
            category : IF r \in Brands THEN {None} ELSE Category \cup {None},
            brand : IF r \in Products THEN Brand \cup {None} ELSE {None},
            version : {row[r].version + 1}] :
     r \in Products /\ row[r].status = "none" => new.status # "retired"}

(* The statements of the service: validateParent; or validateReferences,   *)
(* the category before the brand; or, to retire a brand, who uses it; and  *)
(* the write.                                                              *)
Needed(step, r, new) ==
  CASE step = "walk" -> r \in Categories /\ new.category # None
    [] step = "category" -> r \in Products /\ new.category # None
    [] step = "brand" -> new.brand # None
    [] step = "uses" -> r \in Brands /\ new.status = "retired" /\ new.version > 1
    [] OTHER -> TRUE

BrandFirstToPatch(r) ==
  IF row[r].status = "none"
    THEN [own |-> 0, walk |-> 1, category |-> 2, brand |-> 3, uses |-> 4, write |-> 5]
    ELSE [own |-> 0, walk |-> 1, category |-> 3, brand |-> 2, uses |-> 4, write |-> 5]

Order(r) == [own |-> 0, walk |-> 1, category |-> 2, brand |-> 3, uses |-> 4, write |-> 5]

Statement == {"walk", "category", "brand", "uses", "write"}

(* The first statement needed after another one. *)
Follows(step, other, r, new) ==
  LET later == {s \in Statement : /\ Needed(s, r, new)
                                  /\ Order(r)[other] < Order(r)[s]}
  IN  step \in later /\ \A s \in later : Order(r)[step] <= Order(r)[s]

Go(p) == \E step \in Statement :
           /\ Follows(step, request[p].step, request[p].row, request[p].new)
           /\ request' = [request EXCEPT ![p].step = step]

Start(p, r, new) ==
  \E step \in Statement :
    /\ Follows(step, "own", r, new)
    /\ request' = [request EXCEPT ![p].step = step, ![p].row = r, ![p].new = new,
                                  ![p].next = new.category]

MaySend(p) == /\ At(p, "idle")
              /\ \A q \in Request : q < p => ~ At(q, "idle")

(* createCategory, createBrand, createProduct *)
Create(p, r) == /\ MaySend(p)
                /\ row[r].status = "none"
                /\ \E new \in Asked(r) : Start(p, r, new)
                /\ UNCHANGED <<row, lock>>

(* patchCategory, patchBrand, patchProduct, of a version that was read.    *)
Patch(p, r) == /\ MaySend(p)
               /\ row[r].status # "none"
               /\ request' = [request EXCEPT
                    ![p].step = "own", ![p].row = r,
                    ![p].version = row[r].version]
               /\ UNCHANGED <<row, lock>>

(* lockCategory, lockBrand or lockProduct, and the checks of the row.  A   *)
(* retired category or brand is not changed; a retired product may be.     *)
Changeable(r) == r \in Products \/ row[r].status # "retired"

LockOwn(p) ==
  LET r == request[p].row
  IN  /\ At(p, "own")
      /\ \/ /\ row[r].version = request[p].version
            /\ Changeable(r)
            /\ Lock(r, p)
            /\ \E new \in Asked(r) : Start(p, r, new)
            /\ UNCHANGED row
         \/ /\ row[r].version # request[p].version \/ ~ Changeable(r)
            /\ lock[r] = None
            /\ RollBack(p)

(* assertCategoryParentIsAcyclic: each category up to the root is locked,  *)
(* and none may be the category itself or one it has been through.  What   *)
(* the walk has been through is what it holds.                             *)
Visited(p, c) == CategoryRow(c) = request[p].row \/ lock[CategoryRow(c)] = p

Walk(p) ==
  LET c == request[p].next
      r == CategoryRow(c)
  IN  /\ At(p, "walk")
      /\ \/ /\ ~ Visited(p, c)
            /\ row[r].status # "none"
            /\ Lock(r, p)
            /\ \E step \in Statement :
                 /\ IF row[r].category = None
                      THEN Follows(step, "walk", request[p].row, request[p].new)
                      ELSE step = "walk"
                 /\ request' = [request EXCEPT ![p].step = step,
                                               ![p].next = row[r].category]
            /\ UNCHANGED row
         \/ /\ \/ Visited(p, c)
               \/ row[r].status = "none"
            /\ RollBack(p)

(* validateReferences: `status = 'active' ... for update' is looked at     *)
(* again once the lock is there.                                           *)
Refer(p, r) ==
  \/ /\ row[r].status = "active"
     /\ Lock(r, p)
     /\ Go(p)
     /\ UNCHANGED row
  \/ /\ row[r].status # "active"
     /\ lock[r] \in {None, p}
     /\ RollBack(p)

ReferToCategory(p) == /\ At(p, "category")
                      /\ Refer(p, CategoryRow(request[p].new.category))

ReferToBrand(p) == /\ At(p, "brand")
                   /\ Refer(p, BrandRow(request[p].new.brand))

(* hasActiveBrandProducts, as committed when it is asked. *)
HasLiveProducts(b) ==
  \E x \in Products : /\ row[x].status \notin {"none", "retired"}
                      /\ row[x].brand = b

CheckUses(p) ==
  /\ At(p, "uses")
  /\ IF \E b \in Brand : /\ request[p].row = BrandRow(b)
                         /\ HasLiveProducts(b)
       THEN RollBack(p)
       ELSE Go(p) /\ UNCHANGED <<row, lock>>

(* The insert, unless the identifier was taken meanwhile, or the update,   *)
(* `where version = $3'; and the commit.                                   *)
Write(p) ==
  LET r == request[p].row
  IN  /\ At(p, "write")
      /\ End(p)
      /\ IF row[r].version = request[p].version
           THEN row' = [row EXCEPT ![r] = request[p].new]
           ELSE UNCHANGED row

Works(p) == \/ LockOwn(p) \/ Walk(p) \/ ReferToCategory(p) \/ ReferToBrand(p)
            \/ CheckUses(p) \/ Write(p)

Next == \E p \in Request :
          \/ \E r \in Row : Create(p, r) \/ Patch(p, r)
          \/ Works(p) \/ Fail(p) \/ DeadlockVictim(p)

Spec == Init /\ [][Next]_vars

-----------------------------------------------------------------------------
(* However moves of categories interleave, no category is above itself.    *)
CategoriesFormATree ==
  \A S \in (SUBSET Category) \ {{}} :
    \E c \in S : row[CategoryRow(c)].category \notin S

(* No product that is not retired names a retired brand, though the brand  *)
(* is retired by one request while another gives it to a product, or takes *)
(* a product out of retirement.                                            *)
LiveProductsHaveLiveBrands ==
  \A x \in Product, b \in Brand :
    /\ row[ProductRow(x)].status \notin {"none", "retired"}
    /\ row[ProductRow(x)].brand = b
    => row[BrandRow(b)].status \notin {"none", "retired"}

(* The order in which locks are taken keeps requests that change a product *)
(* or a brand out of every cycle of waits: only walks up the tree have     *)
(* them.                                                                   *)
OnlyTheTreeDeadlocks ==
  \A p \in Request : InCycle(p) => request[p].row \in Categories
=============================================================================
