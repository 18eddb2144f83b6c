# A verification project for the AS platform

TLA+ modules, TLC runs and TLAPS proofs about the program under `src/`: a
TypeScript monorepo whose API server (`apps/api`) keeps the stock, catalog,
settings and sessions of companies in PostgreSQL, with a worker that does
nothing yet (`apps/worker`) and a Flutter client (`apps/one`).

Every state-changing request is one PostgreSQL transaction, `begin` at the
default isolation level READ COMMITTED. Servers share nothing but the database.
What can go wrong is therefore a matter of which rows are locked when, what is
read before it is locked, which version of a document a caller had seen, what a
retry repeats, and how long sequences of legal commands leave rows that belong
together.

## 1. Inventory of the system

Paths are relative to `src/apps/api/src/modules/` unless they start with `src/`.

| Component | State it keeps | Operations | What is hard | What makes it correct |
|---|---|---|---|---|
| Drafts, `inventory/inventory-drafts.*` | `inventory_movements`, `inventory_movement_lines` | create, patch, add/patch/delete line, cancel | stale editors | nobody acts on a version he has not seen; a line edit moves the version too |
| Posting, `inventory/inventory-posting.*` | the same and `inventory_balances` | submit, post | many rows, some missing, one transaction; overflow | a balance is the sum of what was posted; never below what is reserved |
| Reversal, `inventory/inventory-reversal.*` | the same | reverse | what is stored against what is applied | reciprocal links; the ledger reconstructs the balance |
| Reservations, `inventory/reservation.*` | `inventory_reservations`, lines, `quantity_reserved` | create, confirm, release, cancel, expire on demand | deadlines and late requests; competition for stock | reserved quantity is what active reservations hold |
| Transfers, `inventory/inventory-transfers.*` | `inventory_transfers`, lines, `quantity_in_transit` | create, approve, reject, cancel, ship, receive | three locations, two movements | in transit is what was shipped and not received |
| Counts, `inventory/inventory-counts.*` | `inventory_counts`, lines | create, start, record, submit, approve, apply, cancel | stock moves during a count; durable lock that expires | no comparison passed after stock moved; one count at a location |
| Idempotency, `idempotent()` in the repositories | `idempotency_keys`, advisory locks | wraps every keyed command | crash between statements, lost answers, concurrent retries | at most one effect per key; a retry is told what happened |
| Row locking, `lockBalances`, `createInboundBalances` | row locks | lock, insert missing, lock again | missing rows, lock order | commands are atomic; each ends |
| Reconciliation, `inventory/inventory-reconciliation.*` | findings | scan in chunks, resolve missing | reads while commands commit | a finding is drift; its absence is not |
| Repair, `inventory/inventory-repair.*` | findings, balances | acknowledge, dismiss, preview, repair | writes a value computed before locking | repairs to what the authorities say |
| Locations, `inventory/inventory.*` | `inventory_locations` | create, patch, deactivate, retire | open documents | nothing open at a location that is closed |
| Authentication, `auth/*` | `sessions`, `session_refresh_tokens`, `auth_login_challenges` | login, company selection, refresh, switch, logout | rotation against revocation, lost answers, challenge attempts | a revoked session has no active token; one session per challenge |
| Catalog, `catalog/*` | categories, brands, products, variants, barcodes, options | create, patch, retire | check then retire; lock order | nothing active names something retired; one default variant, one primary barcode |
| Settings, `admin/settings/*` | `company_settings`, `branch_settings` | set, reset, read effective | virtual version 1, first insert | versions never go back; inheritance |
| Administration, `admin/shared/*` and the routes | companies, branches, roles, memberships, devices | updates | sessions issued before | permission changes reach running sessions |
| Owner bootstrap, `src/apps/api/src/development` | all of the above | one transaction of upserts | - | development only |
| Operations, `src/apps/api/src/operations` | none | checks, shadow rebuild, backup verification | - | read-only |
| Server, `src/apps/api/src/bootstrap`, `server.ts`, plugins | process state | start, serve, shut down | signals against timeout | one shutdown, with an exit code |
| Worker, `src/apps/worker` | none | waits for a signal | - | - |
| Database package, `src/packages/database` | schema, migrations | - | constraints as last guard | - |
| Config, errors, logger, `src/packages/*` | none | - | - | - |
| Client, `src/apps/one` | session and view state | refresh, select company | one refresh at a time | signed in or signed out |

How they interact: movements, reservations, transfers, counts and repairs all
write `inventory_balances`, each locking the rows it changes; reservations,
transfers and counts insert posted movements; every keyed command goes through
the idempotency table; locations, variants and branches are read by inventory
commands without a lock; reconciliation reads what the others commit, chunk by
chunk, and a repair writes what was read; products lock the categories and the
brands they name; every command of every component runs on behalf of a session.

The hazards of all of it, at their lines, are listed in `PROJECT.json`, also
those no property covers yet.

## 2. Modules

| Module | Models | Extends or instantiates |
|---|---|---|
| `InventoryBalances` | balance rows, signed effect of lines, bounds of a posting | |
| `StockWriters` | abstract: what commands have in common that write rows | `InventoryBalances` |
| `InventoryMovements` | drafts, submission, posting, reversal | `InventoryBalances` |
| `InventoryReservations` | reservations and the clock | `InventoryMovements` |
| `InventoryTransfers` | transfers | `InventoryMovements` |
| `Inventory` | their composition, and what is claimed of it | both; implements `StockWriters` |
| `InventoryProofs` | theorems about it and about `MovementEditing` | both |
| `MovementEditing` | callers with If-Match | `InventoryMovements` |
| `ExactlyOnce` | abstract: what an idempotency key promises | |
| `IdempotentCommand` | the transaction of a keyed command | implements `ExactlyOnce` |
| `AtomicPosting` | abstract: a writer changes all its rows or none | |
| `BalanceLocking` | writers statement by statement | implements `AtomicPosting` |
| `InventoryCounts` | counts, among other commands | `StockWriters`, and implements it |
| `InventoryReconciliation` | scans, findings and repairs of one balance row, while commands change it | |
| `TokenChain` | abstract: one usable refresh token after the other | |
| `AuthSessions` | refresh, reuse, switches and logouts, statement by statement | implements `TokenChain` |
| `Authentication` | the same with login challenges | `AuthSessions` |
| `CatalogReferences` | categories, brands and the products that name them, statement by statement | |
| `CatalogVariants` | a product with variants, options, values, barcodes | |
| `IdempotentCommandProofs`, `BalanceLockingProofs`, `InventoryCountsProofs`, `InventoryReconciliationProofs`, `AuthenticationProofs`, `CatalogReferencesProofs`, `CatalogVariantsProofs` | the theorems about each | the module named |

`MC*` modules hold instances for TLC; `Authentication` needs none.

### How state and actions correspond to the code

- **A command is one action** where every row it computes from is locked to the
  end of its transaction, with the guards of its whole handler and all it
  writes. `BalanceLocking` opens such commands up and checks that they implement
  atomic writers. Where a command reads without a lock, it is several actions:
  approval and application of a count, a repair, all of authentication, and
  commands on categories and brands, which lock one row after the other.
- **Approval and application of a count** start with a comparison (`noDrift`)
  that locks no balance row: `BeginApprove`, `BeginApply`. Meanwhile the count's
  own row is locked (`Compared`; `comparedAt` keeps the time of the request, from
  which the next expiry is reckoned), while stock moves on. `FinishApprove` and
  `FinishApply` commit whatever has moved since; `RollBack` is a refusal, an
  error or a lost connection.
- **A balance row** (`Row`) is on hand, reserved, in transit, `version` and
  `last_movement_id`. An absent row has the values `createInboundBalances`
  would insert. A command that is refused rolls back, also a row it inserted,
  so it is no step; one of several actions has an action that undoes it or fails.
- **A version** the caller presents is the parameter `expected`. `Inventory`
  gives it the current one, for a stale one is refused; `MovementEditing` and
  `CatalogReferences` make callers read first and act later.
- **A posted movement** of a reservation, transfer or reversal is inserted by
  the action of that document, as in the code. `reservation[r].movement` stands
  for the reference the issue movement carries.
- **Reversal lines** are stored as `insertReversalLines` stores them: exchanged
  a second time (`StoredReversalLines`); the balances get `InverseLines`.
- **Time** is a counter. A request carries a timestamp taken when it began;
  `RequestTime` lets it be up to `MaxDelay` old when its transaction runs.
- **Expiry** has no worker in the code: `Expire` is both the `expire` action of
  the release endpoint and what the others do when they find the deadline past.
- **The surroundings of a count** (`OtherCommand`) are all of `Inventory`, by
  way of `StockWriters`: in one step some rows get their next version, under a
  new movement if stock moves, or with another reserved quantity if none does.
  `Inventory` implements it, so what holds of counts beside it holds beside the
  real commands. (Repairs follow other rules and are not among them.) A shipment
  can arrive at a location that is counted, so a row may appear with stock in
  transit only; `Travelling` says which quantities may.
- **A scan** (`InventoryReconciliation`) is a start, chunks (`ReadChunk`, each a
  snapshot of its own over what is committed and not later than the start),
  one statement per finding (`Persist`) and `EndScan`; it can fail at each.
  `CANDIDATE_SQL` is `Authority`, `IsCandidate` and `Evidence`. Movements and
  reservations of quantity one go on beside it, with the commands of
  `Inventory` cut down to what the fold tells apart. A fingerprint is its
  evidence. The history variable `absent` is what each scan has read as being
  in order.
- **A repair** is `Preview`, `Validate` (it locks the finding and detects it
  again) and `Apply` (it locks the balance and writes): the code has these in
  this order, the last two in one transaction.
- **A refresh token** is its session and generation, both unique in the tables.
  What a request still wants to lock is `want`, what it will do then is `step`:
  `rotate_token`, `insert`, `write_session` are the statements of
  `rotateRefreshToken`. What is written shows at the commit (`End`), and `Fail`
  loses it at any statement. Logout is two transactions, as in the code.
- **A login challenge** is read without a lock (`BeginSelection`), then counted
  up or consumed; `issued` is a history variable, the sessions it was spent on.
- **A catalog request** (`CatalogReferences`) has its next statement, `step`:
  its own row, the walk up the tree (`assertCategoryParentIsAcyclic`), category
  and brand (`validateReferences`), the products of a brand, the write, those it
  needs (`Needed`) in the order of its handler (`Order`, `Follows`).
- **Products and variants** (`CatalogVariants`) are locked through their
  product, so each command is one action; `ValidState` is
  `validateProductVariantState`, `IndexesHold` the unique indexes.

Abstracted: identifiers, quantities (small integers; the scale of numeric(19,6)
and its maximum become `MaxQuantity`), costs, names, notes, reasons, references,
line numbers, units, passwords, permissions, access tokens, authorization by
branch, pagination. Left out: audit and outbox rows (no command reads them).
Locations are active throughout, and so are the variants inventory moves.

## 3. Runs

Configurations say `CHECK_DEADLOCK FALSE` where documents or requests are
finite in number and all may be done, so that nothing is left to do; only
`catalog_variants` never stops.

| Run | Instance | States | What it shows |
|---|---|---|---|
| `workflow` | 3 locations in 2 branches, 4 movements, 2 transfers, 1 reservation, clock to 1, requests up to 1 late | 162 964 | balances stay in range and cover reservations; on hand, reserved and in transit are what movements, active reservations and shipments amount to; what is set aside can be taken; reversals are reciprocal; each workflow movement has one owner; completed documents stay; implements `StockWriters` |
| `editing` | 2 callers, 3 movements, drafts to version 2 | 377 698 | a command changes only a movement its caller has seen as it is; posted facts stand |
| `idempotency` | 3 attempts, 2 keys, versions to 2, failure anywhere | 52 205 | implements `ExactlyOnce`; effects and rows correspond; every attempt ends |
| `locking` | posting, receipt, confirmation, issue over 4 rows, present, empty or missing | 11 127 | implements `AtomicPosting`; every writer ends |
| `counting` | 2 counts of 2 variants, quantities to 1, 2 movements of counts and others | 1 025 198 | once its stock has moved, even back, a count passes no comparison and is not applied; submitted figures stand; application is whole, once, by the counted differences, and keeps reservations covered |
| `reconciliation` | 2 scans, chunks of 1, a row that is lost or starts damaged, 2 movements, 1 reservation, 2 revisions, 1 repair | 701 620 | a repair does what was previewed and no more; one live revision, ended for good; a finding is resolved only by its repair or by a scan that read its type as being in order |
| `authentication` | 3 requests of any kind over 2 sessions of 3 generations, 1 challenge of 2 attempts, failure anywhere | 65 394 | implements `TokenChain`; an active session has one active token; a session in which reuse was found is over; a challenge is spent once; every request ends |
| `catalog_references` | 3 requests over 3 categories, a brand, a product | 581 233 | categories are a tree; live products name live brands; only moves in the tree deadlock |
| `catalog_variants` | a product, 3 variants, 2 values of one option, a code | 198 371 | one default variant; options outlive active variants; options are the product's own, barcodes and defaults unique |

### Where the code and its documents disagree

Three runs check a sentence of the documents and find it violated.

- `ledger`. `docs/INVENTORY_ENGINE.md` says that a reversal mirrors its original
  with source and destination exchanged and that folding the ledger
  reconstructs every balance. The code exchanges twice: once for the balances,
  and again when it stores the lines. Post one and reverse it: the balance is 0
  and the fold 2. A scan then reports drift, and the repair it proposes would
  write the fold.
- `counting_drift`. E122 is to refuse any drift. The check reads without a lock
  and the lock comes later, without a check: stock that moves in between is
  kept, and the difference added to it. The comparison of an approval (E121) has
  the same gap: a count can become approved though its stock has just moved.
  That one does no harm to the stock, for application compares with the same
  baseline again, and the move stays visible in the version of the row
  (`OvertakenCountsAreNotApplied`); only a move behind the last comparison is
  missed.
- `repair_stale`. A repair is to compare the stored evidence with current
  values under the lock of the balance. It compares before it takes that lock: a
  movement committed in between is overwritten by the quantity that was
  validated.

Others were met while modelling. The models follow the code, and no run is spent
on them:

- Posting locks the rows it finds and then inserts those it misses, a receipt
  the other way: `docs/INVENTORY_OPERATIONS_DESIGN.md:388` has one lock order
  for all writers. The database aborts one of a cycle and nothing retries;
  `locking` holds with such aborts.
- An expired count is to be taken over by the next start (the same, `:710`). No
  code does; an approved count past its expiry can be neither applied nor
  cancelled, and its location cannot be counted again. After drift a new count is
  required (`:698`), but if the stock moves once a count is approved the same
  holds: nothing applies or cancels that count any more, and no other starts at
  its location (`OvertakenApprovalsBlock`).
- `docs/INVENTORY_ENGINE.md:348` has `retired` as the last status of catalog
  rows. `patchProduct` and `patchVariant` take it back; `CatalogVariants` lets
  them.
- A brand in use is not retired, but nothing looks whether a category is;
  products go on naming retired categories. A retired variant keeps its
  barcodes.
- A scan that started before the one that first detected a finding fails on
  `detection_time_ck` when it meets it (`Persist`); one that started earlier can
  also resolve what a later one detected.
- The cut of a scan is `posted_at`, the time at which a request started. A
  movement that commits late is in the balance or not, whatever its
  timestamp says, so a scan may find drift that is none. Nothing in the server
  calls `scan` yet but its tests.
- Logout revokes the session and, in another transaction, its tokens; an active
  token of a revoked session can be left. It is of no use: `TokenChain` counts
  a token as usable only if its session is active, as `findRefreshToken` does.
- Reuse "revokes remaining active hashes" (`docs/AUTHENTICATION_FOUNDATION.md:50`).
  A refresh that read its token before a logout revoked the session goes on to
  insert the next one (`rotateRefreshToken` asks nothing of the session); if the
  reuse of an older token was recorded in between, that one stays active beside
  it. It is of no use either, so `ReuseEndsTheSession` says that the session is
  over, not that no token of it is active.

### Bounds, and why they are enough

Quantities up to 2 give an empty row, a row that is partly and one that is
wholly reserved or taken, and one too many. A reversal of a reversal takes three
movements; four let two stocked transfers ship, or one be received beside one
that ships. Two documents compete for one stock. `OneDraftAtATime` lets drafts
follow each other and does not go on from a cancelled one, for a draft touches
nothing but itself until it is posted, and drafts side by side are what
`editing` is about; `StockArrivesAtTheShop` lets drafts of `workflow` be opening
balances of the shop. `MaxVersion` stops drafts from being edited for ever: one
edit after its creation leaves a reader of the draft behind. A clock that ticks
once with delay 1 has a request that began before a deadline and runs after it.

Two attempts at one key and one at another give retries during and after the
first, and competition for a version. `MaxTime` and `MaxVersion` of counts allow
an expiry, and a row that moves twice (away and back). With two variants,
quantities of `counting` go to 1: a line of a count is short, right or over, and
two lines tell an application in part from a whole one; `counting_drift` has one
variant with quantities to 2 and three movements. `Travelling` is empty in both:
no command of a count looks at what is in transit.

In `reconciliation` the row is lost, has lost a unit, or has one too many on
hand and one reserved (`Damaged`), which has every type of finding, singly and
together; chunks of one make each scan of two findings several snapshots; two
revisions are an old one and a new one of a type; `MaxVersion` stops people from
changing a finding for ever; one repair meets scans, and is refused
when they revise its finding. Commands have `MaxDelay` 0; `repair_stale`, with
commands that begin before a chunk and end after it, has 1.

Three requests are two that race and a third to find what they left; a session
has three generations, so that a token can be spent twice over; two sessions are
one and its replacement. Three categories have a cycle of two, closed by
two moves, and one of three, through a category that neither of them moves.
Three variants are a default and two to take its place.

### Fairness

Safety runs have none. `IdempotentCommand` assumes weak fairness of each
attempt's own statements: the server runs its sessions and PostgreSQL hands a
released lock to a waiter; neither sending nor failing is assumed. No two
attempts keep a lock from a third for ever, for each attempt ends. In
`BalanceLocking` each writer's statements are weakly fair for the same reason,
and so is its being the victim of a deadlock, because PostgreSQL's detector
runs after `deadlock_timeout`; without that assumption writers in a cycle would
wait for ever. `Authentication` assumes less: as long as some request can run a
statement or is in a cycle, some request does or is aborted. A scan makes no
claim of ending: whoever calls it may stop.

## 4. Proofs

Proved for all values of the constants, from the assumptions the modules declare
of them (each names its own, `BalanceAssumption` to `AuthAssumption`), which TLC
evaluates on each run. They bound nothing. Some say that a set is finite
(identifiers of documents, locations, variants, keys): a table has finitely many
rows, and a sum or a cardinality over an infinite set means nothing.

### Movements, reservations, transfers: `InventoryProofs`

- `TypeCorrect`: `Spec => []TypeOK`. In particular no quantity leaves
  `0..MaxQuantity`, whatever is posted, reversed, reserved and shipped.
- `NeverOversold`: `Spec => []ReservedIsCovered`. No row has less on hand than
  is reserved. Neither is inductive alone: that a confirmation keeps on hand
  within range needs that reserved is within on hand, and that a shipment keeps
  reserved covered needs both to be numbers. The invariant is their conjunction
  `StockInv`, with a lemma per command; lemmas on `Delta` and on the rewriting
  of rows carry the arithmetic.
- `ReversalsReciprocal`, `PostedFactsAreKept`. Every command of every document
  changes movements in one of two ways: one that is not posted goes on
  (`Advances`), or a posted one is reversed by a new one (`IsReversed`);
  `MovementsChange` says so, and reciprocity is inductive over these two.
- `TerminalStays`: completed reservations and transfers stay.
- `RowChangesTraced`: a row that changes gets its next version and, if stock
  moves, the movement that this step posts.
- `CommandsImplementWriters`: `Inventory` implements `StockWriters`. A movement
  is used once it is posted or reversed. Each command writes under the movement
  it posts, or under none; a row is made only where more than nothing arrives
  (`LeftUnderMovement`), and without a movement some quantity is reserved or
  given back, for a reservation holds more than nothing (`LeftReserved`).
- `WorkflowMovementsAreOwned`. What is counted in the property is, in the
  invariant `OwnerInv`, a correspondence (`Owned`): documents name movements of
  their type, each its own, and every movement of the type is named. It rests on
  `DocumentInv`: what is not posted is manual, so the movement a workflow posts
  was of no workflow before; the places and lines of a document are distinct.
- `CommandsSeeWhatTheyChange` (of `EditingSpec`): `SeenInv`, what a caller has
  seen at the version a movement is at is what it is, since nothing changes a
  draft without its version, and versions do not go back.

The sums over documents come last in that module.

- `OnHandIsPosted`, `ReservedIsHeld`, `InTransitIsOnItsWay`: each quantity of
  each row is the sum of what the documents amount to there (`OnHandInv`,
  `HeldInv`, `ShippedInv`). A sum is a fold over a finite set. That it is
  determined by its summands, that one summand comes out of it, that it is
  additive: each is shown of a smallest set for which it fails, which exists
  because the proper subsets of a finite set are well founded. A command then
  changes at most two summands, and the row by as much.
- `SetAsideStockStays`: a summand is no more than the sum, and reserved is
  covered.

Reversal is where `OnHandIsPosted` says most: the original no longer stands, its
reversal never does, and the inverse lines take out what the lines put in.
`LedgerReconstructsOnHand`, which the run `ledger` refutes, differs from it in
that it folds what is stored.

### Commands, statement by statement

- `IdempotentCommandProofs`: `CommandsAreTyped`, `EveryEffectIsRecorded` and
  `CommandsHappenOnce`, which says that `CommandSpec` implements `ExactlyOnce`.
  Init maps to Init; the commit is `Apply`, a response or a refusal that ends
  the transaction is what the caller hears, and each other statement stutters.
  The invariant says, per attempt and statement, which locks it holds, what it
  has read under them, and hence that the key has no row when it inserts one.
- `BalanceLockingProofs`: `WritersAreAtomic`, `LockingSpec` implements
  `AtomicPosting`. What a running writer has found it owns, and nobody has
  changed it (`ReadsStand`), whether it was there or missing at first.
- `AuthenticationProofs`: `AuthenticationIsTyped`, `ActiveSessionsHaveOneToken`,
  `ReuseIsFatal`, `TokensAreExchangedOnce`, `SessionsAreChains` (each step is a
  step or a stutter of `TokenChain`) from `AuthInv`, and `ChallengesAreSpentOnce`
  from `ChallengeInv`. `Knows(p)` is what request `p` relies on at each of its
  statements: the rows it has locked, and what it read of them; what it read
  before it locked is relied on only where the code compares again.
- `CatalogReferencesProofs`: `TreeStaysATree`, `LiveBrandsStay`,
  `DeadlocksAreInTheTree` from `CatalogInv`. A request in the walk holds every
  category from the one it will hang its own under up to where it has come, so
  no other move changes that path, and its own category is not on it. A brand to
  be retired is locked before its products are looked for, one to be assigned
  before it is looked at.

### Counts and variants

- `InventoryCountsProofs`: `CountsAreTyped`, `CountsNeverOversell`,
  `SubmittedFiguresAreFinal`, `CountsAreAppliedAsAWhole`. The invariant adds that
  a submitted count has counted every line. `OvertakenCountsStay`: a count whose
  stock has moved cannot get out of that, for the versions it froze lie in the
  past (`BasedInv`) and those of rows do not go back, whoever writes them
  (`RowsGrow`, from `StepsWrite`). So, `OvertakenCountsNeverApply`, from any
  moment at which its stock has moved and it is not being applied, it never is;
  and if it is approved by then, no other count of its location can be started
  (`OvertakenApprovalsBlock`).
  They hold for every `Travelling`, so beside every command of `Inventory` by
  `CommandsImplementWriters`. `CountsImplementWriters`: an application is itself
  such a command.
- `CatalogVariantsProofs`: `CatalogTypeCorrect`, `DefaultsAreKept`,
  `OptionsOutlive`. That a product keeps exactly one default takes the check of
  the product and the unique indexes together (`ValidHasItsDefault`), and that
  commands on other products do not matter (`DefaultIsLocal`). `CatalogInv` adds
  that what is not there is of no product (`Anchored`): otherwise a new product
  could find a variant, or a new option a use, of before.

### Reconciliation and repair: `InventoryReconciliationProofs`

- `ReconciliationIsTyped`: the row stays well formed and covered, though repairs
  overwrite it with what was read before it was locked: `apply` looks at the row
  it leaves. A type of finding has one live revision, for `persistFinding` makes
  one only where there is none (`FindingInv`).
- `FindingsEndForAReason`. For each scan, `KnowsItsChunk` says that a type it has
  come past is persisted, still on its page, or read as being in order. A chunk
  is the first of the candidates (`ChunkIsFirst`), so nothing before the new
  cursor is left out; it is all of them if there are no more
  (`LastChunkIsWhole`); and it is not empty if there are any (`ChunkHasSome`), so
  the cursor moves.
- `RepairsAreAsShown`, `EndedRevisionsStay`. A validated repair holds its
  finding, live and at the version of its preview, and what it will write is
  what the evidence of the preview expected, with at most the last movement
  besides (`KnowsItsFinding`, `WritesWhatWasShown`); all other actions leave a
  locked finding alone (`LockedStay`).

### Model-checked only

Liveness (`EveryAttemptEnds` and its like), which these provers do not reach.
Each invariant, action property and refinement that a passing run checks is a
theorem. The three sentences of the documents the code
does not keep are refuted by TLC and so have no theorem.

## 5. Not modelled, and what is left of the plan

- `InventoryLocations`: deactivation and retirement of a location look for open
  documents under its lock, but counts, drafts and stock in transit are not
  among them, documents do not lock the location, and a receipt asks again
  whether the source issues. The modules here have locations that stay as they
  are; making `Issuing` and `Receiving` change is the next step.
- The composition of counts with reversal: the adjustment of an applied count
  can be reversed while the count stays applied.
- `Settings`: a virtual first version and the insert that makes it real.
- Administration: memberships and roles against running sessions.
- The types of findings nothing repairs (orphan rows, broken documents), and
  drift of quantities in transit, which goes as that of reserved ones.

Not planned: owner bootstrap (a development tool), operations (read-only; the
shadow rebuild folds the ledger as the reconciliation does), the worker (it
processes nothing), shutdown (one process and one timer), the web framework's
wiring, shared packages, and the client, whose one protocol is a refresh at a
time.

## 6. Files

`PROJECT.json` lists components, runs, mutants (for each property a plausible
bug that must break it, defined beside the code it changes and used by no run),
the map from definitions to source lines, findings, hazards and theorems. To
check a run: `tlc -workers 2 -config MCInventory_workflow.cfg MCInventory.tla`,
and likewise with the module and configuration `PROJECT.json` names; to check
the proofs: `tlapm` on each module whose name ends in `Proofs`.
