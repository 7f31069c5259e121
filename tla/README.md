# FactoryERP: a TLA+ verification project

FactoryERP is a NestJS server over PostgreSQL (Prisma) for a garment factory: bags of cut
parts are received in warehouses, reserved for production orders, released to them in groups,
carried through the stages of production, checked, packed and delivered. This directory holds
TLA+ models of its state and of the rules that guard it, TLC instances that check them and
TLAPS proofs about them.
Paths below are relative to `src/src/modules/` unless they start with `src/`.

## How the server executes, and how that is modelled

A request runs a service or a use case. That is a sequence of database statements separated
by `await`s; any other request may run between two of them, and the process may stop there.
The database is PostgreSQL at its default READ COMMITTED; most writes are by primary key,
unconditional, from values validated earlier. So, in every module:

- a **request** is an element of a set (`Requests`, `Releasers`) with a record (`call[r]`,
  `rel[g]`) of what it has read and what it has still to do, or `None`;
- an **action** is the code between two awaits whose gap another request can observe.
  Consecutive reads become one action where a change between them is caught later anyway
  (each such place says why); an interactive `$transaction` is one action, except the
  release, whose statements are told apart;
- a request that a check rejects throws before it writes: it is not a step;
- `Fail`/`FailRelease` end a request between two statements (a stopped process, a lost
  connection). An open transaction rolls back; what was committed stays;
- `Serial = TRUE` restricts a model to requests that do not overlap. It separates what the
  code's checks guarantee by themselves from what only holds without concurrency.

Nothing is started by a timer: every operation is a client's request, and none has to arrive.
What fairness is justified is that of a request that *has* been accepted. In `QualityPacking`,
the module with the longest retries, it is `WF_vars(Step(r))`, since the continuation of a
promise runs once the database has answered, and `SF_vars(WaitingStep(r))` for the two
statements that may wait for a row: PostgreSQL queues the waiters of a row lock, so that a
waiter to whom the row becomes free again and again gets it. `Arrive`, `Fail`, `CreateFails`
and the steps of the order have none. `EveryRequestAnswered` is the liveness property that
follows. The other modules state safety; "never stuck" in `OrderLifecycle` is an invariant
about which requests the server would accept. `CHECK_DEADLOCK FALSE` stands in every
configuration because a factory may stop: reservation keys are used up, orders are closed.

## Inventory of the system

| Component | State | Operations | What makes it correct | Hard part |
|---|---|---|---|---|
| Reservations (`inventory`) | `physical_bag_reservations`, status of `physical_bags` | reserve, release, cancel, expire | a bag is not promised beyond its dozens; a closed reservation stays closed; a reserved bag is not given back | check, insert and bag update are separate statements |
| Bag movements (`inventory`) | status, warehouse and order of `physical_bags` | transfer, assign, return | a bag is in one place | whole row written from a stale read |
| Material release (`production`) | `release_groups`, `release_group_lines`, `production_order_parts`, `inventory_bags`, CMO line | create a release group | released once; numbering; parts become RELEASED; CMO line counts each release once | validation outside the transaction, READ COMMITTED counts, optimistic retry after the commit |
| Orders (`production`) | `production_orders`, its parts | create, plan, start, complete, close | forward only, each status justified | status written without a second look; creation in two writes |
| Stages (`production`, `production-setup`) | `production_stage_logs`, `scrap_records`, `production_stages` | start stage, record output; create, move, delete stage | in sequence, conserving material, never stuck | the stage table changes under running orders |
| Work in progress, returns (`production`) | `wip_inventory`, its transactions | completion event, create return | the balance is what is in the order | the event may be lost or late, and overwrites |
| Quality, packing, finished goods (`production`) | `quality_output_boxes`, `packing_orders`, `dozen_assembly_lines`, FG bags | record, assemble, verify, post, create bags | no dozen is lost or packed twice; posted once, for what was verified | optimistic boxes; sums and statuses read before the transaction; rounding |
| Supplementary material (`production`) | requests and their lines | create, approve, reject, cancel, transfer | one outcome per request, one journal row per transferred line | every status write is unguarded |
| Ledger, journal, adjustments, cycle counts (`inventory`) | `inventory_bags`, `inventory_transactions`, `inventory_investigations` | receive, issue, transfer, adjust, count | the journal explains the ledger | most operations journal only |
| Sessions (`auth`) | `user_sessions`, tokens at the client | login, refresh, logout | a session ends for good, a refresh token is exchanged once | unconditional rotation; an access token is believed until it expires |
| Permission cache (`authorization`) | in-memory cache with a time to live | resolve, get, set | what a role lost is not used for long | nothing calls the invalidation; a stale read is cached for a whole time to live |
| Routes and roles (all controllers) | none | match, guard | a request reaches its own handler | words and parameters of one shape; the order of registration |
| Document numbering (`core`) | `document_sequences` | next number | unique | one atomic statement |
| Master data (customers, suppliers, warehouses, locations, organization, measurements, garment models, production lines) | one table each, foreign keys | create, update, deactivate, reactivate or delete, assign, list | unique codes; what is referred to is active; listings are complete | check and write are apart; only keys look again |
| Reporting (`production`, `inventory`) | none | sums and counts over several tables | the reports agree | the same number is kept in two tables |
| Events that log, platform | none | log | | |

Interaction: `inventory` and `production` share the tables `physical_bags`,
`physical_bag_reservations` and `inventory_bags`; there is no call between them. Within
`production` the use cases share tables, and stage completion reaches work in progress by an
in-process event published after the commit.

## Modules

| Module | Models | Notes |
|---|---|---|
| `BagCustody` | reservations and bag movements | `MCBagCustody` instantiates it |
| `MaterialRelease` | the release of bags to an order and the start of an order, EXTENDS `BagCustody`, whose services run beside it | `MCMaterialRelease` |
| `OrderWorkflow` | abstract: what the production module promises about an order | instantiated by `OrderLifecycle` |
| `OrderLifecycle` | orders, stage logs and the administration of stages | `MCOrderLifecycle` |
| `ProductionReports` | the reports on orders, stages and scrap, EXTENDS `OrderLifecycle` | checked in `MCOrderLifecycle` |
| `WipLedger` | work in progress and returns: the balance two kinds of writers share | `MCWipLedger` |
| `QualityPacking` | quality output, packing, finished goods | `MCQualityPacking` |
| `MasterData` | the tables of master data and their listings | used by the two below |
| `WarehouseLocations` | the places of a warehouse, EXTENDS `MasterData` | |
| `StockJournal` | transactions, adjustments, cycle counts, supplementary requests, numbers, their reports, EXTENDS `MasterData` | |
| `BackOffice` | composes `StockJournal` and `WarehouseLocations` | `MCBackOffice` |
| `Endpoints` | every handler of every controller with its path and roles; no state | used by `Access` |
| `Access` | sessions, tokens, guards and the permission cache, EXTENDS `Endpoints` | `MCAccess` |
| `BagCustodyProofs`, `MaterialReleaseProofs`, `OrderLifecycleProofs`, `WipLedgerProofs`, `QualityPackingProofs`, `BackOfficeProofs`, `AccessProofs` | the theorems about each | extend their module; `OrderLifecycleProofs` speaks of `ProductionReports` too |
| `FiniteLemmas` | facts about sums over finite sets and about least elements | used by the proofs |

### BagCustody

`bag[b]` is the row of `physical_bags` (status, warehouse, order), `resv[<<b, o>>]` the one
row that the unique key allows in `physical_bag_reservations` for a bag and an order, `Dozens`
the `current_dozens` no code ever updates. `reserve` is `ReserveCheck` (validator: no row for
the key, requested <= current - sum of ACTIVE), `ReserveCreate` (insert; the key may be taken
by now), `ReserveMark` (bag := RESERVED). `release` and `cancel` are `CloseCheck`,
`CloseWrite`, `CloseSum` and, if nothing is ACTIVE, `CloseFree` (bag := RECEIVED); `expire`
only closes. A movement is a check and a commit that writes the row from what was read. The
movement rows, the audit log and the events are written and never read back, and left out.

### MaterialRelease

`create-release-group` is `ReleaseOpen` (order PLANNED), per line `ReleaseReadBag` and
`ReleaseReadReservation`, then the transaction: `ReleaseReadMax`, `ReleaseInsertGroup`,
`ReleaseCount`, `ReleaseCommit`, and after it `CmoRead`/`CmoCas` up to `RetryLimit` times.
Under READ COMMITTED a transaction's own writes are visible to others at its commit and a
statement sees what is committed when it runs. The insert of a unique key that an uncommitted
transaction holds waits (`GroupKeyHeld`), of a committed one fails (`GroupKeyTaken`). All row
writes take effect in `ReleaseCommit`: they are unconditional and by key, so a write by
another request that falls between them and the commit has, by the row lock, the effect of
one that came before or after both. `inventory_bags` rows are `onHand` over the keys that
exist (`Stocked`; `updateMany` of a missing row does nothing). `lost` is a history variable:
dozens of releases whose CMO update was given up.

### OrderLifecycle and OrderWorkflow

The five order use cases, `start-stage` and `record-stage-output` are a check action and a
write action each; the stage administration is single statements. Parts are abstracted to
"no row, some PENDING, all RELEASED", releases to their dozens (the detail is in
`MaterialRelease`), packing to "exists" and "POSTED". `OrderWorkflow` has four variables:
the status, the set of stages left, the material in the order, the losses of each stage. The
mapping takes the stages whose logs are not COMPLETE, the least output of a complete stage (the
released dozens before there is one), and the scrap and incomplete dozens of each stage.

The amounts of a recorded output have no scale of their own: BR-S02 is checked on them as they
come, to a tenth of a unit of the column, and then each scrap record is rounded at its insert, while the log
keeps the rounded output, the rounded sum of the records and the rounded incomplete dozens. An
amount is therefore in `Fine` parts of a unit, `Rounded` is what a column makes of it, and
`scrapped` has the number of the records beside their sum. What the rows say of a stage may
be off by a unit (three units of which 0.4 are let through, 1.3 scrapped and 1.3 left incomplete
are none, one and one; 1.5 let through and 1.5 scrapped are two and two), so that `OrderWorkflow` lets
a stage lose a unit more or less than the material decreases by, and `ReportsAgree` allows half a unit for
every record and a unit for every stage.

### WipLedger

`wip[<<o, p>>]` is the row of `wip_inventory`, with version 0 for "no row". The completion of
the n-th stage of an order starts the listener `event[<<o, n>>]`, in process and after the
commit. It handles the parts one after the other, in any order: `ReadWip`, `WriteWip` under
the version read (the creation of a row fails on the unique key exactly when another has
created it), and after `MaxRetries` failures it stops, the remaining parts untouched; a
failed statement or a stopped process is `LoseEvent`, except that the creation retries after
any error (`CreateFails`). `create-return` is `ReturnCheck`, `ReadReturn`, `WriteReturn`.
Stages are completed by one request at a time here, and what `OrderLifecycle` says about them
is reduced to an output that does not exceed the one before. `journal`, `missed` and
`inOrder` are history variables: what the journal rows add up to, whether an event was
dropped, and whether a stage was completed while an earlier event was still being handled.

The listener overwrites the balance with the output of the stage, which knows nothing of
returns: `BalanceFollowsStages` counts only the returns since the last event of a part. What
was returned before reappears in the balance and can be returned again, and a part that was
RETURNED stays so when an event gives it a new balance.

### QualityPacking

`box[b]` is the row of `quality_output_boxes` of an order, colour and size, version 0 for "no
row"; `packing[o]` the row of `packing_orders` with its verification. `output[o]` is what the log
of the last stage says. `record-stage-output` is `LastStageCheck`, which finds the log
IN_PROGRESS, and `LastStageWrite`, which updates it by its id: of two that overlap the
last one's output stays, though boxes were filled against the first. `most[o]` remembers
the greatest. `record-quality-output`
is `RecordCheck`, then `UpsertRead` and `UpsertWrite` up to `MaxRetries` times (`CreateFails`:
the creation is retried after *any* error). `add-assembly` is `AssemblyCheck`, and up to
`MaxRetries` times `AssemblyRead`, `AssemblyLock` (the boxes are updated under the versions
read, which waits for a transaction that holds one of them: `Locked`) and `AssemblyCommit`
(refused when another assembly took the same `assembly_sequence`, a unique key whose error is
not retried). `verify` and `post` are a check and a write that looks at nothing again but the
unique key of the verification. Quantities are thousandths of a dozen, the scale of the
columns; a piece is 1000/12 of one and every write rounds (`Rounded`), so that "nothing is
lost" is said up to half a thousandth for every write. `recorded`, `packed` and `posted` add
up journal and assembly rows that no decision reads; `calm[o]` remembers whether requests to
pack `o` have overlapped, which separates what holds always (`PostingFollowsVerification`)
from what holds without a race (`CalmPostsOnce`).

### MasterData, WarehouseLocations, StockJournal, BackOffice

The use cases of the ten tables of master data differ in the table, the owner that must be
active and the key of the code, and hardly in anything else. `MasterData` has one
`...Check`/`...Write` pair for each of create, update, deactivate, reactivate, delete, assign
and remove, and one named action for every endpoint of a table that instantiates it. The
write fails when the unique key, or a foreign key, is violated by then, and looks at nothing
else: `overtaken` remembers the requests whose referenced row was deactivated after their
check. A listing gives each row its place, the number of rows before it in the order of the
repository's query, and cuts the places into pages as the repositories do it.

`WarehouseLocations` puts the code of a place together from the codes of its parts, as
sequences of characters, since codes that contain a hyphen, and the empty string that the
code takes for "not given" and the database for a value, are what its hazards are about.

`StockJournal` has the journal, the dozens on hand of a warehouse and an item (`None` for no
row), cycle counts, supplementary requests and the number sequence (one `UPDATE ... RETURNING`,
hence one action, but apart from the insertion that uses the number). `Adjust` writes a journal row and leaves the
stock alone, `ApplyAdjustment` changes both; `note` tells their rows apart. `raced` remembers
the documents whose status had changed between the check and the write of a request. The
reports are the reads they are: in an order and cut at a limit (`FirstRows`), 5000 rows for what is
on hand and 500 for cycle counts in the code. `ReportsAgree` says what is left of them beyond
the limit: a report shows as many rows as it may, the position and the summary of a warehouse are cut at
the same row, and the summary of all cycle counts shows no more open, or closed, ones than that of the
open, or closed, ones alone; and that below it they agree.

`BackOffice` composes them. Tables that no use case reads together are independent: a step of
one neither enables nor disables nor changes a step of another. An execution is therefore
about one `scope`, chosen at first: the tables, with their use cases, that do belong together
(for instance models with their customers, or the stock with warehouses and models that are
deactivated underneath). That keeps the sum, and not the product, of their state spaces.

### Endpoints and Access

`Endpoints` lists the handlers of the controllers in the order the router registers them:
the order of the modules in the application, of the controllers in a module, of the handlers
in a controller, with the prefix and the class roles merged in as `getAllAndOverride` does.
`Reached(h)` is the first handler that matches a request for `h`.

`Access` has one user, whose sessions, tokens and cache entries are apart from those of
others, and time in units. `login` is `ValidateUser`, `CreateSession`; `refresh` is
`CheckRefresh`, `ReadUser`, `RefreshSession`, which writes the session by id whatever it is by
then; a request is `Authenticate` (the token has not expired and the user is active and not
locked; the session is *not* read). `ReadUser` does not look at the lock, as `findActiveById`
does not. A call then goes on with `Resolve` (the cache), `ReadRole` and `SetCache`, and the handler, of
which only `logout` changes anything here. No code changes users and roles: `Change` is an
administrator at the database. `answer` is the last answer of the guard, `ended`, `used` and
`changed` are history. The bounds that `SessionsSound` and `PermissionsFresh` state are what
the code achieves in place of the invalidation that nothing calls: a revoked session is
believed for an access token's life, a role for a cache entry's, each after what was under way.

### ProductionReports

The dashboard, the summary of an order, the figures, the progress and the reports on orders,
stages and scrap, as operators over one state of `OrderLifecycle`. `scrap_records` and the
column of the stage log keep the same number, the one rounded record by record, the other in sum;
`ReportsAgree` says that every report that sums the column says the same, that the report on
the records is within half a unit of it for each record, that an order past its production shows a progress of
100 percent, and that what it has lost is no more than what was released to it and a unit for each stage.

## Runs

| Run | Instance | Shows |
|---|---|---|
| `bag_concurrent` | 1 bag of 2 dozens, 3 orders, 2 warehouses (1 active), 2 requests that may fail | `OneCustodian` and `ClosedForGood` in every interleaving; `OverReservationBounded`: the unlocked check is wrong by at most (number of requests) x dozens |
| `bag_double` | 1 bag, 2 orders, 2 requests | **violates** `NoOverReservation`: overlapping reservations exceed the bag |
| `release_concurrent` | 2 bags of one part, 1 order, 2 releasers that may fail, 1 inventory request, 2 CMO attempts | `PartsFollowReleases` (BR-R07), `GroupNumbersGapFree` (BR-R06), `ReleaseUsesReservation`, `StartedFullyReleased` (BR-O03), `CmoAccounted` |
| `release_serial` | 1 bag, 3 orders, 2 warehouses, one request at a time | `ReleasedOnce`, `NoOverReservation`, `ReservedBagNotGivenBack`, `StockAccounted` |
| `release_stock` | as above, 2 orders | **violates** `StockNeverNegative` (BR-1): move, reserve, release |
| `order_serial` | 1 order, 3 stages on 4 places, up to 3 units, 10 parts of a unit, 2 scrap records, one request at a time that may fail | `ImplementsWorkflow`, `NeverStuck`, `PartsJustifyStatus`, `ReportsAgree` |
| `wip_concurrent` | 1 order of 2 parts, 2 stages, 2 dozens, 2 returns, 3 attempts | `JournalExplainsBalance` (BR-W01, BR-Inv03), `BalanceFollowsStages`, `ConflictsMeanProgress` |
| `quality_pass` | 1 order, 2 boxes, 4 assemblies (one names a box twice), 2 outputs of the last stage, 2 requests that may fail, 3 attempts | `BoxesAccounted`, `AssembledAccounted` (BR-Q02, BR-P02), `AvailableBounded`, `PostingFollowsVerification` (BR-P05), `CalmPostsOnce`, `PackingForward`, and `EveryRequestAnswered` under fairness |
| `quality_again` | as above, one request at a time | **violates** `RecordedWithinOutput` (BR-Q03): record, assemble, record again |
| `back_office` | 14 scopes, 2 ids and 2 codes in each table, 2 requests | `JournalExplainsStock` (the dozens on hand are the applied adjustments, both ends of a transfer are there, a transferred supplement has a row for each line), `ReadsComplete` (pages show each row once; the hierarchy of places and the reports miss nothing below their limits), `CheckedRowsActive`, `DocumentsFollowWorkflow` (BR-Sup03) |
| `access` | 1 session, 3 refresh tokens, 2 roles, 2 requests, 1 change of the rows (inactive, locked, another role, a role changed); all handlers, one request at a time | `SessionsSound`, `PermissionsFresh`, `RequestsReachTheirHandlers` |
| `order_backward` | 1 order, 1 stage, 2 requests | **violates** `NoBackwardTransition` (BR-O01): a stale check writes a status back |

Why these bounds are enough for what they show:

- *Bags, orders.* A bag's row and its reservations are touched only by requests about that
  bag, so one bag suffices for custody. Over-reservation, a closure beside a live reservation
  and a bag released to one order while another's reservation is open need two orders, and
  being given back with a third still open needs three. Releases need two bags of one part,
  since the write skew is between two groups that each take the other's remainder.
- *Dozens* 2 with *Amounts* {1, 2}: a bag shared by two, a bag taken whole, and one too many.
- *Requests.* Two concurrent requests exhibit every stale read; a release beside them adds a
  third. *RetryLimit* (3 in the code) is 2: a first and a last attempt.
- *Stages.* Three are needed for a first, a middle and a last, and to insert one between two
  (`MaxSequence` = 4 leaves a free place). `MaxDozens` = 3 lets a stage scrap, leave incomplete
  and pass on at once. `Fine` = 10 makes a tenth of a unit, the tolerance of BR-S02, the least part, and
  `Amounts` {0, 4, 10, 13, 15, 20, 30} has whole units, amounts that are rounded up and down,
  and ties; two scrap records (`MaxRecords`) of 1.3 units are two in their rows and three in the log.
- *Work in progress.* Rows of different orders have no writer in common, so one order
  suffices; two parts let a listener stop between them. Two listeners and two returns are
  enough to fail a request on each of its three attempts, as `MAX_RETRIES` has it.
- *Quality and packing.* Boxes of different orders are never in one transaction. Two boxes are
  needed for an assembly that takes both while another takes one, and pieces of a box that are
  no whole dozen (4, 5) for the rounding. The last stage puts out one dozen, or nothing, and a recording is
  for one, so that the check of BR-Q03 is passed exactly once by requests that do not overlap;
  two requests that overlap may take the dozen back after a box was filled against it.
  `MaxRecorded` admits two recordings of a box and no more. `MaxRetries` is that of the code.
- *Back office.* Two rows of a table are enough for two that share a code, an owner, or a page;
  two requests for every race of a check with a write. `MaxJournal` 2 is a transfer (two rows)
  or two adjustments of one key; one document with one action lets two requests race for it.
  `ReportLimits` 1 and 2 (5000 and 500 in the code), with up to two rows on hand and two cycle
  counts (`MaxCounts`, of the warehouses `CountedAt`), let a report be cut, and be whole.
  A count finds what `CountedDozens` has (nothing): it differs after any adjustment, and only then.
  `HierarchyLimit` is 1 (1000 in the code) with `MaxLocations` 2, to reach the limit and exceed
  it. Place codes are empty, plain, or hyphenated, so that different places have one code.
- *Access.* A unit of time is the longest a call takes (`CallTime`). Lives of one unit for a
  token and an entry, two for a session, and a clock up to 4, let each end while another begins;
  3 refresh tokens are the one of the login and those of two exchanges. The bounds that the
  properties state are reached: with any of them smaller by one TLC finds a counterexample.
- `order_serial` holds with `Resequencing = FALSE`: stages are not given a new place while
  an order is in production. Nothing in the code prevents it; when one is moved behind a
  complete stage the input of the next start is taken from another stage, and
  `ImplementsWorkflow` fails. The constant records the assumption.

Each property of a passing run has a mutant in `PROJECT.json`: a plausible error in one
definition (a dropped guard, a stale key, a wrong neighbour) under which TLC finds that
property violated. The mutated forms stand above the definitions they replace and are used
nowhere.

### Where documents and code disagree

1. `src/docs/architecture/CONCURRENCY_STRATEGY.md:159` describes two overlapping reservations
   of which the second gets a 409, through a row lock the reservation service does not take.
   `bag_double` is the counterexample; `OverReservationBounded` is what the code does
   guarantee.
2. `src/docs/execution/production/03_PRODUCTION_BUSINESS_RULES.md:43`, "No backward
   transitions are permitted": `updateStatus` has no condition. `order_backward`.
3. `src/docs/architecture/INVENTORY_DOMAIN_MODEL.md:59`, `dozens_on_hand` >= 0 at all times:
   releases decrement without a guard, and moving a bag moves no balance. `release_stock`.
4. `src/docs/execution/production/03_PRODUCTION_BUSINESS_RULES.md:150` (BR-Q03) bounds the sum
   of *all* recordings by the output of the last stage; the code compares with what the boxes
   still hold, so that what was packed can be recorded again. `quality_again`;
   `AvailableBounded` is what the check does achieve.

What else the models record without a run:

- `src/docs/api/authentication.md:186,201,297` have the refresh refuse a locked account. It does not:
  `findActiveById` (`auth/repositories/users.repository.ts:13`) asks for `is_active` and the status,
  and `auth/use-cases/refresh/refresh.use-case.ts:57` for nothing else. A locked user rotates his
  refresh token for as long as he likes; the access tokens he gets are refused, by
  `auth/strategies/jwt.strategy.ts:39`, until he is unlocked (`ReadUser`, `Authenticate`).
- `src/docs/api/authentication.md:293` calls a retry with the same refresh token idempotent. A client
  whose answer was lost (`arrives = FALSE` in `RefreshSession`) has a token that was exchanged, and is refused:
  that is `SessionsSound`. Yet the same line has every call invalidate the token before, and
  two exchanges of one token that overlap both succeed; the session keeps the later one's.
- `src/docs/execution/production/03_PRODUCTION_BUSINESS_RULES.md:98` (BR-S02) is an equation. The
  check allows 0.0001, the amounts may be finer than the columns, and their parts are rounded apart: two scraps of a
  twelfth are 0.166 in the records and 0.167 in the log, and what a stage let through, scrapped and
  left incomplete may differ from its input by a thousandth (`Rounded`, `InRows`).
- Nobody compares a second output of the last stage with the boxes that were filled against the first
  (`LastStageWrite`): of two requests that overlap the later may be the smaller one.
- `src/docs/platform/FEATURE_LOG.md:95` and `src/docs/platform/PLATFORM_FINAL_REPORT.md:27` give the limits
  of the stock and variance reports. Beyond them `total_dozens_on_hand` and the totals beside
  it are those of the rows that were read, and nothing in the answer says so (`Read`, `VarianceSummary`).

- BR-P06 and BR-FG01 of the same document have the posting create the finished goods bags and
  no endpoint of its own for them. There is one, `create-finished-goods`, and it makes any
  number of bags of any size from an order that was posted (`CreateFinishedGoods`).
- BR-Sup03 calls REJECTED, CANCELLED and TRANSFERRED final. Requests that race leave them:
  `DocumentsFollowWorkflow` leaves out the documents in `raced`.
- Of the two adjustments of `inventory` one writes an ADJUSTMENT row and leaves the dozens on
  hand alone, the other does both (`Adjust`, `ApplyAdjustment`).
- `src/docs/api/authentication.md:212` asks only for a bearer token at logout. The handler states no
  roles (`auth/controllers/auth.controller.ts:86`), and `RolesGuard` lets nobody but a system role
  into a handler without any, so that other users cannot end their sessions (`MayCall`).
- `src/docs/platform/TECHNICAL_DEBT_STATUS.md:30` (GAP-008) says of the permission cache what the model
  has: its invalidation is never triggered.

Two more: the last ACTIVE reservation of a partly released
part may be cancelled, after which no release counts the part again and it stays PENDING
(`PartsFollowReleases` speaks only of parts all of whose reservations were released); and an
order started when there is no stage at all can never complete (`NeverStuck` speaks of orders
with a log). `src/docs/execution/production/ENGINEERING_DECISION_REPORT_P03.md:109` describes
the first stage as the least sequence among an order's logs, the code takes the least in the
stage table; `NeverStuck` says when the two differ: an order is only held up by a stage that
was put before one it has still to do.

## Theorems

All proofs are checked by TLAPS for every value of the constants: any bags, orders, stages,
warehouses, roles and rows, any number of requests at a time, any retry limit, any times to live.
They rest on the ASSUMEs of the modules, which TLC evaluates on every run, and which say no more
than this:

- the constants have their types (`BagConstants`, `ReleaseConstants`, `LifecycleConstants`,
  `ReportConstants`, `WipConstants`, `QualityConstants`, `MasterConstants`, `JournalConstants`,
  `LocationConstants`, `OfficeConstants`, `AccessConstants`), requests for releases are not
  requests of the inventory, and the parts of an order are not empty;
- a table over which the code takes a sum, and the requests that run at once, are finite sets;
- `None` is none of the rows, calls, places, numbers and statuses it stands beside
  (`NoneIsNoCall`, `NoneIsNoRow`,
  `AnsweredIsNoCall`, `IdleIsNoCall`, `NoneIsNothing`).

Where a theorem has hypotheses of its own, they are stated in it: `Serial` (requests do not
overlap), `~Resequencing` (no stage is moved while an order is in production),
`MayFail \intersect Requests = {}` (no inventory request ends half way). They are what the code
needs, not what the prover needs: `bag_double` breaks `NoOverReservation` and `order_backward` the
forward statuses of `ImplementsWorkflow` with two overlapping requests; a reserve that dies between
its insert and its mark leaves a reserved bag RECEIVED; a stage moved behind a complete one takes
its input from another stage. `release_serial` and `order_serial` satisfy them.

| Theorem | Says | Under |
|---|---|---|
| `BagTypeCorrect` | `BagSpec => []BagTypeOK` | |
| `OneCustodianCorrect`, `ReleaseKeepsCustody` | a bag is in one place, in `BagCustody` alone and beside releases | |
| `ClosedForGoodCorrect`, `ReleaseKeepsClosed` | closed reservations stay closed, alone and beside releases | |
| `OverReservationBoundedCorrect` | a bag is promised beyond its dozens by at most what overlapping checks let through | |
| `NoOverReservationCorrect` | a bag is not promised beyond its dozens | `Serial` |
| `ReservedBagNotGivenBackCorrect` | a bag with an open reservation is not RECEIVED | `Serial`, requests end |
| `ReleaseInvariant`, `ReleaseTypeCorrect` | `Spec => []IInv`; types, the counters included | |
| `GroupNumbersGapFreeCorrect` | BR-R06: groups are numbered 1..n | |
| `ReleaseUsesReservationCorrect` | a released reservation is never ACTIVE again | |
| `PartsFollowReleasesCorrect` | BR-R07 | |
| `StartedFullyReleasedCorrect` | BR-O03 | |
| `CmoAccountedCorrect`, `StockAccountedCorrect` | what the lines say was released was taken from the stock, and is in the CMO line, owed to it or given up | |
| `ReleasedOnceCorrect` | a bag is released once and whole | `Serial` |
| `LifecycleTypeCorrect` | `Spec => []TypeOK` | |
| `PartsJustifyStatusCorrect` | BR-O02, BR-O03 | |
| `NeverStuckCorrect` | BR-S01: an order in production that no stage has overtaken can go on | |
| `SerialInvariant`, `ScrapRecordsAddUpCorrect` | the serial invariant; BR-S07, to half a unit for each record | `Serial`, `~Resequencing` |
| `ImplementsWorkflowCorrect` | `OrderLifecycle` implements `OrderWorkflow`, losses to within a unit | `Serial`, `~Resequencing` |
| `ReportsAgreeCorrect` | the reports on orders, stages and scrap agree, but for the rounding of records and stages | the same, fewer than 20000 orders and stages |
| `WipInvariant`, `WipTypeCorrect` | `Spec => []IInv` of work in progress; no negative balance (BR-W02) | |
| `JournalExplainsBalanceCorrect` | BR-W01: no update is lost | |
| `BalanceFollowsStagesCorrect` | handled in order, events give every part the last output | |
| `ConflictsMeanProgressCorrect` | giving up means having been overtaken | |
| `QualityInvariant`, `QualityTypeCorrect` | `Spec => []IInv` of packing; no box is drawn below zero | |
| `BoxesAccountedCorrect` | BR-Q02, BR-P02: no recording is lost, no piece taken twice, up to rounding | |
| `AssembledAccountedCorrect` | the assembled dozens are those of the assembly lines, up to rounding | |
| `AvailableBoundedCorrect` | what the boxes hold is bounded by the greatest output the last stage has had, times the number of requests | |
| `PostingFollowsVerificationCorrect` | BR-P05 | |
| `PackingForwardCorrect` | the status of a packing order only moves forward, in every interleaving | |
| `CalmPostsOnceCorrect` | where requests to pack did not overlap, posted once, for what was verified | |
| `BackOfficeInvariant`, `BackOfficeTypeCorrect` | the inductive invariant of the tables; types, unique codes | |
| `CheckedRowsActiveCorrect` | requests go on with active rows, unless overtaken | |
| `LedgerInvariant`, `JournalExplainsStockCorrect` | the journal explains the stock, the transfers and the supplements | |
| `DocumentsFollowWorkflowCorrect` | BR-Sup03, unless requests raced | |
| `ReadsCompleteCorrect` | pages show each row once; the hierarchy of places and the reports, of any limits, miss nothing below them, and agree | |
| `AccessInvariant`, `AccessTypeCorrect` | the inductive invariant of sessions, tokens and cache; types | |
| `SessionsSoundCorrect` | a session ends for good, and its tokens soon after; an exchanged token is refused from then on | |
| `PermissionsFreshCorrect` | what a role lost is used for no longer than the bound | |
| `RequestsReachTheirHandlersCorrect` | no handler takes the requests for one registered after it; a higher role passes where a lower one does | |

**Sums.** `SUM(...)` is `SumFunctionOnSet` of the community modules, a fold. The induction theorem
of the library takes an operator as a parameter, which the provers cannot instantiate, so
`FiniteLemmas` goes another way: if a fact about sums failed for some subset of a finite set, there
would be a smallest one (`SmallestSubset`), and taking one element out of it shows that there is
none. From that `SumTakeOut`, how a sum changes with one term (`SumChange`), by groups
(`SumOfSums`, `SumByPlace`) and in size (`SumMonotone`, `SumBounded`). The proofs of the accounts
then say, for each action, which one term of which sum it changes. Counting goes the same way
(`CountByPlace`), and from it what an order and its pages are: the number of elements before an
element is another one for each (`RanksDiffer`), and a row is on one page (`OnOnePage`), which
holds no more than was asked for (`PageFits`).

**MaterialRelease.** `PartsFollowReleases` is not inductive, nor is it obvious: two groups that
count each other's reservation as ACTIVE would leave the part PENDING. What prevents it is a
key that is there for another reason. `NumbersRead` says that the number a transaction holds
is the one after the last committed; two transactions of one order would hold the same number,
which the unique key (order_id, group_number) makes impossible: `OneHolder`. Hence between the
count and the commit no other group of this order commits, and a bag that was ACTIVE when it
was counted has still no line: `CountStillTrue`. At the commit the part is either marked or has
a reserved bag left. `GroupNumbersGapFree` and finiteness of the groups make "maximum plus
one" the next number; `WarehousesRead` and `RowsOK` are the types the commit needs;
`ReleaseUsesReservation` keeps a taken reservation from being counted again.
`OneCustodian` is carried over the releases because a commit writes the three columns of a bag
together, and `StartedFullyReleased` by `StartsChecked`: a start in flight has found the parts
RELEASED, and no step unmarks a part.

The accounts of the releases need that a group number is new at its commit (`LinesOfGroups`: every
line is of a committed group) and that what a release in flight has taken keeps its dozens
(`PendingTaken`: its reservations are there, and no code changes the dozens of one that is). A
commit then adds to the lines, takes from the stock, and leaves owed to the CMO line one and the
same sum, and an attempt at the CMO line moves it from what is owed to what is done or given up.

When each request finds the others answered, the check of a reservation still holds at its insert
(`NothingOver`: what is ACTIVE and what has been admitted are within the bag). `GivenBackRightly`
says of a bag that it is offered only when nothing is ACTIVE, or when the request that runs is the
one that has just inserted and has still to mark it; this is where a request that dies breaks the
property. `ReleasedOnce` needs that a bag that was released is in no warehouse and not in a
production line (`Emptied`), that movements and releases in flight have found theirs in one
(`MovesFull`, `ReleasesFull`), and hence that a bag gets lines for one order, and one of them
(`LinesOnce`).

**OrderLifecycle.** In every interleaving only parts are trustworthy: they go from none to
PENDING to RELEASED, so that what a request has read of them still holds when it writes a status
from an old check. That proves `PartsJustifyStatus`; `NeverStuck` follows from types and the least
stage that is not complete. Without overlap, `StillTrue` says for each kind of request that
what it has checked is still so; `InOrderOf`, that the stages before one that was started are
complete and have let no less through; `InputIsMaterial`, that a stage under way has taken in what
the order still holds; `ScrapRecorded`, that a stage has lost nothing before it is complete. From
these each step is one of `OrderWorkflow` or a stutter: a stage that is recorded takes
its losses out of the material, and no other step touches what the mapping sees.

A balance of fine amounts leaves one of rounded ones to within a unit (`BalancedRows`: three
roundings of half a unit, and the tolerance, make less than two), and scrap records are near the
log because each is half a unit off at most (`RowsAreNear`).

The reports rest on two more facts, `EndComplete` (an order past its production has no stage left)
and `Conserved` (what is in an order and what its stages lost is at most what was released to it,
and one unit for each complete stage), and on an argument about the rounding of percentages. Percentages are rounded to hundredths
(`production/services/production-reporting.service.ts:116`), so that "100.00 percent" is "all" for
fewer than 20000 rows and not beyond: 19999 of 20000 shows 100.00. The hypothesis of the theorem
says so.

**WipLedger.** `ReturnSound` says that what a return has read is no newer than
the row, and still its balance if the version is the same; versions only grow (`VersionsStep`),
so a write that succeeds computes from the present balance. `ListenerSound` and `ReturnSound`
also count: each failed attempt has seen a version beyond the one it read, which gives
`ConflictsMeanProgress`. `BalanceFollowsStages` speaks of the end of a listener and needs its
middle: `StageFollowed` says that each part either has the last output in its journal or is
still to be done by the only listener that runs, and `NothingAhead` that no listener runs for
a stage yet to come.

**QualityPacking.** `BoxesRead` says that what was read of a box is no newer than
its row, and the row if the version is; a recording that succeeds therefore adds to the present
dozens, and an assembly that has locked its boxes still finds in them what it takes
(`LocksExclusive`: two transactions that are about to commit have no box in common, and a
recording waits for both). So every step keeps a box, fills it or draws from it (`BoxStep`), and
the drift of `BoxesAccounted` grows by at most the half of a thousandth that a line may round.
The packing order has no version, and the proof shows what stands in for it: `OrderSound`, a
verification exists exactly from VERIFIED on, and `PackCallSound`, what a request has read of the
order can only have grown. The one write that could take POSTED back to VERIFIED is that of a
second verification, which the unique key refuses (`PackVerified`). `CalmSound` adds that, while
requests to pack an order come one by one, what the only one has read is still so.

`OrderAccounted` counts the pieces of an assembly by box and by line, which is the same sum
(`SumByPlace`), and adds to `BoxesAccounted` the drift of the packing order: half a thousandth for
every `assembly_sequence`. `BoundInv` counts each recording in flight as already in its box: the
check admits it when the boxes and the recording are within the output, which is at most `most[o]`, and it was made against
boxes that others may fill before it writes, once for every request; `most[o]` only grows
(`MostStep`), whatever becomes of the output.

**BackOffice.** `TypeInv` adds to the types that what a request has found is there until it writes
(`CallSound`: rows of a table that only deactivates never vanish) and that no two rows of a table
share a code, although the check for it and the write are apart: the key of the database decides.
`RefsActive` keeps, for each request in flight, that what it refers to is active or the request is
in `overtaken`. `OnHandSums` and `MovesBalance` are sums over the rows of the journal, split into
those before a step and those it appends. `SupplementsSound` says what a line knows (approved as
requested, transferred as approved, a row if transferred) and that a request that is APPROVED has
all its lines approved, which is what the transfer relies on. `NumbersSound`: no two requests hold
one number, and those in documents are behind the counter.

That pages are complete needs the unique codes, and so the key of the database: only because no two
rows that are listed compare as equal do their places run from 0 to n - 1 without a gap or a tie.
A model is compared by its owner first, so `ModelsOwned` (every model has a customer) is part of the
argument. A location is on exactly one list of the hierarchy, that of its own zone, rack and shelf as far
as they are given. Of the reports, the first rows of any order are as many as there are, or as the
limit (`FirstRowsRead`: places are given to rows one to one, and so onto the first of them); a
row that is among the first of all is among the first of its kind (`ReadAmongFewer`); and below the limit
the totals are sums by place of what the rows hold.

**Access.** The invariant puts each "for no longer than" where it comes from: `CallSound` (what a
call has read was so at some time since it began, and a call lasts `CallTime`), `TokenSound` (a
token was signed by such a call and lives `AccessTTL`), `EntrySound` (an entry was read by such a
call and lives `CacheTTL`), `SessionSound` (an ended session is revoked; no two tokens that can
still be exchanged are the same). A refresh that has passed its check writes the session whatever
it has become; `ExchangeSound` bounds when it may have begun. `AnswerSound` adds these bounds up to
those of the properties.

`RequestsReachTheirHandlers` is a statement about the order of registration: the first handler whose
method and path take a request serves it. `HandlersInOrder` says that no handler takes the requests
of a later one. Going through all pairs is out of the provers' reach, so it is put together as
the application is: the handlers of a controller are in order among themselves, a prefix changes
nothing (`UnderKeeps`), and two groups that are in order stay so when joined (`Joined`) if a word of
the path, its length or the method tells their paths apart (`ApartByWord`, `BagPathsApart`,
`OrderPathsApart`). That higher roles pass follows from the four sets of roles a handler may
state, each of which has with a role all those above it (`RoleSets`, `RolesRise`).

Only model-checked:

- `EveryRequestAnswered`: liveness, and the provers do not reason about ENABLED.
- `NoOverReservation`, `StockNeverNegative`, `NoBackwardTransition` and `RecordedWithinOutput` of the
  violation runs do not hold there.


## Not modelled, and why

- *Reads for display*: the reports on work in progress, returns, quality, packing and finished
  goods, the availability of bags, the performance and integration views of `inventory`, the
  single-row reads. They change nothing and no use case decides by them. Reports that are
  modelled are reads of one state; the real ones are several statements that others may run
  between. The listing of sizes is ordered by a column that is no key, so what its pages show
  is left to the database.
- *Rows that nothing reads back*: the audit log, the movement log, the journal rows of a
  release, return rows.
- *Guards that guard nothing*: no handler states a screen or an approval, so
  `ScreenPermissionGuard` lets every request pass, and `ApprovalGuard` is registered nowhere.
  `invalidate`, `invalidateAll`, `updateLastActivity` and `revokeAllByUserId` have no callers.
  Failed logins are counted, and the count is read by nothing.
- *Edits that nothing compares*: `update-production-order` (notes and a target), names and
  descriptions of master data.
- *Wiring*: the mapping and validation of DTOs but for what the checks above ask, wording,
  configuration, logging, throttling, filters, interceptors, the Prisma service, the listeners
  that only log, and the event publishers of `inventory`, whose only listener is one of these.

Decimal arithmetic is integral: quantities are `Decimal(12,3)`, a unit is a thousandth. Where
numbers finer than the column occur, in packing and in recording the output of a stage, the rounding is modelled;
so is the tolerance of BR-S02. Binary fractions are taken to be the decimals they stand for. `PROJECT.json` lists every component with its status.

## Plan

What is left is the reports on work in progress, packing and finished goods, over `WipLedger` and
`QualityPacking`. Every safety and action property of the passing runs is a theorem;
`EveryRequestAnswered` stays with TLC.
