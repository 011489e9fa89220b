# A verification of gpu-allocation-system

TLA+ specifications of the GPU allocation system in `src/`, the TLC
configurations that check small instances of them, and proofs checked by TLAPS
that hold for every value of the constants. Paths below are relative to
`src/apps/api/src` unless they start with `src/` or `docs/`.

## 1. The system

The running system is a TypeScript monorepo: `apps/api` (Express and Prisma over
one PostgreSQL database, publishing to Redis), `apps/web` (a React client),
`apps/worker` (a queue consumer without a job of its own yet) and
`apps/demo-telemetry-simulator`. `backend/` and `frontend/` are an older
prototype of the same product.

What makes the api hard is that its handlers are asynchronous. A Node process may
run any other handler at an `await`, and `docs/deployment.md` allows several
replicas over one database. Almost nothing is transactional: the only
transactions are the two bulk operations of the faculty module, the only
conditional update is the one that revokes a token family, and the schema has no
constraint that excludes overlapping reservations. Every "read, check, write" of
the code can therefore be overtaken between its statements.

### Inventory

| Component | State | Operations | Interacts with | Hard behaviour | What makes it correct |
|---|---|---|---|---|---|
| Reservation (`modules/reservation`, `index.ts`) | `reservations`, `allocation_sessions` | create (by node or best fit in a laboratory), approve, reject, cancel; the status sweep every 30 s; lists, availability, calendar | reads node health and maintenance windows; its sessions feed analytics | check-then-create, stale decisions, overlapping and dying sweep passes, missed windows | no double booking, the status machine, sessions inside the window, each use accounted once, everything approved is settled |
| Faculty (`modules/faculty`) | none of its own | bulk approve and reject in one transaction; dashboard, weekly schedule, priority queue | updates `reservations` | all-or-nothing, row locks taken in the caller's order, READ COMMITTED, audit rows that fail inside the transaction | a batch is applied wholly or not at all, in its department only, and is answered |
| Auth (`modules/auth`) | `refresh_sessions` | login, refresh (rotation), logout, logout-all | user status | two refreshes of one token, a crash between issue and revoke, logout during refresh | one live token per family; a replay kills its family; nothing outlives logout-all |
| Telemetry (`modules/telemetry`) | `gpu_health_snapshots`, `gpu_metrics`, `GpuNode.lastHeartbeat` | ingest, node health, live list | read by booking; publishes to Redis | late and repeated heartbeats, three statements per ingest, three reads per answer | health follows the latest heartbeat; snapshot, history and node agree |
| Simulator (`apps/demo-telemetry-simulator`) | loop, timer, health file | one report per node and round | telemetry | requests without a timeout, a signal at any moment | nodes do not flap; the container is healthy only if it delivers; it stops |
| Users (`modules/user`) | `users`, `credentials` | create, profile, status, department, role | auth reads the status; the middleware reads role and department | role and department checked separately | nobody makes administrators but a SUPER_ADMIN |
| Authorization (`middleware`, `common/requireDepartmentScope.ts`, 14 routers) | none | role, ownership and department checks | users | the role in a token is up to 15 minutes older than its signing; routers that share a prefix; target read before the handler runs | an actor only reaches his scope, as `docs/api.md` tabulates |
| Inventory (`organization`, `department`, `laboratory`, `course`, `gpuNode`) | one table each | create, read, update, delete | foreign keys into everything | check-then-create, delete against references, audit after commit | answers that are true when they are given; who loses a race is told 409; no reservation lost |
| Analytics (`modules/analytics`) | none | aggregates, report buckets | reads reservations, sessions and telemetry | many statements per answer, borders of periods | what one answer says fits together; every hour is in one bucket |
| Web client (`apps/web`) | session, route, fetched data | guards, login, logout, lists, bulk approvals | the api | answers out of order, effects after renders | the right portal; the list that was asked for |
| Legacy backend (`src/backend/server`) | Mongo documents | GPU CRUD, request, approve, reject, complete; a rate limiter before all of them | legacy frontend | the same races without transactions, saves that half happen, patches that write whatever they are sent | no GPU promised twice, VRAM adds up, answers as documented |
| Legacy frontend (`src/frontend`) | tokens, queue of calls | login, silent refresh, sign-out | legacy backend | calls that wait for a refresh | no call waits for ever |
| Worker stub (`apps/worker`) | none | consumes a queue nothing is put into | — | — | — |

`PROJECT.json` lists the same components with what is modelled of each, and the
hazards at the lines where they bite.

## 2. What is modelled

### ReservationService

The booking engine, one action per database statement.

| State | Code |
|---|---|
| `clock` | wall-clock time, the same for every process |
| `res` | the `reservations` table; status `"NONE"` is a row that does not exist yet |
| `sess` | the `allocation_sessions` rows of each reservation, in the order they were created |
| `booker` | the local variables of one `POST /reservations`: the window, the nodes still to look at (`todo`), the nodes found eligible |
| `decider` | one approve, reject or cancel request between its read and its update |
| `sweeper` | one call of `runReservationStatusSweep`: its `now`, the list it read, the row it is at, the session it found |
| `approved` | history: every reservation whose status was ever written APPROVED |
| `aborts` | how many passes have died, for the bound |

| Action | Code |
|---|---|
| `BookNode`, `BookLab` | `createReservation` up to its first look at a node (`reservation.service.ts:117-143`, `:81-98`) |
| `CheckNode` | health and `checkConflicts` of one node (`:47-72`, `:99-105`) |
| `CreateReservation`, `RefuseBooking` | best fit and insert, or 409 (`:108-162`) |
| `Approve`, `Reject`, `Cancel` | the read and the status check (`:184-187`, `:226-229`, `:248-251`) |
| `WriteDecision` | `updateReservationStatus`, by id alone |
| `SweepBegin` … `SweepListDone` | `runReservationStatusSweep` and `completeReservation`, statement by statement |
| `RequestAbort`, `SweepAbort` | a statement that throws or a process that exits; the rest of the request or pass never happens |
| `Tick` | time passes |

Abstractions. Who asks is left out: the routes check roles and departments before
the handler runs, and nothing after that depends on them. A node may be found
ONLINE or not, at random, each time it is asked (`online` in `CheckNode`): the
thresholds belong to telemetry. Health and conflicts of one node are read in one
step, since no conjunct of a property mentions health and the two conflict
queries run in one `Promise.all`, of which the maintenance half reads a constant.
Maintenance windows are a constant because no endpoint creates or changes one;
they come from the seed or from an operator. Nodes and laboratories are constants
too: creating and deleting them belongs to the inventory, and a node with
reservations cannot be deleted. Bulk approvals belong to the faculty module; on a
single reservation they read and write as `Approve` and `Reject` do. Audit rows are left out: their
writes swallow errors and nothing reads them back. `computeHours` is a function
of the two ends of a session, which are kept.

`Serialized = TRUE` is an assumption about the environment, not a feature of the
code: a request or a pass starts only when none is in flight, which is how the
repository's integration tests drive the api. It separates what the code promises
in itself from what it promises only while nothing overlaps.

### ReservationLifecycle

The promise: every operation is one atomic step, booking takes a free slot, the
status machine is the documented one (plus APPROVED to COMPLETED for a window no
sweep saw), and one session accounts for a use. `ReservationService` refines it
when requests and passes do not overlap: `ImplementsLifecycle` instantiates it
with a mapping that shows a reservation's old status until the pass that is
changing it has also written the session.

Everything that only looks at reservations builds on this promise: `Analytics` and
`ReservationViews` instantiate `ReservationLifecycle` as what happens under them.

### FacultyBulk

One action per statement of `transitionReservationInTransaction` (`faculty.service.ts:274`) and the
transactions around it, and of the
single decisions that race with it. `status` is the committed table, `lock` says
which open transaction has updated a row, `batch` holds the input, position and
answer of each request. `CheckRow` reads what is committed and locks nothing;
`UpdateRow` takes the row's lock or waits; `Commit` and `Rollback` end the
transaction; `DeadlockVictim` is Postgres failing a request of a
waiting cycle. An audit
row that fails inside the transaction is swallowed by the code but leaves the
transaction failed (`broken`), so its COMMIT rolls back.
What a batch has done is read off the committed rows that its steps change, no history
variable records it.

### AuthSessions

`auth.service.ts` by statement: login, refresh with its detection of a used token,
logout, logout of all devices; accounts are activated and deactivated next to
them. A token stands for its row, since rows are found by the token's hash. A
request may die between any two statements, and its answer may be lost: `held` is
what clients were really sent, `parent` what each token was exchanged for.

### Telemetry, TelemetrySimulator

A timestamp is modelled by its age, which `Tick` increases up to where no
threshold tells ages apart. A report is three statements (`UpsertHealthSnapshot`,
`CreateMetric`, `UpdateLastHeartbeat`), a health request three reads; nodes are
deleted and heartbeats overridden in between. `TelemetrySimulator` extends this
module with the process that reports for every node: rounds of requests that start
together and are awaited together, the sleep between rounds, the signal handler
and the file the container's health check looks at. `Prompt = FALSE` lets requests
and the timer take any time.

### ApiRoutes, AccessControl

`ApiRoutes` is the table of routes: for each handler the roles of `requireRole` and
the scope, from the router files, and `MountOrder`, the order in which `createApp`
mounts them: `Dispatched` says which route answers a request, since a `"/:id"` that is
mounted first swallows the named routes behind it (`app.ts:46`).
`AccessControl` runs a request through `authenticate`, `requireRole` and
`requireDepartmentScope` or `requireOwnership` to its handler, each database
access a step; a refusal by role (`"forbidden"`) and one by department or owner
(`"refused"`) are states of their own. Login reads the user, compares the password and
then signs a token with the role it has read: `ReadUser` and `SignToken` are two steps
with the clock and role changes in between, at most `MaxSignIn` apart. The token keeps
that role until it expires. Creation, status, role and department of users are modelled to the row;
other handlers count as reached.

### Inventory

The services of five resources and of users share one shape: read the row, the
row it refers to and the row that has its key; write; record an audit event; turn
some database errors into a 409. `Handlers` has one record per service function
with what it reads, which fields it writes and which error codes it catches;
`Schema` has the unique keys and the foreign keys with their `ON DELETE`. The
actions interpret the records one statement at a time, so that other requests
come in between. The database refuses what its constraints forbid: that is the
environment, and no property is about it. The properties are about what the services
make of it, that is, what they answer and when that was so.

### UtcCalendar, Calendar, Analytics, ReservationViews

`UtcCalendar` translates `reportBuckets.ts` and `week.ts` over the proleptic
Gregorian calendar, from the number of the day. `Calendar` puts a clock next to
it. `Analytics` has the requests of `analytics.service.ts` as sets of statements,
answered in any order the `Promise.all`s allow while bookings, sweep passes,
heartbeats and role changes go on; `begun` remembers the tables at the start. A node's
heartbeat is in two rows, its own and its snapshot's: reports write both, in two
statements, an administrator the first, each with the time that is named and not the
present one; the snapshot's counts if there is one. `lately` remembers the heartbeats a
node has had since the request came.
`ReservationViews` has availability, calendar, weekly schedule and lists as
functions of the tables, and the dashboard as five queries in any order.

### LegacyApi, LegacyAllocation, LegacySession

`LegacyApi` is the surface: the rate limiter, routes, roles, what the error middleware
makes of each error, and the statuses of the OpenAPI document. `LegacyAllocation` has the
handlers on requests and GPUs by statement, with documents in the handlers' memory
and saves that overwrite the changed paths; statements fail and processes die. `hits`
is what the limiter has counted of the one address that all requests come from.
The PATCH of a GPU writes whatever fields its body has, its VRAM and what is left of
it too; `resized` remembers the GPUs an administrator has done that to.
`LegacySession` has one browser tab and its account: the tokens in storage and
cookie, the interceptor with its queue, and the update of the user document that a
login does not await.

### WebSession, WebPages

`WebSession`: `AuthContext`, the guards of `App.tsx` and the login page in one tab,
while cookies expire and other tabs sign in and out. `WebPages`: `useApi` as render
and effect, with answers in any order, and the filter of the history page and the
selection and dialogs of the approvals page on top of it.

## 3. The runs

An MC module holds the values of constants. Several of them run more than one
instance of their component in one run: a variable `part` says which, and a property
reads `part = "x" => ...`. Where parts differ in their constants, those in the `.cfg`
belong to one part and `INSTANCE ... WITH` gives those of the others, as constants of
the MC module where a theorem is about them; the variables of another part keep one
value. Where a part only leaves out some behaviours (one request at a time, fewer
operations), the part restricts the steps instead: so in `MCFacultyBulk` and
`MCLegacy`. The dashboard and the calendar run next to the faculty's batches; the
other views and the reports run in `MCReports`, which extends `MCFacultyBulk` so that
their proofs can use those about the calendar, the dashboard and the lists.

| Run | Parts and bounds | Shows |
|---|---|---|
| `ReservationRaces` | 2 nodes, one with maintenance; 2 reservations with one pass at a time over times 0..2, and 1 reservation with 2 passes, one of which may die, over 0..3; 1 booking and 1 decision in flight | `TypeOK`, `NoMaintenanceOverlap`, `UseOnlyAfterApproval`, `SessionWithinWindow`, `NeverEarly` under every interleaving |
| `ReservationSerial` | 2 nodes, maintenance, 2 reservations, small and large demands, times 0..3; nothing overlaps | `NoDoubleBooking`, `ExactAccounting`, and `ImplementsLifecycle` |
| `ReservationSettles` | 1 node, 1 reservation, 2 passes, one may die, times 0..2; fairness | `ApprovedSettles` |
| `ReservationBookingRace` | 2 bookings in flight | violation of `NoDoubleBooking` |
| `FacultyBulk` | 3 reservations, of two departments; overlapping: 2 of 2 batches (2 ids each, also of both departments) and 1 decision in flight, 1 audit row fails; serial: 1 batch of either department; dashboard: 2 reservations, 2 nodes, previews of 1, over the end of a day; periods: reports of 2 buckets over 10 days around a leap day and about chosen months; fairness | `AllOrNothing`, `OwnDepartmentOnly`, `EveryBatchAnswered`; `AppliedToPendingOnly` (serial); `DashboardIsWhole`; `PeriodsTile` |
| `AuthSessions` | 4 tokens, 2 users, 2 requests; overlapping, and one at a time | `LogoutAllIsFinal`, `InactiveGetsNothing`; `OneUsableSerially`, `ReuseIsFinalSerially` |
| `Telemetry` | live: 1 node, 1 report that may fail half-way, 1 health request; whole: reports of 1 agent for 2 nodes; simulator: 2 nodes, prompt; slow: 1 node | `LiveIsTrue`, `StatementsAgree`, `SteadyAndHonest`, `ShutdownGoesOffline` |
| `AccessControl` | roles: 2 users, 3 roles, tokens that live 1 tick and are signed within 1, overlapping; scope: 3 users, 2 departments; routes: every endpoint, every role | `RolesAreFresh`, `AdminsMadeBySuperAdmin`; `UsersManagedInDepartment`; `RoutesDecideAsDocumented` |
| `Inventory` | 2 ids per table, 2 keys, 2 requests; departments and laboratories, nodes, courses with overlap; the tree of organizations and all services one at a time | `AnswersAreTrue`, `RacesAreConflicts`, `ReservationsKept`; `NoServerErrorSerially` |
| `Reports` | reports with 2 buckets over 2 reservations, from half a day before a day that begins a week and a month; departments, students, courses, nodes: 3 users, 2 departments, 2 courses of which 1 is listed, 2 nodes, 1 with heartbeats at any of 3 times; lists: 3 reservations, times 0..3 | `ReportsAreConsistent`, `BreakdownsAgree`, `ViewsAgree` |
| `Legacy` | 2 requests, 1 GPU, 4 windows; races: 2 handlers, 4 starts, 1 fault; serial: decisions, patches and deletions one at a time, 6 starts; answers: every operation but those of auth, `createUser` and rejection, every role, token and malformed id, 6 starts, of which the limiter admits 5 | `RacesTellTheTruth`; `DecisionsAddUp`; `EveryAnswerDocumented` |
| `Browsers` | history: 3 filters, 4 requests; approvals: 2 reservations, 3 lists, 2 batches; session: 3 users; legacy: 3 calls, 3 access tokens | `SessionsAgree`, `ListsAreCurrent`, `BrowsersSettle` |

Why the bounds are enough. Windows over 0..2 include back-to-back, equal, nested
and disjoint ones; 0..3 adds partial overlap and windows around the maintenance
window. A race needs two actors, so there are two slots of the kind in question;
slots are reused without limit, except in the legacy runs and in `WebPages`,
where starts are counted. Two ids give a row to delete and a row that takes its
key; two batches of two rows can wait for each other in a cycle; four tokens are
two logins and two exchanges, or one login and three. The ten days of "periods" hold
a leap day and the ends of weeks and of a month; the months asked for are around leap
days that exist and that do not, and the turn of a year. Three calls are one that refreshes
and two that wait behind it. `Within`, and the part of each run that is said where it
is defined, cut what adds states and no case: in "roles" one login at a time, next to
one token of an earlier one, or two tokens; in "nodes" the order of the answers no property looks at, in
"answers" what the limiter does while students have requests. Symmetry is used over
interchangeable ids, and never in a run with a liveness property.

`CHECK_DEADLOCK FALSE` is said of `Reports`, `Legacy` and `Browsers`, where counted
starts run out or every reservation is over. Everywhere else a request or a pass
can always begin.

### Fairness

- `ReservationSettles`: time passes and each sweep slot keeps taking steps, since
  `setInterval` fires as long as the process runs, statements return or throw, and
  a restarted process starts its interval again. Nothing is assumed of requests.
  Passes die a bounded number of times: a sweep that always died would settle
  nothing.
- `FacultyBulk`: a running transaction takes its next statement, Postgres hands a
  row's lock to those that wait for it in turn (hence strong fairness of
  `UpdateRow`), and its deadlock detection fails a request of a cycle.
- `Telemetry`: the requests of the simulator end, with an answer or an error, and
  its timer fires. In "slow" nothing bounds how long they take. (A request that
  never ends stops the heartbeats of every node; no document says otherwise.)
- `Browsers`: React runs the effects and the redirects it was told to, and every
  request ends in an answer or an error. Users owe nothing.

### Disagreements between the code and its documents

`ReservationBookingRace` shows the one that matters most: the check and the insert
of a booking are separate statements, so the "conflict-free scheduling" of the
README holds only while no two bookings of one node overlap. Modelling met others.
The models have the behaviour; the properties that hold say under which
assumption they do (`Serialized`, a part that is "serial", reports in order), and
dropping it from a configuration gives the counterexample.

- Decisions write by id alone (`reservation.service.ts:231`): an approval that read
  PENDING revives a reservation that was cancelled and rebooked since. The sweep
  does the same with CANCELLED (`reservationStatusWorker.service.ts:85`), which the
  status machine of `docs/api.md:158` excludes.
- Two passes open two sessions for one reservation
  (`reservationStatusWorker.service.ts:86`), although `docs/deployment.md:172` calls
  the api safe to run in replicas; a pass that dies between status and session
  loses the hours (`:23`).
- A batch may overwrite a decision that commits between its read and its update
  (`faculty.service.ts:296`); a failed audit row loses the batch and success is
  answered (`faculty.service.ts:301`, against `reservation.audit.ts:27`).
- Two refreshes of one token both get a live one (`auth.service.ts:192`); killing a
  family misses the session a refresh in flight adds (`:167`); logging out with a
  rotated-away token deletes the row reuse is recognised by (`:227`, against `:221`).
- A late report replaces a later one (`telemetry.service.ts:40`), a failed second
  statement loses a metric (`:41`), and a manual heartbeat has no effect on a node
  that ever reported (`:105`, against `gpuNode.service.ts:139`).
- The department of a target is read before the handler runs
  (`requireDepartmentScope.ts:48`); a demoted SUPER_ADMIN has no department
  (`user.service.ts:239`, against `:213`) and one with a department is possible
  (`:209`); an error inside an async middleware is never answered
  (`requireDepartmentScope.ts:35`).
- A role may be older than the 15 minutes that `authenticate.ts:11` promises: login reads
  the user before it compares the password (`auth.service.ts:103`, `:108`) and signs what
  it read (`:71`). The bound that holds adds that time (`MaxSignIn`).
- Deleting a node deletes its maintenance windows (`schema.prisma:279`, against
  `gpuNode.service.ts:175`); deleting a department leaves its users without one
  (`schema.prisma:147`); a course's owner may cease to be FACULTY
  (`user.service.ts:245`, against `course.service.ts:19`).
- A month in the year 0050 is anchored to 1950 (`reportBuckets.ts:60`); a
  department's utilization may read 200 % between two statements of a pass
  (`analytics.service.ts:106`); the dashboard cuts pending requests before it
  orders them (`faculty.service.ts:116`, against `docs/api.md:170`); availability
  without a window looks for no conflict (`reservation.service.ts:294`).
- Legacy: a PATCH writes any VRAM next to approvals that count with it
  (`gpu-resource/controller.js:74`), so that less than nothing or more than all may be
  left of a GPU: `HeldIsBacked` and `VramInRange` say nothing of a GPU once an
  administrator has done so. The limiter answers 429 to every operation
  (`src/backend/server/app.js:49`), which `docs/openapi.js` lists for none;
  `EveryAnswerDocumented` excepts it. Approvals of overlapping windows both save
  (`controller.js:145`), a request is decided twice (`:199`), a negative limit is answered 500 (`:14`), reject
  answers an undocumented 400 (`:199`), in development an expired token is a 500
  (`error/middleware.js:55`), so no client refreshes; a refresh that ends after
  sign-out signs the tab in again (`interceptors.js:71`), sign-out tells the server
  nothing (`PortalLayout.jsx:119`), a login's late update outlives a logout
  (`auth/controller.js:131`).
- Web: the answer to a page load's `me()` signs a tab in again after a logout
  (`AuthContext.tsx:28`); the login page returns to where a guard turned another user
  away (`LoginPage.tsx:21`).

## 4. The proofs

`ReservationServiceProofs` proves, for any sets of nodes, reservations and slots,
any maintenance windows and any bound on time and failures, and whether or not
requests overlap:

- `TypeCorrect`: `Spec => []TypeOK`, one lemma per kind of process;
- `InvCorrect`: `Spec => []Inv`;
- from it `NoMaintenanceOverlapCorrect`, `SessionWithinWindowCorrect`,
  `UseOnlyAfterApprovalCorrect` and `NeverEarlyCorrect`.

None of these four properties is inductive: each depends on what a request or a
pass read some time ago. `Inv` adds what such a process still knows. A booking in
flight knows that its eligible nodes have no maintenance in its window
(`BookerInv`). A decision in flight knows that its row exists (`DeciderInv`). A
pass knows that each row of its list exists, was approved and began before the
pass's own `now`; that the row it is activating ends after `now`; that the row it
is completing has ended; and that the session it found is still in the table
(`SweeperInv`). This knowledge survives every other process's step because of
`Persist`: rows are never removed, their node and window never change, approvals
are never forgotten, sessions are only added, and the clock never goes back. So
although statuses are overwritten freely, no stale read breaks these four
properties, whereas double booking, the status machine and single accounting
depend on statuses staying put and do break (section 3).

The same module proves what overlapping breaks and running one at a time does not. Assuming `Serialized`, `NoDoubleBookingCorrect` states `Spec =>
[]NoDoubleBooking`, however many requests and passes die half-way; assuming also
`MaxAborts = 0`, `ExactAccountingCorrect` states `Spec => []ExactAccounting`. Neither
is inductive. `SerialInv` first shows that at most one process is in flight
(`OneAtATime`), which is all that `MayStart` gives, and from it that what this
process has read is still so when it acts: the nodes a booking found eligible are
still free (`Checked`), a decision's row still has a status that allows it
(`Decidable`), and each row of a pass's list still has the status it was listed for
(`Listed`). These three are what the races of section 3 take away; a lock, a
conditional update or an exclusion constraint that restored them would restore the
theorems. `ExactInv` adds what a pass has yet to write (`WritingOK`): between the two
statements of an activation the session is missing, between those of a completion
it is still running, and the pass's list names no such row. The theorem needs
`MaxAborts = 0`: a pass that dies there leaves an ACTIVE reservation without a
session, and no later pass opens one.

Under the same two assumptions it proves `ImplementsLifecycleCorrect`: `Spec =>
ImplementsLifecycle`. Seen from outside
(`SeenFromOutside`), a reservation that a pass is writing keeps its old status until
its session is written; so a booking is seen when it creates its row, a decision when
it updates one, a pass when it writes a session, and everything else is a stutter.
The step lemmas (`BookingRefines`, `DecisionRefines`, `SweepRefines`) take the guards
of the lifecycle's actions from the invariants of both modules before: `Free` from
`Checked` and `BookerInv`, the status a decision starts from out of `Decidable`, the
moment a use starts or ends out of `SweeperInv`, and the one session out of
`WritingOK`.

`LifecycleSchedulesWithoutConflict` states of the promised lifecycle itself, for any
moments, that it never double-books a node; its invariant is the type of `booking`
together with the property.

The assumption on the constants is `ConstantsAssumption`: sizes and times are
natural numbers, maintenance windows are not empty, and `None` is neither a
reservation nor a node. TLC evaluates it in every run of `ReservationService`.

`FacultyBulkProofs`, whose later sections are about the dashboard, the calendar, the
reports and the other views, proves, for any reservations, departments, lists and number
of requests, `AllOrNothingCorrect`, `OwnDepartmentOnlyCorrect` and
`LocksAreLiveCorrect` (a row is locked only by a running request that has updated
it). The first two are about steps: what a step of a batch changes of the committed
table. That a commit changes its list, the whole of it and nothing else, depends on the
locks the request has gathered statement by statement while others took and gave back
theirs: `Inv` says that it holds exactly the rows it has passed (`CommitHoldsList`),
and that every one of them, and the row it has just checked, is its department's
(`Knows`). The department check of a row happens steps before the commit that makes it
count, and other transactions come in between.

`AppliesToPendingOnlyCorrect`, an action property, needs `Serialized`: a batch that
commits applies to rows that were all PENDING. `SerialInv` says that no two requests
overlap and that each row a batch has passed is still PENDING in the committed table;
where requests overlap, a decision that commits in between takes that away.
`AppliedToPendingOnlyCorrect` is the same of the part "serial".

`DashboardCorrect`, and `DashboardIsWholeCorrect` of the part "dashboard", are about
answers of different moments. `DashInv` says what keeps a session that has been live
since the question from falling between them. If it is not among today's sessions
(`TodayOK`), its window does not touch that day, and windows never change. If it is
not among the upcoming ones (`UpcomingOK`), it had begun before the question, has begun
by now (only then is it ACTIVE), or is behind a full preview. While the day lasts, the
first makes it begin after now, which leaves only the last. Nodes in use are nodes of
the department, since a row never changes its node. `DashboardAssumption`: moments are
whole numbers, nodes and reservations are finitely many, `None` is no node, no moment,
no set of reservations and no window, and a maintenance window has a
`MaintenanceStatus` of `schema.prisma`.

`CalendarCorrect`, and `PeriodsTileCorrect` of the part "periods", are about the
calendar for every day there is. `YearExists` finds the year of a day through cycles of
400 years, centuries, leap cycles and years; `YearOfCorrect` and `DateCorrect` say that
the searches which stand for `getUTCFullYear` and `getUTCMonth` find it, and only it;
`MonthPeriod` says that from the first of a month, `Date.UTC(year, month + 1, 1)` is the
first of the next, also when months are counted back past January. The buckets then
are `Units` times consecutive days, Mondays or firsts of months. The invariant
`CalendarOK` is only that the last report is about the present, or about a month that
was asked for. `CalendarAssumption`: a present since 1970, at most 90 buckets (the most
that `dailyReportQuerySchema` admits), and no month before the year 200, since
`Date.UTC` takes the years 0 to 99 for the twentieth century (a divergence listed in
section 3).

`RequestsFitTogether` is about `Analytics`, for any tables, users, departments, nodes,
thresholds, times and numbers of buckets, whatever goes on between the statements of a
request. Its five properties compare an answer put together at many moments with the
tables as they were when the request came and as they are now. Their argument:

- Between any two statements the tables only grow (`Grew`): what was made stays, with
  its node, owner, course and `createdAt`; a use that is over stays as it was; and what
  is new has a `createdAt` that is not before the request. `MeanwhileGrows` proves it of
  every operation, `GrewOn` that it adds up over many.
- So the answer to a statement lies between what it would have been at first and what
  it would be now (`AnswerOK`), which stays true when the tables grow further
  (`AnswerStays`); and what is counted in a bucket that is over cannot change
  (`PastIsClosed`). `StatInv`, the inductive invariant, says this of every answer given
  so far, together with what the rows of the tables may be (`RowOK`: a session that has
  ended did so in the past, one that has not is of an ACTIVE reservation).
- Heartbeats do not grow: a later report may name an earlier time. A node's connectivity
  is put together from its row and, later, its snapshot; either the snapshot that was
  found is the one of that moment, and counts, or there was none, then neither was there
  when the row was read, and the row counted (snapshots are never deleted). So each
  node is shown as it was at one of the two moments.
- A report that is answered adds its buckets up. They tile their span (the theorem about
  the calendar), so each instant of it is in exactly one (`TileCovers`); departments
  share out the reservations, statuses those of a bucket. Adding up by such parts adds
  up everything once (`SumByParts`), and sums of numbers between others lie between
  their sums (`SumBetween`). The laws of sums over sets come first, by a least
  counterexample among the subsets of a finite set.

`ActiveStudentsCorrect` needs `Serialized`: the number of students and the list of their
ids are two statements, and whoever becomes a student, or is one no more, between them
is in one of the two only.
Then the answers are all of the tables the request began with (`StudentsInv`).
`ReportsAreConsistentCorrect` and `BreakdownsAgreeCorrect` are the same of the parts of
the run. `StatsAssumption`: finitely many reservations, users and departments, whole
numbers as moments, at most 90 buckets and 50 courses (`analytics.dto.ts`), and `None`
is nothing else.

`ViewsAgreeCorrect` is about the other views, for any reservations, windows and page
sizes. Availability and calendar read statuses and windows as the engine's conflict
check does, of rows and maintenance windows that have one of the statuses there are
(`RowsOK`). Today is in its week whatever day it is, and each reservation is in the one
laboratory of its node. A list in order exists (`OrderExists`, by a least
counterexample), so the one that is shown has its rows; page `p` of it begins where page
`p - 1` ends, the last page is the first to reach the end (`PagesReach`), and so the
pages, joined one after the other, are the list (`PagesJoin`).

`AuthSessionsProofs` proves, for any tokens, users and requests, that
`LogoutAllIsFinal` and `InactiveGetsNothing` hold. The first depends on the order
of two statements: a refresh inserts the new row first and updates the old one
after, and the update of a row that logout-all has deleted throws. `Inv` says what
requests have read that stays so (`Knows`: whose token, of which family, and that
the row is gone if that family was ended by a logout-all), that a live token of an
ended family is an orphan that no client has or will be sent (`Orphan`), and that a
request that began after a deactivation has not passed the status check
(`BarredInv`). Whoever changes `refresh` to update with `updateMany`, or to revoke first,
loses the theorem (and the run `AuthSessions` shows how).

With `Serialized`, `OneUsablePerFamilyCorrect` and `ReuseIsFinalCorrect` prove that
rotation leaves at most one token of a family that a client can use and that a family
killed for a replay stays dead, although requests still die between their statements.
The invariant follows the one request in flight: the token it is to exchange stays
usable until it is revoked, and its replacement has not been sent before (`Rotates`).

`InventoryProofs` proves `AnswersAreTrueCorrect`, `RacesAreConflictsCorrect` and
`ReservationsKeptCorrect` for any ids, keys, seed and
number of overlapping requests, over the services and the schema as they are: the
proofs read `Handlers` and `Schema` only through lemmas that say which tables refer
to which, with which `ON DELETE`, and which errors a service catches. `Inv` says what a
request in flight carries (`Good`: rows of its table, and that it has written exactly if
it is past its write), that two inserts never share an id (`IdsFresh`), and that the
tables are as the constraints want them (`KeysUnique`, `NoDanglingReference`, which are
the database's and no theorems here). `SeenInv` adds what a request has read that stays
so although others write: a row stays in the department or organization it was found
in as long as it is there, so that a key found taken there is taken where the row is. A
service catches every refusal that its table can meet but those about rows that are gone,
which is all that is left for a 500. The hard case is a cascade, where rows of three tables disappear and lose
references in one statement.
`NoServerErrorCorrect` assumes `Serialized`: then whatever a request has looked up is
still so when it writes (`Known`), so that lookups and caught error codes together
cover every refusal of the database. For the parts that TLC runs the theorems assume
`Ops = EveryOp`, that is, they speak of all services.

`AccessControlProofs` has three arguments. `DecidesAsDocumentedCorrect`: whoever is
admitted, refused or forbidden is so as `docs/api.md` tabulates, through a lemma about each
router, one that no route is swallowed (`NodeByIdIsLast`: the only `"/:id"` that could
is mounted last), and an invariant of the requests in the middleware (`MiddlewareInv`), while
users change under them. `WritesStayInDepartmentCorrect` (one request at a time)
follows the department that the scope check has compared until the write
(`ManagementInv`); a target or an actor without a department is refused, so that two
missing departments never count as the same.
`RoleStalenessBoundedCorrect` and `MakesAdminsAsSuperAdminCorrect`: `RolesInv` bounds
how long ago the role of a reading (`SigningOK`) and of a token (`TokensOK`) was its
user's by the age of the one, and by that of the other and `MaxSignIn`; and it keeps what
a handler has checked of the role it is about to write.

`TelemetryProofs` proves that what was acknowledged is seen and that maintenance is no
incident (`LiveCorrect`). Ages, not times, are compared, so the invariant relates what
three tables hold, what the report in flight has written so far (`Underway`) and what
a reader has read while the clock went on (`Reading`, `Covered`). It assumes `Skew =
0`: with an agent's clock ahead of the server, a node whose heartbeat is
overridden and whose snapshot is gone may show an older heartbeat than the one
acknowledged. Where nothing is overridden the clocks may differ by any `Skew`; so in
the part that TLC runs (`LiveIsTrueCorrect`). `WholeCorrect` proves that snapshot,
history and node agree whenever no report of the node is in flight; `Agrees` says
which of the three statements a running report has got to.

`SimulatorCorrect`, and `SteadyAndHonestCorrect` of the part "simulator", are about the
simulator's loop, for any number of nodes and any interval below the ONLINE threshold
and no more than a third of the health check's. They assume `Prompt`: requests take no
time and the timer is on time. (With requests that take long, or a timer that is late, a
node does flap; the code bounds neither.) `SimInv` follows a round: what it has reported
has just been seen (`RoundRecorded`); a node whose last request succeeded was seen no
longer ago than the sleep, or than one interval while the next round is sent
(`SeenLastRound`); and some reading is no older than the health file (`FileBacked`).

`BrowsersProofs` proves the promises of the pages: `PortalMatchesRoleCorrect`,
`LegacyTabCorrect` (`LegacyInv`: `isRefreshing` is true exactly while one call
refreshes, and only then do calls wait: then none is stranded, in the sense that none
waits for a refresh that is not under way), `ShownIsAskedCorrect` and
`ApprovalsCorrect` (a reservation this tab knows decided is not pending in the
database, so not in any answer to a request that was sent after; boxes are ticked only
on a page that waits for nothing).

`LegacyProofs` proves three things of the legacy handlers, for any documents, users,
windows and sizes.

- `LegacyTellsTheTruth`: whatever overlaps, fails or crashes, what students are sent,
  auditors read and callers are answered was so, and free VRAM stays between nothing
  and all of it, of GPUs for which no administrator has written the VRAM. `Knows` says what each stage of a handler relies on, for instance
  that the GPU it is about to save has the VRAM of the one stored. It survives the
  steps of others because of `Persist`: requests are never removed, deleted GPUs do
  not come back, the size of a GPU changes only by a patch, which `resized` remembers,
  and no status that was is forgotten. (`NoOverlap` and `HeldIsBacked` have no such argument, and do fail when
  decisions overlap.)
- `EveryAnswerDocumentedCorrect`, for the part "answers". With one request at a time
  the documents in memory are the stored ones (`OneAtATime`, `Current`), so that no
  save finds its document gone. It assumes what the code needs: not development mode,
  and no negative limit (a negative limit with a later page is answered 500, which no
  document lists); it excepts the limiter's 429, which comes before anything else
  (`Admission`); rejection is not in this part, since its 400 is not listed either.
- `DecisionsAddUpCorrect`, for the part "serial": approved windows do not overlap, and
  the VRAM held of a GPU is never more than its approved requests ask for (again unless
  an administrator wrote it).
  Approving and completing save two documents, so `Owes` says what is
  between the two: the approval that is half saved already holds its VRAM, and of a
  completion that is half saved nothing is held any more. What approved requests
  ask for is a sum over a set (`MapThenSumSet`). Its laws are proved first: that the
  sum exists, depends on nothing but the values, and that any element may be taken
  out of it (`SumExists`, `SumCongruent`, `SumRemoves`), by a least counterexample
  among the subsets of a finite set (`SmallestSubset`, from the library's `WFMin`).

Assumptions: the named assumption on the constants of each module, which TLC evaluates
in its runs; and where a theorem's ASSUME states them, `Serialized`, `Prompt`,
`MaxAborts = 0`, `Skew = 0`, `Ops = EveryOp` and the two of
`EveryAnswerDocumentedCorrect`. Each is so in the run of that component, or in its part
where nothing overlaps.

So every safety invariant and every action property of the passing runs, and the
refinement, is stated by a theorem. Only model-checked:

- liveness (`ApprovedSettles`, `EveryBatchAnswered`, `ShutdownGoesOffline`,
  `BrowsersSettle`): temporal proofs under fairness, and ENABLED, are out of the
  prover's reach;
- the violation of `NoDoubleBooking` where bookings overlap, which is a counterexample.

## 5. Not modelled, and what could come next

- Left out for good: rendering, forms, charts and CSV; logging; the OpenAPI text of
  the new api; the Redis events, which nothing in the repository consumes; the worker
  stub, whose queue nothing fills; the seed, but for the states it starts the models
  in; sockets, `createUser`, the auth answers and the login limiter of the legacy system
  (whose global limiter is modelled, for requests of one address).
- Audit rows are modelled where their failure decides something (`FacultyBulk`,
  `Inventory`), and left out elsewhere: their errors are swallowed and nothing reads
  them back.
- Analytics: counts of tables that the model keeps constant, and the seven-day
  average of `gpu_metrics`.
- A legacy tab is alone: another tab that clears the shared localStorage is left out. The
  history page asks a bounded number of times, and `BrowsersSettle` says nothing of it
  once the last request is sent.
- Decisions that overlap, in either system, may both succeed (section 3): no property
  excludes it.
- Passwords, signatures and hashes are abstracted to whether they match.
- The pages of the web client other than the login, history and approvals pages
  show what `useApi` fetched and keep nothing of their own that lasts, but for the
  read notifications in localStorage.
- Next: the composition of `Telemetry` with the free `online` choice of
  `ReservationService`, and of the batches of `FacultyBulk` with its sweep.
