# StaffWeave in TLA+

StaffWeave records working time: people punch in a browser or at a card reader,
correct and submit their days, managers approve them, leave is granted and taken,
months are closed and handed to payroll, and other systems are told by webhooks.
It is a pnpm monorepo in TypeScript (`src/packages`: `domain`, `contracts`, `db`,
`api`, `web`, `agent`, `connector`) over PostgreSQL.  This directory holds TLA+
modules of its protocols and calculations, the TLC configurations that check them
and theorems that TLAPS proves.

Paths below are relative to `src/packages`.

* [How to run](#how-to-run)
* [The system](#the-system): inventory
* [Modules](#modules): what each models and how it corresponds to the code
* [Runs](#runs): what each checks, bounds, fairness
* [What was found](#what-was-found): where the code and its comments part
* [Proofs](#proofs): theorems, assumptions and arguments
* [Not modelled](#not-modelled) and [plan](#plan)

## How to run

    tlc -workers 2 -config WebhookOutboxRace.cfg WebhookOutbox.tla
    tlc -workers 2 -config MonthRaces.cfg MCMonthRaces.tla
    tlapm BrowserProofs.tla

`PROJECT.json`, "runs", names the module of each `.cfg`: the `MC*` module of its
system, or the system's own module where its constants are sets of model values.
`PROJECT.json`, "theorems", names the eight `*Proofs` modules.

Definitions whose comment begins with "Mutant" are bugs the code might have had; they
are used by nothing and stand before the definition they vary, to check that the
properties can tell them apart (`PROJECT.json`, "mutants").

## The system

State is in PostgreSQL unless said otherwise.  A service method runs its statements in
one READ COMMITTED transaction (`db/src/database.ts`, a plain `BEGIN`) or, as all of
`identity`, in none.  So what makes the system hard is what happens between two
statements of one operation, between two processes that share files or two pages that
share a storage, and between a request and its lost answer.

| Component | State | Operations | Modules |
| --- | --- | --- | --- |
| Webhook outbox (`api/src/integration/outbox-*`, `delivery-*`, `sender`; `domain/src/integration/retry`) | rows of `webhook_outbox` with claim, lease, attempts; history `webhook_deliveries` | enqueue, claim, send, record, retry, abandon, complete, requeue; worker loop | `WebhookDelivery`, `WebhookOutbox` |
| Device agent (`agent/src/cli`, `agent/src/service`) | credentials file with the next number; spool directory | enroll, punch, observe, queue, station, serve, flush | `DevicePunches`, `Stations` |
| Device and card punches (`api/src/device`, `api/src/card`, `domain/src/device`) | `devices.last_sequence`, `device_event_receipts`, cards and tokens | authenticate, check the number, record; register, enroll, revoke | `DevicePunches`, `Stations`, `Employment` |
| Attendance record (`api/src/attendance`, `domain/src/attendance/{events,corrections}`) | `attendance_events` (append only), versions of calculations | punch, correct, void | `WorkDay`, `AttendanceMonth`, `MonthTotals` |
| Daily requests and closing (`api/src/approval`, `domain/src/approval`) | each day's request, its transitions; the closing, its snapshots | submit, approve, return, cancel; close, reopen | `AttendanceMonth`, `MonthRaces`, `MonthTotals` |
| Browser offline queue (`web/src/offline`) | queue and archive in `localStorage` | add, flush, dispose | `PunchQueue` |
| Staged requests (`api/src/request`, `domain/src/approval/{staged-request,approval-route}`) | types, routes; requests, steps, decisions; delegations | submit, decide a stage, return, resubmit, cancel | `ApprovalChain`, `StagedRequests`, `AppliedRequests` |
| Leave (`api/src/leave`, `domain/src/leave`) | ledger; rules; runs of the scheduler | grant, adjust, take, reverse; scheduled and bulk grants, imports | `LeaveBalance`, `LeaveLedger`, `LeaveGrants` |
| Months, periods, overtime (`api/src/monthly`, `domain/src/attendance/{monthly,period}`) | totals, snapshots, rule versions | report, recalculate, export | `MonthTotals`, `Periods` |
| Calculation of a day (`domain/src/attendance/{calculation,breaks}`) | none | minutes worked, breaks, overtime, rounding | `WorkCalculation` |
| Identity (`api/src/identity`, `domain/src/identity`) | users, sessions, counts of failed logins | log in, authenticate, block, log out, passwords, revocations | `Sessions` |
| Session observations (`api/src/session`) | observations, receipts | record a batch, compare with a day | `Stations`, `PcSessions` |
| Notifications (`api/src/notification`) | notifications, read marks | enqueue, list, mark | part of `StagedRequests` |
| Organization and schedules (`api/src/{organization,schedule}`) | contracts, assignments, cycles, categories, schedules | edit, generate; who may see whom | `Schedules`, `Employment`, `Visibility` |
| Integration API, connector (`api/src/integration/service`, `connector`) | endpoints, API keys | export, register, verify | export in `MonthTotals` |
| Audit (`api/src/audit`, `domain/src/audit`) | append-only log | write, detect anomalies | `Anomalies` |
| Retention, CLI (`api/src/operations`, `api/src/cli`) | | delete by age; bootstrap | deletion of counts in `Sessions` |
| Database and migrations (`db`) | applied migrations | constraints; migrate under an advisory lock | constraints, in the models that rely on them |
| Settings console (`web/src/admin`) | a list, a form and requests under way, in memory | choose, fill in, copy, save, act, import | `SettingsSections`, `SettingsPages` |
| Contracts, other web pages (`contracts`, `web`) | | schemas, screens | none |

What makes each correct, and where it is hard:

* **Outbox.**  A notification that is committed with its business change is sent at
  least once or given up after the allowed number of tries, never both; a worker that
  comes late cannot overwrite what another one decided.  Hard: lease expiry under a
  slow send, crashes between send, record and settle, a person requeuing meanwhile.
* **Device punches and observations.**  Every punch and batch is recorded at most once, in
  the order of the device, and none is lost to a lost answer or a crash.  Hard: files
  are shared without locks, numbers and names come from two counters, requests arrive late.
* **Attendance record.**  Each punch is valid on the day it is recorded on, retries
  do nothing, the day shows the newest correction.  Hard: two punches at once, a retry
  beside its first try, `recorded_at` that is the time a transaction began.
* **Requests and closing.**  A closed month is approved and its figures are those that
  payroll has; approval is only undone by a reopening.  Hard: no operation but punches
  and corrections takes a lock.
* **Staged requests.**  Stages are decided in order, once, by those allowed, who know that it
  is their turn; the request takes effect once.  Hard: rows are written from stale
  reads, while routes, types and delegations change.
* **Leave.**  No day is overdrawn, every minute is accounted for, each employee gets
  each grant once, also when the scheduler was down for days or two run at once.  Hard:
  entries with a date in the past, catch-up, settings that change during a run.
* **Calculations.**  The latest version of a day is that of what is committed, no minute counts
  twice, a closed month stands.  Hard: the version is read and added without a lock.
* **Browser queue.**  A punch that was shown is not lost.  Hard: two tabs, storage that
  fails, disposal during a flush, a crash between send and save.
* **Settings console.**  A list shows what was saved; what was filled in once is saved once.
  Hard: lists and saves are answered in any order, or not at all.
* **Identity.**  A change of the password ends the sessions before it, use keeps a
  session, a block ends when it was to end.  Hard: every statement commits by itself.
* **Settings.**  One token registers one card, periods tile the days, a screen and an export
  agree on whom a user sees, nothing set by hand is overwritten by a generation.

`PROJECT.json`, "hazards", lists these at their lines.

## Modules

### WebhookDelivery, WebhookOutbox

`WebhookDelivery` is what a receiver and an administrator may rely on: a notification
is unpublished, waiting, ended or given up; it ends only on a verdict that is in the
log, is given up only after the last allowed transient failure, and tries grow by one
with a failure in the log.  It knows no workers, claims or time.

`WebhookOutbox` is the code.  A row is a pair of event and endpoint, the UNIQUE key of
migration 0014.  Each statement of `outbox-repository.ts` is one action, because the
repository runs in autocommit and each UPDATE tests and sets its row atomically:

| Code | Action |
| --- | --- |
| `enqueue` (`outbox-writer.ts`) | `Publish`: one row per endpoint active at that time |
| `claimNext` | `Claim`: oldest claimable row, new token, lease, the row copied into memory |
| `deps.send` (`delivery-processor.ts`) | `Send`: the outcome is chosen; `skipped` for an inactive endpoint |
| `recordDelivery` | `RecordDelivery` |
| `scheduleRetry`, `abandon`, `complete` | actions of the same name; `Rejected` when no row matches |
| `requeueAbandonedDelivery` | `Requeue` |
| `run`, `stop` (`delivery-worker.ts`) | `Stop`, `Exit`, `Start` |
| crash, or a statement that throws | `Interrupted` |
| PostgreSQL's clock | `Tick` |

Abstractions.  Only differences of time matter, so `available_at` and
`claim_expires_at` are ticks from now.  Of overdue rows only the order matters: `Tick`
keeps them at ranks -1, -2, ..., so that time can go on for ever in a finite state
space.  Tokens are reused once no row and no worker holds them, as random UUIDs never
collide.  HTTP results are three outcomes, those `isRetryable` and the inactive
endpoint tell apart; "transient" includes an answer lost after the receiver took
the notification, so at-least-once is not an assumption of the model.

### DevicePunches

The agent's `station` and `queue` processes, its sender, the requests on their way and
the server.  The agent's processes share the credentials file and the spool
directory; each file operation is an action (`LoadCredentials`, `SaveCredentials`,
`ListDirectory`, `Add`), so any of them may interleave with the sender's `List`,
`Send` and `RemoveSpooled`.  On the server `Authenticate` and `Refuse` happen before the
transaction, and `AnswerFromReceipt`, `RejectReplay`, `RejectPunch`, `Accept` and
`ServerError` are what the transaction, which holds the row of the device, may come to.

Abstractions.  A punch is a model value with its request id; the name of a file is its
numeric prefix (the request id behind it only breaks ties).  Whether the employee,
card and day take a punch is free, for it depends on the rest of the system.  A
request stays in `requests` until it is answered, and need never be; the sender that gave up
on it may send the punch again, so a retry may overtake its first try.

### WorkDay, AttendanceMonth, MonthRaces, Anomalies, AppliedRequests

`WorkDay` has the pure part: `resolveEffectiveEvents` (`Correction`, `Outcome`,
`Effective`), `summarizeWorkDay` (`StateOf`) and `decidePunch` (`PunchTable`).

`AttendanceMonth` has the transactions of one employee's month.  Every SELECT on which
a decision rests is an action; the writes of a transaction show at its COMMIT, so they
are its last action.  The locks are those in the code: `lockEmployee` for punches and
corrections, and the row that `saveClosing` writes until its transaction ends.
`begun` keeps the order in which transactions began, since `recorded_at` is `now()`,
and events are read in that order.

| Code | Actions |
| --- | --- |
| `recordAttendanceEvent`, `correct` (`attendance/record.ts`, `service.ts`) | `Punch`, `AddRecord`, `VoidRecord`, `AdjustRecord`, `LockEmployee` or `Duplicate`, `ReadRequest`, `ReadClosing`, `Record` or `RefuseRecord` |
| `submit` (`approval/service.ts`) | `BeginSubmit`, `ReadRequestToSubmit`, `SaveRequest` |
| `decide` | `BeginDecide`, `SaveRequest` |
| `close` | `BeginClose`, `CountUnapprovedDays`, `SaveClosing`, `Close` |
| `reopen` | `BeginReopen`, `Reopen` |

Abstractions.  The instants 2 and 3 are one day.  What is calculated for a day is its version:
`recalculateWorkDay` makes a new one exactly when what counts has changed
(`MonthTotals` has the versions themselves).  The snapshot of a close is the version of
each day.  `saveClosing` and `listDailyTotals` are one step: between them no read or write of
another transaction depends on the first, except those that wait for its row, which wait
in either case.  The day's events are read in the step that locks the employee, since only
who holds this lock inserts events.  The type of a card punch is decided once before and
once under the lock; the first decision only picks the type, and `Punch` allows any.
Permissions, comments and time zones are left out.  So are schedules: setting or generating one
calculates a day again whether or not its month is closed (`schedule/service.ts:368`, `:622`), and
what that does to a closed month is in `MonthTotals`.  Here "as it was counted" is about records.

`MonthRaces` adds history variables, which no action of `AttendanceMonth` reads, for what one
transaction does while another one decides: who had read a request before its last change
(`overtaken`) or the closing before the month was closed (`early`), and which days were written
to between the count of a close and its commit (`beside`, `raced`).  With them the two properties
of a month can be stated for overlapping transactions, each exception by name.

`Anomalies` is the review of the records (`audit/anomaly-{service,repository}.ts`): what
SQL collects as the events in effect, beside what `resolveEffectiveEvents` says, and what
is listed from it.  `AppliedRequests` adds `applyToAttendance` and `rewritePunches`
(`request/service.ts`), what the approval of a correction request does to the day, as one
action: a request may be for several days or say no times (`NoTime`); one that corrects punches and
is for several days is refused, and one without times changes no record, but its day is calculated.
`month_records` checks its specification, `SpecApplied`.

### ApprovalChain, StagedRequests

`ApprovalChain` is what the stages of a request promise: decided one after another, each
once; a submission follows one that was returned; the request takes effect with the
approval of its last stage, once, and nothing is decided after that.

`StagedRequests` is the code.  A transaction first reads (`FindRequest`, `FindType`) and
writes in its last step; rows are written without a condition on what was read.

| Code (`api/src/request`) | Action |
| --- | --- |
| `submit` (`service.ts:726`) | `FindType`, `Submit`: row, snapshot of the route (`SnapshotRequestSteps`), notifications (`Tell`) |
| `resubmit` | `FindRequest`, `FindType`, `Resubmit` |
| `approve`, `return` | `FindRequest`, `Approve` or `Return`: attributions with delegates, the unique decision (`AddApproval`), the effect with the last stage |
| `cancel` | `FindRequest`, `Cancel` |
| types and routes | `CreateType`, `UpdateType`, `ReplaceRoute` |
| `createDelegation` | `CreateDelegation` |
| `listApprovers`, `listAwaitingMe` | `ListApprovers` and `AwaitingMe` in `TurnIsAnnounced` |

Abstractions.  The leave an approval takes and the punches it rewrites are `reflected`
here; `LeaveLedger` and `AppliedRequests` have them.  Delegations have no dates: one that
may be created admits its delegate from then on.

### LeaveBalance, LeaveLedger, LeaveGrants

`LeaveBalance` is `domain/src/leave/ledger.ts`: the balance as a fold over entries in the
order `buildLeaveBalance` walks them, with its buckets by expiry.

`LeaveLedger` has the transactions on one employee's ledger: `Grant`, `Allow` (a
positive adjustment), `ReverseEntry` (one INSERT each, no lock) and `Deduct`, `Consume`,
which lock the employee, read the balance, plan their rows (`Propose`) and end in
`CommitEntries` or `RollbackEntries`.

`LeaveGrants` has the automatic grants of one type: `StartRun` and `PlanDates` (which
days are pending), then for each day `Claim`, `ReadPlan`, `CommitDay` or `RefuseDay`,
`Fail` anywhere; `GrantInBulk`, `ImportCsv`, `CreateRule`, `UpdateLeaveType` meanwhile,
and `NextDay`.  `Preview` is what the page shows as left.  An employee whose date of hire is not
known (`NoDay`) is passed over by the plan.  The employees are those who are active all the while:
`listGrantCandidates` takes no others (`leave/repository.ts:486`).  The calendar is a
constant; years of two days hold every position of a hire date.

### PunchQueue

The queue of `web/src/offline/punch-queue.ts` and the page that owns it, over one owner's
`localStorage`: `Open` reads and archives what it cannot parse, `Press` and `Enqueue`
accept a punch, `Flush`, `Send`, `Answered`, `Unanswered` and `NotAllowed` are the sender,
`Dispose` and `Close` the page's end.  Two pages hold two queue objects over one storage.
Reads, writes and requests may fail (`Mishap`), and a request may arrive after its sender
gave up (`ArrivesLate`).

### SettingsSections, SettingsPages

The settings console of `web/src/admin`.  `SettingsSections` is data: for each of the twenty-one
sections what it reads and writes with, whether its list depends on a choice, which fields
must be filled in and which a save clears, and what its rows offer; and the menu.
`SettingsPages` takes these as constants and has what every section is built from:
`Navigate` (`AdminConsole.tsx`), `Choose`, `ReadRows`, `Loaded` and `LoadFailed`
(`useLoadable`), `Fill`, `Copy`, `Submit`, `ActOnRow`, `Import`, `Saved` and `NotSaved`
(`SettingsSection.tsx`), with the server as `Store` and `StoreRest`: what the endpoints
of the twenty-one sections have in common, of which `map` names examples (`createType`,
`replaceRoute`, `createOrganization`, a unique key).  A fill is a number; a row says from which
fill and for which choice it was saved.

### WorkCalculation, MonthTotals

`WorkCalculation` translates `calculateWorkDay`: attendance, breaks (fixed, automatic,
punched), rounding, recognised and unrecognised work outside the schedule, night and legal
parts, and `summarizeMonth`.  The code walks a day minute by minute; a day here is a set of
instants, and a day of eight instants holds each position of the bands.

`CalculationInput` is what a day may be calculated from, part by part as the interfaces of
`calculation.ts` have it; the first inputs, schedules and rules of `MonthTotals` are such.

`MonthTotals` has the stored versions of those calculations:

| Code | Action |
| --- | --- |
| punches and corrections (`attendance/{record,service}.ts`) | `Record` |
| `putSchedule`, approval of overtime, recalculation | `PutSchedule`, `ApproveOvertime`, `Recalculate` |
| `recalculateWorkDay` (`attendance/day.ts:253`) | `ReadDay`, `FindLatest`, `InsertVersion`, `Commit` |
| locks of rows and of unique keys | `Contends`, `Waits`, `Fail` for the one the database aborts |
| `close`, `reopen` (`approval/service.ts`) | `ReadClosing`, `SaveClosing`, `CommitClosing` |
| `payrollCsv` (`export-service.ts:193`) | `Payroll`, what a month's export shows |
| a rule version comes into effect | `CreateRuleVersion` |

A close succeeds here whenever the month is not closed: `AttendanceMonth` has the
approvals it asks for.

`Fingerprint` is all that a calculation reads.  `fingerprintSource` (`calculation.ts:736`) leaves
out the daily legal minutes, but names the version of the rules they come with, which no other
rules share (`schedule/repository.ts:251`).  The labor system is an input as any other; that it
is replaced by another is no action here, as its endpoint calculates nothing.

### Sessions

Logins, sessions and passwords, statement by statement: `BeginLogin`, `CheckSource`, `Verify`,
`FindAttempts`, `SaveAttempts`, `ClearAttempts`, `OpenSession` for `login`; `Authenticate`,
`Renew` and `JustUse` for `authenticate`; `SetPassword`, `RevokeOld`, `RevokeMany`,
`RevokeOne`, `Logout`; `Purge` for the command that deletes old counts; `Interrupt` for a
process that stops anywhere; `Tick`.  A password hash is the number of the change that set
it.

### Schedules

Cycles, categories, assignments of cycles and schedules of one employee: `CreateCycle` and
`InsertCycleDay` (in no transaction), `CreateCategory`, `ImportCategories`, `Assign`,
`EndAssignment`, `EditSchedule`; and `Generate`, the transaction that goes through the dates:
`Begin`, `ReadDates`, `ReadDay`, `WriteDay` or `PassOver`, `CommitGeneration` or
`RollbackGeneration`.

### Employment, Periods, Visibility

`Employment` has contracts, assignments, rule versions and labor systems (one statement
each) and the transactions on cards: `CreateRegistration`, `RegisterCard`, `MarkTokenUsed`,
`InsertCredential`, `CommitRegistration`, `RevokeCredential`, `ChangeEmployeeStatus`,
`RevokeCardsOfEmployee`, each statement a step that waits for rows others wrote.
`Periods` is pure: weeks and settlement periods of a range, over short months.
`Visibility` decides twice who may see an employee, on rows (`CanAccess`, `IsVisible`) and in
the conditions of queries (`VisibilityCondition`), and compares the two.

### PcSessions, Stations

`PcSessions` compares the observations of a computer with a day's punches
(`session-observations.ts`).  Times are ticks of a clock that is finer than a minute, milliseconds in
the code, and `Rounded` is `Math.round` where the code has it: of each overlap with a break before
they are added, and of a difference before it is compared with the tolerance.  Its reference
counts ticks and knows no periods.  `Stations` has devices that are registered, enrolled and
revoked (`Register`, `BeginEnrollment`, `MarkEnrolled`, `BeginRevocation`, `MarkRevoked`), the
station's side (`RunSessionObserve`, `SaveSequence`, `RunQueue`) and the server's
transaction on a batch (`RecordObservations`, `ReceiveBatch`, `InsertReceipt`, `Commit`,
`Reread`, `Rollback`).  Punches share the numbers (`ReceivePunch`).

## Runs

| Run | Question | Bounds, and why they are enough |
| --- | --- | --- |
| `outbox_race` | Do claims exclude each other, is each outcome counted once, is `WebhookDelivery` implemented, does the notification end? | two workers, one notification, lease 2, 3 attempts, delays 2 to 5 (so that doubling meets its maximum), one fault, 4 tokens.  A first, a middle and a last attempt and a takeover all happen.  111 thousand states, with liveness |
| `device_station` | Is no waiting punch refused for its number, and does each leave the spool? | one producer and the sender, two punches, so that one can stand in the way of the other; with liveness |
| `month_races` | Two transactions at once on one month, each read and write a step: is a closed month approved and as it was counted, and does what is approved stay, but for what is named? | one day, two records, two submissions, one reopening: a day is returned and submitted again, reopened, closed a second time, and a punch, a decision, a close and a reopening each fall between any two steps of another.  650 thousand states |
| `month_records` | Two transactions at once on the records of a day: do decisions under the employee's lock hold when written, does the review see what counts, does an approved correction do what was asked? | two types and two instants of a day, so that a correction moves or retypes a record, two records stand apart or have another type between them, and the window of duplicates matters; three keys, so that a correction of a correction and a retry fit; requests for a day, for two, and without times.  Three records overlap only as plain ones, and approved requests meet two records, one transaction at a time (`Narrow`).  544 thousand states |
| `requests` | Two transactions on one request, beside changes of its type, route and delegations | two stages, two submissions, four routes: a stage is removed or added between submissions, decided by a delegate, cancelled beside its last approval.  457 thousand states |
| `leave_grants` | Is every day due granted once, whatever fails or overlaps? | two runs at a time, four days in two years, one failure, one bulk grant or import, three settings, a second rule; a catch-up is two days, so that a gap of three days is reached; one employee has no date of hire.  203 thousand states, with liveness |
| `punch_queue` | Is a punch that was shown kept and answered? | two pages, two punches, two mishaps of any kind; with liveness |
| `month_totals` | Are versions current, do minutes add up, does a close fix them? | two transactions at a time, three in all, two days, one close; two first months that use every kind of break, rounding and band.  168 thousand states |
| `sessions` | What do overlapping requests to `identity` undo?  Does the settings console show what was saved, once? | two requests at a time and in all, two users, two sessions, 8 instants; it starts from `MCInit`, a login and a failure that have already happened, so that what follows them fits the horizon.  The console: two choices, one fill, two writes, three loads, so that a save is sent again after a lost answer and two lists overtake each other; two sets of permissions.  200 thousand states |
| `planning` | Leave of two clients; a generation beside edits by hand | three days, three entries; two dates, two cycles (one repeats over both ends, one is of one day), two versions of a category.  353 thousand states |
| `settings` | Cards, contracts and periods of one employee | four operations, two at a time at the cards; months of three and two days and weeks of three, so that 8 dates hold every position of a week in a month |
| `stations` | Two stations, lost answers, retries | two devices, two batches and a punch, one request from before receipts, two connections.  All days of five times at half a minute each and a tolerance of one minute, so that a use of a tick is rounded up and two of them in a break come to more than they last.  734 thousand states |

The report of `PcSessions` is a calculation: `EveryDifferenceIsListed` speaks of no variable of
`stations`, but of every day and every shape of punches within its bounds.

`planning`, `settings` and `sessions` each check parts that share no state.  In `planning` and
`sessions` one of the two parts moves while the other is as it was at first, so that no product
of the two is built.

Deadlock is checked where the system never stops.  The runs with `CHECK_DEADLOCK FALSE` end
because their bounds do (changes, operations, days, mishaps), or as in the device's
because the punches are finite and a revoked device with an empty spool has nothing to do.

**Bounds.**  Besides the sets of model values: `MaxFaults`, `MaxSubmissions`, `MaxReopens`,
`MaxSteps`, `MaxEntries`, `MaxByHand`, `MaxFailures`, `LastLedgerDay`, `MaxMishaps`, `MaxChanges`,
`MaxCloses`, `MaxRequests`, `Horizon`, `LastDate`, `MaxOperations`, `MaxSequence`,
`MaxBatches`, `MaxPunches`, `MaxFillings`, `MaxWrites`, `MaxLoads`.  Each stands in a guard, or, as
`LastTick`, bounds a set; the code's own limits are `MaxAttempts`, `MaximumDelay`, `MaxCatchUp` and the maxima of `Sessions`.

**Symmetry.**  Clients, connections, keys, stations, devices and choices are interchangeable: nothing
chooses among them by name.  No run with a liveness property uses symmetry.  `month_races` also
has a VIEW, which leaves out the log of transitions (but for the number of submissions) and
snapshots that are not the last: no action reads them, and what a step adds to them does not depend
on what is in them.

**Fairness.**  For the outbox (`LiveSpec`): time passes; a worker goes on with the
delivery it has; a process that was asked to stop exits and is started again
(its supervisor); and a worker that may claim infinitely often does, which is strong
fairness because `run` calls `processNext` once before it looks at the stop signal again
(`delivery-worker.ts:45`), while other things happen between.  Faults are bounded,
and a lease that expires during a send is one of them: `loadWebhookWorkerConfig`
(`api/src/config.ts:336-357`) refuses a lease shorter than the send timeout and a grace
period.  No fairness is put on publishing, requeuing, stopping or on which outcome a
send has.

For the device: the sender's loop goes on; and, as the agent can promise nothing
otherwise, a punch that is sent again and again is at some time received by the server and
answered while the sender still waits.  The answer may be a refusal.  Nothing is
assumed of the producers.

For the grants: days pass, and the command is started again and again and a run that does not
fail goes on (weak fairness of `Run`, whose `Fail` is bounded by `MaxFailures`); nothing is
assumed of administrators, and `CatchesUp` is about settings that stay.  For the browser:
pages are opened again, retry what waits and are answered (weak fairness of `Work`), and what
goes wrong is bounded by `MaxMishaps`.

## What was found

No run expects a violation: where the code departs from what was first written of it, the
property says so.  `OnlyOvertakenCorrectionsAreLost`, `CurrentUnlessOvertaken`,
`EffectFollowsApproval`, `WhatIsClosedStands`, `OverdrawnOnlyOnAGrantDay` and `HandEditsStand`
name the one way in which the simpler statement fails, `ClosedMonthStands` and `ApprovalStands`
the few.  What was seen of the code:

Attendance and closing

* A punch that read an open month, or a request that was a draft, may be committed after the
  snapshot or the approval: punches lock the employee, `close` and `decide` do not
  (`attendance/record.ts:142`).  One that is committed between the count of unapproved days and
  the close is in the closed month, its day not submitted (`approval/service.ts:355`).
  `applyToAttendance` reads the closing before it takes that lock (`request/service.ts:409`, `:464`).
* A reopening that commits between the count of another close and its write lets the month be
  closed with all its days returned (`approval/service.ts:355`, `:457`).
* `decide` reads without a lock and `saveRequest` overwrites without a condition: an approval
  and a cancellation both succeed, the later one wins (`approval/service.ts:201`), and the log
  tells a change from a state that was gone.  Two reopenings that overlap write the same count (`:434`).
* The newest correction is the one whose transaction began last: one that waited for the
  employee's lock is accepted and has no effect (`domain/src/attendance/corrections.ts:61`).
* A cancelled daily request is a dead end (`domain/src/approval/daily-request.ts:73`): it
  cannot be submitted again, so its day can no longer be approved nor its month closed.
* A punch that arrives late with an earlier instant is accepted in the day's present
  state, but the fold by `occurred_at` may skip it (`domain/src/attendance/events.ts:132`).
* The review takes a record that was corrected twice, or a void that was corrected, as still
  corrected when it is in effect (`audit/anomaly-repository.ts:170`); a late punch can be
  listed as a duplicate with no correction, unlike what `domain/src/audit/anomaly.ts:78`
  says; changes after an approval compare the server's clock with the database's.

Calculations

* Setting a schedule back to what an overtaken version was calculated from, while a
  recalculation runs, leaves the latest version stale: the schedule's transaction is
  satisfied by the old version, and the recalculation adds another
  (`attendance/day.ts:270`).  A proof attempt found this; see [Proofs](#proofs).
* `upsertWorkSchedule` does not look at the closing.  The export of a closed month changes
  where the snapshot has no total.
* `nightMinutes` is counted before breaks are deducted; `beforeSchedule` may exceed what is
  outside the schedule; leaving early counts the automatic deduction
  (`domain/src/attendance/calculation.ts:379`, `breaks.ts:115`).

Requests and leave

* A type that goes from one stage to two skips the second of a submission under way, or
  leaves it without an approver (`request/service.ts:170`, `:1011`).  `resubmit` notifies
  without the approvers of the stage (`:1028`); managers of a host organization may decide,
  but `listApprovers` looks at the employer's only (`notification/repository.ts:81-99`).
* A cancellation beside the final approval leaves a cancelled request whose leave was taken;
  of two resubmissions at once one overwrites the other.
* Leave taken on a day on which it was granted may overdraw it (`domain/src/leave/ledger.ts:66`,
  `:166`), for identifiers are random.
* Two first grant runs that overlap a change of the type's first day leave the days between
  untouched (`leave/grant-scheduler.ts:111-112`); enabling again catches up from the
  last day recorded; 29 February has an anniversary in leap years only.

Identity and settings

* `changePassword` verifies against the hash read at authentication; a login that overlaps a
  change opens a session with the old password, which only the next change ends; parallel
  failures count once, and a stale count may lift a block, unlike what
  `domain/src/identity/login-attempts.ts:28-31` says of one failure after another.
* A cycle of which not all days were inserted keeps its code and cannot be repaired.  A
  category that is refused for a break keeps its row without breaks; no operation
  sets the end of a category's version, though the message of a conflict says to; an
  imported category with one time only fails every generation that uses it.
* A range that begins after a rule change in the same week gets a first week that is cut
  wrongly or one too many (`domain/src/attendance/period.ts:78`; `StartsInAChangedWeek`).
  Clipped settlement periods may lie outside the range.  Visibility over a period straddles
  a gap in which contract and assignment never met (`assignment-repository.ts:265`;
  `NeverMeets`).
* A retired employee may get a card by a token issued before, and a second revocation writes
  over the date of the first.  Neither login nor a web punch looks at the employee's status.

Agents and stations

* The report on the use of a computer rounds each overlap with a break before it adds them
  (`domain/src/attendance/session-observations.ts:107`): twelve uses of thirty seconds count twelve
  minutes, twelve of twenty-nine count none, although line 86 of that file wants what exceeds
  the tolerance to be shown, and nothing else.  A difference of up to half a minute above the
  tolerance is rounded to it and not shown (`:100`).

* `allocateSequence` (`agent/src/cli.ts:308`) loads and saves the credentials without a
  lock, so that `queue` beside `station` may give one number twice; the server refuses one
  as a replay and the sender drops it.
* A device's state is read before the transaction (`device/service.ts:203`): a revoked
  device may have one more punch or batch recorded.
* Synchronous commands save the number only after a good answer: after a lost one the next
  command reuses the number under a new id and is refused.  A second device that uses the same
  request id is told "duplicate" though its batch is not recorded.  A lost answer to an
  enrollment leaves a device whose key nobody stored.

Browser

* A press is lost when the page is left while the location is measured
  (`web/src/pages/TodayAttendance.tsx:338`).
* A list of the console is shown when its answer arrives, even if one that was asked for later, or
  for another choice, was shown before (`web/src/admin/resource.tsx:49`); a save reads again
  the list of the choice at its start (`SettingsSection.tsx:121`).
* While the rows of another month are still shown, closing from one closes the month that is
  chosen (`sections/ClosingReadinessSettings.tsx:119`); the comment at lines 18-20
  of that file wants nothing to be closed unseen.
* A request type is saved in two requests; when the second fails its route is missing, and the list is
  not read again.  A route that is read for one row arrives in the form of another
  (`sections/RequestTypeSettings.tsx:167`).
* An entry of the leave ledger whose save was not answered may be saved twice; copying a
  category drops its breaks beyond the second.

## Proofs

Each theorem holds for every value of the constants that satisfies the assumptions its
module declares: any number of rows, workers, punches, clients, requests, users, days and
stations, and any bound.  `PROJECT.json`, "theorems", lists them with the property of a run each
one states.

| Module | What is proved of the system |
| --- | --- |
| `WebhookOutboxProofs` | outbox: leases exclude, history explains rows, `WebhookDelivery` is implemented |
| `CardsAndDevicesProofs` | device: recorded once and in order, with one producer none is refused; cards: one for each token; who sees an employee; periods tile the days |
| `AttendanceMonthProofs` | month: the employee's lock; a correction takes effect unless overtaken; a closed month and an approval stand, but for the transactions that are named |
| `RequestsAndLeaveProofs` | requests: approvers, effect, announcements, `ApprovalChain` is implemented; leave: registers add up, what is taken is covered, none lapses in vain or unannounced |
| `BrowserProofs` | identity: all four of its properties; the console saves once and shows what it saved; the queue keeps what was shown and what it cannot parse |
| `StationsProofs` | stations: accounting, same answers, enrollment, the report on the use of a computer |
| `PlanningProofs` | grants: neither a day nor an employee is passed over; schedules: by hand they stand, generated they follow the cycles |
| `MonthTotalsProofs` | versions: current unless overtaken; a closed month stands; the minutes of each day add up |

Every property of a run that is not named there is model-checked only (last section of this
chapter).

### The outbox (`WebhookOutboxProofs`)

Assumed: `OutboxAssumption` (positive lease and number of attempts, natural numbers for
the rest, finitely many events and endpoints, `NoToken` not a token).

| Theorem | Says |
| --- | --- |
| `TypeCorrect` | `TypeOK` is an invariant |
| `CopyStaysCurrent` | what a worker copied at its claim is true while it holds the row |
| `EndsOnce` | no row is completed and abandoned, none that ended carries a claim |
| `HistoryComplete` | ended rows and counted attempts are explained by the history |
| `LeaseExcludes` | nobody takes a row from a worker whose lease runs |
| `OutboxKeepsPromise` | `WebhookOutbox` implements `WebhookDelivery` |

None of the properties is inductive alone: that `Complete`, which does
not look at `abandoned_at`, cannot complete an abandoned row follows only from the fact that
ended rows have no token, while a worker that settles has one that equals the row's.
The inductive invariant `IInv` joins to the properties that a row nobody published
was never claimed nor tried (`FreshRows`), that a busy worker carries a published row
with fewer than `MaxAttempts` attempts whose delivery is in the history when it is about
to settle (`WorkersCarry`), and that no two workers carry one token (`ClaimsDiffer`).
There is one lemma for each action, and under it one step for
each conjunct it can disturb; the theorems follow from `IInv`, the refinement with
one case for each action that changes what `WebhookDelivery` sees.

### The device (`CardsAndDevicesProofs`, first part)

Assumed: `DeviceAssumption` (`NoPunch` is not a punch).

| Theorem | Producers | Says |
| --- | --- | --- |
| `DeviceTypeCorrect` | any number | `TypeOK` is an invariant |
| `RecordsInOrder` | any number | the server records each punch at most once, in the order of the numbers |
| `SentPunchesAreRecorded` | any number | what the sender removed as accepted is recorded |
| `OneProducerSpoolsInOrder` | one | file names sort as the numbers do |
| `OneProducerLosesNoPunch` | one | no punch that waits in the spool is refused for its number |

The first three rest on `DInv`: a punch has one producer and is nowhere else before it
has a number (`ProducersApart`, `NumberedFirst`), nothing recorded has a number above
`lastSequence` (`RecordedBelowLast`), and an answer or a receipt that says "accepted"
belongs to a recorded punch (`AcceptedIsRecorded`).  They do not depend on how the
device numbers its punches: the server's check alone gives the order.

The last two do depend on it: two producers that share the credentials give one number
twice, so `OneProducer` is their hypothesis.  Their invariant `SInv` says that numbers are
given out once (`NumbersGrow`), that the punch being filed is the latest and its name
will be the last (`HeldIsLatest`), that the batch of a flush is the first part of the
spool (`BatchComesFirst`), and, which is what makes late requests harmless, that
everything that was ever sent comes before whatever waits (`SentBeforePending`).
From these, what waits without a receipt is above `lastSequence` (`PendingAboveLast`).

### Cards (`CardsAndDevicesProofs`, second part)

Assumed: `EmploymentAssumption` (an employee has an employer, terms do not end before they
begin, dates are integers, a settlement has at least one month, which migration 0027 asks for,
and `None` is no value of another kind).

| Theorem | Says |
| --- | --- |
| `TokensRegisterOneCardEach` | `TokenRegistersOneCard`, for any number of stations, tokens and cards |

Any number of transactions may have read a token while it was unused.  The invariant says that
the one that marked a token, until it ends, has it alone (`Alone`): it holds the row, the token is
not yet seen as used, and the others have still to mark it and will find it used.  A card keeps the token it was
registered with, whatever happens to the card and to its employee, so that a used token has the
card of the transaction that marked it, and an unused one none.

### Assignments and who sees an employee (`CardsAndDevicesProofs`, third part)

Assumed: `EmploymentAssumption`.

| Theorem | Says |
| --- | --- |
| `EmploymentTypeCorrect` | `EmploymentTypeOK` is an invariant |
| `NobodyIsAssignedTwice` | no two assignments of an employee share a date |
| `ThoseConcernedSee` | `SeenByThoseConcerned`, for any organizations, contracts and dates |

Two definitions of who sees an employee agree for three reasons.  The assignments of an employee
are apart, so that at most one counts on a date.  What overlaps a range does so on one of its
dates, the later of the two beginnings, so that comparing ends is asking for a date.  And a
contract is looked at on the same date by both.

### Periods (`CardsAndDevicesProofs`, fourth part)

Assumed: `PeriodsAssumption` (months and weeks have days, and `None` is no period) and
`EmploymentAssumption`.

| Theorem | Says |
| --- | --- |
| `PeriodsAlwaysTile` | `PeriodsTile`, for months and weeks of any length, any ranges, and whatever versions and labor systems are made, ended or prolonged |

The invariant says only that versions and systems are well-formed and finitely many.
The rest is about two loops.

* Weeks.  Whether a week begins on a date can be said without a range (`Begins`): a version takes
  effect on it, or it is a first day of the week by the version in effect.  A week ends before the
  next date on which one begins, wherever it is begun (`WeekEnds`), for between the two no version
  takes effect (`SameVersion`).  So two weeks that begin where one does are the same or have no
  date in common (`WeeksAreApart`), and a range that does not start in a week which a version cut
  begins with such a one (`FirstWeekBegins`).
* Settlements.  A day that is rounded stays in its month (`MonthsAreAdded`), so that starts in
  different months are in order although their days are not (`SettlementsFollow`), and a date lies
  in one settlement (`LiesInSome`, `LiesInOne`).  The difference of the months divided by the length
  is the index of that settlement or of the next one (`GuessIsNear`), which is why the code looks at
  the guess and its neighbours.  The dates that are read cover each period (`CoveringHolds`), so that
  none is added up in part (`SummariesAreWhole`).

The loops and the months are recursive functions.  That they exist is proved from a rank that falls
with every call (`RecursionExists`), by counting up to it.

The first attempt failed at an edge, for a good reason: `SettlementsTile` listed the starts of
as many settlements as there are dates, and the settlement of the last date can end one later, if
months have one day each.  The list is now one longer.

### The month (`AttendanceMonthProofs`)

Assumed: `MonthAssumption` (instants are natural numbers, the keys, clients and the two
"no value" constants are distinct, types of punches are those of the code, bounds are natural
numbers).

| Theorem | Clients | Says |
| --- | --- | --- |
| `RetriesDoNotInsert` | any number | a record is inserted only under a key that is new |
| `LockSerialisesPunches` | any number | a punch that is recorded is accepted by its day when it is written |
| `CorrectionsTakeEffect` | any number | a correction that is accepted is in effect, unless one whose transaction began later was recorded before it |
| `MonthIsClosedAsCounted` | any number | `ClosedMonthStands`: a closed month is approved and as it was counted, but for days written to beside the close |
| `ApprovalsStand` | any number | `ApprovalStands`: only who read a request before its last change writes a record of a submitted day or undoes an approval, a reopening apart |

The first three are about `Spec` of `AttendanceMonth`, without the approved corrections that
`SpecApplied` adds in `month_records`; the last two about `SpecRaces`, which `month_races` checks.

The invariant of the lock is `LockInv`: between the lock and the end of its
transaction a client is the one that holds the employee, its key is new and the
events it read are those of the day (`LockProtects`); the rest of `LockInv` says that a
transaction has a day, an instant or an event when it uses one (`Shape`, `AllPrepared`).

Corrections count in the order of `recorded_at`, the time their transaction began, and not in
the order in which the lock lets them in.  The invariant `TimeInv` says that the list of
beginnings has what it needs for this: a transaction that is open is listed once, so is a
record (`Once`, `Open`), and records stand in their day in the order of their beginnings
(`Ordered`).  What began before a new record then comes first in its day (`EarlierComeFirst`),
so that the new one goes right behind it (`InsertionKeeps`).  The correction in effect is the
last in the day: the new one, or one of those behind it, which began later and were recorded before.

No lock protects what the other transactions read, so that `RaceInv` cannot say that it is still
there.  It says that it is, or that the client is among those that the history variables remember
(`ReadsAreRemembered`): the request, for one that edits or decides; the closing, for one that is
about to write a record; and for one that closes, that the days it has found approved still
are and have the versions it read, but for those written to since.  Each step of another client
changes what was read only together with what is remembered (`OthersStayRemembered`).  An approval
that is undone is undone by a decision on a state that was gone or by a reopening
(`UndoneIsOverturned`), since no event but `REOPEN` leaves `approved`; so a day of a closed month
that is not approved was among those when the month was closed, or has become one of them
since (`ClosedMonthStaysSo`).  A reopening ends the claim and a second close begins it anew.

### Staged requests (`RequestsAndLeaveProofs`, first part)

Assumed: `RequestsAssumption`, `RoutesAssumption` (users and policies are distinct kinds of
approver, nobody delegates to themselves, routes name approvers, at least one stage and submission).

| Theorem | Says |
| --- | --- |
| `RequestsTypeCorrect` | `TypeOK` is an invariant; a stage of a submission has one decision, the current stage is one of the request's |
| `ApproversDecide` | each decision is the approver's, or a delegate's for that approver |
| `ApprovalTakesEffect` | what took effect is approved and the reverse, but for rows that were written over |
| `ApproversAreTold` | whoever has to decide has been told, or stands in for someone who has |
| `RequestsKeepTheChain` | `StagedRequests` implements `ApprovalChain` |

The rows of requests are written from reads that may be stale, so that no invariant about the
current row alone is inductive.  What saves the chain is the table of decisions, which only
grows, and its unique index.  The invariant therefore speaks of decisions: a row, be it the
one in the table (`RowsStand`) or one that an open transaction read (`ReadsFit`), stands on
decisions that are there, and what stands on decisions still does when others are added;
decisions are in order, the earlier stages approved and the earlier submissions returned
(`DecisionsInOrder`); what took effect is what has an approval of its last stage
(`EffectIsLastApproval`).  The lemma `NothingAfterTheLast` is the heart: a stale read can only
lead to a stage that is decided already once the last is approved, where the index refuses it.

### The leave ledger (`RequestsAndLeaveProofs`, second part)

Assumed: `BalanceAssumption` and `LedgerAssumption` (at least one day, a positive unit, positive
amounts).

| Theorem | Says |
| --- | --- |
| `LedgerTypeCorrect` | `LedgerTypeOK` is an invariant: the ledger is in the order of its days, what is taken never lapses |
| `RegistersAddUp` | `RegisterAddsUp`, for every period and whatever was backdated or reversed |
| `LeaveIsCovered` | `OverdrawnOnlyOnAGrantDay`, for any number of clients, days, expiries, amounts and entries |
| `LeaveIsAccounted` | `EveryMinuteIsAccounted`: registers add up, nothing is wasted, what is announced is lost |

`buildLeaveBalance` is a walk over all entries, so these theorems need inductions over a ledger.
A recursive function of the model is what a CHOOSE picks: that there is one with those steps is
shown by induction over the numbers up to which there is one (`StepsExist`, `Climb`), and then
the one that is picked has them (`SumsDefined`, `WalkDefined`, `WeightDefined`).

The register follows from one measure.  What is available and what has lapsed, less what is
owed (`Worth`), changes by the minutes of an entry that is booked (`BookAddsMinutes`) and by
nothing else, not when a bucket lapses or leave is taken from several.  The two balances of a
register are therefore the sums of what counts in them, and those differ by what was granted,
adjusted and consumed in between (`WalksAddUp`).

An overdraft is harder, for a grant or a booking on an early day changes what every later entry
finds, and entries of one day stand in the order of random ids.  Two views of the buckets carry
it: what is usable from each day on (`Usable`) and what is owed.  A day on which leave is only
taken, or only granted, changes these as the sums of the day say, wherever its entries stand
(`DayOfTakes`, `DayOfGrants`); and a ledger that grants at least as much and takes the same owes
no more on any day (`MoreGivenLessOwed`).  With that the lock makes sense: what a client has
validated stays covered in every ledger that others, who only grant and allow meanwhile, may make
of it and with its rows at whatever places (`Promised`), and nobody else holds a plan
(`CoverInv`).  The plan itself was never walked with the rows where they end, but at the end of
their days (`Propose`); `ValidatedIsCovered` bridges this.  Where leave is taken on the day of a
grant the day is neither, and no theorem can say so: "What was found" has what happens.

That nothing is wasted is a statement about all ways to take the same leave from the same
grants (`Shares`), most of which no walk produces.  It is proved entry by entry: the buckets
hold as much as such a way leaves of the grants so far, and of what can be used on a day that is
not past, and after it, at least as much (`Ahead`).  A grant raises both; a take, which empties
the bucket that expires first, lowers what is usable after its day by no more than it must, while
the other way can spare no more than it has left (`TakeStaysAhead`).  At the end, what is usable
has not lapsed.  The sums are folds over sets, which the community modules define by a CHOOSE at
every element: that the order does not matter, and that a table may be summed by its columns, is
proved first (`SumDefined`, `SumsJoin`, `SumsAdd`, `SumByColumn`).  What is announced is lost
because a day of which no entry counts changes no walk (`QuietDays`).

### Sessions (`BrowserProofs`, first part)

Assumed: `RetentionAssumption`, `RequestAssumption`: windows and blocks last no longer than the
retention, as `readInteger` and the command check; the idle lifetime is not above the
absolute one; and a request answers within half of the idle lifetime (`SlowestRequest`: six hours
of twelve), without which a renewal may be written so late that the session it let through is
over.

| Theorem | Says |
| --- | --- |
| `ChangeEndsSessions` | `PasswordChangeEndsSessions`, whatever logins, renewals and other changes its two statements overlap |
| `UseKeepsSessions` | `UseKeepsSession`: half of the idle lifetime is left after each use |
| `DeadSessionsStayDead` | `DeadStaysDead` |
| `BlocksAreNotProlonged` | `BlockIsNotProlonged` |

The argument is about what a request has read.  The end it is to write into a session follows
from the instant at which it authenticated, of which the clock is never far ahead (`UseFits`,
`RequestFits`); the number of the password it set tells whether it is still the last change,
and if so the session it keeps is the one remembered; a count that blocks a login already
under way was written since that login began (`Noted`).  The theorems are about `Spec`, which
starts with no session; the run starts later, from `MCInit`, to reach more of what its
horizon leaves room for.

### The settings console (`BrowserProofs`, second part)

Assumed: `SectionsAssumption`: an address leads to a section or to none, and a form that a
save leaves as it was is of a kind the tables take once.  The run evaluates it for the
twenty-one sections of `SettingsSections`.

| Theorem | Says |
| --- | --- |
| `ConsoleSavesOnce` | `SavedOnceAndShown`, for any menu, sections, permissions and choices, and any number of lists and saves under way |

Rows that are shown follow from the number of the load: the one that was begun last is for
the choice made last, unless it follows a save, and once it was read it holds all that was
reported by then, for whatever is reported later begins a load of its own (`LoadsFit`).  That
nothing is written twice needs both ends of a save.  One form is saved at a time
(`OneSaveAtATime`), and a filling that has a row already and still stands in the form, or is
sent again, is one whose answer was lost, one the tables refuse, one that replaces that row,
or one that is on its way (`FillingsFit`): a save that was answered clears fields that must be
filled in again, unless the section is of the kind that is refused.

### The queue of punches (`BrowserProofs`, third part)

Assumed: `QueueAssumption` (what cannot be parsed is no queue).

| Theorem | Says |
| --- | --- |
| `ShownStays` | `ShownIsKept` |
| `UnreadIsArchived` | `NothingUnreadIsLost` |

Both are for any number of pages, punches and mishaps.  What is on its way is the head of what
a page holds, and a page that could not read the storage holds nothing (`Sound`), so that the
entry an answer removes is the one that was answered; an answer that accepts is of a punch that
is recorded (`AnswersFit`).  A page that knows what the storage holds holds the same
(`CurrentFits`), so that what it writes over is what it holds.  An open page set aside what it could
not parse, or the archive has it (`UnreadFits`).  And what was held or stored was pressed
before, by one page (`PressesFit`): a press that is still measured cannot change the fate of
one that was rejected.

### Stations (`StationsProofs`)

Assumed: `StationsAssumption` and `PcSessionsAssumption` (`None` is no value of another kind, employees are finite).

| Theorem | Says |
| --- | --- |
| `BatchesAddUp` | `EveryBatchIsAccountedFor`: numbers, steps, observations and receipts agree |
| `SameAnswer` | `SameAnswerAgain`: also for a second device that uses the same id |
| `OneStationEnrolls` | `EnrolledOnce` |
| `DifferencesAreListed` | `EveryDifferenceIsListed`, for days, tolerances, observations, punches and ticks to a minute of any number |

A connection past its lock knows how far its number lies ahead of the device's last one, and
that stays true, for nobody else moves it; one past its insert knows that no other
receipt has its id (`TxnsFit`).  So a number that is added is the largest (`NumbersFit`), and a
receipt that is added is the first of its request (`OneReceipt`).

`DifferencesAreListed` compares the report, which is made from periods, with a reference that
knows no periods but says of each tick whether the computer was in use.  After each observation
the periods tell what the reference says of the observations so far: the ticks they cover are
the ticks in use, the first begins with the first start, and the last one is open as long as
no stop follows (`StepTells`, `OpeningTells`, `ClosingTells`; `DayIsTold` for the whole day).
Periods lie one after another, so that the sum of their overlaps with a break counts no tick
twice, and each overlap that is rounded is a stretch of the reference (`OverlapCounts`,
`TotalCounts`): the minutes are at most half a minute for each stretch away from the ticks
(`RoundedIsClose`).  Their ends are the first and last moments of the reference
(`MomentsAgree`).  No theorem of induction over sequences could be used: what the folds make is
followed element by element (`FoldAdvances`, by `Climb`).

### Leave grants (`PlanningProofs`, first part)

Assumed: `GrantsAssumption`, `CatchUpAssumption` (the fixed day comes within every
`MaxCatchUp` days: 400 in the code, and migration 0040 allows the days 1 to 28 only).

| Theorem | Says |
| --- | --- |
| `GrantsTypeCorrect` | `TypeOK` is an invariant |
| `NoneIsMissed` | `NobodyIsMissed`, for any calendar, rules, settings and number of runs |

What a run has yet to do is decided before it claims a day, while other runs record days.
Every day before one that it has yet to do is one it does itself, or is recorded, or
may be skipped (`RunFits`); that stays true, for days are never taken back.  So the
smallest of its days leaves no gap when it is recorded.  Whoever earns a grant on
a day whose plan was read has one or is planned for, and the unique claim of the day keeps it.

### Schedules (`PlanningProofs`, second part)

Assumed: `ScheduleAssumption` (a cycle has a day for each position, periods of categories
have ends, and what is given is of the types of the tables).

| Theorem | Says |
| --- | --- |
| `HandSetSchedulesStand` | `HandEditsStand`, for any settings, dates and number of generations |
| `GenerationsFollow` | `GenerationsFollowTheCycles`, also for cycles of any length |

A generation reads its assignments, the dates that are taken, each cycle and each category at
different times, in or out of its transaction, while others add to them.  `SchedulesInv` says
what each of these is still good for.  Settings only grow (`Grow`): a cycle that had
all its days keeps them, and a version that is in effect stays the only one, for the
constraint lets no other of its code overlap it.  So a row that was planned or written from
what was read is the one that is defined for its date when it is committed (`Defined`,
`WrittenFits`, `PlanFits`), and a cycle that is cached has all the days of each date that was due
when the generation began (`CacheFits`).  Of each of these dates that it has been
through, the row was there or has been written (`DueIsCovered`).  Rows are never deleted, so that
where there was none when it read the dates, a row by hand is one that was set since
(`HandSetIsEdited`).

That the cycle repeats in both directions needs arithmetic: the remainder of JavaScript
has the sign of what is divided, and `cyclePositionOf` corrects it.  `PositionIsAt` proves that
the corrected position is the one from which a whole number of cycles leads to the date, for
any length, anchor and date (`RemainderIsUnique`, `OppositeRemainder`).

### Days and versions of calculations (`MonthTotalsProofs`)

Assumed: `MonthAssumption` of `MonthTotals` (days and instants are numbers; first inputs,
schedules and rule versions are what `CalculationInput` and the interfaces it is made of allow,
with rounding units that are not negative and known rounding modes, which the constraints of
migrations 0005 and 0026 impose) and `DayAssumption`.

| Theorem | Says |
| --- | --- |
| `LatestIsCurrent` | `CurrentUnlessOvertaken` |
| `ClosedStands` | `WhatIsClosedStands`: `ClosedDaysStand` by `ClosedMonthStands`, `ClosedPayStands` by `ClosedExportStands` |
| `DaysAddUp` | `DayAddsUp`, for any punches, schedules, categories, limits and rules |

A transaction sees a day with its own change, and that change contains itself: seen twice it
alters nothing (`SeenTwice`).  So what it read (`ReadFits`), what it added (`AddedFits`) and
what it found good (`SatisfiedFits`) is the day as it will stand, but for what others
committed since, which the histories `missed`, `replaced` and `stale` name.  What is open
while the month is closed was open before, or is a schedule or a reopening
(`ClosedFits`).  `calculateWorkDay` is not expanded for these: they need only that a version is
made from an input.

`DaysAddUp` is about `calculateWorkDay` itself.  Its inductive invariant, `StoredInv`, says that
whatever is stored or about to be is the calculation of a well-formed day; each transaction
changes one part of a day and leaves it well-formed (`SeenIsInput`, `RecordingsArePunches`).
What remains is one calculation (`CalculateAddsUp`), proved in the order of the code:

1. whatever the punches are, and whichever are skipped, the day they make has periods
   (`SummaryIsRead`), its sessions get ends (`SessionsAreSpans`) and cover finitely many
   instants (`CoveredIsFinite`), and the gaps between them are never negative (`GapsAreNat`);
2. the automatic break takes the latest instants of the work, as many as it has minutes or all
   there are (`LatestCounts`);
3. so the work after the schedule that is recognized is within the work outside of the schedule
   less that break (`RecognizedIsOutside`): either the break leaves nothing after the schedule,
   or all of it lies there.  This is why `unapprovedOvertime` never needs the zero it is cut off
   at;
4. rounding keeps the order (`RoundingKeepsOrder`), and what is not recognized is the difference
   of two rounded totals, not the rounding of a difference (`RoundedAddUp`).

The folds of the community modules are chosen functions.  That one exists is proved once, for
finite sets, by counting (`FoldExists`), and what every step keeps holds of the fold
(`FoldStays`).  So this needs no induction theorem with an operator as a parameter.

The first attempt failed, for a good reason.  `CurrentUnlessOvertaken` then named one race,
and the step that commits a transaction without a version could not be proved.  TLC, with four
changes in place of three, found why: a schedule is set back to what an overtaken version had
been calculated from, `findLatest` therefore asks for no version, and the recalculation that is
still open adds another.  The history `replaced` and the second clause name this race.

### Only model-checked

* Liveness, which needs fairness and ENABLED: `EveryNotificationEnds`, `EveryPunchLeavesSpool`,
  `CatchesUp`, `ShownIsAnswered`.
* What depends on the recursive `Outcome` of a history of corrections:
  `ReviewSeesWhatCounts`, `CorrectedAsApproved`.

The type invariants of the outbox, the device, the staged requests, the ledger, the grants and
`Employment` are proved and not run; those of `AttendanceMonth` (the proofs use the weaker `Shape`)
and `PunchQueue` document their modules.

## Not modelled

* Delivery payloads, signatures, network policy, HTTP: pure functions or input and output.
* The agent's PC/SC reader, stop-signal file and `replay` command.
* API keys, endpoints, the connector; reading and marking of notifications.
* The migrator, bootstrap and demo commands; deletion by age other than of login counts.
* Web pages apart from the offline queue and the settings console, the HTTP client and the schemas of
  the contracts.  Of the console: assigning cycles, generating schedules, granting in bulk, the
  export, what fills the selections, and the route of a request type that is being edited.
* Time zones, locations, names, wording, permissions where they decide nothing else.
* Departments, sites and patterns on the server: plain rows, which nothing here depends on.

## Plan

Next, in this order:

1. The full `TypeOK` of `AttendanceMonth`.
2. Models: the other pages, API keys, notifications, the migrator.
