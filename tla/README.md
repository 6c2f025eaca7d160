# Couriers server: a verification project

TLA+ models of the backend in `src/src` (NestJS, TypeORM over Postgres, BullMQ over
Redis, Socket.IO), the TLC runs that check them, and TLAPS proofs of the properties
that matter most. Paths below are relative to the repository.

Contents: [The system](#the-system) · [Modules](#modules) · [What the runs show](#what-the-runs-show) ·
[Bounds](#bounds) · [Fairness](#fairness) · [Proofs](#proofs) ·
[Findings](#findings) · [Not modelled](#not-modelled) · [Plan](#plan)

## The system

Tenants (owners) employ couriers and staff. Staff create orders, couriers on shift claim
and deliver them, partners are told through HTTP callbacks, staff watch dashboards fed by
socket events, and completed orders become earnings that are paid out per period. Several
instances of the server may run. Rows are in Postgres and jobs in Redis; the counters of the rate limits and
of failed logins are in the memory of each process. A handler is a chain of
`await`s, so between two statements any other request may run. That, and not threads, is
the concurrency of this program.

| Component | State it keeps | Operations | Talks to | Hard because | Correct when |
|---|---|---|---|---|---|
| Order lifecycle, `orders/order-lifecycle.service.ts` | `orders.status`, `courier_id`, `*_at`; `order_audit_entries`, `delivery_records`, `courier_earnings` | claim, advanceStatus (pickup, start-delivery, complete), cancel | reads shifts; emits to staff and couriers rooms; adds to cancel-notify and order-callback queues | checks and writes are separate statements; one transaction; effects after the commit | one courier per order, paid once, audit, callbacks and pushes true |
| Work shifts, `couriers/shift-management.service.ts` | `courier_shifts`, `couriers.status` | openShift, closeShift | emits to staff; gates claim | transactions with locks, `NOW()` of the transaction start, event before commit | one open shift; status follows it; shifts do not overlap; events true |
| Courier administration, `couriers/couriers-admin.service.ts` | the `couriers` row | update, two reads | writes the row the shifts write | read, merge, save | does not undo what others wrote |
| Order ingestion, `orders/orders.service.ts` | `clients`, `orders`, `order_items`, audit | create, list, get | emits order:created; adds to new-order-notify | one transaction with caught unique violations; event and job before commit | one order per number; event and job only for committed orders |
| Queues and workers, `orders/jobs`, `couriers/jobs` | BullMQ jobs | four processors | partners (HTTP), FCM | at-least-once, retries, lost answers, swallowed errors | a message is repeated only after a lapse and not given up after one; everyone is told |
| Tracking, `couriers/courier-tracking.service.ts` | `courier_positions`, `courier_location_history` | submitLocation, route reads | reads orders; emits; adds to location-callback | read-modify-write of the position, by any number of submissions at once; stale active order; reports in two reads | hops of a courier follow each other when submissions do; partners and reports tell what was recorded |
| Payouts, `payouts/payouts.service.ts` | `payout_periods`, `payouts` | createPeriod, closePeriod, recordPayout, summaries | aggregates earnings | check then unguarded update; sums recomputed at read | paid at most once per period; closed periods stable |
| Courier authentication, `auth/courier-auth.service.ts` | `courier_auth_codes`, `courier_refresh_tokens` | sendCode, verifyCode, loginWithPassword, logout | code delivery | check then insert, check then mark used | few codes are active, each opens few sessions: one when requests do not overlap |
| Login attempts, `auth/services/login-attempt-tracker.service.ts` | a Map in memory | isBlocked, recordFailure, reset | courier authentication | awaits between check and count | failures exceed the limit by no more than what overlaps |
| Code delivery, `auth/code-delivery` | BullMQ jobs keyed by code id | enqueue, process | Telegram | a failed job keeps its id | no code is forgotten |
| Staff users, `users/users.service.ts` | `staff_users` | create, update, remove | | check then insert, read then save | unique emails; removed accounts stay away |
| Socket gateway, `gateways/orders.gateway.ts` | room membership | join by role, emit | everything | none of its own | rooms are per tenant and role |
| Admin panel, `admin/src` | React state | selection, forms, modals, bulk cancel | the API | answers that are lost or come late; a form filled earlier PATCHes every field | reports are what happened; a pick is not saved unconfirmed |

Interactions in one line each: *claim* reads the open shift; *complete* writes the earnings
that payouts aggregate and shift history counts; *cancel*, *complete* and *pickup* add jobs
that workers deliver later; *tracking* attaches positions to whatever order is active;
*courier administration* and *shifts* write the same row.

The hazards, each at its line and with the properties that cover it, are the `hazards` of
`PROJECT.json`; those whose promise the code does not keep at all have a note instead of a property.

## Modules

| Module | What it is |
|---|---|
| `OrderLifecycle` | claim, advanceStatus and cancel, one action per `await` |
| `DeliveryLedger` | what it promises however requests overlap: awarded once, paid once, to the winner |
| `OrderOverlaps` | `OrderLifecycle` with two history variables: whose requests have ever overlapped |
| `LifecycleContract` | what the documents promise of orders that were never contested, and what is left for the others |
| `MCOrderOverlaps` | instances for TLC |
| `OrderLifecycleProofs` | its proofs |
| `ShiftManagement` | openShift, closeShift as transactions, and the PATCH of a courier |
| `ShiftBoard` | the atomic shift board it promises |
| `ShiftOverlaps` | `ShiftManagement` with a history variable: which openings met a closing |
| `MCShiftOverlaps`, `ShiftManagementProofs` | instances and proofs |
| `OrderIngestion` | create as a transaction, and the worker of its notify job |
| `OrderBook` | what it promises: one client per phone, one order per number |
| `MCOrderIngestion`, `OrderIngestionProofs` | instances and proofs |
| `Payouts` | periods, payouts and reports, next to completions that commit earnings |
| `CashBook` | what it promises: closed for good, then paid once |
| `MCPayouts`, `PayoutsProofs` | instances and proofs |
| `JobWorkers` | three queues with their processors, a partner and a phone |
| `Mailbox` | what the callback queues promise a partner |
| `MCJobWorkers`, `JobWorkersProofs` | instances and proofs |
| `CourierTracking` | submissions of positions and the two route reports, next to the orders |
| `TrackingOverlaps` | `CourierTracking` with a history variable: whose submissions have ever overlapped |
| `CourierPath` | the path that the tracking promises a courier who submits one location at a time |
| `MCTrackingOverlaps`, `CourierTrackingProofs` | instances and proofs |
| `SubmissionRate` | the guard that counts submissions, as it is configured |
| `CourierAuth` | one-time codes, their delivery, the sessions they open |
| `LoginAttemptTracker` | logins with a password and the count of their failures |
| `CourierAuthService` | the two side by side, with the invariant of the logins |
| `MCCourierAuth`, `CourierAuthProofs` | an instance, and the proofs of both |
| `StaffUsers` | the service of staff accounts |
| `AdminPanel` | a tab of the panel; its users page works on `StaffUsers`, which it extends |
| `MCAdminPanel`, `AdminPanelProofs` | instances and proofs of both |

### OrderLifecycle

*State.* `orders` is the row (status, `courier_id`, and as `stamps` which of the five `*_at`
columns have been set); `records`, `earnings`, `audit` are the tables; `cancelJobs` and
`callbackJobs` are all jobs ever added; `staffRoom` and `courierRoom` are the status each room was last
told; `onShift` is the set of couriers with an open shift; `req[r]` is a request being
handled: the `await` it is at, the user, the order, the transition, and the values it read
earlier (`from`, `courier`, `seen`). `winner` is a history variable, never read by an action.

*Actions.* A claim is `ClaimCheckShift` (lookup of the shift), `ClaimCount` (active orders),
`ClaimTake` (the guarded UPDATE). advanceStatus is `AdvanceLoad` (loadOrder and its
checks) and `AdvanceWrite`, or for `completed` the transaction `CompleteWrite`, whose two
unique constraints can roll it back. cancel is `CancelLoad`, `CancelVoid`. All three go on with `Reload`,
`AppendAuditEntry`, for a cancellation that has read a courier `TellCourier`, then
`EmitStatusChanged` and, for orders with a callback URL, `EnqueueCallback`. A request
that is refused returns at the action where the code throws; those refused at their first
statement change nothing and have no action. `Fail` is a crash or a throwing `await`: the slot is
freed and what was committed stays. `OpenShift` and `CloseShift` are the commits of the
other component.

*History.* `OrderOverlaps` adds two variables that no action reads and that restrict no step. An order becomes `contested` when two
requests that got past their checks are at work on it at once (losing claims contest nothing), a courier becomes `hasty` when two of his
requests are between their checks and their UPDATE at once. They say exactly for which orders and couriers a promise holds that
two overlapping requests can break.

*Abstractions.* Addresses, fees, times, reasons and payload layout are left out; a fee is
copied to the earning and never computed. A transaction is one action, because Postgres
shows nothing of it before its commit and locks what it updates. The tenant is part of every
WHERE clause, so `OwnerOf` is part of the guards. Roles are the sets `Couriers` and `Staff`,
as the guards of `order-lifecycle.controller.ts` admit them.

### ShiftManagement

*State.* `shifts` and `status` are what is committed; `tx[t]` holds what the request in slot
`t` has written and not committed, and `at`, the value of `NOW()` in its transaction. A row is open while
`ended` is NULL, since status and `ended_at` are set together. `clock` is the server's clock;
it advances at every `START TRANSACTION`, so that times also identify rows.

*Actions.* `BeginShift`, then for an opening `InsertShift`, `UpdateCourier`, `Emit`, `Commit`,
for a closing `CloseOpenRow`, `FindClosed`, `UpdateCourier`, `Emit`, `Commit`; `OpenOrder` and
`CloseOrder` are these orders. A statement waits while another transaction holds the row or index
entry it needs (`ShiftLocked`, `CourierLocked`). A PATCH is `EditLoad` (findOne and
Object.assign), `EditSelect` (save reads again and compares) and `EditUpdate`. TypeORM writes the
columns in which the entity differs from the row as `save` finds it, named by the request or not. `Fail`
rolls the transaction back, but an event already emitted stays emitted. When `CloseOpenRow` sees no
committed open row the answer is a 409 at once, even while another transaction has inserted one and not committed it.

*History.* `ShiftOverlaps` remembers in `contested` the times of the openings and closings that were in flight together with
one of the opposite kind of the same courier. Two openings, or two closings, contest nothing.

*Abstractions.* One tenant: both tables carry the tenant of the user in every statement.
Couriers start `unavailable`, the column's default; a seeded courier who starts `available`
without a shift is outside the model. Durations and the paginated reads are left out.

### OrderIngestion

*State.* `db` is the set of committed rows of the four tables; a row keeps its id, the key of
its unique index, and for an order its client. `tx[r]` is a request: the `await` it is at, what
it creates and the rows its transaction has written. `dashboard` holds the orders that were emitted as
order:created, `jobs[i]` the notify job of order `i` with its attempts, stalls and the couriers
it has still to push, `pushed` and `refused` the outcome of each push.

*Actions.* `FindClient` (the owner and the client), `InsertClient` if there was none,
`InsertOrder`, `InsertItems`, `InsertAudit` with the emit that follows without an `await`,
`Enqueue`, `Commit`; `After` is that order. An INSERT waits while another transaction holds the same key
(`Held`) and violates the index if a committed row has it. Both catch blocks then make a SELECT in the
transaction that Postgres has aborted, so that SELECT throws as well and the request ends in a rollback.
`Fail` is a statement or a `queue.add` that throws, a lost answer or a crash. The
worker is `TakeJob`, `Push` or `PushRefused` per courier, `FinishJob`; `AttemptFails` is a
`find` that throws, `Stall` a worker that dies.

*Abstractions.* One tenant with an owner row; couriers that have a token, constant; Firebase is
configured (without it `process` returns and pushes nothing). Backoff delays are left out, any attempt may come at any time.

### Payouts

*State.* `periods`, `payouts` and `earnings` are the tables, `completing[o]` an earning whose
`earned_at` has been taken from the clock in a completion that has not committed, `today` the
date, `req[r]` the request, `reports[r]` the couriers last answered as unpaid.

*Actions.* `CreatePeriod`; `CloseLoad`, `CloseWrite`; `PayoutLoad`, `PayoutInsert`; `ReportLoad`,
`AggregateCourierEarnings`, `GetPaidCourierIds` for both reports (`pendingOnly` tells them apart).
`StampEarning` and `CommitEarning` are the two ends of the transaction `CompleteWrite` of
`OrderLifecycle`, which is one action there; here its length matters, for `earned_at` is
older than the commit.

*Abstractions.* One tenant: each statement carries the owner. `earned_at` is a day, as coarse as the range of a period. Amounts are
left out: what a report sums is known from the rows it counts. `recordPayout` does not compare the amount with anything.

### JobWorkers

*State.* `jobs[j]` has its queue, its state, how often a worker took it and how often one
died over it; `wire[j]` the HTTP requests of it that are under way, by the take they belong to;
`inbox[j]` how often the partner, or the courier's phone, has it; `excused` the pushes that were
refused or had no token.

*Actions.* `Add`; `TakeJob`; for a callback `Fetch`, then `PartnerAccepts` or `PartnerRefuses` and
`Delivered`, or `FetchTimesOut`, after which a request that is still under way may arrive all the same; for
a push `LoadCourier` or `LoadFails`, `Push` or `PushRefused`. `AfterError` retries
or gives up by the attempts of the queue, 5 or 3 as `orders.module.ts` and `couriers.module.ts` say;
`Stall` is a worker that dies. *Abstractions.* Payloads and backoff delays are left out. BullMQ itself
is external: that a job is taken by one worker at a time and that a stalled one is taken once more are
assumed of it. `OrderIngestion` has the fourth queue with the loop of its worker, `CourierAuth` the fifth.

### CourierTracking

*State.* `position` and `history` are the tables, `map` what was last emitted, `req[r]` a submission with
the order and the previous position it has read, `reader[q]` a report between its two reads, `answer[q]`
what it has answered. `orders` is the part of the order row a submission sees, and `winner` a history variable.

*Actions.* `FindActiveOrder`, `LoadPrevious`, `UpsertPosition`, `InsertHistory`, `EmitLocationUpdated`,
`EnqueueLocation`, one per `await` of submitLocation. Any number of submissions of one courier may be under way: nothing in the server keeps
them apart. `RouteLoadOrder` and `RouteFindPoints` are getOrderRoute,
`ListCount` and `ListFindRows` getRouteHistoryList. `Claim`, `Advance` and `Cancel` are requests of
`OrderLifecycle` in one step each; the overlap that lets a cancelled order move again is `late_write` and is left out here.

*Rate limit.* `@Throttle({ default: ... })` of the controller names a throttler that `app.module.ts` does not configure: the guard
counts by `code` and `login`, each 5 in 600 s by `.env.example`, per courier and process. `SubmissionRate` is
`CourierTracking` behind that guard; the other runs leave the limit out, for it keeps no two submissions apart.

*History.* `TrackingOverlaps` remembers in `overlapped` the couriers two of whose submissions were ever under way at once.

*Abstractions.* Coordinates are points, and an entry keeps its two ends in place of their distance.
`recorded_at`, speed and accuracy are left out, as nothing decides by them.

### CourierAuth and LoginAttemptTracker

*State.* `codes` and `sessions` are the rows of the two tables, `jobs[k]` the delivery job whose id
is code `k`, `received` what Telegram has taken, `lost` the codes whose request died before it could
add the job. `store[k]` is the failure count of a key.

*Actions.* sendCode is `SendCode`, `InsertCode` if no code is active, `EnqueueDelivery`; verifyCode is `VerifyCode`,
`MarkUsed`, `IssueTokens`; `Logout` finds and saves in one step, for nothing else changes a session.
The worker is `DeliverViaTelegram`, `TelegramFails`, `DeliverViaSms` (there is no gateway: it always throws).
A login is `LoginWithPassword` (the check), `RecordFailure` or `Reset`, `IssueTokens`. `WindowEnds`, `Expire` are time,
`Restart` empties the store. A key without a record is never blocked, whatever the limit. The two services share no state, and `MCCourierAuth` explores each while the other rests.

*Abstractions.* Hashes, token texts and the fixed code of the test mode are left out; two rows may have the same digits.

### StaffUsers and AdminPanel

*State.* `email[a]` is the row of an account, `staffReq` the requests between their read and
their write. The panel has its page, `selection`, the bulk runs and their reports, the courier drawer (what is shown,
what is in the form, what was picked), the PATCHes under way, and the rows of the server as far as these look at them.

*Actions.* `CreateFind`/`CreateInsert`, `UpdateFind`/`UpdateSave`, `RemoveFind`/`RemoveDelete`. On the orders page
selecting, the modal, `ConfirmBulk`, one `CancelNext` or `CancelLost` per order, `Report`; a request on an order, be it the run's or another's,
is a `Load` and a `Write`, because a courier's step that was loaded before a cancellation overwrites it after; on the couriers page opening,
fetching, editing, picking a status, confirming, saving, closing; on the users page the dialogs. `Remount` is another
page and back: handlers of awaited calls go on without their component. `SessionEnds` is a 401.
`OrderElsewhere`, `ShiftChanges`, `StaffElsewhere` are others at work. `was` keeps the final statuses an order has ever had, of which
`completed` stands for its delivery record; `overwritten`, a history variable, the orders whose final status a late step has overwritten.

*Abstractions.* The pages share no state, so a behaviour stays on one of them. Of the form only the status is kept,
the other fields are `touched` or not. A cached record may be any older value.

## What the runs show

| Run | Question | Answer |
|---|---|---|
| `overlaps` | Do two couriers and an operator, two requests at a time and one request lost, keep the assignment exclusive, pay once, and leave audit, callbacks and pushes true? Is it the ledger? Does an order that was never contested follow the documented lifecycle, and a contested one what is left of it? | yes |
| `claims` | Has a courier whose requests never overlapped one active order at most, whatever happens late? Do claims stay within their tenant, and does a paid completion reach the callback queue? | yes |
| `late_write` | Do the final states survive two overlapping requests? | no |
| `shifts` | Do overlapping shift transactions and edits, one lost, leave one open shift, move both tables as the atomic board does, announce openings exactly, and always end, or can the locks close a circle? Do shifts whose openings met no closing not overlap, and are closings that met no opening announced? | yes, all end |
| `edit_overwrites` | Does the status follow the shift when an edit overlaps it? | no |
| `intake` | Do overlapping creations leave whole orders, one per number, one client per phone, and is every courier pushed whatever is lost? | yes |
| `payouts` | Are periods closed for good and couriers paid once and only then? Do reports never name a paid courier, do settled periods keep their sums? | yes |
| `delivery` | With refusals, lost answers, late arrivals and dead workers, are the callback queues a mailbox, and is everyone told unless refused or given up? | yes |
| `tracking` | Do couriers who submit one location at a time leave paths without holes, do reports and partners tell what was recorded, whatever orders and other submissions do meanwhile? | yes |
| `rate_limit` | Does the guard keep submissions of a courier five seconds apart? | no |
| `auth` | Are sessions earned, active codes few, codes never forgotten, failures bounded, when requests overlap, are lost, and workers die? | yes |
| `panel` | Do bulk reports tell what happened, late steps apart, is a picked status never saved unconfirmed, do accounts stay sound, next to others at work and lost answers? | yes |

Nothing in the server serializes requests, so the runs assume nothing of the kind: every specification lets all requests overlap.
What an overlap can break is stated with the history variables, of the orders, couriers and shifts they name as untouched, next to
all the others. `LifecycleContract` says besides what is left for a contested order: no step is taken before its turn, only an
open order is cancelled, only a new one is assigned, nothing is paid twice. The remaining properties are the ones the code
keeps under any overlap, by its guarded UPDATEs, its unique indexes and the order of its statements.

The modules also define the promises of the documents without these conditions. TLC refutes each of them within a minute, and
`late_write` is the run of one:

| Promise | Document | How it is broken |
|---|---|---|
| `TerminalIsFinal` | specs/003, spec.md:218 | a step loaded before a cancel, or before a completion, is written after it |
| `OneActiveOrder` | specs/003, spec.md:180 (FR-016) | two claims of one courier both count no active order |
| `NoEarningForCancelled` | specs/003, spec.md:170 (FR-010) | a late step takes a paid order back, and it is cancelled |
| `CancelledCourierNotified` | specs/003, spec.md:81 | a claim comes between the read and the UPDATE of a cancel, which has read no courier to tell |
| `AuditChain` | specs/003, spec.md:171 (FR-011) | of two steps that read one status both audit that they left it |
| `StaffSeeTheStatus` | specs/003, spec.md:173 (FR-012) | the handler that reloaded first emits last |
| `AssignedOnShift` | specs/007, spec.md:98 | the shift is closed between the gate of claim and its UPDATE |
| `ShiftsDoNotOverlap` | specs/007, spec.md:145 | times are those of the transaction start: an opening that has begun before a closing inserts after it |
| `ClosingsAreAnnounced` | specs/007, spec.md:117 | closeShift announces the shift that ended last, not the one it closed |
| `MapShowsPosition` | specs/004, spec.md:139 | the submission stored first emits last |
| `CancelledForGood` | BulkConfirmModal.tsx:68 | a late step revives an order that the panel has reported cancelled |

One more has no property. An earning that commits after the closing of its period is counted in it (specs/008, spec.md:77); `SettledPeriodsAreStable` is what
is left: sums stand once the days of the period have passed and the completions stamped in them have committed.

Where the code has no lock, a property says by how much overlap can harm, and with one request at a time it is the promise
itself: `FewActiveCodes`, `SessionsAreEarned`, `FailuresAreBounded`. The last is of one record of the store: a window that ends, a reset
and a restart begin another.

Seen while modelling, and outside any run: saving any field of a courier in the drawer writes back the status that
was shown, however old, without the confirmation (specs/009, FR-006); the user drawer asks for `GET users/:id`, which the server
does not have, so a staff account cannot be edited in the panel; a delivery job that has failed keeps its id, so a
resend of that code is ignored until it expires; a login that succeeds clears the failures that overlapping
logins have brought to the limit.

Two promises of `specs/002-order-ingestion` have no property because the code does not keep them and
the model shows only what it does: a duplicate number is answered by a 500, not by the 409 that names
the existing order (FR-004, spec.md:91), and a queue that does not answer rolls the order back, which
spec.md:88 excludes.

Every property of a passing run has a mutant: the definition is changed the way a plausible
bug would, and TLC finds the property violated. The mutated forms stand before the
definition they change and say so in their comment.

## Bounds

- `overlaps`: one order, two couriers, one operator and one of another tenant, two request slots, one lost request. Slots
  are reused, so the number of requests is not bounded; two at a time is what a
  check-then-write race needs, and a third actor is reached through reuse. One order is enough for properties
  that speak of one order. Couriers and slots are symmetric.
- `claims`: two orders and one of another tenant, one courier, two slots: what a request for one order could do to
  another is seen with two. Requests are lost in `overlaps`.
- `shifts`: two couriers, two slots, four transactions (open, close, open, close, or two couriers side by side), one lost, edits without
  a bound, which name another column than the status; an edit that names it is covered by the proof of `BoardSpec`.
- `intake`: two attempts at a time, equal or different in number and phone, two couriers, two losses
  or refusals: enough for a duplicate that waits for the other transaction and for a job that
  outlives a rollback. `MaxStalls` 1 is BullMQ's default, `MaxAttempts` 3 the queue's.
- `payouts`: one period of any range of three days, two couriers, two orders, two slots that are reused. Properties
  speak of one period, and overlapping periods share nothing but the earnings they read. Couriers and slots are symmetric.
- `delivery`: two jobs of any of the three queues with the attempts of the code, four troubles: enough for
  a job of three attempts to be given up next to one that is retried. `MaxStalls` 1 is BullMQ's default.
- `tracking`: two couriers, an order that either may win, two points, two submissions, a reader, one loss.
  Two submissions are what a hop that follows a hop needs, and what two that overlap need. Pages of one row make the second
  page appear. `rate_limit` needs one courier and two submissions, and has the limit of `.env.example`.
- `auth`: one courier, since no statement joins two of them; two codes with the same digits, two slots, two sessions, jobs
  of two attempts (3 in the code), one failure. `MaxSessions` is reached by two verifications of one code. Logins: three
  at a time, a limit of two, two keys of which one is nobody's; nothing else bounds them.
- `panel`: two orders and two bulk runs, so that runs overlap on the same orders; two couriers in the drawer in turn, two
  PATCHes under way; an owner and two more accounts, two requests; one change by others, one lost answer or ended session.
- `MaxFailures` bounds lost requests, refused pushes and stalls; the properties that hold whatever
  is lost do not depend on it, and the proofs are for any value.

`MaxClock` and `MaxOrders` bound the transactions started, so `shifts`, `edit_overwrites`
and `intake` stop when they are reached, and so do `delivery`, `auth` and `panel` at theirs: their configurations switch the
deadlock check off. That no request waits for another for ever is checked as a liveness property instead (`EveryRequestAnswered`).

## Fairness

Weak fairness of `Continue(r)` for each slot: the event loop resumes a handler whose awaited call has
returned, and a database statement returns. A statement that waits for a lock may run once the
lock is free; weak fairness is enough since the transactions that could take it again are
bounded. Nothing is assumed of users: no request has to be made. In `OrderIngestion` also weak
fairness of `Work(i)` for each job: a worker that runs takes waiting jobs and goes on with
them; no fairness makes a push succeed. In `JobWorkers` weak fairness of `Work(j)` and of
`Answer(j)` for each job: workers run, and a partner answers what reaches him unless one of the bounded troubles
comes first. The runs `claims`, `shifts`, `late_write`, `intake` and `delivery` assume this; the others check safety only and need none.

A lost request is the alternative that `CompletionIsReported` names; a push that FCM refuses, or a job
that the queue has given up, the ones of `EveryCourierIsPushed` and `EveryoneIsTold`.

## Proofs

All theorems are for any constants that satisfy the named assumptions: users and NULL are
distinct, so are NULL and statuses, couriers are not staff, `OwnerOf` gives every order and user a tenant,
callbacks belong to orders, bounds are naturals (`OrderLifecycle`); edits are statuses or
NULL, NULL is none of the values (`ShiftManagement`); bounds are naturals and a job is attempted at
least once (`OrderIngestion`); there is a day, and NULL is no row (`Payouts`); a job is attempted at least twice and may stall once (`JobWorkers`);
couriers and orders are finitely many and a page has a row (`CourierTracking`); request slots are finitely many
(`CourierAuth`), so are login slots, of which there is one, and their limit is a natural, 0 included (`CourierAuthService`); the owner has an email and the tab a slot (`StaffUsers`, `AdminPanel`).

**OrderLifecycle** (`OrderLifecycleProofs`). The safety properties are not inductive: a request acts on values it
read earlier. `IInv` says what those values still mean when they are used: `winner` of an order never
changes and the row names the winner or nobody, `records` equals `earnings` and each holds at
most one row, the winner's (`MoneyInv`); a request past its UPDATE finds its status stamped, a claim past it is the
winner's (`RequestInv`); audit and jobs stand for such requests (`AuditInv`, `JobInv`). The proof shows that
every step only makes these facts grow (`Grow`), and that the request that steps keeps its own.
Theorems: `Invariance`, `TypeCorrect`, `ExclusiveAssignmentHolds`, `CompletedIsPaidHolds`, `AuditIsTrueHolds`,
`CallbackIsTrueHolds`, `PushGoesToWinnerHolds`, `TenantIsolationHolds`, and
`ImplementsLedger`, that the workflow implements `DeliveryLedger`.

`IInvOwed` adds what is still to be done, for the two properties that speak of answered requests: until a request is lost, each
status that is stamped and not audited is owed by a request at `Reload` or `AppendAuditEntry`, and each order that has left `created` while the couriers
room shows it so by one before its `EmitStatusChanged`. Since no order comes back to `created`, no event can say it again (`SeenInv`). A step that takes a
request out of those places pays what it owes. Theorems: `OwedInvariance`, `AuditIsCompleteHolds`, `CouriersSeeItTakenHolds`.

`IInvOverlaps` is of the histories. While an order is not contested, what a request has read of it is still so, because whoever else could change it
would contest it (`AloneInv`): the row, its audit and the request at work on it agree. A step touches one order and one request, so that only the rows, requests and audit entries of
that order are to be looked at. `Progress`
ranks the statuses by how far an order has come; entries of an uncontested order have left lower ranks than it has now, which is why no two left the same one (`AloneAudit`).
Whatever is contested, a step has been due at some earlier time (`StepInv`); and what a courier's request has found of his orders is still so while he is not hasty (`PatientInv`).
Theorems: `OverlapsInvariance`, `OneActiveUnlessHastyHolds`, `NotifiedUnlessContestedHolds`, `StaffSeeUnlessContestedHolds`, `ChainedUnlessContestedHolds`;
`ImplementsContract`, that the handlers, however they overlap, implement `LifecycleContract`; and `NoEarningUnlessContestedHolds` and `FinalUnlessContestedHolds`, that only a contested order can be
both cancelled and paid, or move again from a final status, which no run checks on its own since `ContractSpec` implies both.

**ShiftManagement** (`ShiftManagementProofs`). A transaction that has written a shift row is the only one of its courier
(`DistinctInv`), so what it found when it wrote is still so at its COMMIT (`PendingInv`), and
keys and open rows stay unique (`RowsInv`). Theorems: `Invariance`, `TypeCorrect`, `OneOpenShiftHolds`
and `ImplementsBoard`, that transactions and edits implement `ShiftBoard`, in which a status is set together with its shift and otherwise only by an edit. `IInvOpened` adds that, until a request is lost, the openings told are those committed and those
that have only their COMMIT left: `OpenedInvariance`, `OpeningsAreAnnouncedHolds`, with any edits.

`IInvOverlaps` of `ShiftOverlaps` is about times. An uncontested opening is later than everything of its courier that has ended (`LatestOpen`), for a closing that
ended it later would have met it; an uncontested closing is later than all it finds, or gets its 409 (`LatestClose`). So the row `FindClosed` looks up is the one that was just written, and a new
shift starts after the last one ended. Theorems: `OverlapsInvariance`, `ShiftsApartUnlessContestedHolds`, `AnnouncedUnlessContestedHolds`, the last even when requests are lost.

**OrderIngestion** (`OrderIngestionProofs`). The keys a transaction has written are in no
committed row and in no other transaction (`Pending`), because an INSERT waits for the other and
looks again; so they are still new at its COMMIT, and keys stay unique (`RowsInv`). `Written` says
which rows a transaction has by where it is, so at the COMMIT it has them all. Theorems:
`Invariance`, `TypeCorrect`, `VisibleOrdersAreWholeHolds`, and `ImplementsBook`, that creations
implement `OrderBook`.

**Payouts** (`PayoutsProofs`). The writes of closePeriod and recordPayout do not look at the
status again; `IInv` says that they need not, since no request takes a status back: a period that was
open or closed exists, one that was closed is closed. It also says that an earning about to commit
is new and not stamped with a day to come. Theorems: `Invariance`, `ImplementsCashBook`,
`ReportedAreUnpaidHolds`, `SettledPeriodsAreStableHolds`.

**JobWorkers** (`JobWorkersProofs`). The copies of a callback, arrived and under way, belong to different takes, so they
are no more than the takes, and one fewer before a take has sent its own (`JobInv`). Hence a copy beyond the first has a lapse
before it. Theorems: `Invariance`, `ImplementsMailbox`.

**CourierTracking** (`CourierTrackingProofs`). A submission acts on an order and a position it read earlier. `IInv`
says what they still mean: the order's winner is the courier (`RequestsAreSound`), so is that of every row of his history
(`HistoryIsSound`), so all points of an order are of one courier. A report's count is no more than the routes there are now,
because histories only grow (`GroupsGrow`). While a submission is the only one of its courier, the position it has read is the one it replaces
(`AloneIsInStep`). Theorems: `Invariance`, `AnswersAreSoundHolds`, `PartnerSeesTheRouteHolds`, `OverlapsInvariance` and
`ImplementsPath`, in whose refinement a courier is behind his stored position until the hop to it is recorded (`At`).

**CourierAuth** (`CourierAuthProofs`). Sessions of a code and requests verifying it are counted together, and so are
active codes and requests about to insert one: a step moves one from the second set to the first, and a request enters the second only
while the first is empty. Theorems: `Invariance`, `SessionsAreEarnedHolds`, `NoCodeIsForgottenHolds`, `FewActiveCodesHolds`. The failures of a key are counted
with the logins comparing for it: a login joins them only while the failures are below the limit, so the sum has room for every slot, and a failure that is recorded takes the
place of its login (`LoginInv`): `FailuresAreBoundedHolds`, of `LoginSpec`.

**AdminPanel** and **StaffUsers** (`AdminPanelProofs`). What a run has cancelled so far and what it reports are claimed by no other run
unless a late step has overwritten the order: the UPDATE of cancel finds no row that is finished (`RunsAreSound`). A request that a run waits for is for an order the run has still to come to
(`RequestsAreSound`); an account to be saved or deleted was one of those made, and not the owner
(`StaffInv`). Theorems: `Invariance`, `BulkReportIsTrueHolds`, `PickedIsNotSavedHolds`, `AccountsAreSoundHolds`.

*Only model-checked:* liveness (`CompletionIsReported`, `EveryRequestAnswered`, `EveryCourierIsPushed`, `EveryoneIsTold`), which is
beyond the prover. Every other property of a passing run has a theorem.

## Findings

Each violation run is a disagreement between a document and the code; `PROJECT.json` quotes the lines.

1. `late_write`: advanceStatus updates by id alone; a cancelled order moves again.
2. `edit_overwrites`: editing a courier's phone writes back a stale availability.
3. `rate_limit`: the limit of one location in five seconds names a throttler that is not configured.

## Not modelled

- Reads that change nothing (lists, summaries, histories) unless a property depends on them.
- Guards that keep no state, and the throttles of codes and logins; the guard of locations is `SubmissionRate`.
- Connections and joins of the socket gateway: its emits are part of the handlers that make them.
- In the panel: tables, filters, the route history, the login page, the layout; the order drawer as far as it only shows what was fetched.
- Push (`firebase`), configuration, filters, pipes, Swagger, Docker: I/O and wording.
- Amounts, distances, times of day and the texts of codes and tokens, on which no control depends.

## Plan

All modules of the first plan are there. What would come next, in this order:

1. Composition: claims against the shift transactions of `ShiftManagement` in place of their one-step commits;
   `JobWorkers` fed by the callbacks that `OrderLifecycle` adds, with a partner who orders them by status.
2. The courier's own lists, which read earnings and payouts page by page.
