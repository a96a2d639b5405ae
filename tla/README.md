# Formal model of mecha-school

`mecha-school` is a school and institute administration system: a Flask web
application with a JSON API for mobile apps, PostgreSQL behind SQLAlchemy,
Redis where it is configured, Firebase Cloud Messaging for push notifications,
and attendance devices that call in over HTTP and websockets.  This directory
holds TLA+ models of the parts of it in which the order of events decides
whether the result is right, the TLC configurations that check them and proofs
that TLAPS checks.

How to run, in this directory:

    tlc -workers 2 -config OutboxTimely.cfg MCNotificationOutbox.tla
    tlapm NotificationOutboxProofs.tla

## 1. Inventory

| Part | State | Operations | What is hard | Here |
|---|---|---|---|---|
| Notification outbox (`services/notification_outbox.py`, `models.NotificationOutbox`) | one row per push job: status, attempts, lease, due time; a unique `dedup_key` | six `stage_*_deliveries` producers inside a business transaction; `claim_batch`, `reclaim_stale`, `mark_*`, `cleanup_terminal` | several workers, leases, retries, foreign-key cascades | modelled |
| Delivery worker (`services/outbox_worker.py`) | the claimed batch, the job in hand | `deliver_one`, `run_once`, `run` | crash, failed commit, lost reply, an ORM flush over a changed row | modelled |
| Device registrations (`blueprints/mobile_api`) | `mobile_device_tokens` | register, reassign, unregister, account deletion | changes under a worker's feet | as far as the outbox sees them |
| Firebase client (`services/fcm_service.py`) | - | send to one token, or to users | permanent and transient failures | the outbox's path |
| Delayed homework announcements (`services/homework_publish.py`) | `homework.parents_notified_at` | request path, edit path, sweep, operator's flush | four ways to announce one row | modelled |
| Durable queue and dispatch (`services/durable_queue.py`, `async_dispatch.py`, `redis_client.py`) | Redis lists, heartbeats, a thread pool | enqueue, consume, retry, reclaim, fall back | crashes, lost replies, expiring heartbeats | modelled |
| Fees (`blueprints/fees`) | fee records, installments, Revenue rows, refund events | create, pay, distribute, refund, cancel; edits of Revenue rows | checks made before the row locks, locks taken in different orders | modelled |
| Payroll (`services/payroll.py`, `blueprints/salaries`) | salary status, items, posted expense | generate, edit, approve, pay, pay all, reverse, cancel, delete | an audit entry that commits its caller's transaction | one month's records; forms left out |
| Inventory (`blueprints/inventory`) | stock per warehouse and item, movements | movement, transfer, count, edit form, warehouses | read, compute, write without a lock | one item |
| Attendance day (`services/attendance_service.py`, `auto_attendance.py`, `blueprints/attendance`, `employees`, `hardware`) | one row per person and day | scan, sheets, automatic absence, holiday clean-up | concurrent writers, unique constraint, late punches | modelled |
| Leave (`services/leave_attendance.py`) | leave requests, the days they wrote | create, decide, move, backfill | overlapping leaves, a second transaction | modelled |
| Institute attendance (`services/institute_attendance.py`) | sessions, records, teachers' rows, staged jobs | open, submit, mark the teacher; changes by the office | the first opener, re-submissions, reassigned groups | modelled |
| Transport (`blueprints/transport`, `mobile_api/driver.py`, `services/transport_trip_expiry.py`) | routes, subscriptions, trips | add, resume, edit, start, end, expire | counting without a lock, expiry racing the driver | without the forms that create routes and drivers |
| Chat (`blueprints/chat`, `mobile_api/chat.py`, `utils/chat_send_lock.py`, the script of `user_room.html`) | messages, read receipts, cursors | send, poll, drain, mark read, moderate | commit order against id order, cursors that jump | one room |
| Caches (`utils/badge_cache.py`) | badge counts per process | get, invalidate | a loader outside the lock, several processes | the badge cache |
| Admissions, registration (`services/admission_approval.py`) | request status, pupils created | approve, reject | double approval | not modelled |
| Fee reminders (`services/fee_reminder.py`) | reminder log | a slot per day | two schedulers | not modelled |
| Login throttle, tenant scoping, forms, exports, devices' wire protocols | per request, or display data | - | - | not modelled, see section 7 |

How they interact: business transactions (attendance, homework, study requests,
lessons) stage jobs in the outbox table and commit; workers sweep the table and
call Firebase; the mobile API and the administration change or delete the
registrations the jobs refer to; the same worker process runs the homework
sweep, which stages further jobs.  The older notification paths go through
`async_dispatch` to Redis or to a thread pool.  Leaves write into the rows that
scans, sheets and the absence sweep write too; payroll posts into the expenses
of the finance pages, fees into their Revenue rows.

`PROJECT.json` lists every component with its sources, and under `hazards` the
places in the code where an order of events nobody tested could go wrong, with
the properties that watch each of them or the reason why none does.

## 2. Modules

| Module | Models | Theorems in |
|---|---|---|
| `NotificationOutbox` | the outbox table, its producers, workers and registrations; an action is a transaction or a call to Firebase | `NotificationOutboxProofs` |
| `DeliveryPromise` | what the outbox promises of a job: queued, then delivered (only if Firebase accepted it) or failed, once and for all | refined by `NotificationOutbox` |
| `HomeworkPublish` | the pending marker of a homework and everybody who may announce it | `HomeworkPublishProofs` |
| `DurableQueue` | `async_dispatch.submit` with its three tiers, and the consumer threads | `DurableQueueProofs` |
| `Fees` | one pupil's fees of a type and year | `FeesProofs` |
| `Payroll` | one month's salary records and their expenses | `PayrollProofs`, `BackOfficeProofs` |
| `SchoolDay` | one day of attendance, and the leaves that cover it | `SchoolDayProofs`, `BackOfficeProofs` |
| `Inventory` | the stock of one item | `BackOfficeProofs` |
| `LessonAttendance` | one lesson of an institute | `BackOfficeProofs` |
| `Transport` | routes, riders and trips | `BackOfficeProofs` |
| `BadgeCache` | one user's badge count in the caches of the processes | `BackOfficeProofs` |
| `BackOffice` | these six side by side, for any values of their constants | `BackOfficeProofs` |
| `Chat` | one room | `ChatProofs` |
| `RoomLog` | what a room promises a reader with a cursor: ever longer prefixes of one log | refined by `Chat` |

The `MC` modules give constants for TLC.  `BackOffice` puts the six components
of the office side by side: a behaviour is one of nine scenarios (`batch`,
`pupil` and `staff` of `SchoolDay`, `salaries`, `store`, `badge`, `class`,
`trips` and `places` of `Transport`), each an INSTANCE with constants of its own,
about which it assumes no more than a component's proofs need.  `MCBackOffice`
and the .cfg files give them small sets; its `MCInit` drops initial states that
are alike but for the names of two teachers, drivers or employees.
Attendance shifts matter only to the sweep, so `batch` has schools with and
without them and `pupil` and `staff` have none.
The components share no variable in the models, so a product of their states
would show nothing more; the rows they do share in the code are in one module.

### NotificationOutbox

| Variable | In the code |
|---|---|
| `staged` | the business rows (attendance, homework, study request) that have committed |
| `accounts` | `users.is_active`, for accounts that were deleted |
| `device` | `mobile_device_tokens`: owner and `is_active` of each FCM token |
| `outbox` | `notification_outbox`, keyed by `dedup_key`; `"absent"` is a row that does not exist |
| `batch`, `hand` | the local variables of `run_once` and `deliver_one` in each worker |
| `accepted`, `strayed`, `refused` | what Firebase did; nobody in the system reads them |
| `faults`, `changes` | counters that bound a run |

A row's four time columns become one `timer`, because the status decides which
of them is ever read: `next_attempt_at` while the row is due, `locked_at` while
it is processing, `completed_at` once it is sent.  `Flush` is SQLAlchemy's unit
of work: an UPDATE writes the columns whose value differs from the one that was
loaded, and no others.  That is what makes an outcome written over a row another
worker has taken leave it half changed.

`Timely` is a constant.  When it is true `Tick` waits for workers: no live
worker is still busy when its lease runs out.  With a batch of 20 jobs, a
timeout per call and a lease of 300 s the code does not guarantee it, so the
run `outbox_stranded` goes without.

Two sentences of the code are stated as formulas that do not hold in the model,
with the reason beside them, and no run claims them: `NeverRaises` (the
docstring of `deliver_one`; an account deleted with its registrations takes the
claimed row along, and the worker drops its batch) and `NeverToNewOwner` (the
owner is compared before the call to Firebase, and nothing keeps the token from
changing hands in between).

Messages, titles, the NotificationLog rows, the feature flags (taken as on) and
the idle pauses of the loop are left out.

### HomeworkPublish

`homework` holds the rows with `publish`, `due` and the marker (`pending` is
`parents_notified_at IS NULL`).  Each actor is a request, an outbox worker
running its sweep, or the operator's `homework-flush`; `mode` and `todo` say
what it is doing and with which ids, `claimed` and `verdict` what its open
transaction holds and what it is going to do.  `Claim` (SELECT FOR UPDATE SKIP
LOCKED and the checks) and `Commit` are two steps, since the clock and the
school can change between them.  The school's date and the send hour are the
clock; a school that is switched off and a year that is no longer current are
one variable, `open`, for both make a homework ineligible in the same way.
Staging itself is one step here, for it is `StageHomework` of the outbox.

### DurableQueue

| Variable | In the code |
|---|---|
| `main`, `processing` | the Redis lists of the queue and of each consumer, as bags of entries `<<job, attempts>>` |
| `alive` | the heartbeat keys, with the ticks they have left |
| `pc` | where each `_consumer_loop` is: before its heartbeat, in the orphan scan, at the pop, executing, before the LREM; `"off"` when there is no such process |
| `held`, `target` | the entry `job`/`raw` and the list `pkey` in the loop's local variables |
| `stopping`, `sinceScan`, `down` | `_stop`, `last_reclaim`, the cooldown of `redis_client` |
| `pool` | what waits in the process's `ThreadPoolExecutor` |
| `queued`, `runs`, `done`, `dropped` | history: what Redis accepted, executions begun, executions that succeeded, jobs given up |

Every Redis command of the loop is a step of its own, because others run in
between: the scan looks at a heartbeat once (`PickOrphan`) and then moves entry
after entry (`MoveOrphan`); a retry is a push (`Raise`) and a removal (`Remove`).
Each command can also raise, before Redis has run it or after
(`LosePopReply`, `FailToRequeue`, `Submit`).  An LREM or a heartbeat
that Redis has run and whose reply is lost needs no action of its own: it is the
step itself followed by `LoseConnection`.

A list is a bag: the order in which jobs are served is not asked about.  A tick
is the 30 s cooldown of `redis_client`; a heartbeat lives two (60 s).  An idle
loop renews its heartbeat every 5 s and a Redis call ends within its 15 s
timeout, so a tick cannot wear out the heartbeat of a live loop (`Tick`) unless
it is executing a job that takes longer than that: this is a fault
(`OverrunHeartbeat`), and the reason why `OnlyDeadAreReclaimed`, the docstring's
notion of a dead consumer, is false in the model; no run claims it.  A consumer
that waits out a cooldown does not renew its heartbeat and may lose it.

### Fees

| Variable | In the code |
|---|---|
| `fee` | a `FeeRecord`: not created, active or cancelled |
| `amount`, `received` | `FeeInstallment.amount`, `received_amount` |
| `revenue` | the sum of an installment's Revenue rows that are not refunded |
| `holder` | the row locks of SELECT ... FOR UPDATE |
| `collected`, `refunded` | history: money taken, and the FeeRefundEvents |
| `req` | each request with what it read (`seen`) before and after its locks |

A request opens (checks made without a lock), locks installment after
installment, and commits what it computed from what it locked.  A payment
spreads over the installments from the one that was chosen (`Allocations`);
creation splits a net amount by hand or equally.  Money is counted in the
smallest unit.  `BreakDeadlock` is PostgreSQL ending one of the transactions
that wait for each other.  `CancelledHoldsNothing` ("a cancelled fee ... rejects
all new payments") is false in the model, because the status is looked at before
the locks; no run claims it.

### Payroll

`records` are the SalaryRecords (status, items, cached `net`, `expense_id`),
`expenses` the ledger's rows that payroll created, named by the request that
created them.  A handler reads into `snap`, computes `plan` and commits the
columns it changed, whatever happened in between; `log_action` commits the
session it is called in, so a payment in bulk is several transactions
(`PayNext`) and a reversal two (`UnpostSalaryExpense`, then `Commit`).  Items are
worth one each; how a deduction is computed from attendance is the choice
`earned`.  `stale` remembers that a record was written from a version that was
no longer the current one.

Nothing locks a salary record.  `CountedOnce` ("so the financial report isn't
double-counted", payroll.py:4-5) is stated and false in the model: two payments
that read the salary before either was committed post an expense each and the
record links to the last, and "Idempotent: if record.expense_id is already set,
does nothing" (payroll.py:66) holds of the record as it was read.  The run
`payroll_unpaid` shows the other way to a second expense; no run claims
`CountedOnce`.

### SchoolDay

| Variable | In the code |
|---|---|
| `rows` | the attendance row of each person: id, status, source, check-in, check-out, the source a leave marker notes |
| `leave`, `owner` | LeaveRequests: status, whose, and whether they cover this day |
| `clock`, `holiday`, `shifts` | the phases of the day, the calendar, `School.enable_attendance_shifts` |
| `req` | transactions of requests and of the scheduler |
| `muddled` | history: leave syncs of one person met, one failed or went by dates that had changed since they were read, or a status was written under a source its writer had not read (`Torn`) |

A handler reads rows (`snap`), plans and commits by row id; an insert that meets
the unique constraint is `Collide`.  Deciding a leave takes three moments: the
form reads the leave (`DecideLeave`, `EditDates`), one transaction writes its
status or its dates (`CommitDecision`, `CommitDates`), and a second one the days,
with a crash possible in between.  An edit revokes by the dates it has read: when
another edit with its whole resync falls between its SELECT and its UPDATE, the
days of the dates in between keep what a leave wrote although no leave covers
them.  The model has this behaviour; the person is `muddled` from then on, and no
run states the sentence without that exemption.  Present and late are one
status; a source of None is `manual`; the source noted in a leave marker (`was`)
matters on leave rows only; suspended pupils are left out; the catch-up after
midnight is assumed to run within its window; days other than this one appear
only as a sync that fails for their sake.

Two properties of this module were right in the small instances and wrong in
larger ones, which their proofs brought to light.  An UPDATE writes the columns
that changed and no others, so a handler that gives a row a new status, and
under its own copy no new source, may leave that status under the source that
another transaction wrote meanwhile.  A scan that overlaps a leave sync can so
leave a check-in that still counts as the leave's or as automatic, and a later
step that sees exactly that takes it back.  Hence `CheckedIn` asks for the
source a scan or a teacher gives, and `Torn` writes count as muddled.

### Inventory

`stock` and `total` are the stock rows and the item's cached sum, `movements`
and `counted` the documents, `house` the state of each warehouse.  A request
reads, flushes (which takes the row locks and sums the stock it sees), and
commits.  All quantities are one unit; `edited`, `stale` and `req.met` are
histories that say when the edit form, a lost update or an overlap is to blame.

### LessonAttendance

`rule`, `group`, `session`, `record` and `lesson` are the rows of one occurrence
of a weekly rule; `feed` is the sequence of jobs staged for the parents of each
pupil with the `second` that goes into their dedup key.  A request finds or
creates the session (`Open`, `Create`), reads the records and submits.  The
office changes rules, teachers, members and suspensions in between.  Parents
have a device throughout; notes, sources, inactive teachers and the app's check
that the group is the instructor's are left out; the read and the write of the
teacher's row are one step (`RecordTeacher`), whose conflict is `Refuse`.  Two
things the model makes visible and no run claims: a session that was opened
while the group had no teacher may get the rows of two teachers, and two
submissions of the same values that overlap in different seconds tell the
parents twice, which `_dedup_key`'s docstring (notification_outbox.py:169-175)
does not expect.

### Transport

`route`, `link` and `trip` are the three tables, `employed` the drivers' status.
A trip's `ended` is its `ended_at`, told apart by the request (or the scheduler,
0) that wrote it, and `audits` says for which requests a `trip_end` was logged.
Adding a pupil, editing a route, starting and ending a trip are a read and a
write; a ping and the scheduler's `Expire` are one UPDATE each.  `resumed` and
`raced` are histories: `toggle_student` (transport/__init__.py:427-440) switches
a subscription on without the look at other routes that `add_student` takes, and
riders are counted without a lock, so the properties leave out the pupils and
routes to which that happened: for them seats may be overbooked and a pupil may
ride on two routes.  Removing and suspending a subscription are one
action; pings appear only when they change something; creating routes and driver
accounts is left out.

### BadgeCache

`store` is the entry of each process, `count` what a query would give.  `Load`
reads between a miss and `Store`, outside the lock, with the time taken before
it; `Invalidate` drops the entry of the process that serves the user.  That "a
badge never lags behind the database for the user who just acted"
(badge_cache.py:59-60) is false in the model: a loader may be on its way, or the
next request be served by another process.  No run claims it; what is checked
is how long the lag lasts.

### Chat

| Variable | In the code |
|---|---|
| `log`, `nextId`, `withdrawn` | the room's ChatMessage rows in the order of their commits, the id sequence, `is_deleted` |
| `reads` | ChatMessageRead rows |
| `room`, `admins`, `membership`, `mayReply` | who may send or read |
| `send` | a request that sends: admitted, holding the room's lock, inserted, committed |
| `dev`, `cursor`, `shown` | a page (`lastMsgId` of `user_room.html`) or a phone (`after_id`), and what it has received |
| `answered` | history: pages that took the answer to a message of their own |

`LockRoom`, `Insert` and `CommitSend` are steps of their own: ids are taken from
the sequence before the commit.  A poll reads what is unread (`PollBegin`),
commits the receipts, all of them or none (`Mark`, `MarkFails`), and then asks
for messages (`PollAnswer`); a page that is opened marks in the same way.  A
batch is the lowest `PollLimit` ids above the cursor.  Opening a page shows the
whole table (`OpenTab`): `user_room` renders the oldest 100 messages
(chat/__init__.py:2334-2337) and its polls bring the rest, but `room_detail`
renders the newest 100 (1221-1237), so what is said of a page is said of
`user_room`, and of `room_detail` while the table fits on one page.  `Admitted`
lets a blocked administrator send, whom `user_room` refuses
(chat/__init__.py:2222): the model has more behaviours there than the code.  A
page is taken to be visible; a hidden one pauses its polls, and
`EventuallyRead` says nothing of it.  `NothingIsReadUnseen` also objects to a
poll in flight that carries an older cursor than its page; the counterexample
needs none.  The
phone application is not in this repository and follows
`docs/mobile_api_current.md:1445-1453`.  Left out: the event stream of older
pages, push threads, the member list a room is built from, and direct rooms (of
which two requests may create two).  A message that was admitted may still enter
a room that was closed meanwhile, and a send repeated after a lost answer is a
second message; the model has both behaviours and no property against them.

## 3. Runs

| Run | Instance | Checks | Result |
|---|---|---|---|
| `outbox_timely` | two workers, two users in two schools, two devices, a batch of 2, two attempts, one fault, one device change | five invariants, the refinement of `DeliveryPromise`, every job ends | pass |
| `outbox_stranded` | two workers that may outlive their lease, one phone, one fault | every staged job ends | violated |
| `homework_publish` | two homeworks, a request, the sweep, the operator, one edit, one fault | announced at most once, never early, never after deletion, never forgotten | pass |
| `durable_queue` | two jobs, two consumers, one fault of any of seven kinds, two orderly stops | nothing lost, once without faults, given up only after the last attempt | pass |
| `durable_queue_live` | one job, one fault of six kinds, one stop | every accepted job ends | pass |
| `queue_requeue_lost` | one job, the fault of the requeue | "retried up to DURABLE_QUEUE_MAX_ATTEMPTS total attempts" | violated |
| `fees` | four fee rows, two installments each, three requests, one edit of a Revenue row | four invariants of the money, exact cancellations, every request ends | pass |
| `back_office` | nine scenarios, two or three requests each | thirteen properties of six components | pass |
| `payroll_unpaid` | as `back_office` | "Used when a payroll payment is reversed.  Deletes the linked Expense" | violated |
| `leave_overlap` | as `back_office` | "Approved leave fills empty dates AND converts absent-without-check-in records" | violated |
| `chat` | two people, a page and a phone, two sends, one change, one fault | two invariants, the refinement of `RoomLog`, what is sent is fetched and read | pass |
| `chat_read_unseen` | two people, a page, two sends | "messages delivered via polling are cleared from the user's unread counter" | violated |

The properties, by component:

* Outbox.  `HolderOwnsLease`: whoever goes through a batch holds the lease of
  every row left in it.  `NoStrandedRow`: no row in processing without a lease,
  for nobody would ever find it.  `DuplicatesAreFaults`: at-least-once,
  quantitatively: every copy beyond the first is paid for by one crash, failed
  commit or lost reply.  `SentWasAccepted`, `DeadIsJustified`: the terminal
  statuses tell the truth.  `KeepsPromise`: refinement of `DeliveryPromise`
  under the mapping `Fate`, which contains that a fate once decided stays.
  `EventuallySettled`: every live job ends.
* Homework.  `AnnouncedAtMostOnce`, `MarkerIsTruthful`, `NeverEarly`,
  `NeverAfterDeletion`, `EventuallyHandled`.
* Queue.  `DurableUntilSettled`: "durable in Redis until executed".
  `OnceWithoutFaults`: at-least-once becomes exactly-once when nothing fails, and
  no two consumers have the same attempt, whatever stops, starts, scans and
  retries meet.  `GivenUpOnlyWhenExhausted`: no attempt is skipped but by a
  failed push.  `EventuallySettled`.
* Fees.  `Conserved`: what an installment shows as received is the money taken
  less the money refunded.  `NeverOverpaid`, `LedgerAgrees`,
  `PaymentsAccounted`: concurrent clerks take no more than is asked, book the
  same as income, and book every accepted payment in full.
  `CancellationIsExact`, and `RequestsEnd` in spite of opposite lock orders.
* Attendance day and leave.  `DaysStand`: a check-in is undone, and a final
  absence lifted, only by a transaction that had read the row before (or by an
  early punch delivered late).  `LeavesAreHonoured`: as long as syncs of a
  person's leaves neither met nor failed nor went by old dates, no day of a leave
  without a leave, and a lone approved leave excuses its day.  `EveryPupilIsAccounted`:
  after the cutoff every pupil gets a row, although one scan fails the whole
  batch of absences.
* Payroll.  `PaidIsInTheLedger`: the expense that a paid salary links to is in
  the ledger over the total of the items, and an unpaid salary links to none
  (an expense may still be left over: `payroll_unpaid`), unless requests
  overlapped on the record.  `SettledIsLeftAlone`: who reads a salary after it
  was paid posts no other expense, pay-all included, and who reads it after its
  approval leaves its total alone; requests that read it earlier do neither
  (`CountedOnce`).
* Inventory.  `StockIsAccounted`: movements account for a stock row as long as no
  two requests overlapped on it and no edit form wrote it, and a request that
  runs alone leaves the right total, also after overlapping ones left a wrong
  one.  Lost updates themselves (`create_movement` takes no lock) are what it
  leaves out.
* Lessons.  `LessonIsTold`: parents were last told what is recorded, and a
  session's rows are those of the teacher it was opened with.
  `RetriesAreSilent`: a re-submission tells nobody, unless its request had read
  an older record.
* Transport.  `BusesAreOrderly`: one active trip per route; enough seats on
  routes where no requests overlapped, one route for pupils who were neither
  added twice at once nor switched on again.  `TripsEndOnce`: of a driver's
  devices and the scheduler one ends a trip, its `ended_at` is never overwritten
  and only the winner is audited.  `StrandedTripsEnd`: a trip nobody can drive any more
  does not block its route for ever.
* Badges.  `LagIsBounded`: what a cache serves was right less than its lifetime
  ago, however slow the loader.
* Chat.  `CursorIsExact`: a phone holds exactly what was committed up to its
  cursor.  `PageMissesNothing`: so does a page that has sent nothing.
  `KeepsLog`: a phone's messages are a prefix of one log.  `EventuallyFetched`,
  `EventuallyRead`.

Type invariants are part of every inductive invariant of section 4;
`back_office` checks those of its components as one, `TypeOK`.

### What the violated runs show

`outbox_stranded`.  Settling never asks whether the row is still the worker's
own, and a flush writes only what differs from what was loaded.  A worker w1 is
late with its batch; a row of it is reclaimed, and only then does w1 open it
(loading `pending` and no lock).  w2 claims the row; w1's outcome `retry` is
written over w2's claim, whose lock it leaves, as it had loaded none.  Now w2
opens the row (loading `retry` under its own lock), the row is due and w1 claims
it again: it is in processing under w1's lock.  w2's send fails too: its outcome
`retry` is what it loaded and is not written, while `locked_by` and `locked_at`
are cleared over w1's claim.  The row is in processing with no lease; when w1
crashes before it comes to it, `reclaim_stale`, which asks for
`locked_at IS NOT NULL`, never finds it, and the notification is neither
delivered nor reported dead.  A worker that had opened the row before the
reclaim could not do this: it has loaded `processing`, and every outcome differs
from that and is written.

`queue_requeue_lost`.  `_handle_failure` falls through to the branch of the last
attempt when its LPUSH raises, and the caller then removes the job from the
processing list: one failed push and a job with attempts left is gone.  Leaving
the entry in the processing list would have kept it for the reclaimer.

`payroll_unpaid`.  `unpost_salary_expense` deletes the expense and calls
`log_action` before the salary's link to it is cleared.  `log_action` commits:
the DELETE meets the foreign key, the error is swallowed and rolled back, and
the request goes on to clear the link.  The salary is no longer paid, the expense
stays, and paying again posts a second one.

`leave_overlap`.  `_revoke_student_leave_dates` takes back every day whose source
is `leave`, whichever leave wrote it, and nothing applies the other leave again.

`chat_read_unseen`.  The answer to a message of its own sets the page's cursor
to that id, past messages of others that were committed in between.  The next
poll marks the whole room read and asks for larger ids: these messages are read
for the server and were never on the page.

### Bounds

Outbox: either of two events takes place, which differ in their school and their
parents; jobs of different events would meet only in a batch, and two jobs of one
event do that already.  Two workers are needed for every race about a lease; a
third adds no new pair.  Two users in different schools cover the tenant checks
of the six producers, two devices a batch of more than one job.  Two attempts
(three in `outbox_stranded`) give one retry and one death; the backoff has the
two values a capped, jittered delay can round to.  `Lease` = 1 tick makes "in
time" and "late" both possible, `Retention` = 0 lets cleanup meet live rows.
One fault and one device change may fall anywhere.

Queue: two consumers are one that reclaims and one that is reclaimed, with an id
to restart under; an id is taken again only when it has left nothing in Redis,
which makes it as good as a fresh one.  `ReclaimEvery` is one tick, more often
than the 60 s of the code, which only adds interleavings.  One job cannot be
executed more than `MaxRuns` times: three are two attempts and one more for the
fault.  `durable_queue` is the only run with symmetry; its properties treat
consumers and jobs alike and it checks no liveness.

Homework: two rows, two days and a sweep batch of one, so that the sweep has to
come back.  Fees: one fee is there at the start and each of three requests
may create another, hence four; three requests are two that meet and a third
before or after; a net amount of two units splits over two installments evenly
or to one side, and payments of one and two units fill one or both.

Office: every hazard listed for these components is a pair of requests that
overlap, with a third before or after where what they leave matters to it (a
payment, a stock total, a seat, a trip); a lesson has two requests and two acts
of the office; one pupil for the overlap of
leaves and two for a batch that one scan disturbs; two employees for a payment
in bulk; two warehouses for a transfer; two routes and two pupils for one seat.
Chat: two senders make one commit order and one id order; a poll limit of one
makes every batch incomplete.

### Fairness

`Tick` is weakly fair, since time passes.  Each outbox worker's own step is
weakly fair: systemd restarts `outbox_worker` and its loop always comes back to
`run_once`.  In `HomeworkPublish` started work goes on and the sweep returns
every interval; the clock runs to the last day.  In `DurableQueue` threads run,
time passes and gunicorn starts a process where one is missing.
`durable_queue_live` leaves out the lost reply of a BRPOPLPUSH: the entry then
stays in the list of a consumer that goes on living and that nobody takes back,
so with one worker, which is what `gunicorn.conf.py` starts, it waits for the
next restart.  In `Fees` a request that can take a lock or commit does, and
PostgreSQL ends deadlocks.  In `back_office` the scheduler threads run: the
absence sweep and its commit, and the sweep for inactive trips.  In `Chat` an
open page polls and marks, and a phone that follows the room fetches, as their
timers do.  A request, a device, a cleanup, an account deletion, an act of the
office and a fault are never obliged to happen.

Deadlock is checked in the outbox and queue runs.  In the others requests, edits
and days are bounded and the system ends with the last of them.

## 4. Proofs

Every invariant and every action property that a run checks is a theorem here;
what is left to TLC is liveness.  Every theorem holds for any sets and bounds that the module's
named assumptions admit: `ConstantsAssumption` of the outbox, `QueueAssumption`,
and in `BackOffice` one per component (`BatchAssumption`, `PupilAssumption`,
`StaffAssumption`, `BadgeAssumption`, `PayAssumption`, `ClassAssumption`,
`StoreAssumption`, `FleetAssumption`), which say that bounds are naturals, that
nobody is pupil and employee at once, that leaves, routes and pupils of buses
are finite sets, and that `NoOne` and `Unmarked` are nobody and no mark.

`NotificationOutboxProofs`:

* `TypeCorrect`, `BasicInvariant`.  `TypeOK` is not inductive alone: the job a
  worker settles must be one of its batch (`HandCoherent`) for the row it writes
  to exist.  `StagedFirst` adds that neither a row nor a claim exists before its
  event was staged.
* `LeaseExclusive` - `Timely` implies `Spec => []HolderOwnsLease`.  The
  inductive invariant is `LeaseInv`: the holder owns the lease, no held lease is
  older than `Lease` (so `reclaim_stale` cannot touch it), and what a worker's
  session loaded is still what the table says, so that a flush writes exactly
  the row the worker computed (`FlushIsWrite`).
* `SentIsTrue` - `Spec => []SentWasAccepted`, without `Timely`.  The invariant
  follows the truth from Firebase through the worker: a success in a worker's
  hand was accepted, and what its flush makes of a row is sent only if that
  success, or the row before, was.
* Under `Timely`: `NobodyIsStranded`, `OverIsOver` (`TerminalIsFinal`) and
  `DeadForAReason`, from what one step can do to a row (`RowCases`) and what a
  worker has in hand (`VerdictInv`).
* `CopiesArePaidFor` - `DuplicatesAreFaults`.  `CopyInv` counts the acceptances
  that no row and no hand knows of; each of them needed a fault.
* `PromiseKept` - `Spec => KeepsPromise`: every step of the outbox maps to a step
  of `DeliveryPromise` or to none.

`HomeworkPublishProofs`: `OneAnnouncement`, `HonestMarker`, `NobodyIsEarly`,
`DeletedStaysQuiet`.  A row is announced by the transaction that holds it
(`ClaimsAreGood`) or by the one request that created it without a marker
(`InlineIsOnce`).

`DurableQueueProofs`:

* `NothingLost` - `Spec => []DurableUntilSettled`.  That some entry is stored is
  not inductive: it might be the one a consumer is about to remove.  `KeptInv`
  asks for an entry with more attempts than any entry of the job whose consumer
  is at the LREM.  Each step keeps one: moving keeps the entry, a retry pushes a
  later one before its LREM, and an LREM takes away an entry of an earlier
  attempt than the one that is kept.
* `ExhaustedFirst` - `Spec => GivenUpOnlyWhenExhausted`.  `AttemptInv`: the
  attempts that an entry carries were all made, so an entry that carries the
  last one has been executed often enough.
* `OnceInCalm` - `Spec => []OnceWithoutFaults`.  `FaultlessInv`, which holds
  while there was no fault: whoever is past the top of its loop has a heartbeat
  and nothing in its list but what it has in hand, so a reclaimer finds nothing
  (`Calm`); a job waits once in the queue or in one pool or is executed by one
  consumer (`OnePlace`); and its entry counts its executions (`Counted`).

`FeesProofs`: `MoneyIsConserved`, `NobodyOverpays`, `IncomeAgrees`,
`CancellationExact`.  The row locks do the work: what a request saw when it
locked an installment is still in the row (`LocksAreGood`).  `PaymentsAreBooked`
(`PaymentsAccounted`) needs sums over finite sets, whose laws (a sum of numbers
is one, sums add up, one changed value changes the sum by the difference) would
be proved by induction over the set.  Here each is proved from the smallest set
for which it fails: cardinalities are natural numbers, a set of them has a least
one, and taking an element from that set leaves one for which the law holds
(`SmallestSubset`).

`PayrollProofs`: `PaidIsPosted`, `NoLatePosting` and `ApprovedIsOwed`.  What a
request is going to write is legitimate for what it read (`PlansAreLegit`);
unless the record has changed since, which `stale` remembers, that is what it
replaces.

`ChatProofs`: `IdOrderIsCommitOrder`, `CursorsAreExact`, `PagesMissNothing`.  The
lock makes the id of the one message that is being written larger than every
committed one (`IdsFollowCommits`), so a cursor, which is the id of a committed
message (`CursorsAreIds`), never passes one that is still to come.  `RefinesLog`
- `Spec => KeepsLog`: what a phone has received is a prefix of the log, because
the log is in the order of its ids and a batch takes the lowest ones; `LogInv`
also says that no request draws a second id, so the messages of the log are
among those `RoomLog` has.

`SchoolDayProofs` (lemmas about one school, which `BackOfficeProofs` uses for its
three).  The invariant `DayInv` says of every open transaction what its plan may
make of the row it read: a new day, the removal of a final absence on a holiday,
an edit that brings its source with its status, or what a sync of leaves does
(`PlansAreSound`); and of every day of a leave where its leave is
(`LeavesAreRight`).

`BackOfficeProofs` proves all properties of the run `back_office` but the two
liveness ones, for the composition: `OfficeInv` is the invariant of whichever
component runs.

* `BadgesAreFresh` - `LagIsBounded`.  `BadgeInv`: an entry, and a value on its
  way to one, was right at a time not before the load began.
* `PaidIsPosted`, `NoLateChange`, from `PayrollProofs`.
* `LessonsAreTold`, `NoIdleNews`.  A record and the last job of its parents
  change in one commit; a request that found a session with a teacher has that
  teacher (`Loyal`), and one that did not looks again before it writes.
* `LeavesStand`, `DaysAreKept`, from `SchoolDayProofs`.
* `BusesKeepOrder`.  `BusInv`: as long as no request overlapped on a route, what
  a form has counted is still what is there, and a route has one active trip
  because the partial unique index refuses another.  `OneEndsTheTrip` -
  `TripsEndOnce`: what is audited of a trip is by who wrote its end, and a trip
  that is not over has neither (`EndsAreSigned`).
* `StockAddsUp` - `StockIsAccounted`.  `StoreInv`: rows of a flushed request are
  locked, so what it found changed (`lost`) is all that has; a movement is about
  to change what it read by what it records; and the sum of a flush that nobody
  has met is the sum of what is there.
* `TypeCorrect` - `TypeOK`.  For the stock the bound on quantities needs
  `QuantityInv`: requests begin one after the other, so the r-th has read at
  most `Opening + r - 1` of anything and plans at most one more.

Left to TLC is liveness (`EventuallySettled` twice, `EventuallyHandled`,
`RequestsEnd`, `EveryPupilIsAccounted`, `StrandedTripsEnd`, `EventuallyFetched`,
`EventuallyRead`): the prover has no rules for fairness and ENABLED.  That the
nine scenarios may be looked at one by one is no theorem but how `BackOffice` is
built.

## 5. Mutants

Each property of a passing run is paired in `PROJECT.json` with a plausible
mistake in one definition (`IsStaleAtOnce`, `RetryTooFew`, `ClaimableUnlocked`,
`LockWithoutWaiting`, ...), defined beside the original and marked as a mistake.
With the mistake in place TLC finds the property violated.

## 6. What is next

1. More abstract specifications, each refined by its component and proved like
   `DeliveryPromise` and `RoomLog`: the fate of a homework (pending, told, passed
   over), of a durable job (accepted, executed, given up), of a salary and its
   expense.
2. Admissions and registration (approval under a row lock, the wizard's retries)
   and fee reminders (one reminder per slot, two schedulers).
3. The older notification path: `send_push_to_users` over `DurableQueue`.
4. The duplicate guard of homework creation, for which a homework has to become
   its content rather than an id.

## 7. Not modelled

Admissions, registration and the fee reminders are transactions with one lock or
one unique row each and come after the components above.  The login throttle is
a guard at the edge of the program, outside the behaviour that is stated here.
Templates, exports, image handling, the seeder and the vendor protocols of
attendance devices are input and output.  Tenant scoping is a filter on every
query; the models keep it as the school of a user and of an event.  The two
caches other than that of the badges hold display data for seconds.  Students,
employees, grades, schedules, evaluations and finances are forms over single
transactions, with little that happens between two steps; they are also the
largest part of the source, so most of its lines are in no model.
