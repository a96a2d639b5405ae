--------------------------- MODULE NotificationOutbox ---------------------------
(***************************************************************************)
(* The notification_outbox table, the producers that stage push jobs in it *)
(* and the standalone workers that deliver them                            *)
(* (services/notification_outbox.py, services/outbox_worker.py), with the  *)
(* device registrations the jobs point at (models.MobileDeviceToken,       *)
(* blueprints/mobile_api).                                                 *)
(*                                                                         *)
(* A job is identified by its dedup_key: <<event, recipient, device        *)
(* token>>.  Every step below is one database transaction or one call to   *)
(* Firebase; workers interleave between them.  Times are relative: a row's *)
(* timer counts down to next_attempt_at while the row is due, and up from  *)
(* locked_at or completed_at while it is processing or sent.               *)
(***************************************************************************)
EXTENDS Naturals, FiniteSets

CONSTANTS Events, Users, Tokens, Schools, Workers,
          SchoolOf,          \* users.school_id
          SchoolOfEvent,     \* the school whose business change an event is
          Parents,           \* parent_students: the parents an event concerns
          InitialDevices,    \* the registrations a run may start from
          NoUser, NoWorker, NoJob,
          BatchSize, MaxAttempts, Lease, Retention, BackoffBase, BackoffCap,
          Timely,            \* every live worker finishes within its lease
          MaxEvents,         \* bound: business changes that stage
          MaxFaults,         \* bound: crashes, failed commits, lost replies
          MaxDeviceChanges   \* bound: registrations, logouts, deleted accounts

Jobs == Events \X Users \X Tokens
EventOf(k) == k[1]
RecipientOf(k) == k[2]
TokenOf(k) == k[3]

DueStatuses == {"pending", "retry"}
LiveStatuses == DueStatuses \cup {"processing"}
TerminalStatuses == {"sent", "dead"}
\* "absent": no such row.  'cancelled' is in the schema, and no code sets it.
Statuses == LiveStatuses \cup TerminalStatuses \cup {"absent"}

\* The columns that decide what a worker may do with a row.
Row == [status : Statuses, attempts : Nat, timer : Nat,
        lockedBy : Workers \cup {NoWorker}]
Absent == [status |-> "absent", attempts |-> 0, timer |-> 0, lockedBy |-> NoWorker]
NewRow == [Absent EXCEPT !.status = "pending"]

\* A registration: its owner (NoUser: no such row) and is_active.
Device == [owner : Users \cup {NoUser}, active : BOOLEAN]
NoDevice == [owner |-> NoUser, active |-> FALSE]

Results == {"none", "sent", "unusable", "permanent", "transient"}
\* The job a worker is delivering, the row as its session loaded it, and what
\* came of it.
Hand == [step : {"idle", "sending", "settling"}, job : Jobs \cup {NoJob},
         loaded : Row, result : Results]
Idle == [step |-> "idle", job |-> NoJob, loaded |-> Absent, result |-> "none"]

ASSUME ConstantsAssumption ==
  /\ SchoolOf \in [Users -> Schools]
  /\ SchoolOfEvent \in [Events -> Schools]
  /\ Parents \in [Events -> SUBSET Users]
  /\ \A d \in InitialDevices, t \in Tokens : d[t].active => d[t].owner # NoUser
  /\ InitialDevices \subseteq [Tokens -> Device]
  /\ NoUser \notin Users /\ NoWorker \notin Workers /\ NoJob \notin Jobs
  /\ BatchSize \in Nat \ {0} /\ MaxAttempts \in Nat \ {0}
  /\ Lease \in Nat /\ Retention \in Nat
  /\ BackoffBase \in Nat /\ BackoffCap \in Nat
  /\ Timely \in BOOLEAN /\ MaxEvents \in Nat /\ MaxFaults \in Nat /\ MaxDeviceChanges \in Nat

VARIABLES
  staged,     \* events whose business change has committed
  accounts,   \* users whose login still works
  device,     \* mobile_device_tokens
  outbox,     \* notification_outbox
  batch,      \* the claimed rows each worker still has to go through
  hand,       \* the one it is delivering
  accepted,   \* how often Firebase accepted each job
  strayed,    \* jobs Firebase delivered to someone who is not the recipient
  refused,    \* jobs whose registration turned out unusable
  faults, changes

vars == <<staged, accounts, device, outbox, batch, hand,
          accepted, strayed, refused, faults, changes>>
tableVars == <<outbox, accepted, strayed, refused>>
workerVars == <<batch, hand>>
deviceVars == <<accounts, device, changes>>

Init ==
  /\ staged = {}
  /\ accounts = Users
  /\ device \in InitialDevices
  /\ outbox = [k \in Jobs |-> Absent]
  /\ batch = [w \in Workers |-> {}]
  /\ hand = [w \in Workers |-> Idle]
  /\ accepted = [k \in Jobs |-> 0]
  /\ strayed = {} /\ refused = {}
  /\ faults = 0 /\ changes = 0
-----------------------------------------------------------------------------
(* Producers: one transaction stages the jobs with the business change. *)

\* One job per active registration, in the event's school, of each recipient.
JobsOf(e, recipients) ==
  {k \in Jobs : /\ EventOf(k) = e /\ RecipientOf(k) \in recipients
                /\ device[TokenOf(k)].active
                /\ device[TokenOf(k)].owner = RecipientOf(k)
                /\ SchoolOf[RecipientOf(k)] = SchoolOfEvent[e]}

\* The UNIQUE dedup_key refuses the whole transaction when a job exists.
CommitWith(e, recipients) ==
  /\ e \notin staged /\ Cardinality(staged) < MaxEvents
  /\ \A k \in JobsOf(e, recipients) : outbox[k].status = "absent"
  /\ staged' = staged \cup {e}
  /\ outbox' = [k \in Jobs |-> IF k \in JobsOf(e, recipients) THEN NewRow
                                                              ELSE outbox[k]]
  /\ UNCHANGED <<accepted, strayed, refused, workerVars, deviceVars, faults>>

Foreign(e) == {p \in Parents[e] : SchoolOf[p] # SchoolOfEvent[e]}

StageAttendance(e) == CommitWith(e, Parents[e])
StageScan(e) == CommitWith(e, Parents[e])
StageManualAttendance(e) == CommitWith(e, Parents[e] \ Foreign(e))
StageAutoAbsence(e) == CommitWith(e, IF Foreign(e) = {} THEN Parents[e] ELSE {})
StageHomework(e) == Foreign(e) = {} /\ CommitWith(e, Parents[e])
StageStudyRequestViewed(e) ==
  \E p \in Parents[e] \ Foreign(e) : CommitWith(e, {p})
-----------------------------------------------------------------------------
(* Device registrations (mobile_api) and account deletion (admin). *)

DeviceChange ==
  /\ changes < MaxDeviceChanges
  /\ changes' = changes + 1
  /\ UNCHANGED <<staged, accepted, strayed, refused, workerVars, faults>>

\* An FCM token is globally unique: registering it takes it from its owner.
RegisterDevice(u, t) ==
  /\ u \in accounts
  /\ DeviceChange
  /\ device' = [device EXCEPT ![t] = [owner |-> u, active |-> TRUE]]
  /\ UNCHANGED <<accounts, outbox>>

UnregisterDevice(u, t) ==
  /\ u \in accounts
  /\ device[t].owner = u /\ device[t].active
  /\ DeviceChange
  /\ device' = [device EXCEPT ![t].active = FALSE]
  /\ UNCHANGED <<accounts, outbox>>

\* Soft deletion drops the account's registrations; the foreign key on
\* device_token_id takes their jobs along (ON DELETE CASCADE).
DeleteAccount(u) ==
  /\ u \in accounts
  /\ DeviceChange
  /\ accounts' = accounts \ {u}
  /\ device' = [t \in Tokens |-> IF device[t].owner = u THEN NoDevice
                                                        ELSE device[t]]
  /\ outbox' = [k \in Jobs |-> IF device[TokenOf(k)].owner = u THEN Absent
                                                               ELSE outbox[k]]
-----------------------------------------------------------------------------
(* The worker's table operations. *)

\* Mistakes the properties must notice: no look at who holds the row; a lease
\* nobody waits for; the age compared the wrong way round.
IsDueOrHeld(row) == row.status \in LiveStatuses /\ row.timer = 0
IsStaleAtOnce(row) == row.status = "processing" /\ row.lockedBy # NoWorker
IsStaleReversed(row) == IsStaleAtOnce(row) /\ row.timer < Lease

IsDue(row) == row.status \in DueStatuses /\ row.timer = 0
IsStale(row) ==
  row.status = "processing" /\ row.lockedBy # NoWorker /\ row.timer > Lease

AtRest(w) == batch[w] = {} /\ hand[w].step = "idle"

\* SKIP LOCKED: any due rows no concurrent transaction holds, up to the limit.
ClaimBatch(w) ==
  /\ AtRest(w)
  /\ \E S \in SUBSET {k \in Jobs : IsDue(outbox[k])} :
       /\ S # {} /\ Cardinality(S) <= BatchSize
       /\ outbox' = [k \in Jobs |->
                       IF k \in S THEN [outbox[k] EXCEPT !.status = "processing",
                                          !.lockedBy = w, !.timer = 0]
                                  ELSE outbox[k]]
       /\ batch' = [batch EXCEPT ![w] = S]
  /\ UNCHANGED <<staged, deviceVars, hand, accepted, strayed, refused, faults>>

ReclaimStale(w) ==
  /\ AtRest(w)
  /\ \E k \in Jobs : IsStale(outbox[k])
  /\ outbox' = [k \in Jobs |->
                  IF IsStale(outbox[k])
                  THEN [outbox[k] EXCEPT !.status = "pending",
                          !.lockedBy = NoWorker, !.timer = 0]
                  ELSE outbox[k]]
  /\ UNCHANGED <<staged, deviceVars, workerVars, accepted, strayed, refused, faults>>

CleanupTerminal ==
  /\ \E k \in Jobs : outbox[k].status = "sent" /\ outbox[k].timer > Retention
  /\ outbox' = [k \in Jobs |->
                  IF outbox[k].status = "sent" /\ outbox[k].timer > Retention
                  THEN Absent ELSE outbox[k]]
  /\ UNCHANGED <<staged, deviceVars, workerVars, accepted, strayed, refused, faults>>

\* base * 2^(n-1) with 20% of jitter either way, capped, in whole ticks.
BackoffDelay(n) ==
  LET d == IF BackoffBase * 2 ^ (n - 1) > BackoffCap THEN BackoffCap
           ELSE BackoffBase * 2 ^ (n - 1)
  IN {t \in 0 .. BackoffCap : 8 * d <= 10 * (t + 1) /\ 10 * t <= 12 * d + 9}

MarkSent(row) ==
  [row EXCEPT !.status = "sent", !.lockedBy = NoWorker, !.timer = 0]
MarkDead(row) ==
  [row EXCEPT !.status = "dead", !.lockedBy = NoWorker, !.timer = 0,
              !.attempts = @ + 1]
\* Mistakes: the lock is cleared and the status kept; an attempt too few; a
\* retry without end.
RetryStillProcessing(row) ==
  {[row EXCEPT !.lockedBy = NoWorker, !.attempts = @ + 1]}
RetryTooFew(row) ==
  IF row.attempts + 2 >= MaxAttempts THEN {MarkDead(row)}
  ELSE {[row EXCEPT !.status = "retry", !.lockedBy = NoWorker, !.attempts = @ + 1]}
RetryForever(row) == {[row EXCEPT !.status = "retry", !.lockedBy = NoWorker]}

\* The rows mark_retry can leave: dead once the attempts run out, else a retry
\* after some backoff.
MarkRetry(row) ==
  IF row.attempts + 1 >= MaxAttempts THEN {MarkDead(row)}
  ELSE {[row EXCEPT !.status = "retry", !.lockedBy = NoWorker, !.timer = d,
                    !.attempts = @ + 1] : d \in BackoffDelay(row.attempts + 1)}
-----------------------------------------------------------------------------
(* deliver_one, on one claimed job. *)

\* The flush writes the columns whose value differs from the one the session
\* loaded, and only those, whatever the row has become meanwhile.  (The timer
\* stands for the time column the final status makes meaningful.)
Flush(row, loaded, new) ==
  LET status == IF new.status # loaded.status THEN new.status ELSE row.status IN
  [status   |-> status,
   attempts |-> IF new.attempts # loaded.attempts THEN new.attempts
                                                  ELSE row.attempts,
   timer    |-> IF status = new.status THEN new.timer ELSE row.timer,
   lockedBy |-> IF new.lockedBy # loaded.lockedBy THEN new.lockedBy
                                                  ELSE row.lockedBy]

Usable(k) ==
  LET d == device[TokenOf(k)] IN
  /\ d.active
  /\ SchoolOf[d.owner] = SchoolOfEvent[EventOf(k)]
  /\ d.owner = RecipientOf(k)

\* The row is read again (the claim's commit expired it) with its registration.
OpenJob(w) ==
  /\ hand[w].step = "idle"
  /\ \E k \in batch[w] :
       /\ outbox[k].status # "absent"
       /\ LET mine == [step   |-> IF Usable(k) THEN "sending" ELSE "settling",
                       job    |-> k,
                       loaded |-> [outbox[k] EXCEPT !.timer = 0],
                       result |-> IF Usable(k) THEN "none" ELSE "unusable"]
          IN hand' = [hand EXCEPT ![w] = mine]
       /\ refused' = IF Usable(k) THEN refused ELSE refused \cup {k}
  /\ UNCHANGED <<staged, deviceVars, outbox, batch, accepted, strayed, faults>>

\* reached: Firebase took the message; result: what the worker learns of it.
SendTo(w, reached, result) ==
  LET k == hand[w].job IN
  /\ hand[w].step = "sending"
  /\ hand' = [hand EXCEPT ![w].step = "settling", ![w].result = result]
  /\ accepted' = IF reached THEN [accepted EXCEPT ![k] = @ + 1] ELSE accepted
  /\ strayed' = IF reached /\ device[TokenOf(k)].owner \notin {RecipientOf(k), NoUser}
                THEN strayed \cup {k} ELSE strayed
  /\ refused' = IF result = "permanent" THEN refused \cup {k} ELSE refused
  /\ UNCHANGED <<staged, deviceVars, outbox, batch>>

SendToDeviceToken(w) ==
  /\ \/ SendTo(w, TRUE, "sent")
     \/ SendTo(w, FALSE, "permanent")
     \/ SendTo(w, FALSE, "transient")
  /\ UNCHANGED faults

\* The message went out and the answer did not come back.
LoseReply(w) ==
  /\ faults < MaxFaults
  /\ faults' = faults + 1
  /\ SendTo(w, TRUE, "transient")

PutDown(w) ==
  /\ batch' = [batch EXCEPT ![w] = @ \ {hand[w].job}]
  /\ hand' = [hand EXCEPT ![w] = Idle]

\* A mistake: whatever is not a permanent failure counts as delivered.
TrustingOutcomes(h) ==
  IF h.result \in {"sent", "transient"} THEN {MarkSent(h.loaded)}
  ELSE {MarkDead(h.loaded)}

Outcomes(h) ==
  IF h.result = "sent" THEN {MarkSent(h.loaded)}
  ELSE IF h.result = "transient" THEN MarkRetry(h.loaded)
  ELSE {MarkDead(h.loaded)}

\* A permanent failure deactivates the registration in the same commit.
Settle(w) ==
  LET k == hand[w].job IN
  /\ hand[w].step = "settling"
  /\ outbox[k].status # "absent"
  /\ \E new \in Outcomes(hand[w]) :
       outbox' = [outbox EXCEPT ![k] = Flush(@, hand[w].loaded, new)]
  /\ device' = IF hand[w].result = "permanent"
               THEN [device EXCEPT ![TokenOf(k)].active = FALSE] ELSE device
  /\ PutDown(w)
  /\ UNCHANGED <<staged, accounts, changes, accepted, strayed, refused, faults>>

\* The commit fails: a second transaction records a retry on the row as it is
\* now, or fails too and leaves the row to its lease.
FailToSettle(w) ==
  LET k == hand[w].job IN
  /\ faults < MaxFaults
  /\ faults' = faults + 1
  /\ hand[w].step = "settling"
  /\ outbox[k].status # "absent"
  /\ \/ \E new \in MarkRetry(outbox[k]) :
          outbox' = [outbox EXCEPT ![k] = Flush(@, @, new)]
     \/ UNCHANGED outbox
  /\ PutDown(w)
  /\ UNCHANGED <<staged, deviceVars, accepted, strayed, refused>>

\* Touching a row that was deleted raises, and the handler touches it again
\* outside its inner try: the exception leaves deliver_one, and run() drops
\* what is left of the batch.
RaiseOnDeletedRow(w) ==
  /\ \/ /\ hand[w].step = "idle"
        /\ \E k \in batch[w] : outbox[k].status = "absent"
     \/ hand[w].step = "settling" /\ outbox[hand[w].job].status = "absent"
  /\ batch' = [batch EXCEPT ![w] = {}]
  /\ hand' = [hand EXCEPT ![w] = Idle]
  /\ UNCHANGED <<staged, deviceVars, tableVars, faults>>

\* SIGKILL, and a restart under the same name.
Crash(w) ==
  /\ faults < MaxFaults
  /\ faults' = faults + 1
  /\ batch[w] # {}
  /\ batch' = [batch EXCEPT ![w] = {}]
  /\ hand' = [hand EXCEPT ![w] = Idle]
  /\ UNCHANGED <<staged, deviceVars, tableVars>>
-----------------------------------------------------------------------------
Aged(row) ==
  [row EXCEPT !.timer =
     IF row.status \in DueStatuses THEN IF row.timer = 0 THEN 0 ELSE row.timer - 1
     ELSE IF row.status = "processing"
          THEN IF row.timer > Lease THEN row.timer ELSE row.timer + 1
     ELSE IF row.status = "sent"
          THEN IF row.timer > Retention THEN row.timer ELSE row.timer + 1
     ELSE 0]

\* Time passes.  Under Timely no worker is still busy when its lease runs out.
Tick ==
  /\ Timely => \A w \in Workers : \A k \in batch[w] : outbox[k].timer < Lease
  /\ outbox' = [k \in Jobs |-> Aged(outbox[k])]
  /\ UNCHANGED <<staged, deviceVars, workerVars, accepted, strayed, refused, faults>>

Stage(e) ==
  \/ StageAttendance(e) \/ StageScan(e) \/ StageManualAttendance(e)
  \/ StageAutoAbsence(e) \/ StageHomework(e) \/ StageStudyRequestViewed(e)

WorkerStep(w) ==
  \/ ClaimBatch(w) \/ ReclaimStale(w) \/ OpenJob(w) \/ SendToDeviceToken(w)
  \/ Settle(w) \/ RaiseOnDeletedRow(w)

Next ==
  \/ \E e \in Events : Stage(e)
  \/ \E u \in Users, t \in Tokens : RegisterDevice(u, t) \/ UnregisterDevice(u, t)
  \/ \E u \in Users : DeleteAccount(u)
  \/ \E w \in Workers : WorkerStep(w) \/ LoseReply(w) \/ FailToSettle(w) \/ Crash(w)
  \/ CleanupTerminal
  \/ Tick

Spec == Init /\ [][Next]_vars

\* systemd keeps the workers running and time passes.  Nothing obliges a
\* producer, a device, an operator's cleanup or a fault to act.
Fairness ==
  /\ WF_vars(Tick)
  /\ \A w \in Workers : WF_vars(WorkerStep(w))

LiveSpec == Spec /\ Fairness
-----------------------------------------------------------------------------
(* Properties. *)

TypeOK ==
  /\ staged \subseteq Events
  /\ accounts \subseteq Users
  /\ device \in [Tokens -> Device]
  /\ outbox \in [Jobs -> Row]
  /\ batch \in [Workers -> SUBSET Jobs]
  /\ hand \in [Workers -> Hand]
  /\ accepted \in [Jobs -> Nat]
  /\ strayed \subseteq Jobs /\ refused \subseteq Jobs
  /\ faults \in 0 .. MaxFaults /\ changes \in 0 .. MaxDeviceChanges

\* A worker going through its batch is the one that holds the lease of every
\* row left in it: claim_batch and reclaim_stale together never give two live
\* workers the same job.
HolderOwnsLease ==
  \A w \in Workers : \A k \in batch[w] :
    outbox[k].status # "absent" =>
      outbox[k].status = "processing" /\ outbox[k].lockedBy = w

\* reclaim_stale looks for 'processing' rows with a lease timestamp: a row in
\* 'processing' without one would never be found again by anybody.
NoStrandedRow ==
  \A k \in Jobs : outbox[k].status = "processing" => outbox[k].lockedBy # NoWorker

\* The table never claims a success that did not happen: mark_sent is reached
\* only for a job Firebase accepted.
SentWasAccepted ==
  \A k \in Jobs : outbox[k].status = "sent" => accepted[k] > 0

\* A job is given up only when its registration cannot be used or its attempts
\* are used up (mark_retry, mark_dead).
DeadIsJustified ==
  \A k \in Jobs : outbox[k].status = "dead" =>
    k \in refused \/ outbox[k].attempts >= MaxAttempts

\* The worker knows that Firebase took the job, or the table does.
KnownAccepted(k) ==
  \/ outbox[k].status = "sent"
  \/ \E w \in Workers : hand[w].job = k /\ hand[w].result = "sent"

\* "At-least-once": each copy of a notification beyond the first is the price
\* of one crash, one failed commit or one lost reply, and a job known to be
\* waiting or dead was accepted only at that price.
DuplicatesAreFaults ==
  \A k \in Jobs : outbox[k].status # "absent" =>
    accepted[k] <= faults + (IF KnownAccepted(k) THEN 1 ELSE 0)

\* A row whose job is over is never given back to a worker: models' lifecycle
\* comment calls 'sent' and 'dead' terminal.
TerminalIsFinal ==
  [][\A k \in Jobs : outbox[k].status \in TerminalStatuses =>
       outbox'[k].status \in {outbox[k].status, "absent"}]_vars

\* deliver_one "Never raises": without a fault a worker lets go of one job of
\* its batch at a time. It does not hold: an account that is deleted takes the
\* claimed row away and the worker drops its batch (RaiseOnDeletedRow).
NeverRaises ==
  [][\A w \in Workers :
       Cardinality(batch[w] \ batch'[w]) > 1 => faults' # faults]_vars

\* deliver_one: "The job belongs to its original recipient only: never deliver
\* it to the new owner" of a registration that changed hands. It does not hold:
\* no lock spans the checks of deliver_one and the call to Firebase.
NeverToNewOwner == strayed = {}

\* Every staged job is eventually sent or dead, or its registration is gone
\* (only a parent in the school of the event gets a job).
EventuallySettled ==
  \A k \in {j \in Jobs : SchoolOf[RecipientOf(j)] = SchoolOfEvent[EventOf(j)]} :
    outbox[k].status \in LiveStatuses ~> outbox[k].status \notin LiveStatuses

\* The table, read as the promise: the three live statuses are one.
Fate(k) ==
  CASE outbox[k].status = "absent"       -> "unknown"
    [] outbox[k].status \in LiveStatuses -> "queued"
    [] outbox[k].status = "sent"         -> "delivered"
    [] outbox[k].status = "dead"         -> "failed"

Promise == INSTANCE DeliveryPromise
  WITH fate       <- [k \in Jobs |-> Fate(k)],
       acceptedBy <- {k \in Jobs : accepted[k] > 0}

\* The outbox keeps the promise of DeliveryPromise.
KeepsPromise == Promise!Spec
=============================================================================
