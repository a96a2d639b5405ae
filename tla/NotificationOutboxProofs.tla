------------------------ MODULE NotificationOutboxProofs ------------------------
(***************************************************************************)
(* Theorems about NotificationOutbox, for any events, users, devices,      *)
(* workers, batch size, lease and number of faults: types, the discipline  *)
(* of the leases, that what is marked as sent was accepted, and, when      *)
(* every worker finishes within its lease (Timely), that the outbox keeps  *)
(* its promise (DeliveryPromise).                                          *)
(***************************************************************************)
EXTENDS NotificationOutbox, TLAPS

(* A backoff is a number of ticks. *)
LEMMA BackoffIsNat == \A n : BackoffDelay(n) \subseteq Nat
  <1>1. \A n : BackoffDelay(n) \subseteq 0 .. BackoffCap
    BY Zenon DEF BackoffDelay
  <1>2. 0 .. BackoffCap \subseteq Nat
    BY ConstantsAssumption
  <1> QED
    BY <1>1, <1>2, Zenon

(* What a worker writes is a row. *)
LEMMA MarksAreRows ==
  ASSUME NEW row \in Row
  PROVE  /\ MarkSent(row) \in Row /\ MarkDead(row) \in Row
         /\ \A new \in MarkRetry(row) : new \in Row
  <1> {"sent", "dead", "retry"} \subseteq Statuses
    BY DEF Statuses, LiveStatuses, DueStatuses, TerminalStatuses
  <1>0. row.attempts + 1 \in Nat
    BY DEF Row
  <1>1. MarkSent(row) \in Row
    BY DEF MarkSent, Row
  <1>3. MarkDead(row) \in Row
    BY <1>0 DEF MarkDead, Row
  <1>2. ASSUME NEW d \in Nat
        PROVE  [row EXCEPT !.status = "retry", !.lockedBy = NoWorker, !.timer = d,
                           !.attempts = @ + 1] \in Row
    BY <1>0 DEF Row
  <1> QED
    BY <1>1, <1>2, <1>3, BackoffIsNat DEF MarkRetry

(* Whatever the session loaded, a flush leaves a row. *)
LEMMA FlushIsRow ==
  ASSUME NEW row \in Row, NEW loaded \in Row, NEW new \in Row
  PROVE  Flush(row, loaded, new) \in Row
  BY DEF Flush, Row

LEMMA OutcomesAreRows ==
  ASSUME NEW h \in Hand
  PROVE  \A new \in Outcomes(h) : new \in Row
  <1>1. h.loaded \in Row
    BY DEF Hand
  <1> QED
    BY <1>1, MarksAreRows DEF Outcomes

LEMMA AgedIsRow == ASSUME NEW row \in Row PROVE Aged(row) \in Row
  BY DEF Aged, Row

LEMMA ConstantRows == Absent \in Row /\ NewRow \in Row /\ Idle \in Hand /\ NoDevice \in Device
  BY DEF Absent, NewRow, Idle, NoDevice, Row, Hand, Device, Results, Statuses,
         LiveStatuses, DueStatuses, TerminalStatuses

LEMMA JobParts ==
  ASSUME NEW k \in Jobs
  PROVE  EventOf(k) \in Events /\ RecipientOf(k) \in Users /\ TokenOf(k) \in Tokens
  BY DEF Jobs, EventOf, RecipientOf, TokenOf
-----------------------------------------------------------------------------
(* Type correctness. *)

LEMMA InitType == Init => TypeOK
  <1> SUFFICES ASSUME Init PROVE TypeOK
    OBVIOUS
  <1>1. device \in [Tokens -> Device]
    BY ConstantsAssumption DEF Init
  <1>2. outbox \in [Jobs -> Row] /\ hand \in [Workers -> Hand]
    BY ConstantRows DEF Init
  <1> QED
    BY <1>1, <1>2, ConstantsAssumption DEF Init, TypeOK

LEMMA StageType ==
  ASSUME TypeOK, NEW e \in Events, Stage(e)
  PROVE  TypeOK'
  <1>1. PICK recipients : CommitWith(e, recipients)
    BY Zenon DEF Stage, StageAttendance, StageScan, StageManualAttendance,
             StageAutoAbsence, StageHomework, StageStudyRequestViewed
  <1>2. outbox' \in [Jobs -> Row]
    BY <1>1, ConstantRows DEF CommitWith, TypeOK
  <1> QED
    BY <1>1, <1>2 DEF CommitWith, TypeOK, workerVars, deviceVars

LEMMA DeviceType ==
  ASSUME TypeOK, NEW u \in Users,
         \/ \E t \in Tokens : RegisterDevice(u, t) \/ UnregisterDevice(u, t)
         \/ DeleteAccount(u)
  PROVE  TypeOK'
  <1>1. changes' \in 0 .. MaxDeviceChanges
    BY ConstantsAssumption DEF RegisterDevice, UnregisterDevice, DeleteAccount,
       DeviceChange, TypeOK
  <1>2. CASE \E t \in Tokens : RegisterDevice(u, t)
    <2>1. device' \in [Tokens -> Device]
      BY <1>2 DEF RegisterDevice, TypeOK, Device
    <2> QED
      BY <1>1, <1>2, <2>1 DEF RegisterDevice, DeviceChange, TypeOK, workerVars
  <1>3. CASE \E t \in Tokens : UnregisterDevice(u, t)
    <2>1. device' \in [Tokens -> Device]
      BY <1>3 DEF UnregisterDevice, TypeOK, Device
    <2> QED
      BY <1>1, <1>3, <2>1 DEF UnregisterDevice, DeviceChange, TypeOK, workerVars
  <1>4. CASE DeleteAccount(u)
    <2>1. device' \in [Tokens -> Device] /\ outbox' \in [Jobs -> Row]
      BY <1>4, ConstantRows DEF DeleteAccount, TypeOK
    <2> QED
      BY <1>1, <1>4, <2>1 DEF DeleteAccount, DeviceChange, TypeOK, workerVars
  <1> QED
    BY <1>2, <1>3, <1>4

LEMMA TableType ==
  ASSUME TypeOK,
         \/ CleanupTerminal \/ Tick
         \/ \E w \in Workers : ClaimBatch(w) \/ ReclaimStale(w)
  PROVE  TypeOK'
  <1>1. CASE CleanupTerminal
    <2>1. outbox' \in [Jobs -> Row]
      BY <1>1, ConstantRows DEF CleanupTerminal, TypeOK
    <2> QED
      BY <1>1, <2>1 DEF CleanupTerminal, TypeOK, workerVars, deviceVars
  <1>2. CASE Tick
    <2>1. outbox' \in [Jobs -> Row]
      BY <1>2, AgedIsRow DEF Tick, TypeOK
    <2> QED
      BY <1>2, <2>1 DEF Tick, TypeOK, workerVars, deviceVars
  <1>3. ASSUME NEW w \in Workers, ClaimBatch(w) PROVE TypeOK'
    <2>1. PICK S \in SUBSET {k \in Jobs : IsDue(outbox[k])} :
            /\ outbox' = [k \in Jobs |->
                            IF k \in S THEN [outbox[k] EXCEPT !.status = "processing",
                                               !.lockedBy = w, !.timer = 0]
                                       ELSE outbox[k]]
            /\ batch' = [batch EXCEPT ![w] = S]
      BY <1>3 DEF ClaimBatch
    <2>2. ASSUME NEW row \in Row
          PROVE  [row EXCEPT !.status = "processing", !.lockedBy = w,
                             !.timer = 0] \in Row
      BY DEF Row, Statuses, LiveStatuses
    <2>3. outbox' \in [Jobs -> Row]
      BY <2>1, <2>2 DEF TypeOK
    <2>4. batch' \in [Workers -> SUBSET Jobs]
      BY <2>1 DEF TypeOK
    <2> QED
      BY <1>3, <2>3, <2>4 DEF ClaimBatch, TypeOK, deviceVars
  <1>4. ASSUME NEW w \in Workers, ReclaimStale(w) PROVE TypeOK'
    <2>1. ASSUME NEW row \in Row
          PROVE  [row EXCEPT !.status = "pending", !.lockedBy = NoWorker,
                             !.timer = 0] \in Row
      BY DEF Row, Statuses, LiveStatuses, DueStatuses
    <2>2. outbox' \in [Jobs -> Row]
      BY <1>4, <2>1 DEF ReclaimStale, TypeOK
    <2> QED
      BY <1>4, <2>2 DEF ReclaimStale, TypeOK, workerVars, deviceVars
  <1> QED
    BY <1>1, <1>2, <1>3, <1>4

LEMMA DeliveryType ==
  ASSUME TypeOK, NEW w \in Workers,
         \/ OpenJob(w) \/ SendToDeviceToken(w) \/ LoseReply(w)
         \/ Settle(w) \/ FailToSettle(w) \/ RaiseOnDeletedRow(w) \/ Crash(w),
         hand[w].step # "idle" => hand[w].job \in batch[w]
  PROVE  TypeOK'
  <1>h. hand[w] \in Hand /\ hand[w].loaded \in Row /\ batch[w] \subseteq Jobs
    BY DEF TypeOK, Hand
  <1>1. CASE OpenJob(w)
    <2>1. PICK k \in batch[w] :
            /\ hand' = [hand EXCEPT ![w] =
                 [step   |-> IF Usable(k) THEN "sending" ELSE "settling",
                  job    |-> k,
                  loaded |-> [outbox[k] EXCEPT !.timer = 0],
                  result |-> IF Usable(k) THEN "none" ELSE "unusable"]]
            /\ refused' = IF Usable(k) THEN refused ELSE refused \cup {k}
      BY <1>1 DEF OpenJob
    <2>2. k \in Jobs /\ [outbox[k] EXCEPT !.timer = 0] \in Row
      BY <1>h DEF TypeOK, Row
    <2>3. hand' \in [Workers -> Hand]
      BY <2>1, <2>2 DEF TypeOK, Hand, Results
    <2> QED
      BY <1>1, <2>1, <2>2, <2>3 DEF OpenJob, TypeOK, deviceVars
  <1>2. ASSUME NEW reached \in BOOLEAN, NEW result \in Results,
               SendTo(w, reached, result), faults' \in 0 .. MaxFaults
        PROVE  TypeOK'
    <2>1. hand[w].job \in Jobs
      BY <1>2, <1>h DEF SendTo
    <2>2. hand' \in [Workers -> Hand]
      BY <1>2, <1>h DEF SendTo, TypeOK, Hand
    <2>3. accepted' \in [Jobs -> Nat]
      BY <1>2, <2>1 DEF SendTo, TypeOK
    <2> QED
      BY <1>2, <2>1, <2>2, <2>3 DEF SendTo, TypeOK, deviceVars
  <1>3. CASE SendToDeviceToken(w)
    <2>1. {TRUE, FALSE} \subseteq BOOLEAN
          /\ {"sent", "permanent", "transient"} \subseteq Results
      BY DEF Results
    <2>2. faults' \in 0 .. MaxFaults
      BY <1>3 DEF SendToDeviceToken, TypeOK
    <2> QED
      BY <1>2, <1>3, <2>1, <2>2 DEF SendToDeviceToken
  <1>4. CASE LoseReply(w)
    <2>1. "transient" \in Results /\ faults' \in 0 .. MaxFaults
      BY <1>4, ConstantsAssumption DEF LoseReply, Results, TypeOK
    <2> QED
      BY <1>2, <1>4, <2>1 DEF LoseReply
  <1>5. ASSUME PutDown(w)
        PROVE  batch' \in [Workers -> SUBSET Jobs] /\ hand' \in [Workers -> Hand]
    BY <1>5, ConstantRows DEF PutDown, TypeOK
  <1>6. CASE Settle(w)
    <2>1. hand[w].job \in Jobs
      BY <1>6, <1>h DEF Settle
    <2>2. PICK new \in Outcomes(hand[w]) :
            outbox' = [outbox EXCEPT ![hand[w].job] = Flush(@, hand[w].loaded, new)]
      BY <1>6 DEF Settle
    <2>3. new \in Row
      BY <1>h, OutcomesAreRows
    <2>4. Flush(outbox[hand[w].job], hand[w].loaded, new) \in Row
      BY <1>h, <2>1, <2>3, FlushIsRow DEF TypeOK
    <2>5. outbox' \in [Jobs -> Row]
      BY <2>2, <2>4 DEF TypeOK
    <2>6. device' \in [Tokens -> Device]
      BY <1>6, <2>1, JobParts DEF Settle, TypeOK, Device
    <2> QED
      BY <1>5, <1>6, <2>5, <2>6 DEF Settle, TypeOK
  <1>7. CASE FailToSettle(w)
    <2>1. hand[w].job \in Jobs
      BY <1>7, <1>h DEF FailToSettle
    <2>2. outbox[hand[w].job] \in Row
      BY <2>1 DEF TypeOK
    <2>3. \A new \in MarkRetry(outbox[hand[w].job]) :
            Flush(outbox[hand[w].job], outbox[hand[w].job], new) \in Row
      BY <2>2, MarksAreRows, FlushIsRow
    <2>4. outbox' \in [Jobs -> Row]
      BY <1>7, <2>3 DEF FailToSettle, TypeOK
    <2>5. faults' \in 0 .. MaxFaults
      BY <1>7, ConstantsAssumption DEF FailToSettle, TypeOK
    <2> QED
      BY <1>5, <1>7, <2>4, <2>5 DEF FailToSettle, TypeOK, deviceVars
  <1>8. CASE RaiseOnDeletedRow(w)
    BY <1>8, ConstantRows DEF RaiseOnDeletedRow, TypeOK, deviceVars, tableVars
  <1>9. CASE Crash(w)
    BY <1>9, ConstantRows, ConstantsAssumption DEF Crash, TypeOK, deviceVars, tableVars
  <1> QED
    BY <1>1, <1>3, <1>4, <1>6, <1>7, <1>8, <1>9

-----------------------------------------------------------------------------
(* What a worker holds, and where jobs come from; true however late a worker *)
(* runs.                                                                     *)

HandCoherent ==
  \A w \in Workers :
    /\ hand[w].step = "idle" => hand[w] = Idle
    /\ hand[w].step # "idle" => hand[w].job \in batch[w]
    /\ hand[w].step = "sending" => hand[w].result = "none"
    /\ hand[w].step = "settling" => hand[w].result # "none"

\* An event's jobs appear once, with it: a row that is gone stays gone.
StagedFirst ==
  \A k \in Jobs :
    outbox[k].status # "absent" \/ (\E w \in Workers : k \in batch[w])
      => EventOf(k) \in staged

BasicInv == TypeOK /\ HandCoherent /\ StagedFirst

LEMMA InitBasic == Init => BasicInv
  BY InitType DEF Init, BasicInv, HandCoherent, StagedFirst, Idle, Absent

(* One step of the specification, by action: the proofs below follow it. *)
LEMMA NextCases ==
  ASSUME Next
  PROVE  \/ \E e \in Events : Stage(e)
         \/ \E u \in Users : \/ \E t \in Tokens : RegisterDevice(u, t) \/ UnregisterDevice(u, t)
                             \/ DeleteAccount(u)
         \/ CleanupTerminal \/ Tick
         \/ \E w \in Workers : ClaimBatch(w) \/ ReclaimStale(w)
         \/ \E w \in Workers :
              \/ OpenJob(w) \/ SendToDeviceToken(w) \/ LoseReply(w)
              \/ Settle(w) \/ FailToSettle(w) \/ RaiseOnDeletedRow(w) \/ Crash(w)
  BY Zenon DEF Next, WorkerStep

LEMMA TypeStep == BasicInv /\ [Next]_vars => TypeOK'
  <1> SUFFICES ASSUME BasicInv, [Next]_vars PROVE TypeOK'
    OBVIOUS
  <1>1. CASE Next
    BY <1>1, NextCases, StageType, DeviceType, TableType, DeliveryType
       DEF BasicInv, HandCoherent
  <1>2. CASE UNCHANGED vars
    BY <1>2 DEF vars, BasicInv, TypeOK
  <1> QED
    BY <1>1, <1>2

(* The hands, action by action. *)
LEMMA HandStep == BasicInv /\ [Next]_vars => HandCoherent'
  <1> SUFFICES ASSUME BasicInv, [Next]_vars, NEW v \in Workers
               PROVE  /\ hand'[v].step = "idle" => hand'[v] = Idle
                      /\ hand'[v].step # "idle" => hand'[v].job \in batch'[v]
                      /\ hand'[v].step = "sending" => hand'[v].result = "none"
                      /\ hand'[v].step = "settling" => hand'[v].result # "none"
    BY DEF HandCoherent
  <1> USE DEF BasicInv, HandCoherent
  <1>1. ASSUME UNCHANGED workerVars
        PROVE  HandCoherent'
    BY <1>1 DEF workerVars
  <1>2. CASE UNCHANGED vars
    BY <1>1, <1>2 DEF vars, workerVars
  <1>3. ASSUME NEW e \in Events, Stage(e) PROVE HandCoherent'
    BY <1>1, <1>3 DEF Stage, StageAttendance, StageScan, StageManualAttendance,
       StageAutoAbsence, StageHomework, StageStudyRequestViewed, CommitWith
  <1>4. ASSUME NEW u \in Users,
               \/ \E t \in Tokens : RegisterDevice(u, t) \/ UnregisterDevice(u, t)
               \/ DeleteAccount(u)
        PROVE  HandCoherent'
    BY <1>1, <1>4 DEF RegisterDevice, UnregisterDevice, DeleteAccount, DeviceChange
  <1>5. CASE CleanupTerminal \/ Tick \/ \E w \in Workers : ReclaimStale(w)
    BY <1>1, <1>5 DEF CleanupTerminal, Tick, ReclaimStale
  <1>6. ASSUME NEW w \in Workers, ClaimBatch(w) PROVE HandCoherent'
    BY <1>6 DEF ClaimBatch, AtRest, TypeOK
  <1>7. ASSUME NEW w \in Workers, OpenJob(w) PROVE HandCoherent'
    BY <1>7 DEF OpenJob, TypeOK, Idle
  <1>8. ASSUME NEW w \in Workers, SendToDeviceToken(w) \/ LoseReply(w)
        PROVE  HandCoherent'
    BY <1>8 DEF SendToDeviceToken, LoseReply, SendTo, TypeOK, Hand
  <1>9. ASSUME NEW w \in Workers, Settle(w) \/ FailToSettle(w) PROVE HandCoherent'
    BY <1>9 DEF Settle, FailToSettle, PutDown, TypeOK, Idle
  <1>10. ASSUME NEW w \in Workers, RaiseOnDeletedRow(w) \/ Crash(w)
         PROVE  HandCoherent'
    BY <1>10 DEF RaiseOnDeletedRow, Crash, TypeOK, Idle
  <1> QED
    BY <1>2, <1>3, <1>4, <1>5, <1>6, <1>7, <1>8, <1>9, <1>10, NextCases

LEMMA StagedStep == BasicInv /\ [Next]_vars => StagedFirst'
  <1> SUFFICES ASSUME BasicInv, [Next]_vars PROVE StagedFirst'
    OBVIOUS
  <1> USE DEF BasicInv
  <1>0. ASSUME staged' = staged,
               \A k \in Jobs : outbox'[k].status # "absent" => outbox[k].status # "absent",
               \A w \in Workers, k \in Jobs :
                 k \in batch'[w] => k \in batch[w] \/ outbox[k].status # "absent"
        PROVE  StagedFirst'
    BY <1>0 DEF StagedFirst
  <1>1. CASE UNCHANGED vars
    BY <1>0, <1>1 DEF vars
  <1>2. ASSUME NEW e \in Events, Stage(e) PROVE StagedFirst'
    <2>1. PICK recipients : CommitWith(e, recipients)
      BY <1>2, Zenon DEF Stage, StageAttendance, StageScan, StageManualAttendance,
               StageAutoAbsence, StageHomework, StageStudyRequestViewed
    <2> QED
      BY <2>1 DEF CommitWith, StagedFirst, JobsOf, workerVars
  <1>3. ASSUME NEW u \in Users,
               \/ \E t \in Tokens : RegisterDevice(u, t) \/ UnregisterDevice(u, t)
               \/ DeleteAccount(u)
        PROVE  StagedFirst'
    BY <1>0, <1>3 DEF RegisterDevice, UnregisterDevice, DeleteAccount, DeviceChange,
       workerVars, Absent
  <1>4. CASE CleanupTerminal
    BY <1>0, <1>4 DEF CleanupTerminal, workerVars, Absent
  <1>5. CASE Tick
    BY <1>0, <1>5 DEF Tick, Aged, workerVars, TypeOK, Row
  <1>6. ASSUME NEW w \in Workers, ClaimBatch(w) PROVE StagedFirst'
    <2>1. \A k \in Jobs : IsDue(outbox[k]) => outbox[k].status # "absent"
      BY DEF IsDue, DueStatuses
    <2> QED
      BY <1>0, <1>6, <2>1 DEF ClaimBatch, TypeOK
  <1>7. ASSUME NEW w \in Workers, ReclaimStale(w) PROVE StagedFirst'
    BY <1>0, <1>7 DEF ReclaimStale, IsStale, workerVars
  <1>8. ASSUME NEW w \in Workers,
               \/ OpenJob(w) \/ SendToDeviceToken(w) \/ LoseReply(w)
               \/ RaiseOnDeletedRow(w) \/ Crash(w)
        PROVE  StagedFirst'
    BY <1>0, <1>8 DEF OpenJob, SendToDeviceToken, LoseReply, SendTo,
       RaiseOnDeletedRow, Crash, tableVars, TypeOK
  <1>9. ASSUME NEW w \in Workers, Settle(w) \/ FailToSettle(w) PROVE StagedFirst'
    <2>1. \A k \in Jobs : outbox'[k].status # "absent" => outbox[k].status # "absent"
      BY <1>9 DEF Settle, FailToSettle, TypeOK
    <2> QED
      BY <1>0, <1>9, <2>1 DEF Settle, FailToSettle, PutDown, TypeOK
  <1> QED
    BY <1>1, <1>2, <1>3, <1>4, <1>5, <1>6, <1>7, <1>8, <1>9, NextCases

THEOREM BasicInvariant == Spec => []BasicInv
  <1>1. BasicInv /\ [Next]_vars => BasicInv'
    BY TypeStep, HandStep, StagedStep DEF BasicInv
  <1> QED
    BY InitBasic, <1>1, PTL DEF Spec

(* The state never leaves its types. *)
THEOREM TypeCorrect == Spec => []TypeOK
  <1>1. BasicInv => TypeOK
    BY DEF BasicInv
  <1> QED
    BY BasicInvariant, <1>1, PTL
-----------------------------------------------------------------------------
(* Lease discipline.  When every live worker finishes within its lease, a    *)
(* worker's batch is exactly what the table says it holds, and the row it    *)
(* loaded is still the row it writes back.                                   *)

HeldInTime ==
  \A w \in Workers : \A k \in batch[w] :
    outbox[k].status # "absent" => outbox[k].timer <= Lease

LoadedIsCurrent ==
  \A w \in Workers :
    LET k == hand[w].job IN
    hand[w].step # "idle" /\ outbox[k].status # "absent" =>
      /\ hand[w].loaded.status = outbox[k].status
      /\ hand[w].loaded.lockedBy = outbox[k].lockedBy
      /\ hand[w].loaded.attempts = outbox[k].attempts

LeaseInv == HolderOwnsLease /\ HeldInTime /\ LoadedIsCurrent

LEMMA InitLease == Init => LeaseInv
  BY DEF Init, LeaseInv, HolderOwnsLease, HeldInTime, LoadedIsCurrent, Idle

(* Under the lease discipline at most one worker holds a row that exists. *)
LEMMA OneHolder ==
  ASSUME LeaseInv, NEW v \in Workers, NEW w \in Workers, NEW k \in batch[v],
         k \in batch[w], outbox[k].status # "absent"
  PROVE  v = w
  BY DEF LeaseInv, HolderOwnsLease

(* The flush then writes exactly the row the worker computed. *)
LEMMA FlushIsWrite ==
  ASSUME NEW row \in Row, NEW loaded \in Row, NEW new \in Row,
         loaded.status = row.status, loaded.lockedBy = row.lockedBy,
         loaded.attempts = row.attempts, new.status # loaded.status
  PROVE  Flush(row, loaded, new) = new
  BY DEF Flush, Row

(* No mark leaves a row in processing. *)
LEMMA MarksSettle ==
  ASSUME NEW row \in Row
  PROVE  /\ MarkSent(row).status = "sent" /\ MarkDead(row).status = "dead"
         /\ \A new \in MarkRetry(row) :
              \/ new = MarkDead(row) /\ row.attempts + 1 >= MaxAttempts
              \/ new.status = "retry"
  <1>1. MarkSent(row).status = "sent" /\ MarkDead(row).status = "dead"
    BY DEF MarkSent, MarkDead, Row
  <1>2. \A d : [row EXCEPT !.status = "retry", !.lockedBy = NoWorker, !.timer = d,
                           !.attempts = @ + 1].status = "retry"
    BY DEF Row
  <1> QED
    BY <1>1, <1>2 DEF MarkRetry

(* What Settle leaves of the row in hand. *)
LEMMA SettleWrites ==
  ASSUME BasicInv, LeaseInv, NEW w \in Workers, Settle(w)
  PROVE  LET k == hand[w].job IN
         /\ k \in batch[w] /\ k \in Jobs
         /\ outbox[k].status = "processing" /\ hand[w].loaded \in Row
         /\ outbox' = [outbox EXCEPT ![k] = outbox'[k]]
         /\ outbox'[k] \in Outcomes(hand[w])
         /\ outbox'[k].status \in {"sent", "dead", "retry"}
  <1> DEFINE k == hand[w].job
  <1>1. k \in batch[w] /\ k \in Jobs /\ hand[w] \in Hand /\ hand[w].loaded \in Row
    BY DEF Settle, BasicInv, HandCoherent, TypeOK, Hand
  <1>2. outbox[k] \in Row /\ outbox[k].status = "processing"
    BY <1>1 DEF Settle, BasicInv, TypeOK, LeaseInv, HolderOwnsLease
  <1>3. PICK new \in Outcomes(hand[w]) :
          outbox' = [outbox EXCEPT ![k] = Flush(outbox[k], hand[w].loaded, new)]
    BY DEF Settle
  <1>4. new \in Row /\ new.status \in {"sent", "dead", "retry"}
    BY <1>1, OutcomesAreRows, MarksSettle DEF Outcomes
  <1>5. Flush(outbox[k], hand[w].loaded, new) = new
    <2>1. /\ hand[w].loaded.status = outbox[k].status
          /\ hand[w].loaded.lockedBy = outbox[k].lockedBy
          /\ hand[w].loaded.attempts = outbox[k].attempts
      BY DEF Settle, LeaseInv, LoadedIsCurrent
    <2> QED
      BY <1>1, <1>2, <1>4, <2>1, FlushIsWrite
  <1> QED
    BY <1>1, <1>2, <1>3, <1>4, <1>5 DEF BasicInv, TypeOK

(* What FailToSettle leaves of it. *)
LEMMA FailToSettleWrites ==
  ASSUME BasicInv, LeaseInv, NEW w \in Workers, FailToSettle(w)
  PROVE  LET k == hand[w].job IN
         /\ k \in batch[w] /\ k \in Jobs
         /\ outbox[k] \in Row /\ outbox[k].status = "processing"
         /\ outbox' = [outbox EXCEPT ![k] = outbox'[k]]
         /\ \/ outbox'[k] = outbox[k]
            \/ /\ outbox'[k] \in MarkRetry(outbox[k])
               /\ outbox'[k].status \in {"dead", "retry"}
  <1> DEFINE k == hand[w].job
  <1>1. k \in batch[w] /\ k \in Jobs
    BY DEF FailToSettle, BasicInv, HandCoherent, TypeOK
  <1>2. outbox[k] \in Row /\ outbox[k].status = "processing"
    BY <1>1 DEF FailToSettle, BasicInv, TypeOK, LeaseInv, HolderOwnsLease
  <1>3. CASE UNCHANGED outbox
    BY <1>1, <1>2, <1>3 DEF BasicInv, TypeOK
  <1>4. ASSUME NEW new \in MarkRetry(outbox[k]),
               outbox' = [outbox EXCEPT ![k] = Flush(@, @, new)]
        PROVE  /\ outbox' = [outbox EXCEPT ![k] = outbox'[k]]
               /\ outbox'[k] \in MarkRetry(outbox[k])
               /\ outbox'[k].status \in {"dead", "retry"}
    <2> DEFINE row == outbox[k]
    <2> HIDE DEF row
    <2>r. row \in Row /\ row.status = "processing"
      BY <1>2 DEF row
    <2>n. new \in MarkRetry(row)
      BY <1>4 DEF row
    <2>s. \/ new = MarkDead(row) /\ row.attempts + 1 >= MaxAttempts
          \/ new.status = "retry"
      BY <2>r, <2>n, MarksSettle
    <2>1. new \in Row /\ new.status \in {"dead", "retry"}
      BY <2>r, <2>n, <2>s, MarksAreRows, MarksSettle
    <2>2. Flush(row, row, new) = new
      BY <2>r, <2>1, FlushIsWrite
    <2> QED
      BY <1>1, <1>4, <2>1, <2>2, <2>n DEF row, BasicInv, TypeOK
  <1> QED
    BY <1>1, <1>2, <1>3, <1>4 DEF FailToSettle

(* The lease discipline, action by action. *)
LEMMA LeaseStep ==
  ASSUME BasicInv, LeaseInv, Timely, [Next]_vars
  PROVE  LeaseInv'
  <1> USE DEF BasicInv, LeaseInv
  \* What leaves the held rows alone, or removes them, keeps the discipline.
  <1>0. ASSUME UNCHANGED workerVars,
               \A w \in Workers : \A k \in batch[w] :
                 outbox'[k].status # "absent" => outbox'[k] = outbox[k]
        PROVE  LeaseInv'
    <2>1. HolderOwnsLease' /\ HeldInTime'
      BY <1>0 DEF workerVars, HolderOwnsLease, HeldInTime
    <2>2. LoadedIsCurrent'
      BY <1>0 DEF workerVars, LoadedIsCurrent, HandCoherent
    <2> QED
      BY <2>1, <2>2
  <1>1. CASE UNCHANGED vars
    BY <1>0, <1>1 DEF vars, workerVars
  <1>2. ASSUME NEW e \in Events, Stage(e) PROVE LeaseInv'
    <2>1. PICK recipients : CommitWith(e, recipients)
      BY <1>2, Zenon DEF Stage, StageAttendance, StageScan, StageManualAttendance,
               StageAutoAbsence, StageHomework, StageStudyRequestViewed
    <2>2. \A w \in Workers : \A k \in batch[w] : k \in Jobs /\ k \notin JobsOf(e, recipients)
      BY <2>1 DEF CommitWith, StagedFirst, JobsOf, TypeOK
    <2> QED
      BY <1>0, <2>1, <2>2 DEF CommitWith
  <1>3. ASSUME NEW u \in Users,
               \/ \E t \in Tokens : RegisterDevice(u, t) \/ UnregisterDevice(u, t)
               \/ DeleteAccount(u)
        PROVE  LeaseInv'
    BY <1>0, <1>3 DEF RegisterDevice, UnregisterDevice, DeleteAccount, DeviceChange,
       Absent, TypeOK
  <1>4. CASE CleanupTerminal
    BY <1>0, <1>4 DEF CleanupTerminal, Absent, TypeOK
  <1>5. CASE Tick
    <2>1. UNCHANGED workerVars
      BY <1>5 DEF Tick
    <2>2. \A w \in Workers : \A k \in batch[w] :
            /\ k \in Jobs /\ outbox[k] \in Row /\ outbox'[k] = Aged(outbox[k])
            /\ outbox[k].timer < Lease
      BY <1>5 DEF Tick, TypeOK
    <2>3. \A row \in Row :
            /\ Aged(row).status = row.status /\ Aged(row).lockedBy = row.lockedBy
            /\ Aged(row).attempts = row.attempts
            /\ row.status = "processing" /\ row.timer < Lease => Aged(row).timer <= Lease
      BY ConstantsAssumption DEF Aged, Row, DueStatuses
    <2>4. HolderOwnsLease' /\ HeldInTime'
      BY <2>1, <2>2, <2>3 DEF workerVars, HolderOwnsLease, HeldInTime
    <2>5. LoadedIsCurrent'
      BY <2>1, <2>2, <2>3 DEF workerVars, LoadedIsCurrent, HandCoherent
    <2> QED
      BY <2>4, <2>5
  <1>6. ASSUME NEW w \in Workers, ClaimBatch(w) PROVE LeaseInv'
    <2>1. PICK S \in SUBSET {k \in Jobs : IsDue(outbox[k])} :
            /\ outbox' = [k \in Jobs |->
                            IF k \in S THEN [outbox[k] EXCEPT !.status = "processing",
                                               !.lockedBy = w, !.timer = 0]
                                       ELSE outbox[k]]
            /\ batch' = [batch EXCEPT ![w] = S]
      BY <1>6 DEF ClaimBatch
    <2>2. hand' = hand /\ hand[w].step = "idle"
      BY <1>6 DEF ClaimBatch, AtRest
    <2>3. \A k \in S : /\ k \in Jobs /\ outbox'[k].status = "processing"
                       /\ outbox'[k].lockedBy = w /\ outbox'[k].timer = 0
      BY <2>1 DEF TypeOK, Row
    <2>4. \A v \in Workers : \A k \in batch[v] :
            k \in Jobs /\ (k \in S => outbox[k].status = "absent")
      BY <2>1 DEF IsDue, DueStatuses, HolderOwnsLease, TypeOK
    <2>5. \A k \in S : outbox[k].status # "absent"
      BY DEF IsDue, DueStatuses
    <2>6. \A v \in Workers : v # w =>
            batch'[v] = batch[v] /\ \A k \in batch[v] : outbox'[k] = outbox[k]
      BY <2>1, <2>4, <2>5 DEF TypeOK
    <2>7. batch'[w] = S
      BY <2>1 DEF TypeOK
    <2>8. HolderOwnsLease' /\ HeldInTime'
      BY <2>3, <2>6, <2>7, ConstantsAssumption DEF HolderOwnsLease, HeldInTime
    <2>9. LoadedIsCurrent'
      BY <2>2, <2>6 DEF LoadedIsCurrent, HandCoherent
    <2> QED
      BY <2>8, <2>9
  <1>7. ASSUME NEW w \in Workers, ReclaimStale(w) PROVE LeaseInv'
    <2>1. \A v \in Workers : \A k \in batch[v] : k \in Jobs /\ ~ IsStale(outbox[k])
      BY ConstantsAssumption DEF IsStale, HeldInTime, TypeOK, Row
    <2> QED
      BY <1>0, <1>7, <2>1 DEF ReclaimStale
  <1>8. ASSUME NEW w \in Workers, OpenJob(w) PROVE LeaseInv'
    <2>1. PICK k \in batch[w] :
            hand' = [hand EXCEPT ![w] =
                 [step   |-> IF Usable(k) THEN "sending" ELSE "settling",
                  job    |-> k,
                  loaded |-> [outbox[k] EXCEPT !.timer = 0],
                  result |-> IF Usable(k) THEN "none" ELSE "unusable"]]
      BY <1>8 DEF OpenJob
    <2>2. outbox[k] \in Row
      BY DEF TypeOK
    <2>3. outbox' = outbox /\ batch' = batch
      BY <1>8 DEF OpenJob
    <2>4. hand'[w].job = k /\ hand'[w].loaded = [outbox[k] EXCEPT !.timer = 0]
      BY <2>1 DEF TypeOK
    <2>5. LoadedIsCurrent'
      BY <2>1, <2>2, <2>3, <2>4 DEF LoadedIsCurrent, TypeOK, Row
    <2> QED
      BY <2>3, <2>5 DEF HolderOwnsLease, HeldInTime
  <1>9. ASSUME NEW w \in Workers, SendToDeviceToken(w) \/ LoseReply(w)
        PROVE  LeaseInv'
    <2>1. /\ outbox' = outbox /\ batch' = batch /\ hand[w].step = "sending"
          /\ \A v \in Workers : /\ hand'[v].job = hand[v].job
                                /\ hand'[v].loaded = hand[v].loaded
                                /\ hand[v].step = "idle" => hand'[v].step = "idle"
      BY <1>9 DEF SendToDeviceToken, LoseReply, SendTo, TypeOK, Hand
    <2> QED
      BY <2>1 DEF HolderOwnsLease, HeldInTime, LoadedIsCurrent
  <1>10. ASSUME NEW w \in Workers, Settle(w) \/ FailToSettle(w) PROVE LeaseInv'
    <2> DEFINE k == hand[w].job
    <2>1. /\ k \in batch[w] /\ k \in Jobs /\ outbox[k].status # "absent"
          /\ outbox' = [outbox EXCEPT ![k] = outbox'[k]]
      BY <1>10, SettleWrites, FailToSettleWrites
    <2>2. /\ batch' = [batch EXCEPT ![w] = @ \ {k}] /\ hand' = [hand EXCEPT ![w] = Idle]
      BY <1>10 DEF Settle, FailToSettle, PutDown
    <2>3. \A v \in Workers : \A j \in batch'[v] :
            j \in batch[v] /\ outbox'[j] = outbox[j]
      <3>1. \A v \in Workers : v # w => k \notin batch[v]
        BY <2>1, OneHolder
      <3> QED
        BY <2>1, <2>2, <3>1 DEF TypeOK
    <2>4. \A v \in Workers : hand'[v].step = "idle" \/ (hand'[v] = hand[v] /\ v # w)
      BY <2>2 DEF TypeOK, Idle
    <2>5. \A v \in Workers : v # w => batch'[v] = batch[v]
      BY <2>2 DEF TypeOK
    <2>6. LoadedIsCurrent'
      BY <2>3, <2>4, <2>5 DEF LoadedIsCurrent, HandCoherent
    <2> QED
      BY <2>3, <2>6 DEF HolderOwnsLease, HeldInTime
  <1>11. ASSUME NEW w \in Workers, RaiseOnDeletedRow(w) \/ Crash(w) PROVE LeaseInv'
    BY <1>11 DEF RaiseOnDeletedRow, Crash, tableVars, TypeOK, Idle,
       HolderOwnsLease, HeldInTime, LoadedIsCurrent
  <1> QED
    BY <1>1, <1>2, <1>3, <1>4, <1>5, <1>6, <1>7, <1>8, <1>9, <1>10, <1>11, NextCases

(* When every live worker finishes within its lease, no two workers ever    *)
(* deliver the same job: whoever goes through a batch holds the lease of    *)
(* each row in it.                                                          *)
THEOREM LeaseExclusive == ASSUME Timely PROVE Spec => []HolderOwnsLease
  <1>1. BasicInv /\ LeaseInv /\ [Next]_vars => LeaseInv'
    BY LeaseStep, Timely
  <1>2. LeaseInv => HolderOwnsLease
    BY DEF LeaseInv
  <1> QED
    BY InitLease, BasicInvariant, <1>1, <1>2, PTL DEF Spec
-----------------------------------------------------------------------------
(* The table claims no success that did not happen, however late workers are. *)

SentInv ==
  /\ SentWasAccepted
  /\ \A w \in Workers : hand[w].result = "sent" => accepted[hand[w].job] > 0

LEMMA InitSent == Init => SentInv
  BY DEF Init, SentInv, SentWasAccepted, Absent, Idle

(* A flush leaves the status the row had or the one the worker decided on. *)
LEMMA FlushStatus ==
  ASSUME NEW row, NEW loaded, NEW new
  PROVE  Flush(row, loaded, new).status \in {row.status, new.status}
  BY DEF Flush

LEMMA OnlySentSends ==
  ASSUME NEW h \in Hand, NEW new \in Outcomes(h), new.status = "sent"
  PROVE  h.result = "sent"
  <1>1. h.loaded \in Row
    BY DEF Hand
  <1> QED
    BY <1>1, MarksSettle DEF Outcomes

LEMMA SentStep == ASSUME BasicInv, SentInv, [Next]_vars PROVE SentInv'
  <1> USE DEF BasicInv, SentInv
  <1>t. /\ outbox \in [Jobs -> Row] /\ hand \in [Workers -> Hand]
        /\ accepted \in [Jobs -> Nat]
    BY DEF TypeOK
  <1>s. \A w \in Workers : hand[w].result = "sent" => hand[w].job \in Jobs
    BY DEF HandCoherent, TypeOK, Idle
  <1>0. ASSUME accepted' = accepted,
               \A k \in Jobs : outbox'[k].status = "sent" => outbox[k].status = "sent",
               \A w \in Workers : hand'[w].result = "sent" =>
                 hand[w].result = "sent" /\ hand'[w].job = hand[w].job
        PROVE  SentInv'
    BY <1>0 DEF SentWasAccepted
  <1>1. CASE UNCHANGED vars
    BY <1>0, <1>1 DEF vars
  <1>2. ASSUME NEW e \in Events, Stage(e) PROVE SentInv'
    <2>1. PICK recipients : CommitWith(e, recipients)
      BY <1>2, Zenon DEF Stage, StageAttendance, StageScan, StageManualAttendance,
               StageAutoAbsence, StageHomework, StageStudyRequestViewed
    <2>2. NewRow.status # "sent"
      BY DEF NewRow, Absent
    <2> QED
      BY <1>0, <2>1, <2>2 DEF CommitWith, workerVars
  <1>3. ASSUME NEW u \in Users,
               \/ \E t \in Tokens : RegisterDevice(u, t) \/ UnregisterDevice(u, t)
               \/ DeleteAccount(u)
        PROVE  SentInv'
    BY <1>0, <1>3 DEF RegisterDevice, UnregisterDevice, DeleteAccount, DeviceChange,
       workerVars, Absent
  <1>4. CASE CleanupTerminal
    BY <1>0, <1>4 DEF CleanupTerminal, workerVars, Absent
  <1>5. CASE Tick
    BY <1>0, <1>t, <1>5 DEF Tick, Aged, workerVars, Row
  <1>6. ASSUME NEW w \in Workers, ClaimBatch(w) \/ ReclaimStale(w) PROVE SentInv'
    <2>1. CASE ClaimBatch(w)
      <3>1. accepted' = accepted /\ hand' = hand
        BY <2>1 DEF ClaimBatch
      <3>2. \A k \in Jobs : \/ outbox'[k] = outbox[k]
                            \/ outbox'[k].status = "processing"
        <4>1. PICK S \in SUBSET Jobs :
                outbox' = [k \in Jobs |->
                             IF k \in S THEN [outbox[k] EXCEPT !.status = "processing",
                                                !.lockedBy = w, !.timer = 0]
                                        ELSE outbox[k]]
          BY <2>1 DEF ClaimBatch
        <4> QED
          BY <1>t, <4>1 DEF Row
      <3> QED
        BY <1>0, <3>1, <3>2
    <2>2. CASE ReclaimStale(w)
      <3>1. accepted' = accepted /\ hand' = hand
        BY <2>2 DEF ReclaimStale, workerVars
      <3>2. \A k \in Jobs : \/ outbox'[k] = outbox[k]
                            \/ outbox'[k].status = "pending"
        BY <1>t, <2>2 DEF ReclaimStale, Row
      <3> QED
        BY <1>0, <3>1, <3>2
    <2> QED
      BY <1>6, <2>1, <2>2
  <1>7. ASSUME NEW w \in Workers, OpenJob(w) \/ RaiseOnDeletedRow(w) \/ Crash(w)
        PROVE  SentInv'
    <2>1. outbox' = outbox /\ accepted' = accepted
      BY <1>7 DEF OpenJob, RaiseOnDeletedRow, Crash, tableVars
    <2>2. \E mine : mine.result # "sent" /\ hand' = [hand EXCEPT ![w] = mine]
      BY <1>7, Zenon DEF OpenJob, RaiseOnDeletedRow, Crash, Idle
    <2>3. \A v \in Workers : hand'[v].result = "sent" => hand'[v] = hand[v]
      BY <1>t, <2>2
    <2> QED
      BY <1>0, <2>1, <2>3
  <1>8. ASSUME NEW w \in Workers, NEW reached \in BOOLEAN, NEW result,
               SendTo(w, reached, result), result = "sent" => reached
        PROVE  SentInv'
    <2>1. hand[w].job \in Jobs
      BY <1>8 DEF SendTo, HandCoherent, TypeOK
    <2>0. accepted' \in [Jobs -> Nat]
      BY <1>8, <1>t, <2>1 DEF SendTo
    <2>2. \A k \in Jobs : accepted'[k] >= accepted[k]
      BY <1>8, <1>t, <2>1 DEF SendTo
    <2>3. result = "sent" => accepted'[hand[w].job] > 0
      BY <1>8, <1>t, <2>1 DEF SendTo
    <2>4. /\ outbox' = outbox
          /\ \A v \in Workers : /\ hand'[v].job = hand[v].job
                                /\ hand'[v].result = IF v = w THEN result ELSE hand[v].result
      BY <1>8, <1>t DEF SendTo, Hand
    <2>5. SentWasAccepted'
      BY <1>t, <2>0, <2>2, <2>4 DEF SentWasAccepted
    <2>6. ASSUME NEW v \in Workers, hand'[v].result = "sent"
          PROVE  accepted'[hand'[v].job] > 0
      <3>1. CASE v = w
        BY <2>3, <2>4, <2>6, <3>1
      <3>2. CASE v # w
        <4>1. hand[v].result = "sent" /\ hand[v].job \in Jobs /\ hand'[v].job = hand[v].job
          BY <1>s, <2>4, <2>6, <3>2
        <4> QED
          BY <1>t, <2>0, <2>2, <4>1 DEF SentInv
      <3> QED
        BY <3>1, <3>2
    <2> QED
      BY <2>5, <2>6
  <1>9. ASSUME NEW w \in Workers, SendToDeviceToken(w) \/ LoseReply(w) PROVE SentInv'
    BY <1>8, <1>9 DEF SendToDeviceToken, LoseReply
  <1>10. ASSUME NEW w \in Workers, PutDown(w), accepted' = accepted,
                NEW new, NEW loaded,
                \/ UNCHANGED outbox
                \/ outbox' = [outbox EXCEPT ![hand[w].job] = Flush(@, loaded, new)],
                new.status = "sent" => hand[w].result = "sent"
         PROVE  SentInv'
    <2>1. \A k \in Jobs : outbox'[k].status = "sent" =>
            outbox[k].status = "sent" \/ (k = hand[w].job /\ hand[w].result = "sent")
      BY <1>t, <1>10, FlushStatus
    <2>2. SentWasAccepted'
      BY <1>10, <2>1 DEF SentWasAccepted
    <2>3. \A v \in Workers : hand'[v].result = "sent" => hand'[v] = hand[v]
      BY <1>t, <1>10 DEF PutDown, Idle
    <2> QED
      BY <1>10, <2>2, <2>3
  <1>11. ASSUME NEW w \in Workers, Settle(w) PROVE SentInv'
    <2>1. PICK new \in Outcomes(hand[w]) :
            outbox' = [outbox EXCEPT ![hand[w].job] = Flush(@, hand[w].loaded, new)]
      BY <1>11 DEF Settle
    <2>2. new.status = "sent" => hand[w].result = "sent"
      BY <1>t, OnlySentSends
    <2> QED
      BY <1>10, <1>11, <2>1, <2>2 DEF Settle
  <1>12. ASSUME NEW w \in Workers, FailToSettle(w) PROVE SentInv'
    <2> DEFINE row == outbox[hand[w].job]
    <2>1. row \in Row
      BY <1>12, <1>t DEF FailToSettle, HandCoherent, TypeOK
    <2>2. \A new \in MarkRetry(row) : new.status # "sent"
      BY <2>1, MarksSettle
    <2>3. CASE UNCHANGED outbox
      <3>1. row.status = "sent" => hand[w].result = "sent" \/ row.status = "sent"
        OBVIOUS
      <3> QED
        BY <1>0, <1>12, <1>t, <2>3 DEF FailToSettle, PutDown, Idle
    <2>4. CASE \E new \in MarkRetry(row) :
                 outbox' = [outbox EXCEPT ![hand[w].job] = Flush(@, @, new)]
      <3>1. PICK new \in MarkRetry(row) :
              outbox' = [outbox EXCEPT ![hand[w].job] = Flush(@, row, new)]
        BY <2>4
      <3> QED
        BY <1>10, <1>12, <2>2, <3>1 DEF FailToSettle
    <2> QED
      BY <1>12, <2>3, <2>4 DEF FailToSettle
  <1> QED
    BY <1>1, <1>2, <1>3, <1>4, <1>5, <1>6, <1>7, <1>9, <1>11, <1>12, NextCases

(* A row that says sent was accepted by Firebase; lost leases included. *)
THEOREM SentIsTrue == Spec => []SentWasAccepted
  <1>1. BasicInv /\ SentInv /\ [Next]_vars => SentInv'
    BY SentStep
  <1>2. SentInv => SentWasAccepted
    BY DEF SentInv
  <1> QED
    BY InitSent, BasicInvariant, <1>1, <1>2, PTL DEF Spec
-----------------------------------------------------------------------------
(* When every worker finishes within its lease.                             *)

(* What one step does to the rows.                                          *)

\* The row stays what it is to the reader of the table: its status but for the
\* live ones, its attempts, and a lease while it is processing.
Same(k) ==
  /\ outbox'[k].attempts = outbox[k].attempts
  /\ \/ outbox'[k].status = outbox[k].status
     \/ outbox'[k].status \in LiveStatuses /\ outbox[k].status \in LiveStatuses
  /\ outbox'[k].status = "processing" =>
       \/ outbox'[k].lockedBy \in Workers
       \/ outbox[k].status = "processing" /\ outbox'[k].lockedBy = outbox[k].lockedBy

Staged(k) ==
  /\ outbox[k].status = "absent" /\ outbox'[k] = NewRow
  /\ EventOf(k) \notin staged

NothingSent == accepted' = accepted /\ UNCHANGED <<hand, refused, faults>>

(* A step that neither calls Firebase nor settles a job changes no verdict.  *)
LEMMA RowCases ==
  ASSUME BasicInv, [Next]_vars
  PROVE  \/ /\ NothingSent /\ staged \subseteq staged'
            /\ \/ \A k \in Jobs : Same(k)
               \/ \A k \in Jobs : outbox'[k] = outbox[k] \/ Staged(k)
               \/ \A k \in Jobs : outbox'[k] = outbox[k] \/ outbox'[k] = Absent
         \/ /\ outbox' = outbox /\ staged' = staged
            /\ \E w \in Workers : \/ OpenJob(w) \/ SendToDeviceToken(w) \/ LoseReply(w)
                                  \/ RaiseOnDeletedRow(w) \/ Crash(w)
         \/ \E w \in Workers : Settle(w) \/ FailToSettle(w)
  <1>t. outbox \in [Jobs -> Row]
    BY DEF BasicInv, TypeOK
  <1>1. CASE UNCHANGED vars
    BY <1>1 DEF vars, NothingSent
  <1>2. ASSUME NEW e \in Events, Stage(e)
        PROVE  /\ NothingSent /\ staged \subseteq staged'
               /\ \A k \in Jobs : outbox'[k] = outbox[k] \/ Staged(k)
    <2>1. PICK recipients : CommitWith(e, recipients)
      BY <1>2, Zenon DEF Stage, StageAttendance, StageScan, StageManualAttendance,
               StageAutoAbsence, StageHomework, StageStudyRequestViewed
    <2>2. NothingSent /\ staged \subseteq staged'
      BY <2>1 DEF CommitWith, workerVars, NothingSent
    <2>3. \A k \in JobsOf(e, recipients) : EventOf(k) = e /\ k \in Jobs
      BY DEF JobsOf
    <2>4. \A k \in Jobs : outbox'[k] = outbox[k] \/ Staged(k)
      BY <2>1, <2>3 DEF CommitWith, Staged
    <2> QED
      BY <2>2, <2>4
  <1>3. ASSUME NEW u \in Users,
               \/ \E t \in Tokens : RegisterDevice(u, t) \/ UnregisterDevice(u, t)
               \/ DeleteAccount(u)
        PROVE  /\ NothingSent /\ staged \subseteq staged'
               /\ \A k \in Jobs : outbox'[k] = outbox[k] \/ outbox'[k] = Absent
    <2>1. NothingSent /\ staged \subseteq staged'
      BY <1>3 DEF RegisterDevice, UnregisterDevice, DeleteAccount, DeviceChange, NothingSent,
         workerVars
    <2> QED
      BY <1>3, <2>1 DEF RegisterDevice, UnregisterDevice, DeleteAccount
  <1>4. CASE CleanupTerminal
    BY <1>4 DEF CleanupTerminal, NothingSent, workerVars
  <1>5. ASSUME Tick
        PROVE  /\ NothingSent /\ staged \subseteq staged'
               /\ \A k \in Jobs : Same(k)
    <2>1. NothingSent /\ staged \subseteq staged'
      BY <1>5 DEF Tick, NothingSent, workerVars
    <2>2. \A row \in Row : /\ Aged(row).status = row.status
                           /\ Aged(row).attempts = row.attempts
                           /\ Aged(row).lockedBy = row.lockedBy
      BY DEF Aged, Row
    <2>3. \A k \in Jobs : outbox'[k] = Aged(outbox[k])
      BY <1>5 DEF Tick
    <2> QED
      BY <1>t, <2>1, <2>2, <2>3 DEF Same
  <1>6. ASSUME NEW w \in Workers, ClaimBatch(w)
        PROVE  /\ NothingSent /\ staged \subseteq staged'
               /\ \A k \in Jobs : Same(k)
    <2>1. PICK S \in SUBSET {k \in Jobs : IsDue(outbox[k])} :
            outbox' = [k \in Jobs |->
                         IF k \in S THEN [outbox[k] EXCEPT !.status = "processing",
                                            !.lockedBy = w, !.timer = 0]
                                    ELSE outbox[k]]
      BY <1>6 DEF ClaimBatch
    <2>2. ASSUME NEW k \in Jobs PROVE Same(k)
      <3>1. CASE k \in S
        BY <1>t, <2>1, <3>1 DEF Same, IsDue, LiveStatuses, Row
      <3>2. CASE k \notin S
        BY <2>1, <3>2 DEF Same
      <3> QED
        BY <3>1, <3>2
    <2> QED
      BY <1>6, <2>2 DEF ClaimBatch, NothingSent
  <1>7. ASSUME NEW w \in Workers, ReclaimStale(w)
        PROVE  /\ NothingSent /\ staged \subseteq staged'
               /\ \A k \in Jobs : Same(k)
    <2>1. ASSUME NEW k \in Jobs PROVE Same(k)
      <3>1. CASE IsStale(outbox[k])
        BY <1>7, <1>t, <3>1 DEF ReclaimStale, Same, IsStale, LiveStatuses, DueStatuses, Row
      <3>2. CASE ~ IsStale(outbox[k])
        BY <1>7, <3>2 DEF ReclaimStale, Same
      <3> QED
        BY <3>1, <3>2
    <2> QED
      BY <1>7, <2>1 DEF ReclaimStale, NothingSent, workerVars
  <1>8. ASSUME NEW w \in Workers,
               \/ OpenJob(w) \/ SendToDeviceToken(w) \/ LoseReply(w)
               \/ RaiseOnDeletedRow(w) \/ Crash(w)
        PROVE  outbox' = outbox /\ staged' = staged
    BY <1>8 DEF OpenJob, SendToDeviceToken, LoseReply, SendTo, RaiseOnDeletedRow, Crash,
       tableVars
  <1> QED
    BY <1>1, <1>2, <1>3, <1>4, <1>5, <1>6, <1>7, <1>8, NextCases

(* What is written when a job is settled in time.                           *)
LEMMA Verdicts ==
  ASSUME BasicInv, LeaseInv, NEW w \in Workers, Settle(w) \/ FailToSettle(w)
  PROVE  LET k == hand[w].job IN
         /\ k \in batch[w] /\ k \in Jobs /\ outbox[k].status = "processing"
         /\ \A j \in Jobs \ {k} : outbox'[j] = outbox[j]
         /\ \/ outbox'[k] = outbox[k] /\ FailToSettle(w)
            \/ outbox'[k].status = "retry"
            \/ outbox'[k].status = "sent" /\ hand[w].result = "sent"
            \/ /\ outbox'[k].status = "dead"
               /\ \/ outbox'[k].attempts >= MaxAttempts
                  \/ hand[w].result \notin {"sent", "transient"}
         /\ Settle(w) /\ hand[w].result = "sent" => outbox'[k].status = "sent"
         /\ hand'[w] = Idle /\ \A v \in Workers \ {w} : hand'[v] = hand[v]
         /\ accepted' = accepted /\ refused' = refused /\ staged' = staged
  <1> DEFINE k == hand[w].job
  <1>h. /\ hand[w] \in Hand /\ hand[w].loaded \in Row
        /\ hand \in [Workers -> Hand] /\ outbox \in [Jobs -> Row]
    BY DEF BasicInv, TypeOK, Hand
  <1>1. /\ k \in batch[w] /\ k \in Jobs /\ outbox[k].status = "processing"
        /\ outbox' = [outbox EXCEPT ![k] = outbox'[k]]
    BY SettleWrites, FailToSettleWrites
  <1>2. \A row \in Row : MarkDead(row).attempts = row.attempts + 1
    BY DEF MarkDead, Row
  <1>3. \A row \in Row : \A new \in MarkRetry(row) :
          new.status = "retry" \/ (new.status = "dead" /\ new.attempts >= MaxAttempts)
    BY <1>2, MarksSettle
  <1>4. CASE Settle(w)
    <2>1. outbox'[k] \in Outcomes(hand[w])
      BY <1>4, SettleWrites
    <2>2. \/ outbox'[k].status = "retry"
          \/ outbox'[k].status = "sent" /\ hand[w].result = "sent"
          \/ /\ outbox'[k].status = "dead"
             /\ \/ outbox'[k].attempts >= MaxAttempts
                \/ hand[w].result \notin {"sent", "transient"}
      <3>1. CASE hand[w].result = "sent"
        BY <1>h, <2>1, <3>1, MarksSettle DEF Outcomes
      <3>2. CASE hand[w].result = "transient"
        BY <1>h, <1>3, <2>1, <3>2 DEF Outcomes
      <3>3. CASE hand[w].result \notin {"sent", "transient"}
        BY <1>h, <2>1, <3>3, MarksSettle DEF Outcomes
      <3> QED
        BY <3>1, <3>2, <3>3
    <2>3. hand[w].result = "sent" => outbox'[k].status = "sent"
      BY <1>h, <2>1, MarksSettle DEF Outcomes
    <2>4. /\ hand'[w] = Idle /\ \A v \in Workers \ {w} : hand'[v] = hand[v]
          /\ accepted' = accepted /\ refused' = refused /\ staged' = staged
      BY <1>4, <1>h DEF Settle, PutDown
    <2> QED
      BY <1>h, <1>1, <2>2, <2>3, <2>4
  <1>5. CASE FailToSettle(w)
    <2>1. \/ outbox'[k] = outbox[k]
          \/ outbox'[k] \in MarkRetry(outbox[k])
      BY <1>5, FailToSettleWrites
    <2>2. /\ hand'[w] = Idle /\ \A v \in Workers \ {w} : hand'[v] = hand[v]
          /\ accepted' = accepted /\ refused' = refused /\ staged' = staged
      BY <1>5, <1>h DEF FailToSettle, PutDown
    <2>3. Settle(w) /\ hand[w].result = "sent" => outbox'[k].status = "sent"
      BY <1>h, SettleWrites, MarksSettle DEF Outcomes
    <2> QED
      BY <1>h, <1>1, <1>3, <1>5, <2>1, <2>2, <2>3
  <1> QED
    BY <1>4, <1>5
-----------------------------------------------------------------------------
(* Stranded rows and dead jobs.                                             *)

\* A worker that found a registration unusable has said so.
RefusalsAreKnown ==
  \A w \in Workers : hand[w].result \in {"unusable", "permanent"} => hand[w].job \in refused

VerdictInv == NoStrandedRow /\ DeadIsJustified /\ RefusalsAreKnown

LEMMA InitVerdict == Init => VerdictInv
  BY DEF Init, VerdictInv, NoStrandedRow, DeadIsJustified, RefusalsAreKnown, Absent, Idle

LEMMA VerdictStep ==
  ASSUME BasicInv, LeaseInv, VerdictInv, [Next]_vars
  PROVE  VerdictInv'
  <1>t. outbox \in [Jobs -> Row] /\ hand \in [Workers -> Hand]
    BY DEF BasicInv, TypeOK
  \* Nothing new in the hands; the rows are the same, fresh or gone.
  <1>1. ASSUME NothingSent,
               \A k \in Jobs : \/ Same(k) \/ outbox'[k] = outbox[k]
                               \/ Staged(k) \/ outbox'[k] = Absent
        PROVE  VerdictInv'
    <2>1. NewRow.status = "pending" /\ Absent.status = "absent"
      BY DEF NewRow, Absent
    <2>2. NoStrandedRow'
      BY <1>1, <2>1, ConstantsAssumption
         DEF VerdictInv, NoStrandedRow, Same, Staged
    <2>3. DeadIsJustified'
      BY <1>1, <2>1 DEF VerdictInv, DeadIsJustified, Same, Staged, NothingSent, LiveStatuses,
         DueStatuses
    <2>4. RefusalsAreKnown'
      BY <1>1 DEF VerdictInv, RefusalsAreKnown, NothingSent
    <2> QED
      BY <2>2, <2>3, <2>4 DEF VerdictInv
  <1>2. ASSUME outbox' = outbox, refused \subseteq refused', RefusalsAreKnown'
        PROVE  VerdictInv'
    BY <1>2 DEF VerdictInv, NoStrandedRow, DeadIsJustified
  <1>3. ASSUME NEW w \in Workers, outbox' = outbox, OpenJob(w) PROVE VerdictInv'
    <2>1. PICK k \in batch[w] :
            /\ hand' = [hand EXCEPT ![w] =
                   [step   |-> IF Usable(k) THEN "sending" ELSE "settling",
                    job    |-> k,
                    loaded |-> [outbox[k] EXCEPT !.timer = 0],
                    result |-> IF Usable(k) THEN "none" ELSE "unusable"]]
            /\ refused' = IF Usable(k) THEN refused ELSE refused \cup {k}
      BY <1>3 DEF OpenJob
    <2>2. /\ hand'[w].job = k
          /\ hand'[w].result = IF Usable(k) THEN "none" ELSE "unusable"
          /\ \A v \in Workers \ {w} : hand'[v] = hand[v]
      BY <1>t, <2>1
    <2>3. RefusalsAreKnown'
      BY <2>1, <2>2 DEF VerdictInv, RefusalsAreKnown
    <2> QED
      BY <1>2, <1>3, <2>1, <2>3
  <1>4. ASSUME NEW w \in Workers, outbox' = outbox, NEW reached \in BOOLEAN,
               NEW result \in {"sent", "permanent", "transient"}, SendTo(w, reached, result)
        PROVE  VerdictInv'
    <2>1. /\ hand'[w].job = hand[w].job /\ hand'[w].result = result
          /\ \A v \in Workers \ {w} : hand'[v] = hand[v]
      BY <1>4, <1>t DEF SendTo, Hand
    <2>2. refused' = IF result = "permanent" THEN refused \cup {hand[w].job} ELSE refused
      BY <1>4 DEF SendTo
    <2>3. RefusalsAreKnown'
      BY <2>1, <2>2 DEF VerdictInv, RefusalsAreKnown
    <2> QED
      BY <1>2, <1>4, <2>2, <2>3
  <1>5. ASSUME NEW w \in Workers, outbox' = outbox, RaiseOnDeletedRow(w) \/ Crash(w)
        PROVE  VerdictInv'
    <2>1. hand' = [hand EXCEPT ![w] = Idle] /\ refused' = refused
      BY <1>5 DEF RaiseOnDeletedRow, Crash, tableVars
    <2>2. RefusalsAreKnown'
      BY <1>t, <2>1 DEF VerdictInv, RefusalsAreKnown, Idle
    <2> QED
      BY <1>2, <1>5, <2>1, <2>2
  <1>6. ASSUME NEW w \in Workers, Settle(w) \/ FailToSettle(w) PROVE VerdictInv'
    <2> DEFINE k == hand[w].job
    <2>1. /\ k \in Jobs /\ refused' = refused
          /\ \A j \in Jobs \ {k} : outbox'[j] = outbox[j]
          /\ hand'[w] = Idle /\ \A v \in Workers \ {w} : hand'[v] = hand[v]
      BY <1>6, Verdicts
    <2>2. \/ outbox'[k] = outbox[k]
          \/ outbox'[k].status \in {"retry", "sent"}
          \/ /\ outbox'[k].status = "dead"
             /\ \/ outbox'[k].attempts >= MaxAttempts
                \/ hand[w].result \notin {"sent", "transient"}
      BY <1>6, Verdicts
    <2>3. hand[w].result \notin {"sent", "transient"} => k \in refused
      <3>1. hand[w].step = "settling" /\ hand[w].result \in Results
        BY <1>6, <1>t DEF Settle, FailToSettle, Hand
      <3>2. hand[w].result # "none"
        BY <3>1 DEF BasicInv, HandCoherent
      <3> QED
        BY <3>1, <3>2 DEF Results, VerdictInv, RefusalsAreKnown
    <2>4. NoStrandedRow' /\ DeadIsJustified'
      BY <2>1, <2>2, <2>3 DEF VerdictInv, NoStrandedRow, DeadIsJustified
    <2>5. RefusalsAreKnown'
      BY <2>1 DEF VerdictInv, RefusalsAreKnown, Idle
    <2> QED
      BY <2>4, <2>5 DEF VerdictInv
  <1>7. ASSUME NEW w \in Workers, outbox' = outbox, SendToDeviceToken(w) \/ LoseReply(w)
        PROVE  VerdictInv'
    BY <1>4, <1>7 DEF SendToDeviceToken, LoseReply
  <1> QED
    BY <1>1, <1>3, <1>5, <1>6, <1>7, RowCases

THEOREM VerdictInvariant == ASSUME Timely PROVE Spec => [](BasicInv /\ LeaseInv /\ VerdictInv)
  <1>1. BasicInv /\ LeaseInv /\ [Next]_vars => LeaseInv'
    BY LeaseStep, Timely
  <1>2. BasicInv /\ LeaseInv /\ VerdictInv /\ [Next]_vars => VerdictInv'
    BY VerdictStep
  <1> QED
    BY InitLease, InitVerdict, BasicInvariant, <1>1, <1>2, PTL DEF Spec

(* When workers finish within their lease, no row is left in processing     *)
(* where nobody would look for it.                                          *)
THEOREM NobodyIsStranded == ASSUME Timely PROVE Spec => []NoStrandedRow
  <1>1. VerdictInv => NoStrandedRow
    BY DEF VerdictInv
  <1> QED
    BY <1>1, VerdictInvariant, Timely, PTL

(* ... and no job is given up before its attempts or its registration are.  *)
THEOREM DeadForAReason == ASSUME Timely PROVE Spec => []DeadIsJustified
  <1>1. VerdictInv => DeadIsJustified
    BY DEF VerdictInv
  <1> QED
    BY <1>1, VerdictInvariant, Timely, PTL

(* ... nor does a job that is over come back.                               *)
THEOREM OverIsOver == ASSUME Timely PROVE Spec => TerminalIsFinal
  <1>1. ASSUME BasicInv, LeaseInv, [Next]_vars,
               NEW k \in Jobs, outbox[k].status \in TerminalStatuses
        PROVE  outbox'[k].status \in {outbox[k].status, "absent"}
    <2>1. outbox[k].status \notin LiveStatuses \cup {"absent"}
      BY <1>1 DEF TerminalStatuses, LiveStatuses, DueStatuses
    <2>2. ASSUME NEW w \in Workers, Settle(w) \/ FailToSettle(w)
          PROVE  outbox'[k] = outbox[k]
      <3>1. outbox[hand[w].job].status = "processing"
            /\ \A j \in Jobs \ {hand[w].job} : outbox'[j] = outbox[j]
        BY <1>1, <2>2, Verdicts
      <3> QED
        BY <2>1, <3>1 DEF LiveStatuses
    <2> QED
      BY <1>1, <2>1, <2>2, RowCases DEF Same, Staged, Absent
  <1>2. BasicInv /\ LeaseInv /\ [Next]_vars =>
          \A k \in Jobs : outbox[k].status \in TerminalStatuses =>
            outbox'[k].status \in {outbox[k].status, "absent"}
    BY <1>1
  <1> QED
    BY <1>2, VerdictInvariant, Timely, PTL DEF Spec, TerminalIsFinal
-----------------------------------------------------------------------------
(* Duplicates.                                                              *)

AcceptedWasStaged == \A k \in Jobs : accepted[k] > 0 => EventOf(k) \in staged

CopyInv == DuplicatesAreFaults /\ AcceptedWasStaged

LEMMA InitCopy == Init => CopyInv
  BY DEF Init, CopyInv, DuplicatesAreFaults, AcceptedWasStaged, Absent

(* Of a row that is processing only the worker that holds it knows anything. *)
LEMMA OnlyTheHolderKnows ==
  ASSUME BasicInv, LeaseInv, NEW w \in Workers, hand[w].step # "idle",
         outbox[hand[w].job].status = "processing", hand[w].result # "sent"
  PROVE  ~ KnownAccepted(hand[w].job)
  <1>1. ASSUME NEW v \in Workers, hand[v].job = hand[w].job, hand[v].result = "sent"
        PROVE  FALSE
    <2>1. hand[v].step # "idle"
      BY <1>1 DEF BasicInv, HandCoherent, Idle
    <2>2. hand[w].job \in batch[v] /\ hand[w].job \in batch[w]
      BY <1>1, <2>1 DEF BasicInv, HandCoherent
    <2>3. v = w
      BY <2>2, OneHolder
    <2> QED
      BY <1>1, <2>3
  <1> QED
    BY <1>1 DEF KnownAccepted

LEMMA CopyStep ==
  ASSUME BasicInv, LeaseInv, CopyInv, [Next]_vars
  PROVE  CopyInv'
  <1>t. /\ outbox \in [Jobs -> Row] /\ hand \in [Workers -> Hand]
        /\ accepted \in [Jobs -> Nat] /\ faults \in Nat
    BY ConstantsAssumption DEF BasicInv, TypeOK
  \* Knowledge is kept, and so is what was accepted.
  <1>1. ASSUME accepted' = accepted, faults' = faults, staged \subseteq staged',
               \A k \in Jobs : outbox'[k].status # "absent" /\ outbox[k].status # "absent" =>
                 (KnownAccepted(k) => KnownAccepted(k)') \/ accepted[k] <= faults,
               \A k \in Jobs : outbox'[k].status # "absent" /\ outbox[k].status = "absent" =>
                 EventOf(k) \notin staged
        PROVE  CopyInv'
    <2>1. AcceptedWasStaged'
      BY <1>1 DEF CopyInv, AcceptedWasStaged
    <2>2. ASSUME NEW k \in Jobs, outbox'[k].status # "absent"
          PROVE  accepted[k] <= faults + (IF KnownAccepted(k)' THEN 1 ELSE 0)
      <3>1. CASE outbox[k].status # "absent"
        <4>1. accepted[k] <= faults + (IF KnownAccepted(k) THEN 1 ELSE 0)
          BY <3>1 DEF CopyInv, DuplicatesAreFaults
        <4>2. (KnownAccepted(k) => KnownAccepted(k)') \/ accepted[k] <= faults
          BY <1>1, <2>2, <3>1
        <4> HIDE DEF KnownAccepted
        <4>3. CASE KnownAccepted(k)'
          BY <1>t, <4>1, <4>3
        <4>4. CASE ~ KnownAccepted(k)'
          BY <1>t, <4>1, <4>2, <4>4
        <4> QED
          BY <4>3, <4>4
      <3>2. CASE outbox[k].status = "absent"
        <4>1. ~ (accepted[k] > 0)
          BY <1>1, <2>2, <3>2 DEF CopyInv, AcceptedWasStaged
        <4>2. accepted[k] = 0
          BY <1>t, <4>1
        <4> QED
          BY <1>t, <4>2
      <3> QED
        BY <3>1, <3>2
    <2>3. DuplicatesAreFaults'
      BY <1>1, <2>2 DEF DuplicatesAreFaults
    <2> QED
      BY <2>1, <2>3 DEF CopyInv
  \* A fault pays for a copy nobody knows of any longer.
  <1>2. ASSUME accepted' = accepted, faults' = faults + 1, staged' = staged,
               \A k \in Jobs : outbox'[k].status # "absent" => outbox[k].status # "absent"
        PROVE  CopyInv'
    <2>1. ASSUME NEW k \in Jobs, outbox'[k].status # "absent"
          PROVE  accepted[k] <= faults + 1
      <3>1. accepted[k] <= faults + (IF KnownAccepted(k) THEN 1 ELSE 0)
        BY <1>2, <2>1 DEF CopyInv, DuplicatesAreFaults
      <3> QED
        BY <1>t, <3>1
    <2>2. ASSUME NEW k \in Jobs, outbox'[k].status # "absent"
          PROVE  accepted'[k] <= faults' + (IF KnownAccepted(k)' THEN 1 ELSE 0)
      <3>1. accepted[k] <= faults + 1 /\ accepted[k] \in Nat
        BY <1>t, <2>1, <2>2
      <3> QED
        BY <1>2, <1>t, <3>1
    <2>3. DuplicatesAreFaults'
      BY <2>2 DEF DuplicatesAreFaults
    <2> QED
      BY <1>2, <2>3 DEF CopyInv, AcceptedWasStaged
  <1>3. ASSUME NothingSent, staged \subseteq staged',
               \A k \in Jobs : \/ Same(k) \/ outbox'[k] = outbox[k]
                               \/ Staged(k) \/ outbox'[k] = Absent
        PROVE  CopyInv'
    <2>1. ASSUME NEW k \in Jobs, outbox'[k].status # "absent", outbox[k].status # "absent",
                 KnownAccepted(k)
          PROVE  KnownAccepted(k)'
      <3>1. outbox[k].status = "sent" => outbox'[k].status = "sent"
        BY <1>3, <2>1 DEF Same, Staged, Absent, LiveStatuses, DueStatuses
      <3> QED
        BY <1>3, <2>1, <3>1 DEF KnownAccepted, NothingSent
    <2>2. ASSUME NEW k \in Jobs, outbox'[k].status # "absent", outbox[k].status = "absent"
          PROVE  EventOf(k) \notin staged
      BY <1>3, <2>2 DEF Same, Staged, Absent, LiveStatuses, DueStatuses
    <2> QED
      BY <1>1, <1>3, <2>1, <2>2 DEF NothingSent
  <1>4. ASSUME NEW w \in Workers, outbox' = outbox, staged' = staged, OpenJob(w)
        PROVE  CopyInv'
    <2>1. accepted' = accepted /\ faults' = faults
      BY <1>4 DEF OpenJob
    <2>2. hand[w].result # "sent"
      BY <1>4 DEF OpenJob, BasicInv, HandCoherent, Idle
    <2>3. \A v \in Workers \ {w} : hand'[v] = hand[v]
      BY <1>4, <1>t DEF OpenJob
    <2>4. \A k \in Jobs : KnownAccepted(k) => KnownAccepted(k)'
      BY <1>4, <2>2, <2>3 DEF KnownAccepted
    <2> QED
      BY <1>1, <1>4, <2>1, <2>4
  <1>5. ASSUME NEW w \in Workers, outbox' = outbox, staged' = staged,
               SendToDeviceToken(w) \/ LoseReply(w)
        PROVE  CopyInv'
    <2>0. PICK k \in Jobs : k = hand[w].job
      BY <1>5 DEF SendToDeviceToken, LoseReply, SendTo, BasicInv, HandCoherent, TypeOK
    <2>1. k \in batch[w] /\ hand[w].step = "sending" /\ hand[w].result = "none"
      BY <1>5, <2>0 DEF SendToDeviceToken, LoseReply, SendTo, BasicInv, HandCoherent, TypeOK
    <2>2. EventOf(k) \in staged
      BY <2>1 DEF BasicInv, StagedFirst
    <2>3. \A v \in Workers \ {w} : hand'[v] = hand[v]
      BY <1>5, <1>t DEF SendToDeviceToken, LoseReply, SendTo
    <2>4. \A j \in Jobs : KnownAccepted(j) => KnownAccepted(j)'
      BY <1>5, <2>0, <2>1, <2>3 DEF KnownAccepted
    <2>5. CASE accepted' = accepted /\ faults' = faults
      <3>1. \A j \in Jobs : outbox'[j].status # "absent" => outbox[j].status # "absent"
        BY <1>5
      <3> QED
        BY <1>1, <1>5, <2>4, <2>5, <3>1
    <2>6. CASE /\ accepted' = [accepted EXCEPT ![k] = @ + 1]
               /\ \/ faults' = faults + 1
                  \/ faults' = faults /\ hand'[w].job = k /\ hand'[w].result = "sent"
      <3>1. /\ accepted' \in [Jobs -> Nat] /\ accepted'[k] = accepted[k] + 1
            /\ \A j \in Jobs \ {k} : accepted'[j] = accepted[j]
            /\ faults' \in Nat /\ faults <= faults'
        BY <1>t, <2>1, <2>6
      <3>2. AcceptedWasStaged'
        BY <1>5, <2>2, <3>1 DEF CopyInv, AcceptedWasStaged
      <3>3. ASSUME NEW j \in Jobs, j # k, outbox'[j].status # "absent"
            PROVE  accepted'[j] <= faults' + (IF KnownAccepted(j)' THEN 1 ELSE 0)
        <4>1. accepted[j] <= faults + (IF KnownAccepted(j) THEN 1 ELSE 0)
          BY <1>5, <3>3 DEF CopyInv, DuplicatesAreFaults
        <4>2. KnownAccepted(j) => KnownAccepted(j)'
          BY <2>4
        <4> HIDE DEF KnownAccepted
        <4>3. CASE KnownAccepted(j)
          BY <1>t, <3>1, <3>3, <4>1, <4>2, <4>3
        <4>4. CASE ~ KnownAccepted(j)
          BY <1>t, <3>1, <3>3, <4>1, <4>4
        <4> QED
          BY <4>3, <4>4
      <3>4. ASSUME outbox'[k].status # "absent"
            PROVE  accepted'[k] <= faults' + (IF KnownAccepted(k)' THEN 1 ELSE 0)
        <4>1. outbox[k].status = "processing"
          BY <1>5, <2>1, <3>4 DEF LeaseInv, HolderOwnsLease
        <4>2. ~ KnownAccepted(k)
          BY <2>0, <2>1, <4>1, OnlyTheHolderKnows
        <4>3. accepted[k] <= faults
          <5>1. accepted[k] <= faults + (IF KnownAccepted(k) THEN 1 ELSE 0)
            BY <2>1, <4>1 DEF CopyInv, DuplicatesAreFaults
          <5> QED
            BY <1>t, <4>2, <5>1
        <4>4. CASE faults' = faults + 1
          BY <1>t, <2>1, <3>1, <4>3, <4>4
        <4>5. CASE faults' = faults /\ hand'[w].job = k /\ hand'[w].result = "sent"
          <5>1. KnownAccepted(k)'
            BY <4>5 DEF KnownAccepted
          <5> QED
            BY <1>t, <2>1, <3>1, <4>3, <4>5, <5>1
        <4> QED
          BY <2>6, <4>4, <4>5
      <3> QED
        BY <3>2, <3>3, <3>4 DEF CopyInv, DuplicatesAreFaults
    <2>7. ASSUME NEW reached \in BOOLEAN, NEW result, SendTo(w, reached, result)
          PROVE  /\ hand'[w].job = k /\ hand'[w].result = result
                 /\ reached => accepted' = [accepted EXCEPT ![k] = @ + 1]
                 /\ ~ reached => accepted' = accepted
      BY <2>0, <2>7, <1>t DEF SendTo, Hand
    <2>8. CASE SendToDeviceToken(w)
      BY <2>5, <2>6, <2>7, <2>8 DEF SendToDeviceToken
    <2>9. CASE LoseReply(w)
      BY <2>6, <2>7, <2>9 DEF LoseReply
    <2> QED
      BY <1>5, <2>8, <2>9
  <1>6. ASSUME NEW w \in Workers, outbox' = outbox, staged' = staged, RaiseOnDeletedRow(w)
        PROVE  CopyInv'
    <2>1. accepted' = accepted /\ faults' = faults /\ hand' = [hand EXCEPT ![w] = Idle]
      BY <1>6 DEF RaiseOnDeletedRow, tableVars
    <2>2. hand[w].result # "sent" \/ outbox[hand[w].job].status = "absent"
      BY <1>6 DEF RaiseOnDeletedRow, BasicInv, HandCoherent, Idle
    <2>3. \A k \in Jobs : outbox[k].status # "absent" => (KnownAccepted(k) => KnownAccepted(k)')
      BY <1>6, <1>t, <2>1, <2>2 DEF KnownAccepted
    <2> QED
      BY <1>1, <1>6, <2>1, <2>3
  <1>7. ASSUME NEW w \in Workers, outbox' = outbox, staged' = staged, Crash(w)
        PROVE  CopyInv'
    BY <1>2, <1>7 DEF Crash, tableVars
  <1>8. ASSUME NEW w \in Workers, Settle(w) PROVE CopyInv'
    <2> DEFINE k == hand[w].job
    <2>1. /\ k \in Jobs /\ outbox[k].status = "processing" /\ accepted' = accepted
          /\ staged' = staged /\ \A j \in Jobs \ {k} : outbox'[j] = outbox[j]
          /\ hand'[w] = Idle /\ \A v \in Workers \ {w} : hand'[v] = hand[v]
          /\ hand[w].result = "sent" => outbox'[k].status = "sent"
      BY <1>8, Verdicts
    <2>2. faults' = faults
      BY <1>8 DEF Settle
    <2>3. ASSUME NEW j \in Jobs, KnownAccepted(j)
          PROVE  KnownAccepted(j)'
      <3>1. CASE j # k
        BY <2>1, <2>3, <3>1 DEF KnownAccepted
      <3>2. CASE j = k /\ hand[w].result = "sent"
        BY <2>1, <3>2 DEF KnownAccepted
      <3>3. CASE j = k /\ hand[w].result # "sent"
        <4>1. hand[w].step # "idle"
          BY <1>8 DEF Settle
        <4> QED
          BY <2>1, <2>3, <3>3, <4>1, OnlyTheHolderKnows
      <3> QED
        BY <3>1, <3>2, <3>3
    <2>5. \A j \in Jobs : outbox'[j].status # "absent" => outbox[j].status # "absent"
      BY <2>1
    <2> QED
      BY <1>1, <2>1, <2>2, <2>3, <2>5
  <1>9. ASSUME NEW w \in Workers, FailToSettle(w) PROVE CopyInv'
    <2>1. /\ outbox[hand[w].job].status = "processing" /\ accepted' = accepted
          /\ staged' = staged /\ \A j \in Jobs \ {hand[w].job} : outbox'[j] = outbox[j]
      BY <1>9, Verdicts
    <2> QED
      BY <1>2, <1>9, <2>1 DEF FailToSettle
  <1> QED
    BY <1>3, <1>4, <1>5, <1>6, <1>7, <1>8, <1>9, RowCases

(* When workers finish within their lease, every copy of a notification     *)
(* beyond the first is paid for by a fault.                                 *)
THEOREM CopiesArePaidFor == ASSUME Timely PROVE Spec => []DuplicatesAreFaults
  <1>1. BasicInv /\ LeaseInv /\ CopyInv /\ [Next]_vars => CopyInv'
    BY CopyStep
  <1>2. CopyInv => DuplicatesAreFaults
    BY DEF CopyInv
  <1> QED
    BY InitCopy, VerdictInvariant, Timely, <1>1, <1>2, PTL DEF Spec
-----------------------------------------------------------------------------
(* The outbox implements DeliveryPromise.                                   *)

FateOf(status) ==
  CASE status = "absent"       -> "unknown"
    [] status \in LiveStatuses -> "queued"
    [] status = "sent"         -> "delivered"
    [] status = "dead"         -> "failed"

\* The state functions of the refinement mapping.
fateMap == [k \in Jobs |-> FateOf(outbox[k].status)]
acceptedSet == {k \in Jobs : accepted[k] > 0}

LEMMA Fates ==
  /\ FateOf("absent") = "unknown" /\ FateOf("sent") = "delivered" /\ FateOf("dead") = "failed"
  /\ \A s \in LiveStatuses : FateOf(s) = "queued"
  /\ \A s \in Statuses : FateOf(s) \in {"unknown", "queued", "delivered", "failed"}
  BY DEF FateOf, Statuses, LiveStatuses, DueStatuses, TerminalStatuses

LEMMA PromiseStep ==
  ASSUME BasicInv, LeaseInv, SentInv, [Next]_vars
  PROVE  Promise!Next \/ UNCHANGED Promise!vars
  <1>t. /\ outbox \in [Jobs -> Row] /\ outbox' \in [Jobs -> Row]
        /\ hand \in [Workers -> Hand] /\ accepted \in [Jobs -> Nat]
    BY TypeStep DEF BasicInv, TypeOK
  <1>f. /\ \A k \in Jobs : fateMap[k] = FateOf(outbox[k].status)
        /\ \A k \in Jobs : fateMap'[k] = FateOf(outbox'[k].status)
        /\ fateMap' \in [Jobs -> {"unknown", "queued", "delivered", "failed"}]
        /\ \A k \in Jobs : outbox[k].status \in Statuses /\ outbox'[k].status \in Statuses
    BY <1>t, Fates DEF fateMap, Row
  <1>m. [k \in Jobs |-> Fate(k)] = fateMap /\ [k \in Jobs |-> Fate(k)]' = fateMap'
    BY DEF Fate, FateOf, fateMap
  <1>0. ASSUME accepted' = accepted, \A k \in Jobs : fateMap'[k] = fateMap[k]
        PROVE  UNCHANGED Promise!vars
    <2>1. fateMap' = fateMap
      BY <1>0 DEF fateMap
    <2> QED
      BY <1>0, <1>m, <2>1 DEF Promise!vars
  <1>1. ASSUME NothingSent, \A k \in Jobs : Same(k)
        PROVE  UNCHANGED Promise!vars
    <2>1. \A k \in Jobs : fateMap'[k] = fateMap[k]
      BY <1>1, <1>f, Fates DEF Same
    <2> QED
      BY <1>0, <1>1, <2>1 DEF NothingSent
  <1>2. ASSUME NothingSent, \A k \in Jobs : outbox'[k] = outbox[k] \/ Staged(k)
        PROVE  Promise!Next
    <2>1. \A k \in Jobs : \/ fateMap'[k] = fateMap[k]
                          \/ fateMap[k] = "unknown" /\ fateMap'[k] = "queued"
      <3>1. NewRow.status \in LiveStatuses
        BY DEF NewRow, Absent, LiveStatuses, DueStatuses
      <3> QED
        BY <1>2, <1>f, <3>1, Fates DEF Staged
    <2>2. Promise!Enqueue
      BY <1>2, <1>f, <1>m, <2>1 DEF Promise!Enqueue, Promise!Fates, NothingSent
    <2> QED
      BY <2>2 DEF Promise!Next
  <1>3. ASSUME NothingSent, \A k \in Jobs : outbox'[k] = outbox[k] \/ outbox'[k] = Absent
        PROVE  Promise!Next
    <2>1. \A k \in Jobs : fateMap'[k] \in {fateMap[k], "unknown"}
      <3>1. Absent.status = "absent"
        BY DEF Absent
      <3> QED
        BY <1>3, <1>f, <3>1, Fates
    <2>2. Promise!Forget
      BY <1>3, <1>f, <1>m, <2>1 DEF Promise!Forget, Promise!Fates, NothingSent
    <2> QED
      BY <2>2 DEF Promise!Next
  <1>4. ASSUME outbox' = outbox, NEW w \in Workers,
               OpenJob(w) \/ RaiseOnDeletedRow(w) \/ Crash(w)
        PROVE  UNCHANGED Promise!vars
    <2>1. accepted' = accepted
      BY <1>4 DEF OpenJob, RaiseOnDeletedRow, Crash, tableVars
    <2> QED
      BY <1>0, <1>4, <1>f, <2>1
  <1>5. ASSUME outbox' = outbox, NEW w \in Workers, SendToDeviceToken(w) \/ LoseReply(w)
        PROVE  Promise!Next \/ UNCHANGED Promise!vars
    <2>0. PICK k \in Jobs : k = hand[w].job
      BY <1>5 DEF SendToDeviceToken, LoseReply, SendTo, BasicInv, HandCoherent, TypeOK
    <2>1. fateMap' = fateMap
      BY <1>5 DEF fateMap
    <2>2. CASE accepted' = accepted
      BY <1>0, <2>1, <2>2
    <2>3. CASE accepted' = [accepted EXCEPT ![k] = @ + 1]
      <3>1. acceptedSet' = acceptedSet \cup {k}
        BY <1>t, <2>0, <2>3 DEF acceptedSet
      <3>2. Promise!Accept
        BY <1>m, <2>0, <2>1, <3>1 DEF Promise!Accept, acceptedSet
      <3> QED
        BY <3>2 DEF Promise!Next
    <2> QED
      BY <1>5, <2>0, <2>2, <2>3 DEF SendToDeviceToken, LoseReply, SendTo
  <1>6. ASSUME NEW w \in Workers, Settle(w) \/ FailToSettle(w)
        PROVE  Promise!Next \/ UNCHANGED Promise!vars
    <2>0. PICK k \in Jobs : k = hand[w].job
      BY <1>6, Verdicts
    <2>1. /\ outbox[k].status = "processing" /\ accepted' = accepted
          /\ \A j \in Jobs \ {k} : outbox'[j] = outbox[j]
          /\ \/ outbox'[k].status \in {"processing", "retry"}
             \/ outbox'[k].status = "sent" /\ accepted[k] > 0
             \/ outbox'[k].status = "dead"
      BY <1>6, <2>0, Verdicts DEF SentInv
    <2>2. /\ fateMap[k] = "queued"
          /\ \A j \in Jobs \ {k} : fateMap'[j] = fateMap[j]
      BY <1>f, <2>1, Fates DEF LiveStatuses
    <2>3. CASE outbox'[k].status \in {"processing", "retry"}
      <3>1. fateMap'[k] = "queued"
        BY <1>f, <2>3, Fates DEF LiveStatuses, DueStatuses
      <3> QED
        BY <1>0, <2>1, <2>2, <3>1
    <2>4. ASSUME NEW verdict, fateMap'[k] = verdict
          PROVE  fateMap' = [fateMap EXCEPT ![k] = verdict]
      BY <2>2, <2>4 DEF fateMap
    <2>5. CASE outbox'[k].status = "sent" /\ accepted[k] > 0
      <3>1. fateMap' = [fateMap EXCEPT ![k] = "delivered"]
        BY <1>f, <2>4, <2>5, Fates
      <3>2. Promise!Decide("delivered")
        BY <1>m, <2>1, <2>2, <2>5, <3>1 DEF Promise!Decide
      <3> QED
        BY <3>2 DEF Promise!Next
    <2>6. CASE outbox'[k].status = "dead"
      <3>1. fateMap' = [fateMap EXCEPT ![k] = "failed"]
        BY <1>f, <2>4, <2>6, Fates
      <3>2. Promise!Decide("failed")
        BY <1>m, <2>1, <2>2, <3>1 DEF Promise!Decide
      <3> QED
        BY <3>2 DEF Promise!Next
    <2> QED
      BY <2>1, <2>3, <2>5, <2>6
  <1> QED
    BY <1>1, <1>2, <1>3, <1>4, <1>5, <1>6, RowCases

(* When workers finish within their lease, the table, its workers, their    *)
(* leases, retries and crashes implement the promise: a queued job is       *)
(* delivered, having been accepted, or fails, once.                         *)
THEOREM PromiseKept == ASSUME Timely PROVE Spec => KeepsPromise
  <1>1. Init => Promise!Init
    <2> SUFFICES ASSUME Init PROVE Promise!Init
      OBVIOUS
    <2>1. ASSUME NEW k \in Jobs PROVE Fate(k) = "unknown"
      <3>1. outbox[k].status = "absent"
        BY DEF Init, Absent
      <3>2. Fate(k) = FateOf(outbox[k].status)
        BY DEF Fate, FateOf
      <3> QED
        BY <3>1, <3>2, Fates
    <2>2. {k \in Jobs : accepted[k] > 0} = {}
      BY DEF Init
    <2> QED
      BY <2>1, <2>2 DEF Promise!Init
  <1>2. BasicInv /\ LeaseInv /\ SentInv /\ [Next]_vars => [Promise!Next]_(Promise!vars)
    BY PromiseStep
  <1>3. BasicInv /\ SentInv /\ [Next]_vars => SentInv'
    BY SentStep
  <1> QED
    BY InitSent, VerdictInvariant, Timely, <1>1, <1>2, <1>3, PTL
       DEF Spec, KeepsPromise, Promise!Spec
=============================================================================
