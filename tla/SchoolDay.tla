---------------------------------- MODULE SchoolDay ----------------------------------
(***************************************************************************)
(* The attendance of one day: scans of pupils and employees, the teacher's *)
(* sheet, automatic absence, the clean-up of a holiday, and the leaves     *)
(* that write and revoke days of their own (services/attendance_service,   *)
(* leave_attendance, auto_attendance, ai_face_ws; blueprints/attendance,   *)
(* hardware, employees, admin).                                            *)
(*                                                                         *)
(* Every handler reads the rows of its people without a lock, plans their  *)
(* new values and commits: the database writes the changed columns of the  *)
(* rows with those ids, whatever happened to them in between. One row per  *)
(* person and day is what the unique constraint allows.                    *)
(***************************************************************************)
EXTENDS Integers, FiniteSets, Functions

CONSTANTS Pupils, Employees,
          Leaves,
          NumRequests,       \* bound: HTTP requests and punches
          ShiftPupils,       \* pupils whose section or grade has a shift
          Owners,            \* whose leaves they may be: functions from Leaves
          MaxFaults          \* bound: failed transactions

People == Pupils \cup Employees
Requests == 1 .. NumRequests       \* in the order of their arrival
Scheduler == 0                     \* the automatic-absence thread
Actors == Requests \cup {Scheduler}

\* The times of the day that matter.
Cutoff == 1
Departure == 2
NextDay == 3
Clock == 0 .. NextDay

VARIABLES
  rows,       \* the attendance row of each person
  leave,      \* status of each LeaveRequest and whether it covers this day
  owner,      \* whose leave it is
  clock,
  holiday,    \* the day has been declared a holiday
  shifts,     \* School.enable_attendance_shifts
  req,        \* the transactions of requests and of the scheduler
  muddled,    \* leave syncs of the person met each other, one failed or went by
              \* dates that had changed since, or a status was written under a
              \* source that its writer had not read
  faults

vars == <<rows, leave, owner, clock, holiday, shifts, req, muddled, faults>>

Ids == 1 .. NumRequests + 3     \* enough to tell the rows in use apart
Sources == {"device", "manual", "automatic", "leave"}

\* status "attended" is present or late; in and out: check_in and check_out are
\* set; was: the source noted in the leave marker. No row has id 0.
Row == [id : {0} \cup Ids, status : {"attended", "absent", "on_leave", "none"},
        source : Sources \cup {"none"}, in : BOOLEAN, out : BOOLEAN,
        was : Sources \cup {"none"}]
NoRow == [id |-> 0, status |-> "none", source |-> "none", in |-> FALSE, out |-> FALSE,
          was |-> "none"]
New(status, source, in) ==
  [NoRow EXCEPT !.id = 1, !.status = status, !.source = source, !.in = in]

OnLeave(row) == row.status = "on_leave" /\ row.source = "leave"
IsFinal(row) == row.status = "absent" /\ row.source = "automatic"

Statuses == {"none", "pending", "approved", "rejected"}
Covers(l, p) == owner[l] = p /\ leave[l].covers

Idle == [pc |-> "idle", op |-> "none", leave |-> CHOOSE l \in Leaves : TRUE, old |-> FALSE,
         verdict |-> "none",
         snap |-> [p \in People |-> NoRow], plan |-> [p \in People |-> NoRow]]
Done == [Idle EXCEPT !.pc = "done"]

\* Leaves decided before the day began have written their rows.
Init ==
  /\ owner \in Owners
  /\ leave \in [Leaves -> [status : {"none", "pending", "approved"}, covers : BOOLEAN]]
  /\ rows = [p \in People |->
               IF \E l \in Leaves : Covers(l, p) /\ leave[l].status = "approved"
               THEN New("on_leave", "leave", FALSE) ELSE NoRow]
  /\ clock = 0 /\ holiday = FALSE /\ shifts \in BOOLEAN
  /\ req = [a \in Actors |-> Idle]
  /\ muddled = [p \in People |-> FALSE]
  /\ faults = 0
-----------------------------------------------------------------------------
(* What each handler makes of the row it read. *)

\* A punch of a pupil at the time at, which a device may deliver later.
Punched(row, at) ==
  CASE row.id = 0   -> New("attended", "device", TRUE)
    [] OnLeave(row) -> [row EXCEPT !.status = "attended", !.source = "device", !.in = TRUE,
                                   !.was = "none"]
    [] row.id # 0 /\ ~ OnLeave(row) /\ at >= Departure -> [row EXCEPT !.out = TRUE]
    [] OTHER -> row

\* POST /attendance: the reader may say whether the pupil comes or goes.
Recorded(row, intent) ==
  CASE row.id = 0 -> New("attended", "device", TRUE)
    [] row.id # 0 /\ (intent = "out" \/ (intent = "any" /\ row.out)) ->
         [row EXCEPT !.out = TRUE, !.source = "device"]
    [] OTHER -> IF row.in THEN row ELSE [row EXCEPT !.in = TRUE, !.source = "device"]

\* POST /hardware-sync: the second scan is a departure, whatever the row says.
Synced(row) ==
  IF row.id = 0 THEN New("attended", "device", TRUE)
  ELSE [row EXCEPT !.out = TRUE, !.source = "device"]

\* Nobody without a row came.
MarkedAbsent(row) == IF row.id = 0 THEN New("absent", "automatic", FALSE) ELSE row

Cleaned(row) == IF row.status = "absent" /\ row.source = "automatic" THEN NoRow ELSE row

\* A line of the teacher's sheet: a choice, or none for a locked card.
Marks == {"attended", "absent", "on_leave", "omitted", "checkout"}
Marked(row, mark) ==
  CASE row.id = 0 /\ mark = "attended" -> New("attended", "manual", TRUE)
    [] row.id = 0 /\ mark = "on_leave" -> New("on_leave", "manual", FALSE)
    [] row.id = 0 -> New("absent", "manual", FALSE)
    [] row.in -> IF mark = "checkout" /\ clock = Departure THEN [row EXCEPT !.out = TRUE]
                 ELSE row
    [] row.status = "on_leave" /\ ~ row.in /\ mark \in {"attended", "absent"} ->
         [row EXCEPT !.status = mark, !.source = "manual", !.in = mark = "attended",
                     !.was = "none"]
    [] OTHER -> row

\* A face punch of an employee: final absences yield only to a punch made
\* before the cutoff, absences entered by hand to none.
FacePunched(row, at) ==
  CASE row.id = 0 /\ at >= Cutoff -> New("absent", "automatic", FALSE)
    [] row.id = 0 /\ at < Cutoff  -> New("attended", "device", TRUE)
    [] IsFinal(row) /\ at < Cutoff ->
         [row EXCEPT !.status = "attended", !.in = TRUE, !.source = "device"]
    [] row.status = "on_leave" /\ ~ row.in ->
         [row EXCEPT !.status = "attended", !.in = TRUE, !.source = "device", !.was = "none"]
    [] row.status = "attended" /\ at >= Departure -> [row EXCEPT !.out = TRUE]
    [] OTHER -> row

\* A line of the employees' sheet. Nothing but leave is entered for a holiday,
\* but rows of the day before can be corrected.
Locked(row, mark) ==
  \/ IsFinal(row) \/ mark = "omitted"
  \/ holiday /\ mark = "checkout"
  \/ holiday /\ mark # "on_leave" /\ (row.id = 0 \/ clock # NextDay)

Saved(row, mark) ==
  CASE Locked(row, mark) -> row
    [] ~ Locked(row, mark) /\ mark = "checkout" ->
         IF row.in /\ clock = Departure /\ ~ row.out
         THEN [row EXCEPT !.out = TRUE, !.source = "manual"] ELSE row
    [] ~ Locked(row, mark) /\ row.id = 0 /\ mark # "checkout" ->
         IF mark = "attended" /\ clock \in {Cutoff, Departure}
         THEN New("absent", "automatic", TRUE) ELSE New(mark, "manual", mark = "attended")
    [] OTHER ->
         [row EXCEPT !.status = mark, !.source = "manual", !.in = mark = "attended",
                     !.out = @ /\ mark = "attended" /\ row.status = "attended",
                     !.was = "none"]

\* An absence without a check-in; an employee's final one stays.
Convertible(p, row) ==
  row.status = "absent" /\ ~ row.in /\ (p \in Employees => ~ IsFinal(row))

Applied(p, row) ==
  CASE row.id = 0 -> New("on_leave", "leave", FALSE)
    [] Convertible(p, row) ->
         [row EXCEPT !.status = "on_leave", !.source = "leave", !.was = row.source]
    [] OTHER -> row

\* Mutant: days on leave are revoked that no leave wrote, or that a scan changed.
RevokedFromAnySource(row) == IF row.status = "on_leave" THEN NoRow ELSE row

\* Whichever leave wrote the day.
Revoked(row) ==
  CASE OnLeave(row) /\ row.was = "none" -> NoRow
    [] OnLeave(row) /\ row.was # "none" ->
         [row EXCEPT !.status = "absent", !.source = row.was, !.was = "none"]
    [] OTHER -> row
-----------------------------------------------------------------------------
(* Transactions. *)

\* The people whose row a transaction writes.
Touched(a) == {p \in People : req[a].plan[p] # req[a].snap[p]}

\* Read the rows of the people S and plan; with nothing to write it is over.
Plan(a, op, S, Value(_, _), rest) ==
  LET snap == [p \in People |-> IF p \in S THEN rows[p] ELSE NoRow]
      plan == [p \in People |-> IF p \in S THEN Value(p, rows[p]) ELSE NoRow]
  IN  req' = [req EXCEPT ![a] =
        IF plan = snap THEN rest
        ELSE [@ EXCEPT !.pc = "open", !.op = op, !.snap = snap, !.plan = plan]]

Arrives(r) == req[r].pc = "idle" /\ \A q \in 1 .. r - 1 : req[q].pc # "idle"

Begin(r, op, S, Value(_, _)) ==
  /\ Arrives(r)
  /\ Plan(r, op, S, Value, Done)
  /\ UNCHANGED <<rows, leave, owner, clock, holiday, shifts, muddled, faults>>

AiFacePunch(r, p, at) ==
  /\ p \in Pupils /\ at <= clock
  /\ Begin(r, "write", {p}, LAMBDA q, row : Punched(row, at))

\* process_student_scan, unless the pupil is suspended.
StudentScan(r, p, at) ==
  /\ p \in Pupils /\ at <= clock
  /\ Begin(r, "write", {p}, LAMBDA q, row : Punched(row, at))

RecordAttendance(r, p, intent) ==
  /\ p \in Pupils
  /\ Begin(r, "write", {p}, LAMBDA q, row : Recorded(row, intent))

HardwareSync(r, p) ==
  /\ p \in Pupils
  /\ Begin(r, "write", {p}, LAMBDA q, row : Synced(row))

Take(r, marks) == Begin(r, "write", Pupils, LAMBDA p, row : Marked(row, marks[p]))

EmployeePunch(r, e, at) ==
  /\ e \in Employees /\ at <= clock /\ ~ holiday
  /\ Begin(r, IF at < Cutoff THEN "early" ELSE "write", {e},
           LAMBDA p, row : FacePunched(row, at))

ManualAttendanceSave(r, e, mark) ==
  /\ e \in Employees
  /\ Begin(r, "write", {e}, LAMBDA p, row : Saved(row, mark))

CleanupHolidayAbsences(r) ==
  /\ holiday
  /\ Begin(r, "write", Pupils, LAMBDA p, row : Cleaned(row))
-----------------------------------------------------------------------------
(* Automatic absence. *)

Missing(S) == \E p \in S : rows[p].id = 0

Run(a, S) ==
  /\ req[a].pc = "idle"
  /\ clock >= Cutoff /\ ~ holiday
  /\ Plan(a, "write", S, LAMBDA p, row : MarkedAbsent(row), Idle)
  /\ UNCHANGED <<rows, leave, owner, clock, holiday, shifts, muddled, faults>>

\* On every tick, and once more for the day before after midnight.
RunAutoAbsent(a) == ~ shifts /\ Missing(Pupils) /\ Run(a, Pupils)
RunAutoAbsentForShift(a) == shifts /\ Missing(ShiftPupils) /\ Run(a, ShiftPupils)
RunAutoAbsentShiftless(a) ==
  shifts /\ Missing(Pupils \ ShiftPupils) /\ Run(a, Pupils \ ShiftPupils)

\* Staff have no second chance after midnight; the plan keeps one savepoint each.
RunEmployeeAutoAbsent == clock # NextDay /\ Missing(Employees) /\ Run(Scheduler, Employees)

\* The web page and its button run the same code as the scheduler.
MarkAbsentToday(r) ==
  /\ Arrives(r) /\ clock # NextDay
  /\ (RunAutoAbsent(r) \/ RunAutoAbsentForShift(r) \/ RunAutoAbsentShiftless(r))
-----------------------------------------------------------------------------
(* Leaves: the form reads the leave; one transaction changes it, a second one its days. *)

\* Requests between the first transaction and the end of the second.
Syncing(p) ==
  {r \in Requests : \/ req[r].pc \in {"decided", "edited"}
                    \/ req[r].pc = "open" /\ req[r].op = "leave"}
    \cap {r \in Requests : owner[req[r].leave] = p}

\* A form has read the leave and keeps what its second transaction will need.
ReadLeave(r, l, pc, old, verdict) ==
  /\ Arrives(r) /\ leave[l].status # "none"
  /\ req' = [req EXCEPT ![r] = [@ EXCEPT !.pc = pc, !.leave = l, !.old = old,
                                         !.verdict = verdict]]
  /\ UNCHANGED <<rows, leave, owner, clock, holiday, shifts, muddled, faults>>

StartSync(r, l, pc, stale) ==
  /\ req' = [req EXCEPT ![r] = [@ EXCEPT !.pc = pc, !.leave = l, !.verdict = "none"]]
  /\ muddled' = [muddled EXCEPT ![owner[l]] = @ \/ stale \/ Syncing(owner[l]) # {}]
  /\ UNCHANGED <<rows, owner, clock, holiday, shifts, faults>>

\* Approve or reject, also what was decided before: then the status is not written.
DecideLeave(r, l, verdict) ==
  ReadLeave(r, l, "deciding", FALSE, IF verdict = leave[l].status THEN "none" ELSE verdict)

CommitDecision(r) ==
  LET l == req[r].leave  verdict == req[r].verdict
  IN  /\ req[r].pc = "deciding"
      /\ leave' = [leave EXCEPT ![l].status = IF verdict = "none" THEN @ ELSE verdict]
      /\ StartSync(r, l, "decided", FALSE)

\* The office enters a leave, approved from the start.
CreateLeave(r, l) ==
  /\ Arrives(r) /\ leave[l].status = "none"
  /\ leave' = [leave EXCEPT ![l].status = "approved"]
  /\ StartSync(r, l, "decided", FALSE)

EditDates(r, l) == ReadLeave(r, l, "editing", leave[l].covers, "none")

\* New dates, or those that two edits of one date each leave, cover the day or do not.
\* The days will be revoked or written by the dates that were read, not by those replaced.
CommitDates(r) ==
  LET l == req[r].leave
  IN  /\ req[r].pc = "editing"
      /\ \E covers \in BOOLEAN : leave' = [leave EXCEPT ![l].covers = covers]
      /\ StartSync(r, l, "edited", leave[l].covers # req[r].old)

Backfill(r, l) ==
  /\ Arrives(r) /\ leave[l].status = "approved"
  /\ UNCHANGED leave
  /\ StartSync(r, l, "decided", FALSE)

Days(r, Value(_, _)) ==
  /\ Plan(r, "leave", {owner[req[r].leave]}, Value, Done)
  /\ UNCHANGED <<rows, leave, owner, clock, holiday, shifts, muddled, faults>>

NoDays(r) ==
  /\ req' = [req EXCEPT ![r] = Done]
  /\ UNCHANGED <<rows, leave, owner, clock, holiday, shifts, muddled, faults>>

\* sync_student_leave and sync_employee_leave read the leave as it is now.
SyncLeave(r) ==
  LET l == req[r].leave
  IN  /\ req[r].pc = "decided"
      /\ \/ leave[l].covers /\ leave[l].status = "approved"
            /\ Days(r, LAMBDA p, row : Applied(p, row))
         \/ leave[l].covers /\ leave[l].status # "approved"
            /\ Days(r, LAMBDA p, row : Revoked(row))
         \/ ~ leave[l].covers /\ NoDays(r)

\* Mutant: the days that the new dates leave out stay.
ResyncAdded(r) ==
  LET l == req[r].leave
  IN  /\ req[r].pc = "edited"
      /\ \/ leave[l].status = "approved" /\ ~ req[r].old /\ leave[l].covers
            /\ Days(r, LAMBDA p, row : Applied(p, row))
         \/ (leave[l].status # "approved" \/ req[r].old \/ ~ leave[l].covers) /\ NoDays(r)

ResyncLeaveDates(r) ==
  LET l == req[r].leave
  IN  /\ req[r].pc = "edited"
      /\ \/ leave[l].status = "approved" /\ req[r].old /\ ~ leave[l].covers
            /\ Days(r, LAMBDA p, row : Revoked(row))
         \/ leave[l].status = "approved" /\ ~ req[r].old /\ leave[l].covers
            /\ Days(r, LAMBDA p, row : Applied(p, row))
         \/ (leave[l].status # "approved" \/ req[r].old = leave[l].covers) /\ NoDays(r)
-----------------------------------------------------------------------------
(* Commits. *)

FreshId(p) ==
  CHOOSE i \in Ids : i # rows[p].id /\ \A a \in Actors : i # req[a].snap[p].id

\* What the database makes of a planned value: a new row, a deletion by id, or
\* the changed columns.
Written(p, snap, plan) ==
  CASE plan = snap  -> rows[p]
    [] plan # snap /\ snap.id = 0 -> [plan EXCEPT !.id = FreshId(p)]
    [] plan # snap /\ snap.id # 0 /\ plan.id = 0 -> IF rows[p].id = snap.id THEN NoRow ELSE rows[p]
    [] OTHER -> [c \in DOMAIN plan |-> IF plan[c] # snap[c] THEN plan[c] ELSE rows[p][c]]

\* A second row for the day, or an UPDATE that finds no row.
Conflicts(a, p) ==
  LET snap == req[a].snap[p]  plan == req[a].plan[p]
  IN  /\ plan # snap
      /\ \/ snap.id = 0 /\ rows[p].id # 0
         \/ snap.id # 0 /\ plan.id # 0 /\ rows[p].id # snap.id

Over(a) == IF a = Scheduler THEN Idle ELSE Done
StaffRun(a) == a = Scheduler /\ Touched(a) \subseteq Employees
Collides(a) == ~ StaffRun(a) /\ \E p \in Touched(a) : Conflicts(a, p)

\* A new status without its source, on a row that got another source meanwhile.
Torn(a, p) ==
  LET snap == req[a].snap[p]  plan == req[a].plan[p]
  IN  /\ p \in Touched(a) /\ snap.id # 0 /\ rows[p].id = snap.id
      /\ plan.status # snap.status /\ plan.source = snap.source /\ rows[p].source # snap.source

Commit(a) ==
  /\ req[a].pc = "open" /\ ~ Collides(a)
  /\ rows' = [p \in People |->
                IF Conflicts(a, p) THEN rows[p] ELSE Written(p, req[a].snap[p], req[a].plan[p])]
  /\ req' = [req EXCEPT ![a] = Over(a)]
  /\ muddled' = [p \in People |-> muddled[p] \/ Torn(a, p)]
  /\ UNCHANGED <<leave, owner, clock, holiday, shifts, faults>>

\* A sync that ends without its days leaves them behind for good.
Abandon(a) ==
  /\ req' = [req EXCEPT ![a] = Over(a)]
  /\ muddled' = [p \in People |-> muddled[p] \/ a \in Syncing(p)]
  /\ UNCHANGED <<rows, leave, owner, clock, holiday, shifts>>

\* Mutant: the scheduler does not survive a conflict.
CollideForGood(a) ==
  /\ req[a].pc = "open" /\ Collides(a)
  /\ req' = [req EXCEPT ![a] = Done]
  /\ muddled' = [p \in People |-> muddled[p] \/ a \in Syncing(p)]
  /\ UNCHANGED <<rows, leave, owner, clock, holiday, shifts, faults>>

\* IntegrityError or StaleDataError: everything is rolled back.
Collide(a) ==
  /\ req[a].pc = "open" /\ Collides(a)
  /\ Abandon(a) /\ UNCHANGED faults

\* An exception, a killed worker, a notification that cannot be staged.
Fail(a) ==
  /\ req[a].pc \in {"open", "deciding", "editing", "decided", "edited"}
  /\ faults < MaxFaults /\ faults' = faults + 1
  /\ Abandon(a)
-----------------------------------------------------------------------------
Tick ==
  /\ clock < NextDay /\ clock' = clock + 1
  /\ UNCHANGED <<rows, leave, owner, holiday, shifts, req, muddled, faults>>

DeclareHoliday ==
  /\ ~ holiday /\ holiday' = TRUE
  /\ UNCHANGED <<rows, leave, owner, clock, shifts, req, muddled, faults>>

Sweep ==
  \/ RunAutoAbsent(Scheduler) \/ RunAutoAbsentForShift(Scheduler)
  \/ RunAutoAbsentShiftless(Scheduler)

Scan(r) ==
  \/ \E p \in People, at \in {0, Cutoff, Departure} :
       AiFacePunch(r, p, at) \/ StudentScan(r, p, at) \/ EmployeePunch(r, p, at)
  \/ \E p \in Pupils : HardwareSync(r, p)
  \/ \E p \in Pupils, intent \in {"in", "out", "any"} : RecordAttendance(r, p, intent)

Decide(r) ==
  \E l \in Leaves : \/ \E verdict \in {"approved", "rejected"} : DecideLeave(r, l, verdict)
                    \/ CreateLeave(r, l) \/ EditDates(r, l) \/ Backfill(r, l)

Next ==
  \/ \E r \in Requests :
       \/ Scan(r) \/ Decide(r)
       \/ \E marks \in [Pupils -> Marks] : Take(r, marks)
       \/ \E e \in Employees, mark \in Marks : ManualAttendanceSave(r, e, mark)
       \/ CleanupHolidayAbsences(r)
       \/ MarkAbsentToday(r)
       \/ CommitDecision(r) \/ CommitDates(r)
       \/ SyncLeave(r) \/ ResyncLeaveDates(r)
  \/ Sweep \/ RunEmployeeAutoAbsent
  \/ \E a \in Actors : Commit(a) \/ Collide(a) \/ Fail(a)
  \/ Tick \/ DeclareHoliday

Spec == Init /\ [][Next]_vars
-----------------------------------------------------------------------------
TypeOK ==
  /\ rows \in [People -> Row]
  /\ leave \in [Leaves -> [status : Statuses, covers : BOOLEAN]]
  /\ owner \in [Leaves -> People]
  /\ clock \in Clock /\ holiday \in BOOLEAN /\ shifts \in BOOLEAN
  /\ \A a \in Actors :
       /\ req[a].pc \in {"idle", "open", "deciding", "editing", "decided", "edited", "done"}
       /\ req[a].snap \in [People -> Row] /\ req[a].plan \in [People -> Row]
  /\ req[Scheduler].pc \in {"idle", "open"}
  /\ muddled \in [People -> BOOLEAN]
  /\ faults \in 0 .. MaxFaults

\* A transaction that read the row of p as it was before the last change of it.
StaleAbout(a, p) == req[a].pc = "open" /\ req'[a].pc # "open" /\ req[a].snap[p] # rows[p]

\* "Physical check-in is always preserved and takes priority over approved
\* leave" (leave_attendance): no handler that sees the check-in of a pupil, under
\* the source that a scan or a teacher gave it, undoes it. What can is a
\* transaction that read the row before the check-in.
CheckedIn(row) == row.in /\ row.source \in {"device", "manual"}
CheckInStep ==
  \A p \in Pupils :
    CheckedIn(rows[p]) /\ ~ (rows'[p].in /\ rows'[p].status = rows[p].status) =>
      \E a \in Actors : StaleAbout(a, p)
CheckInUndoneOnlyByStaleWriter == [][CheckInStep]_vars

\* An employee's final absence stays (employee_attendance_helper): it yields to
\* a face punch made before the cutoff and delivered late, and else only to a
\* transaction that read the row before.
FinalAbsenceStep ==
  \A e \in Employees :
    IsFinal(rows[e]) /\ ~ IsFinal(rows'[e]) =>
      \E a \in Actors : StaleAbout(a, e) \/ (req[a].op = "early" /\ req'[a].pc = "done")
FinalAbsenceIsFinal == [][FinalAbsenceStep]_vars

\* Unless two syncs for the same person met, one failed or went by stale dates, or a status
\* was written under a source that its writer had not read, a day that a leave wrote is one
\* that an approved leave covers: revoking and moving leaves leaves no day
\* behind, in whatever order the office and the scans work.
LeaveDaysAreBacked ==
  \A p \in People :
    OnLeave(rows[p]) /\ ~ muddled[p] /\ Syncing(p) = {} =>
      \E l \in Leaves : Covers(l, p) /\ leave[l].status = "approved"

\* Somebody came, has leave, or an absence was entered by hand (or is final).
Excused(p) ==
  /\ rows[p].id # 0
  /\ p \in Pupils /\ IsFinal(rows[p]) => rows[p].in

Honoured(p) ==
  (\E l \in Leaves : Covers(l, p) /\ leave[l].status = "approved")
     /\ ~ muddled[p] /\ Syncing(p) = {} /\ ~ holiday
    => Excused(p)

\* The approved leave of somebody who has no other fills an empty day and
\* converts an absence, and the scheduler does not take it back.
LoneLeaveIsHonoured ==
  \A p \in People :
    Cardinality({l \in Leaves : owner[l] = p /\ leave[l].status # "none"}) = 1 => Honoured(p)

\* "Approved leave fills empty dates AND converts absent-without-check-in
\* records" (leave_attendance), whatever other leaves there are.
ApprovedLeaveIsHonoured == \A p \in People : Honoured(p)

\* Once the cutoff has passed every pupil gets a row, although a scan that
\* comes between makes the whole batch of absences fail and leaves are revoked.
CutoffPassed == clock >= Cutoff
Accounted == holiday \/ \A p \in Pupils : rows[p].id # 0
EveryPupilIsAccounted == CutoffPassed ~> Accounted
=============================================================================
