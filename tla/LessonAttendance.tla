------------------------------- MODULE LessonAttendance -------------------------------
(***************************************************************************)
(* Attendance at one lesson of an institute (institute_attendance.py): one *)
(* occurrence of a weekly rule, the session that materializes it when      *)
(* somebody opens it, the statuses of its pupils and of its teacher, and   *)
(* what parents are told. Requests of the web page, the mobile app and the *)
(* employees' sheet overlap with each other and with the office, which     *)
(* changes the rule, the teacher, the members and the suspensions.         *)
(***************************************************************************)
EXTENDS Integers, Sequences

CONSTANTS Students, Teachers, Statuses,
          NoOne, Unmarked,
          NumRequests,   \* bound: requests
          MaxChanges,    \* bound: acts of the office
          MaxTime        \* bound: seconds; a dedup key carries the second

Requests == 1 .. NumRequests
Marks == [Students -> Statuses \cup {Unmarked}]

VARIABLES
  rule,      \* institute_group_schedules: the slot of this lesson
  group,     \* the group: teacher, pupils enrolled, pupils suspended
  session,   \* institute_attendance_sessions: whether there is one, its snapshot, recorded
  record,    \* institute_attendance_records of the session
  lesson,    \* institute_instructor_attendance: the scheduled rows, oldest first
  feed,      \* the push jobs staged for the parents of each pupil, with their second
  second,    \* the clock
  req,       \* requests: where they are and what they have read
  changes    \* counts the office's acts

vars == <<rule, group, session, record, lesson, feed, second, req, changes>>

Nothing == [s \in Students |-> Unmarked]
Idle == [pc |-> "idle", kind |-> "pupils", fresh |-> FALSE, teacher |-> NoOne,
         marks |-> Nothing, seen |-> Nothing, at |-> 0]

Init ==
  /\ rule = "active"
  /\ group \in [teacher : Teachers \cup {NoOne}, enrolled : {Students}, suspended : {{}}]
  /\ session = [open |-> FALSE, teacher |-> NoOne, recorded |-> FALSE]
  /\ record = Nothing
  /\ lesson = <<>>
  /\ feed = [s \in Students |-> <<>>]
  /\ second = 0
  /\ req = [r \in Requests |-> Idle]
  /\ changes = 0
-----------------------------------------------------------------------------
\* Requests are numbered as they arrive.
Arrives(r) == req[r].pc = "idle" /\ \A q \in 1 .. r - 1 : req[q].pc # "idle"

\* find_occurrence: an active rule, or a session that has outlived it.
Occurs == rule = "active" \/ session.open

\* _scheduled_teacher_id: a saved row, the session's snapshot, the group's teacher.
ScheduledTeacher ==
  IF session.open /\ lesson # <<>> THEN lesson[1].teacher
  ELSE IF session.open /\ session.teacher # NoOne THEN session.teacher
  ELSE group.teacher

\* The page of a lesson, or the sheet of the teachers, is opened or posted. The request
\* keeps the group's teacher as it is now and whether it found the session.
Open(r, kind) ==
  /\ Arrives(r) /\ Occurs
  /\ kind = "lesson" => ScheduledTeacher # NoOne
  /\ req' = [req EXCEPT ![r] = [Idle EXCEPT
       !.pc = IF session.open THEN "opened" ELSE "creating",
       !.kind = kind,
       !.fresh = ~ session.open,
       !.teacher = IF kind = "lesson" THEN ScheduledTeacher ELSE group.teacher]]
  /\ UNCHANGED <<rule, group, session, record, lesson, feed, second, changes>>

\* get_or_create_session: the unique constraint decides who creates it.
Create(r) ==
  /\ req[r].pc = "creating"
  /\ session.open \/ rule # "deleted"
  /\ session' = IF session.open THEN session
                ELSE [open |-> TRUE, teacher |-> req[r].teacher, recorded |-> FALSE]
  /\ req' = [req EXCEPT ![r].pc = "opened"]
  /\ UNCHANGED <<rule, group, record, lesson, feed, second, changes>>

\* The rule is gone and nobody has created the session: the foreign key refuses, the
\* winner is looked for and not found.
CreateFails(r) ==
  /\ req[r].pc = "creating"
  /\ ~ session.open /\ rule = "deleted"
  /\ req' = [req EXCEPT ![r] = [Idle EXCEPT !.pc = "ended"]]
  /\ UNCHANGED <<rule, group, session, record, lesson, feed, second, changes>>

\* The pupils whose status may be set: members, and those who have one already.
Allowed == group.enrolled \cup {s \in Students : record[s] # Unmarked}

\* submit_attendance up to its first write. The mobile app posts to the id of a session
\* that is there; a web request comes from Create. Suspended pupils are skipped.
ReadRecords(r, marks) ==
  /\ \/ req[r].pc = "opened" /\ req[r].kind = "pupils"
     \/ Arrives(r) /\ session.open
  /\ {s \in Students : marks[s] # Unmarked} \subseteq Allowed
  /\ \E s \in Students \ group.suspended : marks[s] # Unmarked
  /\ req' = [req EXCEPT ![r] = [Idle EXCEPT
       !.pc = "read",
       !.marks = [s \in Students |-> IF s \in group.suspended THEN Unmarked ELSE marks[s]],
       !.seen = record,
       !.at = second]]
  /\ UNCHANGED <<rule, group, session, record, lesson, feed, second, changes>>

\* Mutant: a status that is there already counts as a change.
EveryMark(r) == {s \in Students : req[r].marks[s] # Unmarked}

Changed(r) == {s \in Students : req[r].marks[s] \notin {Unmarked, req[r].seen[s]}}

Entry(r, s) == [status |-> req[r].marks[s], at |-> req[r].at]

\* The unique constraints: one record of a pupil, one job of a transition and second.
Collides(r) ==
  \E s \in Changed(r) :
    \/ req[r].seen[s] = Unmarked /\ record[s] # Unmarked
    \/ \E i \in 1 .. Len(feed[s]) : feed[s][i] = Entry(r, s)

\* Records, the session's status and the jobs for the parents commit together.
Submit(r) ==
  /\ req[r].pc = "read" /\ ~ Collides(r)
  /\ record' = [s \in Students |-> IF s \in Changed(r) THEN req[r].marks[s] ELSE record[s]]
  /\ session' = [session EXCEPT !.recorded = TRUE]
  /\ feed' = [s \in Students |-> IF s \in Changed(r) THEN Append(feed[s], Entry(r, s)) ELSE feed[s]]
  /\ req' = [req EXCEPT ![r] = [Idle EXCEPT !.pc = "ended"]]
  /\ UNCHANGED <<rule, group, lesson, second, changes>>

\* Mutant: the parents have been told when the commit fails.
RefuseAfterTelling(r) ==
  /\ req[r].pc \in {"opened", "read"}
  /\ feed' = [s \in Students |-> IF s \in Changed(r) THEN Append(feed[s], Entry(r, s)) ELSE feed[s]]
  /\ req' = [req EXCEPT ![r] = [Idle EXCEPT !.pc = "ended"]]
  /\ UNCHANGED <<rule, group, session, record, lesson, second, changes>>

\* A collision, a failure of the staging or of the commit, or a page that is only read.
Refuse(r) ==
  /\ req[r].pc \in {"opened", "read"}
  /\ req' = [req EXCEPT ![r] = [Idle EXCEPT !.pc = "ended"]]
  /\ UNCHANGED <<rule, group, session, record, lesson, feed, second, changes>>
-----------------------------------------------------------------------------
RowOf(t) == {i \in 1 .. Len(lesson) : lesson[i].teacher = t}

\* The snapshot wins over the teacher resolved before the session was there.
SnapshotAgrees(r) == req[r].fresh /\ session.teacher # NoOne => session.teacher = req[r].teacher

\* submit_instructor_attendance, after the sessions are there: the row is read and then
\* written, so the constraint may still refuse (Refuse).
RecordTeacher(r, status) ==
  /\ req[r].pc = "opened" /\ req[r].kind = "lesson"
  /\ SnapshotAgrees(r)
  /\ lesson' = IF RowOf(req[r].teacher) = {}
               THEN Append(lesson, [teacher |-> req[r].teacher, status |-> status])
               ELSE [i \in 1 .. Len(lesson) |->
                       IF i \in RowOf(req[r].teacher) THEN [lesson[i] EXCEPT !.status = status] ELSE lesson[i]]
  /\ req' = [req EXCEPT ![r] = [Idle EXCEPT !.pc = "ended"]]
  /\ UNCHANGED <<rule, group, session, record, feed, second, changes>>
-----------------------------------------------------------------------------
\* The office edits, deletes or adds the rule again; stored sessions keep their snapshot.
ChangeRule(new) ==
  /\ changes < MaxChanges /\ rule # new
  /\ rule = "deleted" => new = "active"
  /\ rule' = new
  /\ changes' = changes + 1
  /\ UNCHANGED <<group, session, record, lesson, feed, second, req>>

\* The group's teacher, its enrollments and its suspensions change.
ChangeGroup(new) ==
  /\ changes < MaxChanges /\ group # new
  /\ group' = new
  /\ changes' = changes + 1
  /\ UNCHANGED <<rule, session, record, lesson, feed, second, req>>

Tick ==
  /\ second < MaxTime
  /\ second' = second + 1
  /\ UNCHANGED <<rule, group, session, record, lesson, feed, req, changes>>

Groups == [teacher : Teachers \cup {NoOne}, enrolled : SUBSET Students, suspended : SUBSET Students]

Next ==
  \/ \E r \in Requests :
       \/ \E kind \in {"pupils", "lesson"} : Open(r, kind)
       \/ Create(r) \/ CreateFails(r)
       \/ \E marks \in Marks : ReadRecords(r, marks)
       \/ Submit(r) \/ Refuse(r)
       \/ \E status \in Statuses : RecordTeacher(r, status)
  \/ \E new \in {"active", "off", "deleted"} : ChangeRule(new)
  \/ \E new \in Groups : ChangeGroup(new)
  \/ Tick

Spec == Init /\ [][Next]_vars
-----------------------------------------------------------------------------
TypeOK ==
  /\ rule \in {"active", "off", "deleted"}
  /\ group \in Groups
  /\ session \in [open : BOOLEAN, teacher : Teachers \cup {NoOne}, recorded : BOOLEAN]
  /\ record \in Marks
  /\ lesson \in Seq([teacher : Teachers, status : Statuses])
  /\ feed \in [Students -> Seq([status : Statuses, at : 0 .. MaxTime])]
  /\ second \in 0 .. MaxTime
  /\ req \in [Requests -> [pc : {"idle", "creating", "opened", "read", "ended"}, kind : {"pupils", "lesson"},
                           fresh : BOOLEAN, teacher : Teachers \cup {NoOne},
                           marks : Marks, seen : Marks, at : 0 .. MaxTime]]
  /\ changes \in 0 .. MaxChanges

\* Parents were last told the status that is recorded, and nothing where none is: "attendance
\* must never commit without the notification work it promised" (submit_attendance).
FeedFollowsRecords ==
  \A s \in Students :
    record[s] = IF feed[s] = <<>> THEN Unmarked ELSE feed[s][Len(feed[s])].status

\* "A re-submission of the same values notifies nobody": parents are told once more what
\* they know only by a request that read the record before it became so, and then in
\* another second than any time before.
RepeatStep ==
  \A s \in Students :
    feed'[s] # feed[s] /\ feed'[s][Len(feed'[s])].status = record[s] =>
      /\ \E r \in Requests : req[r].pc = "read" /\ req[r].seen[s] # record[s]
      /\ \A i \in 1 .. Len(feed[s]) : feed[s][i] # feed'[s][Len(feed'[s])]

RetriesAreSilent == [][RepeatStep]_vars

\* The teacher who is marked is the one the session was opened with, however the group
\* is reassigned while requests are on their way. (A session opened without a teacher
\* may get two rows.)
SnapshotRules ==
  session.teacher # NoOne =>
    \A i \in 1 .. Len(lesson) : lesson[i].teacher = session.teacher
=============================================================================
