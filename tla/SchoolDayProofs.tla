---------------------------- MODULE SchoolDayProofs ----------------------------
(***************************************************************************)
(* Proofs about SchoolDay, for any pupils, employees, leaves and requests: *)
(* what the handlers do to a check-in and to a final absence, and what the *)
(* leaves leave behind.                                                    *)
(***************************************************************************)
EXTENDS SchoolDay, FiniteSetTheorems, TLAPS

\* What a proof needs of the constants. The leaves of a school are finitely many.
DayAssumption ==
  /\ Pupils \cap Employees = {}
  /\ IsFiniteSet(Leaves) /\ Owners \subseteq [Leaves -> People]
  /\ NumRequests \in Nat /\ MaxFaults \in Nat

\* A row without an id is no row.
Rows == {row \in Row : row.id = 0 => row = NoRow}

Txn == [pc : {"idle", "open", "deciding", "editing", "decided", "edited", "done"},
        op : {"none", "write", "early", "leave"},
        leave : Leaves \cup {CHOOSE l \in Leaves : TRUE}, old : BOOLEAN,
        verdict : {"none", "approved", "rejected"},
        snap : [People -> Rows], plan : [People -> Rows]]

\* A request whose leave is decided and whose days are not yet written.
InSync(r) == req[r].pc \in {"decided", "edited"} \/ (req[r].pc = "open" /\ req[r].op = "leave")

\* Or one whose form has read it.
HasLeave(r) == InSync(r) \/ req[r].pc \in {"deciding", "editing"}

Types ==
  /\ rows \in [People -> Rows]
  /\ leave \in [Leaves -> [status : Statuses, covers : BOOLEAN]]
  /\ owner \in [Leaves -> People]
  /\ clock \in Clock /\ holiday \in BOOLEAN /\ shifts \in BOOLEAN
  /\ req \in [Actors -> Txn]
  /\ muddled \in [People -> BOOLEAN] /\ faults \in 0 .. MaxFaults
  /\ req[Scheduler].pc \in {"idle", "open"} /\ req[Scheduler].op \notin {"early", "leave"}
  /\ \A r \in Requests : HasLeave(r) => req[r].leave \in Leaves /\ leave[req[r].leave].status # "none"

\* What a handler that is no sync may make of the row of p: a new day, nothing of a final
\* absence on a holiday, or other columns. A status comes with its source, a pupil's check-in
\* stays, and an employee's final absence yields to early punches only.
NewDay(snap, plan) == snap.id = 0 /\ plan.id # 0 /\ plan.source # "leave"

Swept(p, snap, plan) == p \in Pupils /\ snap.id # 0 /\ plan.id = 0 /\ IsFinal(snap)

Edited(p, op, snap, plan) ==
  /\ snap.id # 0 /\ plan.id = snap.id
  /\ plan.source \in {snap.source, "device", "manual"}
  /\ plan.status # snap.status => plan.source \in {"device", "manual"}
  /\ p \in Pupils /\ snap.in /\ (plan.status = snap.status \/ CheckedIn(snap)) =>
       plan.in /\ (CheckedIn(snap) => plan.status = snap.status)
  /\ p \in Employees /\ IsFinal(snap) => op = "early" \/ IsFinal(plan)

Planned(p, op, snap, plan) ==
  plan = snap \/ NewDay(snap, plan) \/ Swept(p, snap, plan) \/ Edited(p, op, snap, plan)

\* What a sync may make of it.
SyncPlanned(p, snap, plan) ==
  \/ plan = Applied(p, snap) /\ plan # snap
  \/ plan = Revoked(snap) /\ OnLeave(snap)

\* An open transaction has planned what its handler may.
PlanIsSound(a) ==
  /\ req[a].op # "none"
  /\ req[a].op # "leave" =>
       \A p \in People :
         /\ Planned(p, req[a].op, req[a].snap[p], req[a].plan[p])
         /\ Swept(p, req[a].snap[p], req[a].plan[p]) => holiday
  /\ req[a].op = "leave" =>
       \A p \in People :
         IF p = owner[req[a].leave] THEN SyncPlanned(p, req[a].snap[p], req[a].plan[p])
         ELSE req[a].snap[p] = req[a].plan[p]

PlansAreSound == \A a \in Actors : req[a].pc = "open" => PlanIsSound(a)

Granted(l) == leave[l].covers /\ leave[l].status = "approved"
Backed(p) == \E l \in Leaves : owner[l] = p /\ Granted(l)

\* The leave l of p, who has no other, is granted.
Alone(l, p) ==
  /\ owner[l] = p /\ Granted(l)
  /\ \A k \in Leaves : owner[k] = p /\ leave[k].status # "none" => k = l

\* How far the sync of r has come with the day of p. An edit that found the day covered, and
\* left it so, has nothing to write.
SyncIsRight(r, p) ==
  LET l == req[r].leave
  IN  /\ req[r].pc = "decided" => (OnLeave(rows[p]) => Backed(p) \/ leave[l].covers)
      /\ req[r].pc = "edited" =>
           /\ ~ holiday /\ req[r].old /\ Alone(l, p) => Excused(p)
           /\ OnLeave(rows[p]) =>
                Backed(p) \/ (req[r].old /\ ~ leave[l].covers /\ leave[l].status = "approved")
      /\ req[r].pc = "open" =>
           IF Granted(l) THEN req[r].plan[p] = Applied(p, req[r].snap[p])
           ELSE /\ req[r].plan[p] = Revoked(req[r].snap[p]) /\ OnLeave(req[r].snap[p])
                /\ OnLeave(rows[p]) => rows[p].id = req[r].snap[p].id

Right(p) ==
  /\ \A r \in Syncing(p), q \in Syncing(p) : r = q
  /\ \A r \in Syncing(p) : SyncIsRight(r, p)
  /\ Syncing(p) = {} /\ OnLeave(rows[p]) => Backed(p)
  /\ Syncing(p) = {} /\ ~ holiday => \A l \in Leaves : Alone(l, p) => Excused(p)

LeavesAreRight == \A p \in People : ~ muddled[p] => Right(p)

DayInv == Types /\ PlansAreSound /\ LeavesAreRight
-----------------------------------------------------------------------------
(* What each handler plans. *)

LEMMA NoRowIsRow == NoRow \in Rows
BY DEF NoRow, Rows, Row

LEMMA OneIsId == ASSUME DayAssumption PROVE 1 \in Ids /\ 0 \notin Ids /\ Ids \subseteq Nat
BY DEF Ids, DayAssumption

LEMMA NewIsRow ==
  ASSUME DayAssumption, NEW status \in {"attended", "absent", "on_leave"}, NEW source \in Sources,
         NEW in \in BOOLEAN
  PROVE  /\ New(status, source, in) \in Rows
         /\ New(status, source, in).id = 1 /\ New(status, source, in).status = status
         /\ New(status, source, in).source = source /\ New(status, source, in).was = "none"
BY OneIsId DEF New, NoRow, Rows, Row

LEMMA NobodyIs == ASSUME NEW row \in Rows, row.id = 0
                  PROVE  row = NoRow /\ ~ OnLeave(row) /\ ~ IsFinal(row) /\ ~ row.in /\ row.status = "none"
BY DEF Rows, NoRow, OnLeave, IsFinal

LEMMA NewIsPlanned ==
  ASSUME DayAssumption, NEW status \in {"attended", "absent", "on_leave"},
         NEW source \in Sources \ {"leave"}, NEW in \in BOOLEAN, NEW row, row.id = 0
  PROVE  /\ New(status, source, in) \in Rows
         /\ \A p, op : /\ Planned(p, op, row, New(status, source, in))
                       /\ ~ Swept(p, row, New(status, source, in))
<1>1. /\ New(status, source, in) \in Rows /\ New(status, source, in).id = 1
      /\ New(status, source, in).source = source
  BY NewIsRow
<1> QED BY <1>1 DEF Planned, NewDay, Swept

LEMMA PunchIsPlanned ==
  ASSUME DayAssumption, NEW p \in Pupils, NEW row \in Rows, NEW at \in Clock
  PROVE  /\ Punched(row, at) \in Rows /\ Planned(p, "write", row, Punched(row, at))
         /\ ~ Swept(p, row, Punched(row, at))
<1>1. p \notin Employees
  BY DEF DayAssumption
<1>2. CASE row.id = 0
  <2>1. Punched(row, at) = New("attended", "device", TRUE)
    BY <1>2, NobodyIs DEF Punched
  <2> QED BY <1>2, <2>1, NewIsPlanned DEF Sources
<1>3. CASE row.id # 0 /\ OnLeave(row)
  <2>1. Punched(row, at) = [row EXCEPT !.status = "attended", !.source = "device", !.in = TRUE, !.was = "none"]
    BY <1>3 DEF Punched
  <2> QED BY <1>1, <1>3, <2>1 DEF Planned, Swept, Edited, Rows, Row, Sources, OnLeave, CheckedIn
<1>4. CASE row.id # 0 /\ ~ OnLeave(row) /\ at >= Departure
  <2>1. Punched(row, at) = [row EXCEPT !.out = TRUE]
    BY <1>4 DEF Punched
  <2> QED BY <1>1, <1>4, <2>1 DEF Planned, Swept, Edited, Rows, Row, Sources, OnLeave, CheckedIn
<1>5. CASE row.id # 0 /\ ~ OnLeave(row) /\ ~ (at >= Departure)
  BY <1>5 DEF Punched, Planned, Swept
<1> QED BY <1>2, <1>3, <1>4, <1>5

LEMMA RecordIsPlanned ==
  ASSUME DayAssumption, NEW p \in Pupils, NEW row \in Rows, NEW intent \in {"in", "out", "any"}
  PROVE  /\ Recorded(row, intent) \in Rows /\ Planned(p, "write", row, Recorded(row, intent))
         /\ ~ Swept(p, row, Recorded(row, intent))
<1>1. p \notin Employees
  BY DEF DayAssumption
<1>2. CASE row.id = 0
  BY <1>2, NewIsPlanned DEF Recorded, Sources
<1>3. CASE row.id # 0
  <2>1. Recorded(row, intent) \in {row, [row EXCEPT !.out = TRUE, !.source = "device"]}
        \/ (~ row.in /\ Recorded(row, intent) = [row EXCEPT !.in = TRUE, !.source = "device"])
    BY <1>3 DEF Recorded
  <2> QED BY <1>1, <1>3, <2>1 DEF Planned, Swept, Edited, Rows, Row, Sources, CheckedIn
<1> QED BY <1>2, <1>3

LEMMA SyncedIsPlanned ==
  ASSUME DayAssumption, NEW p \in Pupils, NEW row \in Rows
  PROVE  /\ Synced(row) \in Rows /\ Planned(p, "write", row, Synced(row))
         /\ ~ Swept(p, row, Synced(row))
<1>1. p \notin Employees
  BY DEF DayAssumption
<1>2. CASE row.id = 0
  BY <1>2, NewIsPlanned DEF Synced, Sources
<1>3. CASE row.id # 0
  BY <1>1, <1>3 DEF Synced, Planned, Swept, Edited, Rows, Row, Sources, CheckedIn
<1> QED BY <1>2, <1>3

LEMMA AbsenceIsPlanned ==
  ASSUME DayAssumption, NEW p \in People, NEW row \in Rows
  PROVE  /\ MarkedAbsent(row) \in Rows /\ Planned(p, "write", row, MarkedAbsent(row))
         /\ ~ Swept(p, row, MarkedAbsent(row))
<1>1. CASE row.id = 0
  BY <1>1, NewIsPlanned DEF MarkedAbsent, Sources
<1>2. CASE row.id # 0
  <2>1. MarkedAbsent(row) = row
    BY <1>2 DEF MarkedAbsent
  <2> QED BY <1>2, <2>1, NobodyIs DEF Planned, Swept
<1> QED BY <1>1, <1>2

LEMMA CleaningIsPlanned ==
  ASSUME NEW p \in Pupils, NEW row \in Rows
  PROVE  Cleaned(row) \in Rows /\ Planned(p, "write", row, Cleaned(row))
<1>1. CASE Cleaned(row) = row
  BY <1>1 DEF Planned
<1>2. CASE Cleaned(row) # row
  BY <1>2, NobodyIs, NoRowIsRow DEF Cleaned, Planned, Swept, IsFinal, NoRow
<1> QED BY <1>1, <1>2

LEMMA MarkIsPlanned ==
  ASSUME DayAssumption, NEW p \in Pupils, NEW row \in Rows, NEW mark \in Marks
  PROVE  /\ Marked(row, mark) \in Rows /\ Planned(p, "write", row, Marked(row, mark))
         /\ ~ Swept(p, row, Marked(row, mark))
<1>1. p \notin Employees
  BY DEF DayAssumption
<1>2. CASE row.id = 0
  <2>1. Marked(row, mark) \in {New("attended", "manual", TRUE), New("on_leave", "manual", FALSE),
                               New("absent", "manual", FALSE)}
    BY <1>2, NobodyIs DEF Marked
  <2> QED BY <1>2, <2>1, NewIsPlanned DEF Sources
<1>3. CASE row.id # 0 /\ row.in
  <2>1. Marked(row, mark) \in {row, [row EXCEPT !.out = TRUE]}
    BY <1>3 DEF Marked
  <2> QED BY <1>1, <1>3, <2>1 DEF Planned, Swept, Edited, Rows, Row, Sources, CheckedIn
<1>4. CASE row.id # 0 /\ ~ row.in /\ row.status = "on_leave" /\ mark \in {"attended", "absent"}
  <2>1. Marked(row, mark) = [row EXCEPT !.status = mark, !.source = "manual", !.in = mark = "attended",
                                        !.was = "none"]
    BY <1>4 DEF Marked
  <2> QED BY <1>1, <1>4, <2>1 DEF Planned, Swept, Edited, Rows, Row, Sources, CheckedIn
<1>5. CASE row.id # 0 /\ ~ row.in /\ ~ (row.status = "on_leave" /\ mark \in {"attended", "absent"})
  BY <1>5 DEF Marked, Planned, Swept
<1>6. row.in \in BOOLEAN
  BY DEF Rows, Row
<1> QED BY <1>2, <1>3, <1>4, <1>5, <1>6

LEMMA FacePunchIsPlanned ==
  ASSUME DayAssumption, NEW e \in Employees, NEW row \in Rows, NEW at \in Clock,
         NEW op, op = IF at < Cutoff THEN "early" ELSE "write"
  PROVE  /\ FacePunched(row, at) \in Rows /\ Planned(e, op, row, FacePunched(row, at))
         /\ ~ Swept(e, row, FacePunched(row, at))
<1>1. e \notin Pupils
  BY DEF DayAssumption
<1>t. at \in Int /\ Cutoff \in Int /\ Departure \in Int
  BY DEF Clock, Cutoff, Departure, NextDay
<1>2. CASE row.id = 0
  <2>1. ~ IsFinal(row) /\ row.status # "on_leave" /\ row.status # "attended"
    BY <1>2, NobodyIs
  <2>2. CASE at >= Cutoff
    <3>1. ~ (at < Cutoff)
      BY <1>t, <2>2
    <3>2. FacePunched(row, at) = New("absent", "automatic", FALSE)
      BY <1>2, <2>1, <2>2, <3>1, Zenon DEF FacePunched
    <3> QED BY <1>2, <3>2, NewIsPlanned DEF Sources
  <2>3. CASE ~ (at >= Cutoff)
    <3>1. at < Cutoff
      BY <1>t, <2>3
    <3>2. FacePunched(row, at) = New("attended", "device", TRUE)
      BY <1>2, <2>1, <2>3, <3>1, Zenon DEF FacePunched
    <3> QED BY <1>2, <3>2, NewIsPlanned DEF Sources
  <2> QED BY <2>2, <2>3
<1>3. CASE row.id # 0 /\ IsFinal(row) /\ at < Cutoff
  <2>1. FacePunched(row, at) = [row EXCEPT !.status = "attended", !.in = TRUE, !.source = "device"]
    BY <1>3, <1>t DEF FacePunched, IsFinal
  <2> QED BY <1>1, <1>3, <2>1 DEF Planned, Swept, Edited, Rows, Row, Sources, CheckedIn
<1>4. CASE row.id # 0 /\ row.status = "on_leave" /\ ~ row.in
  <2>1. FacePunched(row, at) = [row EXCEPT !.status = "attended", !.in = TRUE, !.source = "device",
                                           !.was = "none"]
    BY <1>4, <1>t DEF FacePunched, IsFinal
  <2> QED BY <1>1, <1>4, <2>1 DEF Planned, Swept, Edited, Rows, Row, Sources, CheckedIn, IsFinal
<1>5. CASE row.id # 0 /\ row.status = "attended" /\ at >= Departure
  <2>1. FacePunched(row, at) = [row EXCEPT !.out = TRUE]
    BY <1>5, <1>t DEF FacePunched, IsFinal
  <2> QED BY <1>1, <1>5, <2>1 DEF Planned, Swept, Edited, Rows, Row, Sources, CheckedIn, IsFinal
<1>6. CASE /\ row.id # 0 /\ ~ (IsFinal(row) /\ at < Cutoff)
           /\ ~ (row.status = "on_leave" /\ ~ row.in) /\ ~ (row.status = "attended" /\ at >= Departure)
  <2>1. FacePunched(row, at) = row
    BY <1>6, <1>t DEF FacePunched
  <2> QED BY <1>1, <2>1 DEF Planned, Swept
<1> QED BY <1>2, <1>3, <1>4, <1>5, <1>6

LEMMA SaveIsPlanned ==
  ASSUME DayAssumption, NEW e \in Employees, NEW row \in Rows, NEW mark \in Marks
  PROVE  /\ Saved(row, mark) \in Rows /\ Planned(e, "write", row, Saved(row, mark))
         /\ ~ Swept(e, row, Saved(row, mark))
<1>1. e \notin Pupils
  BY DEF DayAssumption
<1>2. CASE Locked(row, mark)
  BY <1>1, <1>2 DEF Saved, Planned, Swept
<1>3. CASE ~ Locked(row, mark) /\ mark = "checkout"
  <2>1. Saved(row, mark) \in {row, [row EXCEPT !.out = TRUE, !.source = "manual"]}
    BY <1>3 DEF Saved
  <2>2. CASE row.id = 0
    <3>1. Saved(row, mark) = row
      BY <1>3, <2>2, NobodyIs DEF Saved
    <3> QED BY <1>1, <3>1 DEF Planned, Swept
  <2>3. CASE row.id # 0
    BY <1>1, <1>3, <2>1, <2>3 DEF Planned, Swept, Edited, Rows, Row, Sources, CheckedIn, Locked
  <2> QED BY <2>2, <2>3
<1>4. CASE ~ Locked(row, mark) /\ mark # "checkout" /\ row.id = 0
  <2>1. mark \in {"attended", "absent", "on_leave"}
    BY <1>4 DEF Locked, Marks
  <2>2. Saved(row, mark) \in {New("absent", "automatic", TRUE), New(mark, "manual", mark = "attended")}
    BY <1>4 DEF Saved
  <2> QED BY <1>4, <2>1, <2>2, NewIsPlanned DEF Sources
<1>5. CASE ~ Locked(row, mark) /\ mark # "checkout" /\ row.id # 0
  <2>1. mark \in {"attended", "absent", "on_leave"} /\ ~ IsFinal(row)
    BY <1>5 DEF Locked, Marks
  <2>2. \E out \in BOOLEAN :
          Saved(row, mark) = [row EXCEPT !.status = mark, !.source = "manual", !.in = mark = "attended",
                                         !.out = out, !.was = "none"]
    BY <1>5 DEF Saved
  <2> QED BY <1>1, <1>5, <2>1, <2>2 DEF Planned, Swept, Edited, Rows, Row, Sources, CheckedIn
<1> QED BY <1>2, <1>3, <1>4, <1>5

LEMMA SyncRows ==
  ASSUME DayAssumption, NEW p \in People, NEW row \in Rows
  PROVE  Applied(p, row) \in Rows /\ Revoked(row) \in Rows
<1>1. Applied(p, row) \in Rows
  <2>1. CASE row.id = 0
    <3>1. Applied(p, row) = New("on_leave", "leave", FALSE)
      BY <2>1, NobodyIs DEF Applied, Convertible
    <3> QED BY <3>1, NewIsRow DEF Sources
  <2>2. CASE row.id # 0
    <3>1. Applied(p, row) \in {row, [row EXCEPT !.status = "on_leave", !.source = "leave", !.was = row.source]}
      BY <2>2 DEF Applied
    <3> QED BY <2>2, <3>1 DEF Rows, Row, Sources
  <2> QED BY <2>1, <2>2
<1>2. Revoked(row) \in Rows
  <2>1. CASE OnLeave(row) /\ row.was = "none"
    BY <2>1, NoRowIsRow DEF Revoked
  <2>2. CASE OnLeave(row) /\ row.was # "none"
    <3>1. row.id # 0
      BY <2>2, NobodyIs
    <3>2. Revoked(row) = [row EXCEPT !.status = "absent", !.source = row.was, !.was = "none"]
      BY <2>2 DEF Revoked
    <3> QED BY <3>1, <3>2 DEF Rows, Row, Sources
  <2>3. CASE ~ OnLeave(row)
    BY <2>3 DEF Revoked
  <2> QED BY <2>1, <2>2, <2>3
<1> QED BY <1>1, <1>2
-----------------------------------------------------------------------------
(* What a commit makes of a row. *)

\* The rows in use, those that transactions have read and the one that is there, leave an id.
LEMMA FreshIdIsId == ASSUME DayAssumption, NEW p \in People PROVE FreshId(p) \in Ids
<1> DEFINE Used(i) == {a \in Actors : i = req[a].snap[p].id}
           N == NumRequests
           f == [i \in Ids |-> IF i = rows[p].id THEN N + 1 ELSE CHOOSE a \in Used(i) : TRUE]
<1>1. /\ Ids = 1 .. N + 3 /\ Actors = 0 .. N /\ N \in Nat
  BY DEF Ids, Actors, Requests, Scheduler, DayAssumption
<1>2. \E i \in Ids : i # rows[p].id /\ \A a \in Actors : i # req[a].snap[p].id
  <2> SUFFICES ASSUME \A i \in Ids : i = rows[p].id \/ Used(i) # {} PROVE FALSE
    OBVIOUS
  <2>1. \A i \in Ids : i # rows[p].id => f[i] \in Used(i)
    OBVIOUS
  <2>2. \A i \in Ids : i = rows[p].id => f[i] = N + 1
    OBVIOUS
  <2>3. f \in [Ids -> 0 .. N + 1]
    BY <1>1, <2>1, <2>2
  <2> HIDE DEF f
  <2>4. /\ IsFiniteSet(Ids) /\ Cardinality(Ids) = N + 3
        /\ IsFiniteSet(0 .. N + 1) /\ Cardinality(0 .. N + 1) = N + 2
    <3>1. 1 \in Int /\ 0 \in Int /\ N + 3 \in Int /\ N + 1 \in Int /\ ~ (1 > N + 3) /\ ~ (0 > N + 1)
      BY <1>1
    <3>2. (N + 3) - 1 + 1 = N + 3 /\ (N + 1) - 0 + 1 = N + 2
      BY <1>1
    <3> QED BY <1>1, <3>1, <3>2, FS_Interval
  <2>5. PICK i \in Ids, j \in Ids : i # j /\ f[i] = f[j]
    <3>1. Cardinality(0 .. N + 1) < Cardinality(Ids)
      BY <1>1, <2>4
    <3> QED BY <2>3, <2>4, <3>1, FS_PigeonHole
  <2>6. \A a \in Actors : a # N + 1
    BY <1>1
  <2> QED BY <2>1, <2>2, <2>5, <2>6
<1> QED BY <1>2 DEF FreshId

LEMMA MergedRow ==
  ASSUME NEW old \in Rows, NEW snap \in Rows, NEW plan \in Rows, NEW new,
         snap.id # 0, plan.id = snap.id, old.id = snap.id,
         new = [c \in DOMAIN plan |-> IF plan[c] # snap[c] THEN plan[c] ELSE old[c]]
  PROVE  /\ new \in Rows /\ new.id = old.id
         /\ new.status = IF plan.status # snap.status THEN plan.status ELSE old.status
         /\ new.source = IF plan.source # snap.source THEN plan.source ELSE old.source
         /\ new.in = IF plan.in # snap.in THEN plan.in ELSE old.in
<1>1. DOMAIN plan = {"id", "status", "source", "in", "out", "was"}
  BY DEF Rows, Row
<1>2. /\ new.id = old.id
      /\ new.status = IF plan.status # snap.status THEN plan.status ELSE old.status
      /\ new.source = IF plan.source # snap.source THEN plan.source ELSE old.source
      /\ new.in = IF plan.in # snap.in THEN plan.in ELSE old.in
      /\ new.out = IF plan.out # snap.out THEN plan.out ELSE old.out
      /\ new.was = IF plan.was # snap.was THEN plan.was ELSE old.was
  BY <1>1
<1>3. new = [id |-> new.id, status |-> new.status, source |-> new.source, in |-> new.in,
             out |-> new.out, was |-> new.was]
  BY <1>1
<1>4. /\ new.id \in {0} \cup Ids /\ new.status \in {"attended", "absent", "on_leave", "none"}
      /\ new.source \in Sources \cup {"none"} /\ new.in \in BOOLEAN /\ new.out \in BOOLEAN
      /\ new.was \in Sources \cup {"none"}
  BY <1>2 DEF Rows, Row
<1>5. new \in Row
  BY <1>3, <1>4 DEF Row
<1> QED BY <1>2, <1>5 DEF Rows

LEMMA AppliedRow ==
  ASSUME DayAssumption, NEW p \in People, NEW row \in Rows
  PROVE  /\ Applied(p, row) = row => row.id # 0 /\ ~ Convertible(p, row)
         /\ Applied(p, row) # row =>
              /\ OnLeave(Applied(p, row)) /\ ~ row.in
              /\ row.status # "on_leave" /\ (p \in Employees => ~ IsFinal(row))
              /\ Applied(p, row).id = IF row.id = 0 THEN 1 ELSE row.id
<1>1. CASE row.id = 0
  <2>1. Applied(p, row) = New("on_leave", "leave", FALSE)
    BY <1>1, NobodyIs DEF Applied, Convertible
  <2>2. /\ Applied(p, row).id = 1 /\ Applied(p, row).status = "on_leave"
        /\ Applied(p, row).source = "leave"
    BY <2>1 DEF New, NoRow
  <2> QED BY <1>1, <2>2, NobodyIs DEF OnLeave
<1>2. CASE row.id # 0 /\ Convertible(p, row)
  <2>1. Applied(p, row) = [row EXCEPT !.status = "on_leave", !.source = "leave", !.was = row.source]
    BY <1>2 DEF Applied
  <2> QED BY <1>2, <2>1 DEF Convertible, OnLeave, Rows, Row
<1>3. CASE row.id # 0 /\ ~ Convertible(p, row)
  BY <1>3 DEF Applied
<1> QED BY <1>1, <1>2, <1>3

LEMMA RevokedRow ==
  ASSUME NEW row \in Rows
  PROVE  /\ OnLeave(row) =>
              /\ row.id # 0 /\ Revoked(row) # row /\ Revoked(row).id \in {0, row.id}
              /\ Revoked(row).status \in {"none", "absent"}
         /\ ~ OnLeave(row) => Revoked(row) = row
<1>1. CASE OnLeave(row) /\ row.was = "none"
  <2>1. Revoked(row) = NoRow /\ NoRow.id = 0 /\ NoRow.status = "none"
    BY <1>1 DEF Revoked, NoRow
  <2> QED BY <1>1, <2>1, NobodyIs
<1>2. CASE OnLeave(row) /\ row.was # "none"
  <2>1. Revoked(row) = [row EXCEPT !.status = "absent", !.source = row.was, !.was = "none"]
    BY <1>2 DEF Revoked
  <2>2. row.id # 0 /\ row.status = "on_leave"
    BY <1>2, NobodyIs DEF OnLeave
  <2>3. Revoked(row).id = row.id /\ Revoked(row).status = "absent"
    BY <2>1 DEF Rows, Row
  <2> QED BY <1>2, <2>2, <2>3
<1>3. CASE ~ OnLeave(row)
  BY <1>3 DEF Revoked
<1> QED BY <1>1, <1>2, <1>3

\* A plan makes a new row of none, and keeps or gives up the row that it read.
LEMMA PlannedIds ==
  ASSUME DayAssumption, Types, PlansAreSound, NEW a \in Actors, req[a].pc = "open", NEW p \in People,
         req[a].plan[p] # req[a].snap[p]
  PROVE  /\ req[a].snap[p] \in Rows /\ req[a].plan[p] \in Rows
         /\ req[a].snap[p].id = 0 => req[a].plan[p].id # 0
         /\ req[a].snap[p].id # 0 => req[a].plan[p].id \in {0, req[a].snap[p].id}
<1> DEFINE snap == req[a].snap[p]
           plan == req[a].plan[p]
<1>1. snap \in Rows /\ plan \in Rows
  BY DEF Types, Txn
<1>2. CASE req[a].op # "leave"
  <2>1. NewDay(snap, plan) \/ Swept(p, snap, plan) \/ Edited(p, req[a].op, snap, plan)
    BY <1>2 DEF PlansAreSound, PlanIsSound, Planned
  <2> QED BY <1>1, <2>1 DEF NewDay, Swept, Edited
<1>3. CASE req[a].op = "leave"
  <2>1. SyncPlanned(p, snap, plan)
    BY <1>3 DEF PlansAreSound, PlanIsSound
  <2> QED BY <1>1, <2>1, AppliedRow, RevokedRow DEF SyncPlanned
<1> QED BY <1>1, <1>2, <1>3

\* The four ways in which a commit treats a row: it lets it be, creates it, deletes it, or
\* writes columns of the very row that was read.
LEMMA CommitLands ==
  ASSUME DayAssumption, Types, PlansAreSound, NEW a \in Actors, Commit(a), NEW p \in People
  PROVE  LET snap == req[a].snap[p]
             plan == req[a].plan[p]
             old == rows[p]
             new == rows'[p]
         IN  /\ new \in Rows
             /\ \/ new = old /\ (plan = snap \/ a = Scheduler \/ (plan.id = 0 /\ old.id # snap.id))
                \/ /\ plan # snap /\ snap.id = 0 /\ old.id = 0
                   /\ new.id # 0 /\ new.status = plan.status /\ new.source = plan.source
                   /\ new.in = plan.in
                \/ /\ plan # snap /\ snap.id # 0 /\ plan.id = 0 /\ old.id = snap.id /\ new = NoRow
                \/ /\ plan # snap /\ snap.id # 0 /\ plan.id = snap.id /\ old.id = snap.id
                   /\ new.id = old.id
                   /\ new.status = IF plan.status # snap.status THEN plan.status ELSE old.status
                   /\ new.source = IF plan.source # snap.source THEN plan.source ELSE old.source
                   /\ new.in = IF plan.in # snap.in THEN plan.in ELSE old.in
<1> DEFINE snap == req[a].snap[p]
           plan == req[a].plan[p]
           old == rows[p]
           new == rows'[p]
<1>1. /\ req[a].pc = "open" /\ ~ Collides(a)
      /\ new = IF Conflicts(a, p) THEN old ELSE Written(p, snap, plan)
  BY DEF Commit
<1>2. snap \in Rows /\ plan \in Rows /\ old \in Rows
  BY DEF Types, Txn
<1>3. CASE Conflicts(a, p)
  <2>1. p \in Touched(a)
    BY <1>3 DEF Touched, Conflicts
  <2>2. a = Scheduler
    BY <1>1, <1>3, <2>1 DEF Collides, StaffRun
  <2> QED BY <1>1, <1>2, <1>3, <2>2
<1>4. CASE plan = snap
  <2>1. ~ Conflicts(a, p)
    BY <1>4 DEF Conflicts
  <2>2. new = old
    BY <1>1, <1>4, <2>1 DEF Written
  <2> QED BY <1>2, <1>4, <2>2
<1>5. CASE plan # snap /\ ~ Conflicts(a, p)
  <2>1. new = Written(p, snap, plan)
    BY <1>1, <1>5
  <2>2. /\ snap.id = 0 => plan.id # 0
        /\ snap.id # 0 => plan.id \in {0, snap.id}
    BY <1>1, <1>5, PlannedIds
  <2>3. CASE snap.id = 0
    <3>1. old.id = 0
      BY <1>5, <2>3 DEF Conflicts
    <3>2. new = [plan EXCEPT !.id = FreshId(p)]
      BY <1>5, <2>1, <2>3 DEF Written
    <3>3. FreshId(p) \in Ids /\ FreshId(p) # 0
      BY FreshIdIsId, OneIsId
    <3>4. /\ new \in Rows /\ new.id = FreshId(p) /\ new.status = plan.status
          /\ new.source = plan.source /\ new.in = plan.in
      BY <1>2, <3>2, <3>3 DEF Rows, Row
    <3> QED BY <1>5, <2>3, <3>1, <3>3, <3>4
  <2>4. CASE snap.id # 0 /\ plan.id = 0
    <3>1. new = IF old.id = snap.id THEN NoRow ELSE old
      BY <1>5, <2>1, <2>4 DEF Written
    <3> QED BY <1>2, <1>5, <2>4, <3>1, NoRowIsRow
  <2>5. CASE snap.id # 0 /\ plan.id # 0
    <3>1. plan.id = snap.id /\ old.id = snap.id
      BY <1>5, <2>2, <2>5 DEF Conflicts
    <3>2. new = [c \in DOMAIN plan |-> IF plan[c] # snap[c] THEN plan[c] ELSE old[c]]
      BY <1>5, <2>1, <2>5 DEF Written
    <3>3. plan # snap /\ snap.id # 0
      BY <1>5, <2>5, <3>1
    <3> HIDE DEF snap, plan, old, new
    <3>4. /\ new \in Rows /\ new.id = old.id
          /\ new.status = IF plan.status # snap.status THEN plan.status ELSE old.status
          /\ new.source = IF plan.source # snap.source THEN plan.source ELSE old.source
          /\ new.in = IF plan.in # snap.in THEN plan.in ELSE old.in
      BY <1>2, <3>1, <3>2, <3>3, MergedRow
    <3> QED BY <3>1, <3>3, <3>4 DEF snap, plan, old, new
  <2> QED BY <2>2, <2>3, <2>4, <2>5
<1> QED BY <1>3, <1>4, <1>5
\* What a handler that is no sync commits puts nobody on leave, and excuses nobody less.
LEMMA WriteLands ==
  ASSUME DayAssumption, Types, PlansAreSound, NEW a \in Actors, Commit(a), req[a].op # "leave",
         NEW p \in People, ~ Torn(a, p)
  PROVE  /\ OnLeave(rows'[p]) => OnLeave(rows[p]) /\ rows'[p].id = rows[p].id
         /\ ~ holiday /\ Excused(p) => Excused(p)'
<1> DEFINE snap == req[a].snap[p]
           plan == req[a].plan[p]
           old == rows[p]
           new == rows'[p]
<1>1. req[a].pc = "open"
  BY DEF Commit
<1>2. CASE new = old
  BY <1>2 DEF Excused
<1>3. CASE plan # snap /\ snap.id = 0 /\ old.id = 0 /\ new.source = plan.source /\ new.id # 0
  <2>1. NewDay(snap, plan)
    BY <1>1, <1>3 DEF PlansAreSound, PlanIsSound, Planned, Swept, Edited
  <2> QED BY <1>3, <2>1 DEF NewDay, OnLeave, Excused
<1>4. CASE plan # snap /\ snap.id # 0 /\ plan.id = 0 /\ new = NoRow
  <2>1. Swept(p, snap, plan) /\ holiday
    BY <1>1, <1>4 DEF PlansAreSound, PlanIsSound, Planned, NewDay, Edited
  <2> QED BY <1>4, <2>1 DEF NoRow, OnLeave
<1>5. CASE /\ plan # snap /\ snap.id # 0 /\ plan.id = snap.id /\ old.id = snap.id /\ new.id = old.id
           /\ new.status = IF plan.status # snap.status THEN plan.status ELSE old.status
           /\ new.source = IF plan.source # snap.source THEN plan.source ELSE old.source
           /\ new.in = IF plan.in # snap.in THEN plan.in ELSE old.in
  <2>1. /\ plan.source \in {snap.source, "device", "manual"}
        /\ plan.status # snap.status => plan.source \in {"device", "manual"}
        /\ p \in Pupils /\ snap.in /\ plan.status = snap.status => plan.in
    BY <1>1, <1>5 DEF PlansAreSound, PlanIsSound, Planned, NewDay, Swept, Edited
  <2>2. plan.status # snap.status /\ plan.source = snap.source => old.source = snap.source
    BY <1>5 DEF Torn, Touched
  <2>3. new.source \in {"device", "manual"} \/ (new.source = old.source /\ new.status = old.status)
    BY <1>5, <2>1, <2>2
  <2>4. p \in Pupils /\ new.status = old.status /\ new.source = old.source /\ old.in =>
          new.source \in {"device", "manual"} \/ new.in
    BY <1>5, <2>1, <2>2 DEF Types, Txn, Rows, Row
  <2> QED BY <1>5, <2>3, <2>4 DEF OnLeave, IsFinal, Excused
<1> QED BY <1>2, <1>3, <1>4, <1>5, CommitLands
-----------------------------------------------------------------------------
(* The invariant is kept. *)

LEMMA RestIsTxn ==
  ASSUME DayAssumption
  PROVE  /\ Idle \in Txn /\ Done \in Txn /\ Idle.pc = "idle" /\ Done.pc = "done"
         /\ Idle.op = "none" /\ Done.op = "none"
BY NoRowIsRow DEF Idle, Done, Txn

LEMMA SyncingIs == \A p : Syncing(p) = {r \in Requests : InSync(r) /\ owner[req[r].leave] = p}
BY DEF Syncing, InSync

\* What the leaves of q say stays right while no sync of q moves and nobody who was not on
\* leave comes to be.
LEMMA RightIsKept ==
  ASSUME NEW q \in People, Right(q), owner' = owner, holiday => holiday',
         \A l \in Leaves : owner[l] = q => leave'[l] = leave[l],
         \A r \in Requests : (r \in Syncing(q)' <=> r \in Syncing(q)),
         \A r \in Syncing(q) : req'[r] = req[r],
         OnLeave(rows'[q]) => OnLeave(rows[q]) /\ rows'[q].id = rows[q].id,
         ~ holiday' /\ Excused(q) => Excused(q)',
         \A r \in Syncing(q) : req[r].leave \in Leaves
  PROVE  Right(q)'
<1>1. Syncing(q)' = Syncing(q)
  BY DEF Syncing
<1>2. Backed(q)' = Backed(q)
  BY DEF Backed, Granted
<1>3. \A l \in Leaves : Alone(l, q)' = Alone(l, q)
  BY DEF Alone, Granted
<1>4. ASSUME NEW r \in Syncing(q) PROVE SyncIsRight(r, q)'
  <2>1. SyncIsRight(r, q) /\ req'[r] = req[r] /\ leave'[req[r].leave] = leave[req[r].leave]
    BY <1>4, SyncingIs DEF Right
  <2>2. req[r].leave \in Leaves /\ Alone(req[r].leave, q)' = Alone(req[r].leave, q)
    BY <1>3, <1>4
  <2>3. ~ holiday' => ~ holiday /\ (Excused(q) => Excused(q)')
    OBVIOUS
  <2> QED BY <1>2, <2>1, <2>2, <2>3 DEF SyncIsRight, Granted
<1> QED BY <1>1, <1>2, <1>3, <1>4 DEF Right
\* One transaction moves, and what it did not read or write stays.
LEMMA PlansAreKept ==
  ASSUME PlansAreSound, owner' = owner, holiday => holiday', NEW a \in Actors,
         \A b \in Actors \ {a} : req'[b] = req[b],
         req'[a].pc = "open" => PlanIsSound(a)'
  PROVE  PlansAreSound'
<1> SUFFICES ASSUME NEW b \in Actors, b # a, req'[b].pc = "open" PROVE PlanIsSound(b)'
  BY DEF PlansAreSound
<1>1. req'[b] = req[b] /\ PlanIsSound(b)
  BY DEF PlansAreSound
<1> QED BY <1>1 DEF PlanIsSound

\* A handler that is no sync begins.
LEMMA WriteBegins ==
  ASSUME DayAssumption, DayInv, NEW a \in Actors, NEW op \in {"write", "early"},
         a = Scheduler => op = "write", req[a].pc = "idle",
         NEW snap \in [People -> Rows], NEW plan \in [People -> Rows],
         \A p \in People : /\ Planned(p, op, snap[p], plan[p])
                           /\ Swept(p, snap[p], plan[p]) => holiday,
         NEW rest \in {Idle, Done}, a = Scheduler => rest = Idle,
         req' = [req EXCEPT ![a] = IF plan = snap THEN rest
                                   ELSE [@ EXCEPT !.pc = "open", !.op = op, !.snap = snap, !.plan = plan]],
         UNCHANGED <<rows, leave, owner, clock, holiday, shifts, muddled, faults>>
  PROVE  DayInv'
<1>1. req \in [Actors -> Txn] /\ Idle \in Txn /\ Done \in Txn
  BY RestIsTxn DEF DayInv, Types
<1>2. \A b \in Actors \ {a} : req'[b] = req[b]
  BY <1>1
<1>3. \/ req'[a] = rest
      \/ /\ req'[a].pc = "open" /\ req'[a].op = op /\ req'[a].snap = snap /\ req'[a].plan = plan
         /\ req'[a] \in Txn
  BY <1>1 DEF Txn
<1>4. req'[a].pc \in {"idle", "done", "open"} /\ req'[a].op # "leave" /\ req'[a] \in Txn
      /\ (a = Scheduler => req'[a].pc \in {"idle", "open"} /\ req'[a].op \in {"none", "write"})
  BY <1>3, RestIsTxn
<1>5. \A r \in Requests : /\ (InSync(r)' <=> InSync(r)) /\ (InSync(r) => req'[r] = req[r])
                          /\ HasLeave(r)' => HasLeave(r) /\ req'[r] = req[r]
  BY <1>2, <1>4 DEF InSync, HasLeave, Actors
<1>6. Types'
  <2>1. req' \in [Actors -> Txn]
    BY <1>1, <1>4
  <2>2. Scheduler \in Actors
    BY DEF Actors
  <2>3. req'[Scheduler].pc \in {"idle", "open"} /\ req'[Scheduler].op \notin {"early", "leave"}
    BY <1>2, <1>4, <2>2 DEF DayInv, Types
  <2> QED BY <1>5, <2>1, <2>3 DEF DayInv, Types
<1>7. PlansAreSound'
  <2>1. req'[a].pc = "open" => PlanIsSound(a)'
    BY <1>3, RestIsTxn DEF PlanIsSound
  <2> QED BY <1>2, <2>1, PlansAreKept DEF DayInv
<1>8. LeavesAreRight'
  <2> SUFFICES ASSUME NEW q \in People, ~ muddled[q] PROVE Right(q)'
    BY DEF LeavesAreRight
  <2>1. Right(q)
    BY DEF DayInv, LeavesAreRight
  <2>2. \A r \in Requests : (r \in Syncing(q)' <=> r \in Syncing(q))
    BY <1>5, SyncingIs DEF InSync, Syncing
  <2>3. \A r \in Syncing(q) : req'[r] = req[r] /\ req[r].leave \in Leaves
    BY <1>5, SyncingIs DEF DayInv, Types, HasLeave
  <2>4. Excused(q) => Excused(q)'
    BY DEF Excused
  <2> QED BY <2>1, <2>2, <2>3, <2>4, RightIsKept
<1> QED BY <1>6, <1>7, <1>8 DEF DayInv
\* The scans, the sheets and the clean-up of a holiday.
LEMMA HandlersInv ==
  ASSUME DayAssumption, DayInv, NEW r \in Requests,
         \/ \E p \in People, at \in {0, Cutoff, Departure} :
              AiFacePunch(r, p, at) \/ StudentScan(r, p, at) \/ EmployeePunch(r, p, at)
         \/ \E p \in Pupils : HardwareSync(r, p)
         \/ \E p \in Pupils, intent \in {"in", "out", "any"} : RecordAttendance(r, p, intent)
         \/ \E marks \in [Pupils -> Marks] : Take(r, marks)
         \/ \E e \in Employees, mark \in Marks : ManualAttendanceSave(r, e, mark)
         \/ CleanupHolidayAbsences(r)
  PROVE  DayInv'
<1>1. /\ rows \in [People -> Rows] /\ r \in Actors /\ r # Scheduler
      /\ {0, Cutoff, Departure} \subseteq Clock
  BY DEF DayInv, Types, Actors, Requests, Scheduler, Cutoff, Departure, Clock, NextDay, DayAssumption
<1> DEFINE Snap(S) == [p \in People |-> IF p \in S THEN rows[p] ELSE NoRow]
           Early(at) == IF at < Cutoff THEN "early" ELSE "write"
<1>2. \A S : Snap(S) \in [People -> Rows]
  BY <1>1, NoRowIsRow
<1>3. \A p, op : Planned(p, op, NoRow, NoRow) /\ ~ Swept(p, NoRow, NoRow)
  BY DEF Planned, Swept, NoRow
<1>4. Pupils \subseteq People /\ Employees \subseteq People
  BY DEF People
<1>5. ASSUME NEW p \in People, NEW at \in {0, Cutoff, Departure},
             AiFacePunch(r, p, at) \/ StudentScan(r, p, at)
      PROVE  DayInv'
  <2> DEFINE plan == [q \in People |-> IF q \in {p} THEN Punched(rows[q], at) ELSE NoRow]
  <2>1. /\ p \in Pupils /\ Begin(r, "write", {p}, LAMBDA q, row : Punched(row, at))
    BY <1>5 DEF AiFacePunch, StudentScan
  <2>2. /\ req[r].pc = "idle" /\ UNCHANGED <<rows, leave, owner, clock, holiday, shifts, muddled, faults>>
        /\ req' = [req EXCEPT ![r] = IF plan = Snap({p}) THEN Done
                     ELSE [@ EXCEPT !.pc = "open", !.op = "write", !.snap = Snap({p}), !.plan = plan]]
    BY <2>1 DEF Begin, Arrives, Plan
  <2>3. \A q \in People : /\ plan[q] \in Rows /\ Planned(q, "write", Snap({p})[q], plan[q])
                          /\ ~ Swept(q, Snap({p})[q], plan[q])
    BY <1>1, <1>3, <2>1, PunchIsPlanned, NoRowIsRow
  <2>4. plan \in [People -> Rows]
    BY <2>3
  <2> HIDE DEF plan
  <2> QED BY <1>1, <1>2, <2>2, <2>3, <2>4, WriteBegins
<1>6. ASSUME NEW p \in People, NEW at \in {0, Cutoff, Departure},
             EmployeePunch(r, p, at)
      PROVE  DayInv'
  <2> DEFINE plan == [q \in People |-> IF q \in {p} THEN FacePunched(rows[q], at) ELSE NoRow]
  <2>1. p \in Employees /\ Begin(r, Early(at), {p}, LAMBDA q, row : FacePunched(row, at))
    BY <1>6 DEF EmployeePunch
  <2>2. /\ req[r].pc = "idle" /\ UNCHANGED <<rows, leave, owner, clock, holiday, shifts, muddled, faults>>
        /\ req' = [req EXCEPT ![r] = IF plan = Snap({p}) THEN Done
                     ELSE [@ EXCEPT !.pc = "open", !.op = Early(at), !.snap = Snap({p}), !.plan = plan]]
    BY <2>1 DEF Begin, Arrives, Plan
  <2>3. \A q \in People : /\ plan[q] \in Rows /\ Planned(q, Early(at), Snap({p})[q], plan[q])
                          /\ ~ Swept(q, Snap({p})[q], plan[q])
    BY <1>1, <1>3, <1>4, <2>1, FacePunchIsPlanned, NoRowIsRow
  <2>4. plan \in [People -> Rows]
    BY <2>3
  <2> HIDE DEF plan
  <2> QED BY <1>1, <1>2, <2>2, <2>3, <2>4, WriteBegins
<1>7. ASSUME NEW p \in Pupils,
             HardwareSync(r, p)
      PROVE  DayInv'
  <2> DEFINE plan == [q \in People |-> IF q \in {p} THEN Synced(rows[q]) ELSE NoRow]
  <2>1. Begin(r, "write", {p}, LAMBDA q, row : Synced(row))
    BY <1>7 DEF HardwareSync
  <2>2. /\ req[r].pc = "idle" /\ UNCHANGED <<rows, leave, owner, clock, holiday, shifts, muddled, faults>>
        /\ req' = [req EXCEPT ![r] = IF plan = Snap({p}) THEN Done
                     ELSE [@ EXCEPT !.pc = "open", !.op = "write", !.snap = Snap({p}), !.plan = plan]]
    BY <2>1 DEF Begin, Arrives, Plan
  <2>3. \A q \in People : /\ plan[q] \in Rows /\ Planned(q, "write", Snap({p})[q], plan[q])
                          /\ ~ Swept(q, Snap({p})[q], plan[q])
    BY <1>1, <1>3, <1>4, <2>1, SyncedIsPlanned, NoRowIsRow
  <2>4. plan \in [People -> Rows]
    BY <2>3
  <2> HIDE DEF plan
  <2> QED BY <1>1, <1>2, <2>2, <2>3, <2>4, WriteBegins
<1>8. ASSUME NEW p \in Pupils, NEW intent \in {"in", "out", "any"},
             RecordAttendance(r, p, intent)
      PROVE  DayInv'
  <2> DEFINE plan == [q \in People |-> IF q \in {p} THEN Recorded(rows[q], intent) ELSE NoRow]
  <2>1. Begin(r, "write", {p}, LAMBDA q, row : Recorded(row, intent))
    BY <1>8 DEF RecordAttendance
  <2>2. /\ req[r].pc = "idle" /\ UNCHANGED <<rows, leave, owner, clock, holiday, shifts, muddled, faults>>
        /\ req' = [req EXCEPT ![r] = IF plan = Snap({p}) THEN Done
                     ELSE [@ EXCEPT !.pc = "open", !.op = "write", !.snap = Snap({p}), !.plan = plan]]
    BY <2>1 DEF Begin, Arrives, Plan
  <2>3. \A q \in People : /\ plan[q] \in Rows /\ Planned(q, "write", Snap({p})[q], plan[q])
                          /\ ~ Swept(q, Snap({p})[q], plan[q])
    BY <1>1, <1>3, <1>4, <2>1, RecordIsPlanned, NoRowIsRow
  <2>4. plan \in [People -> Rows]
    BY <2>3
  <2> HIDE DEF plan
  <2> QED BY <1>1, <1>2, <2>2, <2>3, <2>4, WriteBegins
<1>9. ASSUME NEW marks \in [Pupils -> Marks],
             Take(r, marks)
      PROVE  DayInv'
  <2> DEFINE plan == [q \in People |-> IF q \in Pupils THEN Marked(rows[q], marks[q]) ELSE NoRow]
  <2>1. Begin(r, "write", Pupils, LAMBDA q, row : Marked(row, marks[q]))
    BY <1>9 DEF Take
  <2>2. /\ req[r].pc = "idle" /\ UNCHANGED <<rows, leave, owner, clock, holiday, shifts, muddled, faults>>
        /\ req' = [req EXCEPT ![r] = IF plan = Snap(Pupils) THEN Done
                     ELSE [@ EXCEPT !.pc = "open", !.op = "write", !.snap = Snap(Pupils), !.plan = plan]]
    BY <2>1 DEF Begin, Arrives, Plan
  <2>3. \A q \in People : /\ plan[q] \in Rows /\ Planned(q, "write", Snap(Pupils)[q], plan[q])
                          /\ ~ Swept(q, Snap(Pupils)[q], plan[q])
    BY <1>1, <1>3, <1>4, <2>1, MarkIsPlanned, NoRowIsRow
  <2>4. plan \in [People -> Rows]
    BY <2>3
  <2> HIDE DEF plan
  <2> QED BY <1>1, <1>2, <2>2, <2>3, <2>4, WriteBegins
<1>10. ASSUME NEW e \in Employees, NEW mark \in Marks,
             ManualAttendanceSave(r, e, mark)
      PROVE  DayInv'
  <2> DEFINE plan == [q \in People |-> IF q \in {e} THEN Saved(rows[q], mark) ELSE NoRow]
  <2>1. Begin(r, "write", {e}, LAMBDA q, row : Saved(row, mark))
    BY <1>10 DEF ManualAttendanceSave
  <2>2. /\ req[r].pc = "idle" /\ UNCHANGED <<rows, leave, owner, clock, holiday, shifts, muddled, faults>>
        /\ req' = [req EXCEPT ![r] = IF plan = Snap({e}) THEN Done
                     ELSE [@ EXCEPT !.pc = "open", !.op = "write", !.snap = Snap({e}), !.plan = plan]]
    BY <2>1 DEF Begin, Arrives, Plan
  <2>3. \A q \in People : /\ plan[q] \in Rows /\ Planned(q, "write", Snap({e})[q], plan[q])
                          /\ ~ Swept(q, Snap({e})[q], plan[q])
    BY <1>1, <1>3, <1>4, <2>1, SaveIsPlanned, NoRowIsRow
  <2>4. plan \in [People -> Rows]
    BY <2>3
  <2> HIDE DEF plan
  <2> QED BY <1>1, <1>2, <2>2, <2>3, <2>4, WriteBegins
<1>11. ASSUME CleanupHolidayAbsences(r)
      PROVE  DayInv'
  <2> DEFINE plan == [q \in People |-> IF q \in Pupils THEN Cleaned(rows[q]) ELSE NoRow]
  <2>1. holiday /\ Begin(r, "write", Pupils, LAMBDA q, row : Cleaned(row))
    BY <1>11 DEF CleanupHolidayAbsences
  <2>2. /\ req[r].pc = "idle" /\ UNCHANGED <<rows, leave, owner, clock, holiday, shifts, muddled, faults>>
        /\ req' = [req EXCEPT ![r] = IF plan = Snap(Pupils) THEN Done
                     ELSE [@ EXCEPT !.pc = "open", !.op = "write", !.snap = Snap(Pupils), !.plan = plan]]
    BY <2>1 DEF Begin, Arrives, Plan
  <2>3. \A q \in People : /\ plan[q] \in Rows /\ Planned(q, "write", Snap(Pupils)[q], plan[q])
                          /\ (Swept(q, Snap(Pupils)[q], plan[q]) => holiday)
    BY <1>1, <1>3, <1>4, <2>1, CleaningIsPlanned, NoRowIsRow
  <2>4. plan \in [People -> Rows]
    BY <2>3
  <2> HIDE DEF plan
  <2> QED BY <1>1, <1>2, <2>2, <2>3, <2>4, WriteBegins
<1> QED BY <1>5, <1>6, <1>7, <1>8, <1>9, <1>10, <1>11
\* The automatic absence.
LEMMA RunInv ==
  ASSUME DayAssumption, DayInv, NEW a \in Actors, NEW S, Run(a, S)
  PROVE  DayInv'
<1> DEFINE snap == [p \in People |-> IF p \in S THEN rows[p] ELSE NoRow]
           plan == [p \in People |-> IF p \in S THEN MarkedAbsent(rows[p]) ELSE NoRow]
<1>1. rows \in [People -> Rows]
  BY DEF DayInv, Types
<1>2. snap \in [People -> Rows]
  BY <1>1, NoRowIsRow
<1>3. \A p \in People : /\ plan[p] \in Rows /\ Planned(p, "write", snap[p], plan[p])
                        /\ ~ Swept(p, snap[p], plan[p])
  <2>1. \A p : Planned(p, "write", NoRow, NoRow) /\ ~ Swept(p, NoRow, NoRow)
    BY DEF Planned, Swept, NoRow
  <2> QED BY <1>1, <2>1, AbsenceIsPlanned, NoRowIsRow
<1>4. plan \in [People -> Rows]
  BY <1>3
<1>5. /\ req[a].pc = "idle" /\ UNCHANGED <<rows, leave, owner, clock, holiday, shifts, muddled, faults>>
      /\ req' = [req EXCEPT ![a] = IF plan = snap THEN Idle
                   ELSE [@ EXCEPT !.pc = "open", !.op = "write", !.snap = snap, !.plan = plan]]
  BY DEF Run, Plan
<1> HIDE DEF plan, snap
<1> QED BY <1>2, <1>3, <1>4, <1>5, WriteBegins
-----------------------------------------------------------------------------
(* The leaves. *)

\* A sync moves, of the leave l of p: what the leaves of everybody else say stays right.
LEMMA OthersStayRight ==
  ASSUME DayAssumption, DayInv, NEW r \in Requests, NEW l \in Leaves, NEW q \in People, q # owner[l],
         \A b \in Actors \ {r} : req'[b] = req[b],
         req[r].leave = l \/ ~ InSync(r), req'[r].leave = l \/ ~ InSync(r)',
         owner' = owner, holiday' = holiday, rows'[q] = rows[q],
         \A k \in Leaves \ {l} : leave'[k] = leave[k],
         ~ muddled[q]
  PROVE  Right(q)'
<1>1. Right(q)
  BY DEF DayInv, LeavesAreRight
<1>2. \A b \in Requests : b \in Syncing(q)' <=> b \in Syncing(q)
  <2> SUFFICES ASSUME NEW b \in Requests PROVE b \in Syncing(q)' <=> b \in Syncing(q)
    OBVIOUS
  <2>1. CASE b = r
    BY <2>1, SyncingIs DEF Syncing, InSync
  <2>2. CASE b # r
    <3>1. req'[b] = req[b]
      BY <2>2 DEF Actors
    <3> QED BY <3>1 DEF Syncing
  <2> QED BY <2>1, <2>2
<1>3. \A b \in Syncing(q) : req'[b] = req[b] /\ req[b].leave \in Leaves
  <2> SUFFICES ASSUME NEW b \in Syncing(q) PROVE req'[b] = req[b] /\ req[b].leave \in Leaves
    OBVIOUS
  <2>1. b \in Requests /\ InSync(b) /\ owner[req[b].leave] = q
    BY SyncingIs
  <2>2. b # r /\ b \in Actors
    BY <2>1 DEF Actors
  <2> QED BY <2>1, <2>2 DEF DayInv, Types, HasLeave
<1>4. Excused(q) => Excused(q)'
  BY DEF Excused
<1> QED BY <1>1, <1>2, <1>3, <1>4, RightIsKept

\* The first transaction: the leave changes, and its days are to follow.
LEMMA StartSyncInv ==
  ASSUME DayAssumption, DayInv, NEW r \in Requests, NEW l \in Leaves,
         NEW pc \in {"decided", "edited"}, req[r].pc \in {"idle", "deciding", "editing"},
         \E stale \in BOOLEAN :
           StartSync(r, l, pc, stale) /\ (pc = "edited" /\ ~ stale => req[r].old = leave[l].covers),
         NEW new \in [status : Statuses, covers : BOOLEAN], leave' = [leave EXCEPT ![l] = new],
         new.status # "none",
         pc = "decided" => new.covers = leave[l].covers,
         pc = "edited" => new.status = leave[l].status
  PROVE  DayInv'
<1> DEFINE p == owner[l]
<1>1. /\ UNCHANGED <<rows, owner, clock, holiday, shifts, faults>>
      /\ req' = [req EXCEPT ![r] = [@ EXCEPT !.pc = pc, !.leave = l, !.verdict = "none"]]
  BY DEF StartSync
<1>m. PICK stale \in BOOLEAN :
        /\ muddled' = [muddled EXCEPT ![p] = @ \/ stale \/ Syncing(p) # {}]
        /\ pc = "edited" /\ ~ stale => req[r].old = leave[l].covers
  BY DEF StartSync
<1>2. /\ req \in [Actors -> Txn] /\ r \in Actors /\ r # Scheduler /\ p \in People
      /\ leave \in [Leaves -> [status : Statuses, covers : BOOLEAN]]
      /\ muddled \in [People -> BOOLEAN]
  BY DEF DayInv, Types, Actors, Requests, Scheduler, DayAssumption
<1>3. \A b \in Actors \ {r} : req'[b] = req[b]
  BY <1>1, <1>2
<1>4. req'[r] \in Txn /\ req'[r].pc = pc /\ req'[r].leave = l /\ req'[r].old = req[r].old
  <2>1. req'[r] = [req[r] EXCEPT !.pc = pc, !.leave = l, !.verdict = "none"] /\ req[r] \in Txn
    BY <1>1, <1>2
  <2> QED BY <2>1 DEF Txn
<1>5. leave'[l] = new /\ \A k \in Leaves \ {l} : leave'[k] = leave[k]
  BY <1>2
<1>6. Types'
  <2>1. req' \in [Actors -> Txn] /\ muddled' \in [People -> BOOLEAN]
    BY <1>1, <1>m, <1>2, <1>4
  <2>2. leave' \in [Leaves -> [status : Statuses, covers : BOOLEAN]]
    BY <1>2
  <2>3. Scheduler \in Actors /\ req'[Scheduler] = req[Scheduler]
    BY <1>2, <1>3 DEF Actors
  <2>4. ASSUME NEW b \in Requests, HasLeave(b)' PROVE req'[b].leave \in Leaves /\ leave'[req'[b].leave].status # "none"
    <3>1. CASE b = r
      BY <1>4, <1>5, <3>1
    <3>2. CASE b # r
      <4>1. req'[b] = req[b]
        BY <1>3, <3>2 DEF Actors
      <4>2. HasLeave(b)
        BY <2>4, <4>1 DEF InSync, HasLeave
      <4> QED BY <1>5, <4>1, <4>2 DEF DayInv, Types
    <3> QED BY <3>1, <3>2
  <2> QED BY <1>1, <2>1, <2>2, <2>3, <2>4 DEF DayInv, Types
<1>7. PlansAreSound'
  <2>1. req'[r].pc # "open"
    BY <1>4
  <2> QED BY <1>1, <1>2, <1>3, <2>1, PlansAreKept DEF DayInv
<1>8. LeavesAreRight'
  <2> SUFFICES ASSUME NEW q \in People, ~ muddled'[q] PROVE Right(q)'
    BY DEF LeavesAreRight
  <2>1. CASE q # p
    <3>1. ~ muddled[q] /\ ~ InSync(r)
      BY <1>m, <1>2, <2>1 DEF InSync
    <3> QED BY <1>1, <1>3, <1>4, <1>5, <2>1, <3>1, OthersStayRight
  <2>2. CASE q = p
    <3>1. ~ muddled[q] /\ Syncing(q) = {} 
          /\ (pc = "edited" => req[r].old = leave[l].covers)
      BY <1>m, <1>2, <2>2
    <3>2. OnLeave(rows[q]) => Backed(q)
      BY <1>2, <3>1 DEF DayInv, LeavesAreRight, Right
    <3>3. Syncing(q)' = {r}
      <4>1. r \in Syncing(q)'
        BY <1>1, <1>4, <2>2 DEF Syncing
      <4>2. ASSUME NEW b \in Syncing(q)' PROVE b = r
        <5> SUFFICES ASSUME b # r PROVE FALSE
          OBVIOUS
        <5>1. b \in Requests /\ req'[b] = req[b]
          BY <1>3, <4>2 DEF Syncing, Actors
        <5>2. b \in Syncing(q)
          BY <1>1, <4>2, <5>1 DEF Syncing
        <5> QED BY <3>1, <5>2
      <4> QED BY <4>1, <4>2
    <3>4. OnLeave(rows[q]) => Backed(q)' \/ Granted(l)
      BY <1>1, <1>5, <2>2, <3>2 DEF Backed, Granted
    <3>5. ASSUME pc = "edited", ~ holiday, req[r].old, Alone(l, q)' PROVE Excused(q)'
      <4>1. leave[l].covers /\ new.covers /\ new.status = leave[l].status
        BY <1>5, <3>1, <3>5 DEF Alone, Granted
      <4>2. new = leave[l]
        BY <1>2, <4>1
      <4>3. leave' = leave
        BY <1>2, <4>2
      <4>4. Alone(l, q)
        BY <1>1, <3>5, <4>3 DEF Alone, Granted
      <4>5. Excused(q)
        BY <3>1, <3>5, <4>4 DEF DayInv, LeavesAreRight, Right
      <4> QED BY <1>1, <4>5 DEF Excused
    <3>6. SyncIsRight(r, q)'
      <4>1. pc = "edited" /\ ~ holiday /\ req[r].old /\ Alone(l, q)' => Excused(q)'
        BY <3>5
      <4>2. pc = "edited" /\ OnLeave(rows[q]) =>
              Backed(q)' \/ (req[r].old /\ ~ new.covers /\ new.status = "approved")
        <5> SUFFICES ASSUME pc = "edited", OnLeave(rows[q]), Granted(l), new.covers PROVE Backed(q)'
          BY <3>1, <3>4 DEF Granted
        <5>1. Granted(l)' /\ owner'[l] = q
          BY <1>1, <1>5, <2>2 DEF Granted
        <5> QED BY <5>1 DEF Backed
      <4>3. pc = "decided" /\ OnLeave(rows[q]) => Backed(q)' \/ new.covers
        BY <3>4 DEF Granted
      <4>4. /\ req'[r].leave = l /\ req'[r].pc = pc /\ req'[r].old = req[r].old /\ leave'[l] = new
            /\ rows' = rows /\ holiday' = holiday
        BY <1>1, <1>4, <1>5
      <4> QED BY <4>1, <4>2, <4>3, <4>4 DEF SyncIsRight, OnLeave
    <3> QED BY <2>2, <3>3, <3>6 DEF Right
  <2> QED BY <2>1, <2>2
<1> QED BY <1>6, <1>7, <1>8 DEF DayInv

\* A form reads a leave.
LEMMA ReadInv ==
  ASSUME DayAssumption, DayInv, NEW r \in Requests, NEW l \in Leaves,
         NEW pc \in {"deciding", "editing"}, NEW old \in BOOLEAN,
         NEW verdict \in {"none", "approved", "rejected"}, ReadLeave(r, l, pc, old, verdict)
  PROVE  DayInv'
<1>1. /\ req[r].pc = "idle" /\ leave[l].status # "none"
      /\ req' = [req EXCEPT ![r] = [@ EXCEPT !.pc = pc, !.leave = l, !.old = old, !.verdict = verdict]]
      /\ UNCHANGED <<rows, leave, owner, clock, holiday, shifts, muddled, faults>>
  BY DEF ReadLeave, Arrives
<1>2. req \in [Actors -> Txn] /\ r \in Actors /\ r # Scheduler
  BY DEF DayInv, Types, Actors, Requests, Scheduler, DayAssumption
<1>3. \A b \in Actors \ {r} : req'[b] = req[b]
  BY <1>1, <1>2
<1>4. req'[r] \in Txn /\ req'[r].pc = pc /\ req'[r].leave = l
  <2>1. req'[r] = [req[r] EXCEPT !.pc = pc, !.leave = l, !.old = old, !.verdict = verdict] /\ req[r] \in Txn
    BY <1>1, <1>2
  <2> QED BY <2>1 DEF Txn
<1>5. \A b \in Requests : /\ (InSync(b)' <=> InSync(b)) /\ (InSync(b) => req'[b] = req[b])
                          /\ b # r => (HasLeave(b)' => HasLeave(b)) /\ req'[b] = req[b]
  BY <1>1, <1>3, <1>4 DEF InSync, HasLeave, Actors
<1>6. Types'
  <2>1. req' \in [Actors -> Txn]
    BY <1>1, <1>2, <1>4
  <2>2. Scheduler \in Actors /\ req'[Scheduler] = req[Scheduler]
    BY <1>2, <1>3 DEF Actors
  <2>3. ASSUME NEW b \in Requests, HasLeave(b)'
        PROVE  req'[b].leave \in Leaves /\ leave'[req'[b].leave].status # "none"
    BY <1>1, <1>4, <1>5, <2>3 DEF DayInv, Types
  <2> QED BY <1>1, <2>1, <2>2, <2>3 DEF DayInv, Types
<1>7. PlansAreSound'
  <2>1. req'[r].pc # "open"
    BY <1>4
  <2> QED BY <1>1, <1>2, <1>3, <2>1, PlansAreKept DEF DayInv
<1>8. LeavesAreRight'
  <2> SUFFICES ASSUME NEW q \in People, ~ muddled[q] PROVE Right(q)'
    BY <1>1 DEF LeavesAreRight
  <2>1. Right(q)
    BY DEF DayInv, LeavesAreRight
  <2>2. \A b \in Requests : (b \in Syncing(q)' <=> b \in Syncing(q))
    BY <1>1, <1>5, SyncingIs DEF InSync, Syncing
  <2>3. \A b \in Syncing(q) : req'[b] = req[b] /\ req[b].leave \in Leaves
    BY <1>5, SyncingIs DEF DayInv, Types, HasLeave
  <2>4. Excused(q) => Excused(q)'
    BY <1>1 DEF Excused
  <2> QED BY <1>1, <2>1, <2>2, <2>3, <2>4, RightIsKept
<1> QED BY <1>6, <1>7, <1>8 DEF DayInv

LEMMA DecisionsInv == ASSUME DayAssumption, DayInv, NEW r \in Requests, Decide(r) PROVE DayInv'
<1>1. leave \in [Leaves -> [status : Statuses, covers : BOOLEAN]]
  BY DEF DayInv, Types
<1>2. ASSUME NEW l \in Leaves, NEW verdict \in {"approved", "rejected"}, DecideLeave(r, l, verdict)
      PROVE  DayInv'
  <2>1. (IF verdict = leave[l].status THEN "none" ELSE verdict) \in {"none", "approved", "rejected"}
    OBVIOUS
  <2> QED BY <1>2, <2>1, ReadInv DEF DecideLeave
<1>3. ASSUME NEW l \in Leaves, CreateLeave(r, l) PROVE DayInv'
  <2> DEFINE new == [leave[l] EXCEPT !.status = "approved"]
  <2>1. /\ new \in [status : Statuses, covers : BOOLEAN] /\ new.status # "none"
        /\ new.covers = leave[l].covers
    BY <1>1 DEF Statuses
  <2>2. leave' = [leave EXCEPT ![l] = new] /\ StartSync(r, l, "decided", FALSE) /\ req[r].pc = "idle"
    BY <1>3 DEF CreateLeave, Arrives
  <2> HIDE DEF new
  <2> QED BY <2>1, <2>2, StartSyncInv
<1>4. ASSUME NEW l \in Leaves, EditDates(r, l) PROVE DayInv'
  <2>1. leave[l].covers \in BOOLEAN
    BY <1>1
  <2> QED BY <1>4, <2>1, ReadInv DEF EditDates
<1>5. ASSUME NEW l \in Leaves, Backfill(r, l) PROVE DayInv'
  <2>1. /\ leave[l] \in [status : Statuses, covers : BOOLEAN] /\ leave[l].status # "none"
    BY <1>1, <1>5 DEF Backfill
  <2>2. leave' = [leave EXCEPT ![l] = leave[l]] /\ StartSync(r, l, "decided", FALSE)
        /\ req[r].pc = "idle"
    BY <1>1, <1>5 DEF Backfill, Arrives
  <2> QED BY <2>1, <2>2, StartSyncInv
<1> QED BY <1>2, <1>3, <1>4, <1>5 DEF Decide

\* The decision and the new dates are committed.
LEMMA DecisionCommitsInv ==
  ASSUME DayAssumption, DayInv, NEW r \in Requests, CommitDecision(r) \/ CommitDates(r)
  PROVE  DayInv'
<1> DEFINE l == req[r].leave
<1>1. /\ leave \in [Leaves -> [status : Statuses, covers : BOOLEAN]]
      /\ l \in Leaves /\ leave[l].status # "none" /\ req[r] \in Txn
  BY DEF DayInv, Types, HasLeave, CommitDecision, CommitDates, Actors
<1>2. CASE CommitDecision(r)
  <2> DEFINE new == [leave[l] EXCEPT !.status = IF req[r].verdict = "none" THEN @ ELSE req[r].verdict]
  <2>1. /\ new \in [status : Statuses, covers : BOOLEAN] /\ new.status # "none"
        /\ new.covers = leave[l].covers
    BY <1>1 DEF Statuses, Txn
  <2>2. leave' = [leave EXCEPT ![l] = new] /\ StartSync(r, l, "decided", FALSE) /\ req[r].pc = "deciding"
    BY <1>2 DEF CommitDecision
  <2> HIDE DEF new, l
  <2> QED BY <1>1, <2>1, <2>2, StartSyncInv
<1>3. CASE CommitDates(r)
  <2>1. PICK covers \in BOOLEAN : leave' = [leave EXCEPT ![l].covers = covers]
    BY <1>3 DEF CommitDates
  <2> DEFINE new == [leave[l] EXCEPT !.covers = covers]
             stale == leave[l].covers # req[r].old
  <2>2. new \in [status : Statuses, covers : BOOLEAN] /\ new.status = leave[l].status
    BY <1>1
  <2>3. leave' = [leave EXCEPT ![l] = new]
    BY <1>1, <2>1
  <2>4. StartSync(r, l, "edited", stale)
    BY <1>3, Zenon DEF CommitDates
  <2>5. \E x \in BOOLEAN : StartSync(r, l, "edited", x) /\ (~ x => req[r].old = leave[l].covers)
    BY <2>4, Zenon
  <2>6. req[r].pc = "editing"
    BY <1>3 DEF CommitDates
  <2> HIDE DEF new, stale, l
  <2> QED BY <1>1, <2>2, <2>3, <2>5, <2>6, StartSyncInv
<1> QED BY <1>2, <1>3

\* The one sync of p that is under way.
LEMMA OnlySync ==
  ASSUME DayAssumption, DayInv, NEW r \in Requests, InSync(r), NEW p \in People, p = owner[req[r].leave],
         ~ muddled[p]
  PROVE  /\ Syncing(p) = {r} /\ SyncIsRight(r, p)
         /\ \A l \in Leaves : Alone(l, p) => l = req[r].leave
<1>1. req[r].leave \in Leaves /\ leave[req[r].leave].status # "none"
  BY DEF DayInv, Types, HasLeave
<1>2. r \in Syncing(p) /\ Right(p)
  BY SyncingIs DEF DayInv, LeavesAreRight
<1> QED BY <1>1, <1>2 DEF Right, Alone

\* The sync of r goes on, or ends with or without its days.
LEMMA SyncMoves ==
  ASSUME DayAssumption, DayInv, NEW r \in Requests, InSync(r), NEW p \in People, p = owner[req[r].leave],
         NEW new \in Txn, req' = [req EXCEPT ![r] = new], new.leave = req[r].leave \/ new = Done,
         UNCHANGED <<leave, owner, clock, holiday, shifts>>, faults' \in 0 .. MaxFaults,
         rows' \in [People -> Rows], muddled' \in [People -> BOOLEAN],
         \A q \in People : muddled[q] => muddled'[q],
         new.pc = "open" => PlanIsSound(r)',
         \A q \in People : q # p => rows'[q] = rows[q],
         ~ muddled'[p] => Right(p)'
  PROVE  DayInv'
<1> DEFINE l == req[r].leave
<1>1. /\ req \in [Actors -> Txn] /\ r \in Actors /\ r # Scheduler
      /\ l \in Leaves /\ leave[l].status # "none"
  BY DEF DayInv, Types, HasLeave, Actors, Requests, Scheduler, DayAssumption
<1>2. req'[r] = new /\ \A b \in Actors \ {r} : req'[b] = req[b]
  BY <1>1
<1>3. InSync(r)' \/ HasLeave(r)' => req'[r].leave = l
  BY <1>2, RestIsTxn DEF InSync, HasLeave
<1>4. Types'
  <2>1. req' \in [Actors -> Txn]
    BY <1>1
  <2>2. Scheduler \in Actors /\ req'[Scheduler] = req[Scheduler]
    BY <1>1, <1>2 DEF Actors
  <2>3. ASSUME NEW b \in Requests, HasLeave(b)' PROVE req'[b].leave \in Leaves /\ leave'[req'[b].leave].status # "none"
    <3>1. CASE b = r
      BY <1>1, <1>3, <2>3, <3>1
    <3>2. CASE b # r
      <4>1. req'[b] = req[b]
        BY <1>2, <3>2 DEF Actors
      <4>2. HasLeave(b)
        BY <2>3, <4>1 DEF InSync, HasLeave
      <4> QED BY <4>1, <4>2 DEF DayInv, Types
    <3> QED BY <3>1, <3>2
  <2> QED BY <2>1, <2>2, <2>3 DEF DayInv, Types
<1>5. PlansAreSound'
  BY <1>1, <1>2, PlansAreKept DEF DayInv
<1>6. LeavesAreRight'
  <2> SUFFICES ASSUME NEW q \in People, ~ muddled'[q] PROVE Right(q)'
    BY DEF LeavesAreRight
  <2>1. CASE q = p
    BY <2>1
  <2>2. CASE q # p
    <3>1. ~ muddled[q]
      OBVIOUS
    <3> QED BY <1>1, <1>2, <1>3, <2>2, <3>1, OthersStayRight
  <2> QED BY <2>1, <2>2
<1> QED BY <1>4, <1>5, <1>6 DEF DayInv

LEMMA SyncingMoves ==
  ASSUME NEW r \in Requests, NEW p, Syncing(p) = {r}, owner' = owner,
         \A b \in Actors \ {r} : req'[b] = req[b]
  PROVE  Syncing(p)' = IF InSync(r)' /\ owner[req'[r].leave] = p THEN {r} ELSE {}
<1>1. ASSUME NEW b \in Syncing(p)' PROVE b = r
  <2> SUFFICES ASSUME b # r PROVE FALSE
    OBVIOUS
  <2>1. b \in Requests /\ req'[b] = req[b]
    BY <1>1 DEF Syncing, Actors
  <2>2. b \in Syncing(p)
    BY <1>1, <2>1 DEF Syncing
  <2> QED BY <2>2
<1>2. r \in Syncing(p)' <=> InSync(r)' /\ owner[req'[r].leave] = p
  BY DEF Syncing, InSync
<1> QED BY <1>1, <1>2

\* The second transaction ends without days: the day is as the leave wants it.
LEMMA NoDaysInv ==
  ASSUME DayAssumption, DayInv, NEW r \in Requests, req[r].pc \in {"decided", "edited"}, NoDays(r),
         NEW p \in People, p = owner[req[r].leave],
         ~ muddled[p] => /\ OnLeave(rows[p]) => Backed(p)
                         /\ ~ holiday /\ Alone(req[r].leave, p) => Excused(p)
  PROVE  DayInv'
<1>1. InSync(r) /\ req' = [req EXCEPT ![r] = Done]
      /\ UNCHANGED <<rows, leave, owner, clock, holiday, shifts, muddled, faults>>
  BY DEF InSync, NoDays
<1>2. /\ req \in [Actors -> Txn] /\ r \in Actors
      /\ rows \in [People -> Rows] /\ muddled \in [People -> BOOLEAN] /\ faults \in 0 .. MaxFaults
  BY DEF DayInv, Types, Actors
<1>3. ASSUME ~ muddled[p] PROVE Right(p)'
  <2>1. Syncing(p) = {r} /\ \A l \in Leaves : Alone(l, p) => l = req[r].leave
    BY <1>1, <1>3, OnlySync
  <2>2. req'[r] = Done /\ \A b \in Actors \ {r} : req'[b] = req[b]
    BY <1>1, <1>2
  <2>3. Syncing(p)' = {}
    BY <1>1, <2>1, <2>2, SyncingMoves, RestIsTxn DEF InSync
  <2>4. ~ holiday' => \A l \in Leaves : Alone(l, p)' => Excused(p)'
    BY <1>1, <1>3, <2>1 DEF Alone, Granted, Excused
  <2>5. OnLeave(rows'[p]) => Backed(p)'
    BY <1>1, <1>3 DEF Backed, Granted
  <2> QED BY <2>3, <2>4, <2>5 DEF Right
<1>4. Done \in Txn /\ Done.pc # "open"
  BY RestIsTxn
<1> QED BY <1>1, <1>2, <1>3, <1>4, SyncMoves

\* The second transaction reads the day and plans it, or finds it as it should be.
LEMMA DaysInv ==
  ASSUME DayAssumption, DayInv, NEW r \in Requests, req[r].pc \in {"decided", "edited"},
         NEW p \in People, p = owner[req[r].leave],
         NEW snap \in [People -> Rows], snap[p] = rows[p],
         NEW plan \in [People -> Rows], \A q \in People \ {p} : plan[q] = snap[q],
         plan[p] = IF Granted(req[r].leave) THEN Applied(p, rows[p]) ELSE Revoked(rows[p]),
         req' = [req EXCEPT ![r] = IF plan = snap THEN Done
                   ELSE [@ EXCEPT !.pc = "open", !.op = "leave", !.snap = snap, !.plan = plan]],
         UNCHANGED <<rows, leave, owner, clock, holiday, shifts, muddled, faults>>
  PROVE  DayInv'
<1> DEFINE l == req[r].leave
           value == plan[p]
<1>1. /\ InSync(r) /\ req \in [Actors -> Txn] /\ r \in Actors /\ l \in Leaves
      /\ rows \in [People -> Rows] /\ muddled \in [People -> BOOLEAN] /\ faults \in 0 .. MaxFaults
  BY DEF InSync, HasLeave, DayInv, Types, Actors
<1>2. /\ snap \in [People -> Rows] /\ plan \in [People -> Rows]
      /\ snap[p] = rows[p] /\ \A q \in People \ {p} : plan[q] = snap[q]
      /\ value = IF Granted(l) THEN Applied(p, rows[p]) ELSE Revoked(rows[p])
  OBVIOUS
<1>3. plan = snap <=> value = rows[p]
  <2>1. value = rows[p] => \A q \in People : plan[q] = snap[q]
    BY <1>2
  <2>2. (\A q \in People : plan[q] = snap[q]) => plan = snap
    BY <1>2
  <2> QED BY <1>2, <2>1, <2>2
<1>4. \A b \in Actors \ {r} : req'[b] = req[b]
  BY <1>1
<1>5. CASE value = rows[p]
  <2>1. req' = [req EXCEPT ![r] = Done] /\ req'[r] = Done
    BY <1>1, <1>3, <1>5
  <2>2. ASSUME ~ muddled[p] PROVE Right(p)'
    <3>1. Syncing(p) = {r} /\ \A k \in Leaves : Alone(k, p) => k = l
      BY <1>1, <2>2, OnlySync
    <3>2. Syncing(p)' = {}
      BY <1>4, <2>1, <3>1, SyncingMoves, RestIsTxn DEF InSync
    <3>3. OnLeave(rows[p]) => Backed(p)
      <4>1. ~ Granted(l) => ~ OnLeave(rows[p])
        BY <1>1, <1>5, RevokedRow
      <4> QED BY <1>1, <4>1 DEF Backed
    <3>4. ASSUME NEW k \in Leaves, Alone(k, p) PROVE Excused(p)
      <4>1. Applied(p, rows[p]) = rows[p]
        BY <1>5, <3>1, <3>4 DEF Alone
      <4>2. rows[p].id # 0 /\ ~ Convertible(p, rows[p])
        BY <1>1, <4>1, AppliedRow
      <4>3. p \in Pupils => p \notin Employees
        BY DEF DayAssumption
      <4> QED BY <4>2, <4>3 DEF Excused, Convertible, IsFinal
    <3>5. (OnLeave(rows[p]) => Backed(p))' /\ \A k \in Leaves : (Alone(k, p) => Excused(p))'
      BY <3>3, <3>4 DEF Backed, Granted, Alone, Excused
    <3> QED BY <3>2, <3>5 DEF Right
  <2>3. Done \in Txn /\ Done.pc # "open"
    BY RestIsTxn
  <2> QED BY <1>1, <2>1, <2>2, <2>3, SyncMoves
<1>6. CASE value # rows[p]
  <2> DEFINE new == [req[r] EXCEPT !.pc = "open", !.op = "leave", !.snap = snap, !.plan = plan]
  <2>1. req' = [req EXCEPT ![r] = new]
    BY <1>3, <1>6
  <2>2. /\ new \in Txn /\ new.leave = l /\ new.pc = "open" /\ new.op = "leave"
        /\ new.snap = snap /\ new.plan = plan
    <3>1. req[r] \in Txn
      BY <1>1
    <3> QED BY <1>2, <3>1 DEF Txn
  <2> HIDE DEF new
  <2>3. req'[r] = new
    BY <1>1, <2>1
  <2>4. IF Granted(l) THEN value = Applied(p, rows[p])
        ELSE value = Revoked(rows[p]) /\ OnLeave(rows[p])
    BY <1>1, <1>6, RevokedRow
  <2>5. PlanIsSound(r)'
    <3>1. SyncPlanned(p, snap[p], plan[p])
      BY <1>2, <1>6, <2>4 DEF SyncPlanned
    <3>2. owner'[req'[r].leave] = p
      BY <2>2, <2>3
    <3>3. \A q \in People : IF q = p THEN SyncPlanned(q, snap[q], plan[q]) ELSE snap[q] = plan[q]
      BY <1>2, <3>1
    <3> QED BY <2>2, <2>3, <3>2, <3>3 DEF PlanIsSound, SyncPlanned
  <2>6. ASSUME ~ muddled[p] PROVE Right(p)'
    <3>1. Syncing(p) = {r}
      BY <1>1, <2>6, OnlySync
    <3>2. Syncing(p)' = {r}
      BY <1>4, <2>2, <2>3, <3>1, SyncingMoves DEF InSync
    <3>3. SyncIsRight(r, p)'
      BY <1>2, <2>2, <2>3, <2>4 DEF SyncIsRight, Granted
    <3> QED BY <3>2, <3>3 DEF Right
  <2>7. /\ rows' \in [People -> Rows] /\ muddled' \in [People -> BOOLEAN] /\ faults' \in 0 .. MaxFaults
        /\ muddled' = muddled /\ rows' = rows /\ new.leave = req[r].leave
    BY <1>1, <2>2
  <2>8. ~ muddled'[p] => Right(p)'
    BY <2>6, <2>7
  <2>9. /\ \A q \in People : muddled[q] => muddled'[q]
        /\ \A q \in People : q # p => rows'[q] = rows[q]
    BY <2>7
  <2>10. InSync(r) /\ new \in Txn /\ (new.leave = req[r].leave \/ new = Done)
         /\ (new.pc = "open" => PlanIsSound(r)')
    BY <1>1, <2>2, <2>5
  <2>11. UNCHANGED <<leave, owner, clock, holiday, shifts>>
    OBVIOUS
  <2> HIDE DEF l, value
  <2> QED BY <2>1, <2>7, <2>8, <2>9, <2>10, <2>11, SyncMoves, Zenon
<1> QED BY <1>5, <1>6

LEMMA SyncStepsInv ==
  ASSUME DayAssumption, DayInv, NEW r \in Requests, SyncLeave(r) \/ ResyncLeaveDates(r)
  PROVE  DayInv'
<1> DEFINE l == req[r].leave
<1>1. req[r].pc \in {"decided", "edited"} /\ InSync(r)
  BY DEF SyncLeave, ResyncLeaveDates, InSync
<1>2. PICK p \in People : p = owner[l]
  BY <1>1 DEF DayInv, Types, HasLeave
<1>3. rows[p] \in Rows /\ l \in Leaves /\ leave[l] \in [status : Statuses, covers : BOOLEAN]
  BY <1>1 DEF DayInv, Types, HasLeave
<1>4. CASE Granted(l) /\ Days(r, LAMBDA q, row : Applied(q, row))
  <2> DEFINE snap == [q \in People |-> IF q \in {p} THEN rows[q] ELSE NoRow]
             plan == [q \in People |-> IF q \in {p} THEN Applied(q, rows[q]) ELSE NoRow]
  <2>1. /\ req' = [req EXCEPT ![r] = IF plan = snap THEN Done
                     ELSE [@ EXCEPT !.pc = "open", !.op = "leave", !.snap = snap, !.plan = plan]]
        /\ UNCHANGED <<rows, leave, owner, clock, holiday, shifts, muddled, faults>>
    BY <1>2, <1>4 DEF Days, Plan
  <2>2. /\ snap \in [People -> Rows] /\ snap[p] = rows[p]
        /\ plan \in [People -> Rows] /\ plan[p] = Applied(p, rows[p])
        /\ \A q \in People \ {p} : plan[q] = snap[q]
    BY <1>3, SyncRows, NoRowIsRow
  <2> HIDE DEF snap, plan
  <2> QED BY <1>1, <1>2, <1>4, <2>1, <2>2, DaysInv
<1>5. CASE ~ Granted(l) /\ Days(r, LAMBDA q, row : Revoked(row))
  <2> DEFINE snap == [q \in People |-> IF q \in {p} THEN rows[q] ELSE NoRow]
             plan == [q \in People |-> IF q \in {p} THEN Revoked(rows[q]) ELSE NoRow]
  <2>1. /\ req' = [req EXCEPT ![r] = IF plan = snap THEN Done
                     ELSE [@ EXCEPT !.pc = "open", !.op = "leave", !.snap = snap, !.plan = plan]]
        /\ UNCHANGED <<rows, leave, owner, clock, holiday, shifts, muddled, faults>>
    BY <1>2, <1>5 DEF Days, Plan
  <2>2. /\ snap \in [People -> Rows] /\ snap[p] = rows[p]
        /\ plan \in [People -> Rows] /\ plan[p] = Revoked(rows[p])
        /\ \A q \in People \ {p} : plan[q] = snap[q]
    BY <1>3, SyncRows, NoRowIsRow
  <2> HIDE DEF snap, plan
  <2> QED BY <1>1, <1>2, <1>5, <2>1, <2>2, DaysInv
<1>6. CASE req[r].pc = "decided" /\ ~ leave[l].covers /\ NoDays(r)
  <2>1. ~ muddled[p] => SyncIsRight(r, p)
    BY <1>1, <1>2, OnlySync
  <2>2. ~ muddled[p] => (OnLeave(rows[p]) => Backed(p)) /\ ~ Alone(l, p)
    BY <1>6, <2>1 DEF SyncIsRight, Alone, Granted
  <2> QED BY <1>1, <1>2, <1>6, <2>2, NoDaysInv
<1>7. CASE /\ req[r].pc = "edited" /\ (leave[l].status # "approved" \/ req[r].old = leave[l].covers)
           /\ NoDays(r)
  <2>1. ~ muddled[p] => SyncIsRight(r, p)
    BY <1>1, <1>2, OnlySync
  <2>2. ~ muddled[p] => /\ OnLeave(rows[p]) => Backed(p)
                        /\ ~ holiday /\ Alone(l, p) => Excused(p)
    BY <1>3, <1>7, <2>1 DEF SyncIsRight, Alone, Granted
  <2> QED BY <1>1, <1>2, <1>7, <2>2, NoDaysInv
<1> QED BY <1>4, <1>5, <1>6, <1>7 DEF SyncLeave, ResyncLeaveDates, Granted
-----------------------------------------------------------------------------
(* Commits. *)

\* A transaction that is no sync ends, and leaves nobody worse off.
LEMMA WriteEnds ==
  ASSUME DayAssumption, DayInv, NEW a \in Actors, a \in Requests => ~ InSync(a),
         req' = [req EXCEPT ![a] = Over(a)],
         UNCHANGED <<leave, owner, clock, holiday, shifts>>, faults' \in 0 .. MaxFaults,
         rows' \in [People -> Rows], muddled' \in [People -> BOOLEAN],
         \A q \in People : ~ muddled'[q] =>
           /\ ~ muddled[q]
           /\ OnLeave(rows'[q]) => OnLeave(rows[q]) /\ rows'[q].id = rows[q].id
           /\ ~ holiday /\ Excused(q) => Excused(q)'
  PROVE  DayInv'
<1>1. /\ req \in [Actors -> Txn] /\ Over(a) \in Txn /\ Over(a).pc \in {"idle", "done"}
      /\ Over(a).op = "none" /\ (a = Scheduler => Over(a).pc = "idle")
  BY RestIsTxn DEF DayInv, Types, Over
<1>2. req'[a] = Over(a) /\ \A b \in Actors \ {a} : req'[b] = req[b]
  BY <1>1
<1>3. \A r \in Requests : /\ (InSync(r)' <=> InSync(r)) /\ (InSync(r) => req'[r] = req[r])
                          /\ HasLeave(r)' => HasLeave(r) /\ req'[r] = req[r]
  BY <1>1, <1>2 DEF InSync, HasLeave, Actors
<1>4. Types'
  <2>1. req' \in [Actors -> Txn]
    BY <1>1
  <2>2. Scheduler \in Actors
    BY DEF Actors
  <2>3. req'[Scheduler].pc \in {"idle", "open"} /\ req'[Scheduler].op \notin {"early", "leave"}
    BY <1>1, <1>2, <2>2 DEF DayInv, Types
  <2> QED BY <1>3, <2>1, <2>3 DEF DayInv, Types
<1>5. PlansAreSound'
  BY <1>1, <1>2, PlansAreKept DEF DayInv
<1>6. LeavesAreRight'
  <2> SUFFICES ASSUME NEW q \in People, ~ muddled'[q] PROVE Right(q)'
    BY DEF LeavesAreRight
  <2>1. Right(q)
    BY DEF DayInv, LeavesAreRight
  <2>2. \A r \in Requests : (r \in Syncing(q)' <=> r \in Syncing(q))
    BY <1>3, SyncingIs DEF InSync, Syncing
  <2>3. \A r \in Syncing(q) : req'[r] = req[r] /\ req[r].leave \in Leaves
    BY <1>3, SyncingIs DEF DayInv, Types, HasLeave
  <2> QED BY <2>1, <2>2, <2>3, RightIsKept
<1> QED BY <1>4, <1>5, <1>6 DEF DayInv

LEMMA CommitTypes ==
  ASSUME DayAssumption, DayInv, NEW a \in Actors, Commit(a)
  PROVE  rows' \in [People -> Rows] /\ muddled' \in [People -> BOOLEAN]
<1>1. \A p \in People : rows'[p] \in Rows
  BY CommitLands DEF DayInv
<1>2. /\ rows' = [p \in People |->
             IF Conflicts(a, p) THEN rows[p] ELSE Written(p, req[a].snap[p], req[a].plan[p])]
      /\ muddled' = [p \in People |-> muddled[p] \/ Torn(a, p)]
  BY DEF Commit
<1>3. \A p \in People : (muddled[p] \/ Torn(a, p)) \in BOOLEAN
  BY DEF Torn
<1> QED BY <1>1, <1>2, <1>3

LEMMA CommitInv ==
  ASSUME DayAssumption, DayInv, NEW a \in Actors, Commit(a)
  PROVE  DayInv'
<1>1. /\ req[a].pc = "open" /\ req' = [req EXCEPT ![a] = Over(a)]
      /\ muddled' = [p \in People |-> muddled[p] \/ Torn(a, p)]
      /\ UNCHANGED <<leave, owner, clock, holiday, shifts, faults>>
  BY DEF Commit
<1>2. rows' \in [People -> Rows] /\ muddled' \in [People -> BOOLEAN] /\ faults' \in 0 .. MaxFaults
  BY <1>1, CommitTypes DEF DayInv, Types
<1>3. \A q \in People : ~ muddled'[q] => ~ muddled[q] /\ ~ Torn(a, q)
  BY <1>1
<1>4. CASE req[a].op # "leave"
  <2>1. a \in Requests => ~ InSync(a)
    BY <1>1, <1>4 DEF InSync
  <2>2. \A q \in People : ~ muddled'[q] =>
          /\ ~ muddled[q]
          /\ OnLeave(rows'[q]) => OnLeave(rows[q]) /\ rows'[q].id = rows[q].id
          /\ ~ holiday /\ Excused(q) => Excused(q)'
    BY <1>3, <1>4, WriteLands DEF DayInv
  <2> QED BY <1>1, <1>2, <2>1, <2>2, WriteEnds
<1>5. CASE req[a].op = "leave"
  <2>1. a \in Requests /\ a # Scheduler /\ InSync(a)
    BY <1>1, <1>5 DEF DayInv, Types, Actors, InSync
  <2> DEFINE l == req[a].leave
  <2>2. PICK p \in People : p = owner[l]
    BY <2>1 DEF DayInv, Types, HasLeave
  <2> DEFINE snap == req[a].snap[p]
             plan == req[a].plan[p]
             old == rows[p]
             new == rows'[p]
  <2>3. \A q \in People : q # p => rows'[q] = rows[q]
    <3>1. \A q \in People : q # p => req[a].plan[q] = req[a].snap[q]
      BY <1>1, <1>5, <2>2 DEF DayInv, PlansAreSound, PlanIsSound
    <3> QED BY <3>1, CommitLands DEF DayInv
  <2>4. Over(a) = Done /\ Done \in Txn /\ Done.pc # "open"
    BY <2>1, RestIsTxn DEF Over
  <2>5. ASSUME ~ muddled'[p] PROVE Right(p)'
    <3>1. /\ Syncing(p) = {a} /\ SyncIsRight(a, p)
          /\ \A k \in Leaves : Alone(k, p) => k = l
      BY <1>3, <2>1, <2>2, <2>5, OnlySync
    <3>2. /\ req \in [Actors -> Txn] /\ snap \in Rows /\ plan \in Rows /\ l \in Leaves
      BY <2>1 DEF DayInv, Types, HasLeave, Txn
    <3>3. Syncing(p)' = {}
      <4>1. req'[a] = Done /\ \A b \in Actors \ {a} : req'[b] = req[b]
        BY <1>1, <2>4, <3>2
      <4> QED BY <1>1, <2>1, <3>1, <4>1, SyncingMoves, RestIsTxn DEF InSync
    <3>4. SyncPlanned(p, snap, plan)
      BY <1>1, <1>5, <2>2 DEF DayInv, PlansAreSound, PlanIsSound
    <3>5. CASE Granted(l)
      <4>1. plan = Applied(p, snap) /\ plan # snap
        BY <1>1, <3>1, <3>2, <3>4, <3>5, RevokedRow DEF SyncIsRight, SyncPlanned
      <4>2. /\ OnLeave(plan) /\ plan.id # 0 /\ snap.status # "on_leave"
        BY <3>2, <4>1, AppliedRow
      <4>3. new.id # 0 /\ new.status = "on_leave"
        BY <2>1, <4>1, <4>2, CommitLands DEF DayInv, OnLeave
      <4>4. Backed(p)' /\ Excused(p)'
        BY <1>1, <2>2, <3>2, <3>5, <4>3 DEF Backed, Granted, Excused, IsFinal
      <4> QED BY <3>3, <4>4 DEF Right
    <3>6. CASE ~ Granted(l)
      <4>1. /\ plan = Revoked(snap) /\ OnLeave(snap) /\ (OnLeave(old) => old.id = snap.id)
        BY <1>1, <3>1, <3>6 DEF SyncIsRight
      <4>2. /\ plan # snap /\ snap.id # 0 /\ plan.status \in {"none", "absent"}
            /\ snap.status = "on_leave"
        BY <3>2, <4>1, RevokedRow DEF OnLeave
      <4>3. ~ OnLeave(new)
        BY <2>1, <4>1, <4>2, CommitLands DEF DayInv, OnLeave, NoRow
      <4>4. \A k \in Leaves : ~ Alone(k, p)'
        BY <1>1, <3>1, <3>6 DEF Alone, Granted
      <4> QED BY <3>3, <4>3, <4>4 DEF Right
    <3> QED BY <3>5, <3>6
  <2> HIDE DEF snap, plan, old, new
  <2> QED BY <1>1, <1>2, <1>3, <2>1, <2>2, <2>3, <2>4, <2>5, SyncMoves
<1> QED BY <1>4, <1>5

LEMMA AbandonInv ==
  ASSUME DayAssumption, DayInv, NEW a \in Actors, Abandon(a), faults' \in 0 .. MaxFaults
  PROVE  DayInv'
<1>1. /\ req' = [req EXCEPT ![a] = Over(a)]
      /\ muddled' = [p \in People |-> muddled[p] \/ a \in Syncing(p)]
      /\ UNCHANGED <<rows, leave, owner, clock, holiday, shifts>>
  BY DEF Abandon
<1>2. rows' \in [People -> Rows] /\ muddled' \in [People -> BOOLEAN] /\ muddled \in [People -> BOOLEAN]
  BY <1>1 DEF DayInv, Types
<1>3. CASE a \in Requests /\ InSync(a)
  <2>1. PICK p \in People : p = owner[req[a].leave]
    BY <1>3 DEF DayInv, Types, HasLeave
  <2>2. a \in Syncing(p)
    BY <1>3, <2>1, SyncingIs
  <2>3. Over(a) = Done /\ Done \in Txn /\ Done.pc # "open"
    BY <1>3, RestIsTxn DEF Over, Requests, Scheduler, DayAssumption
  <2>4. muddled'[p] /\ \A q \in People : muddled[q] => muddled'[q]
    BY <1>1, <2>2
  <2> QED BY <1>1, <1>2, <1>3, <2>1, <2>3, <2>4, SyncMoves
<1>4. CASE ~ (a \in Requests /\ InSync(a))
  <2>1. \A q \in People : Excused(q) => Excused(q)'
    BY <1>1 DEF Excused
  <2>2. \A q \in People : ~ muddled'[q] => ~ muddled[q]
    BY <1>1
  <2> QED BY <1>1, <1>2, <1>4, <2>1, <2>2, WriteEnds
<1> QED BY <1>3, <1>4

LEMMA InitDayInv == ASSUME DayAssumption, Init PROVE DayInv
<1>1. /\ req = [a \in Actors |-> Idle] /\ \A a \in Actors : req[a] = Idle
      /\ Scheduler \in Actors /\ Requests \subseteq Actors
  BY DEF Init, Actors
<1>2. \A r \in Requests : ~ InSync(r) /\ ~ HasLeave(r)
  BY <1>1, RestIsTxn DEF InSync, HasLeave
<1>3. \A p \in People : /\ rows[p] = IF Backed(p) THEN New("on_leave", "leave", FALSE) ELSE NoRow
  BY DEF Init, Backed, Covers, Granted
<1>4. /\ New("on_leave", "leave", FALSE) \in Rows /\ New("on_leave", "leave", FALSE).id = 1
      /\ New("on_leave", "leave", FALSE).status = "on_leave"
  BY NewIsRow DEF Sources
<1>5. Types
  <2>1. rows \in [People -> Rows]
    <3>1. \A p \in People : rows[p] \in Rows
      BY <1>3, <1>4, NoRowIsRow
    <3> QED BY <3>1 DEF Init
  <2>2. leave \in [Leaves -> [status : Statuses, covers : BOOLEAN]] /\ owner \in [Leaves -> People]
    BY DEF Init, Statuses, DayAssumption
  <2>3. /\ req \in [Actors -> Txn] /\ req[Scheduler].pc \in {"idle", "open"}
        /\ req[Scheduler].op \notin {"early", "leave"}
    BY <1>1, RestIsTxn
  <2>4. /\ clock \in Clock /\ holiday \in BOOLEAN /\ shifts \in BOOLEAN
        /\ muddled \in [People -> BOOLEAN] /\ faults \in 0 .. MaxFaults
    <3>1. clock \in Clock
      BY DEF Init, Clock, NextDay
    <3>2. faults \in 0 .. MaxFaults
      BY DEF Init, DayAssumption
    <3>3. holiday \in BOOLEAN /\ shifts \in BOOLEAN /\ muddled \in [People -> BOOLEAN]
      BY Zenon DEF Init
    <3> QED BY <3>1, <3>2, <3>3
  <2> QED BY <1>2, <2>1, <2>2, <2>3, <2>4 DEF Types
<1>6. PlansAreSound
  BY <1>1, RestIsTxn DEF PlansAreSound
<1>7. LeavesAreRight
  <2> SUFFICES ASSUME NEW p \in People PROVE Right(p)
    BY DEF LeavesAreRight
  <2>1. Syncing(p) = {}
    BY <1>2, SyncingIs
  <2>2. OnLeave(rows[p]) => Backed(p)
    <3>1. CASE Backed(p)
      BY <3>1
    <3>2. CASE ~ Backed(p)
      <4>1. rows[p] = NoRow
        BY <1>3, <3>2
      <4>2. NoRow.status # "on_leave"
        BY DEF NoRow
      <4> QED BY <4>1, <4>2 DEF OnLeave
    <3> QED BY <3>1, <3>2
  <2>3. ASSUME NEW l \in Leaves, Alone(l, p) PROVE Excused(p)
    <3>1. Backed(p)
      BY <2>3 DEF Alone, Backed
    <3>2. rows[p] = New("on_leave", "leave", FALSE)
      BY <1>3, <3>1
    <3>3. rows[p].id = 1 /\ rows[p].status = "on_leave"
      BY <1>4, <3>2
    <3> QED BY <3>3 DEF Excused, IsFinal
  <2> QED BY <2>1, <2>2, <2>3 DEF Right
<1> QED BY <1>5, <1>6, <1>7 DEF DayInv

\* Time passes, or the day becomes a holiday.
LEMMA OfficeInv ==
  ASSUME DayAssumption, DayInv,
         UNCHANGED <<rows, leave, owner, shifts, req, muddled, faults>>,
         clock' \in Clock, holiday' \in BOOLEAN, holiday => holiday'
  PROVE  DayInv'
<1>1. Types'
  BY DEF DayInv, Types, InSync, HasLeave
<1>2. PlansAreSound'
  BY DEF DayInv, PlansAreSound, PlanIsSound
<1>3. LeavesAreRight'
  <2> SUFFICES ASSUME NEW q \in People, ~ muddled[q] PROVE Right(q)'
    BY DEF LeavesAreRight
  <2>1. Right(q) /\ \A r \in Syncing(q) : req[r].leave \in Leaves
    BY SyncingIs DEF DayInv, LeavesAreRight, Types, HasLeave
  <2>2. \A r \in Requests : (r \in Syncing(q)' <=> r \in Syncing(q))
    BY DEF Syncing
  <2>3. Excused(q) => Excused(q)'
    BY DEF Excused
  <2> QED BY <2>1, <2>2, <2>3, RightIsKept
<1> QED BY <1>1, <1>2, <1>3 DEF DayInv

LEMMA NextDayInv == ASSUME DayAssumption PROVE DayInv /\ [Next]_vars => DayInv'
<1> SUFFICES ASSUME DayInv, [Next]_vars PROVE DayInv'
  OBVIOUS
<1>t. clock \in Clock /\ holiday \in BOOLEAN /\ faults \in 0 .. MaxFaults
  BY DEF DayInv, Types
<1>1. CASE UNCHANGED vars
  BY <1>1, <1>t, OfficeInv DEF vars
<1>2. ASSUME NEW r \in Requests,
             \/ Scan(r) \/ Decide(r)
             \/ \E marks \in [Pupils -> Marks] : Take(r, marks)
             \/ \E e \in Employees, mark \in Marks : ManualAttendanceSave(r, e, mark)
             \/ CleanupHolidayAbsences(r)
             \/ CommitDecision(r) \/ CommitDates(r)
             \/ SyncLeave(r) \/ ResyncLeaveDates(r)
      PROVE  DayInv'
  BY <1>2, HandlersInv, DecisionsInv, DecisionCommitsInv, SyncStepsInv DEF Scan
<1>3. ASSUME NEW a \in Actors,
             RunAutoAbsent(a) \/ RunAutoAbsentForShift(a) \/ RunAutoAbsentShiftless(a)
      PROVE  DayInv'
  BY <1>3, RunInv DEF RunAutoAbsent, RunAutoAbsentForShift, RunAutoAbsentShiftless
<1>4. ASSUME NEW r \in Requests, MarkAbsentToday(r) PROVE DayInv'
  BY <1>3, <1>4 DEF MarkAbsentToday, Actors
<1>5. CASE Sweep \/ RunEmployeeAutoAbsent
  <2>1. Scheduler \in Actors
    BY DEF Actors
  <2> QED BY <1>3, <1>5, <2>1, RunInv DEF Sweep, RunEmployeeAutoAbsent
<1>6. ASSUME NEW a \in Actors, Commit(a) \/ Collide(a) \/ Fail(a) PROVE DayInv'
  <2>1. Fail(a) => faults' \in 0 .. MaxFaults
    BY <1>t DEF Fail, DayAssumption
  <2> QED BY <1>6, <1>t, <2>1, CommitInv, AbandonInv DEF Collide, Fail
<1>7. CASE Tick \/ DeclareHoliday
  <2>1. clock' \in Clock /\ holiday' \in BOOLEAN /\ (holiday => holiday')
    <3>1. CASE Tick
      BY <1>t, <3>1 DEF Tick, Clock, NextDay
    <3>2. CASE DeclareHoliday
      BY <1>t, <3>2 DEF DeclareHoliday
    <3> QED BY <1>7, <3>1, <3>2
  <2> QED BY <1>7, <2>1, OfficeInv DEF Tick, DeclareHoliday
<1> QED BY <1>1, <1>2, <1>4, <1>5, <1>6, <1>7 DEF Next

LEMMA Invariance == ASSUME DayAssumption PROVE Spec => []DayInv
<1>1. Init => DayInv
  BY InitDayInv
<1>2. DayInv /\ [Next]_vars => DayInv'
  BY NextDayInv
<1> QED BY <1>1, <1>2, PTL DEF Spec
-----------------------------------------------------------------------------
(* What the days and the leaves promise. *)

LEMMA DayTypes == ASSUME DayInv PROVE TypeOK
<1>1. Rows \subseteq Row
  BY DEF Rows
<1>2. [People -> Rows] \subseteq [People -> Row]
  BY <1>1
<1>3. \A a \in Actors : /\ req[a].pc \in {"idle", "open", "deciding", "editing", "decided", "edited", "done"}
                        /\ req[a].snap \in [People -> Row] /\ req[a].plan \in [People -> Row]
  BY <1>2 DEF DayInv, Types, Txn
<1> QED BY <1>2, <1>3 DEF DayInv, Types, TypeOK

\* Only a commit writes a row, and it ends its transaction.
LEMMA RowsAreCommitted ==
  ASSUME DayInv, [Next]_vars, rows' # rows
  PROVE  \E a \in Actors : /\ Commit(a) /\ req[a].pc = "open" /\ req'[a] = Over(a)
                           /\ Over(a).pc # "open"
<1>1. \E a \in Actors : Commit(a)
  <2>1. ASSUME NEW r \in Requests, Scan(r) PROVE rows' = rows
    BY <2>1 DEF Scan, AiFacePunch, StudentScan, EmployeePunch, HardwareSync, RecordAttendance, Begin
  <2>2. ASSUME NEW r \in Requests, Decide(r) PROVE rows' = rows
    BY <2>2 DEF Decide, DecideLeave, CreateLeave, EditDates, Backfill, ReadLeave, StartSync
  <2>3. ASSUME NEW r \in Requests,
               \/ \E marks \in [Pupils -> Marks] : Take(r, marks)
               \/ \E e \in Employees, mark \in Marks : ManualAttendanceSave(r, e, mark)
               \/ CleanupHolidayAbsences(r)
        PROVE  rows' = rows
    BY <2>3 DEF Take, ManualAttendanceSave, CleanupHolidayAbsences, Begin
  <2>4. ASSUME NEW r \in Requests,
               CommitDecision(r) \/ CommitDates(r) \/ SyncLeave(r) \/ ResyncLeaveDates(r)
        PROVE  rows' = rows
    BY <2>4 DEF CommitDecision, CommitDates, StartSync, SyncLeave, ResyncLeaveDates, Days, NoDays
  <2>5. ASSUME NEW r \in Requests, MarkAbsentToday(r) PROVE rows' = rows
    BY <2>5 DEF MarkAbsentToday, RunAutoAbsent, RunAutoAbsentForShift, RunAutoAbsentShiftless, Run
  <2>6. ASSUME Sweep \/ RunEmployeeAutoAbsent PROVE rows' = rows
    BY <2>6 DEF Sweep, RunEmployeeAutoAbsent, RunAutoAbsent, RunAutoAbsentForShift,
                RunAutoAbsentShiftless, Run
  <2>7. ASSUME NEW a \in Actors, Collide(a) \/ Fail(a) PROVE rows' = rows
    BY <2>7 DEF Collide, Fail, Abandon
  <2>8. ASSUME Tick \/ DeclareHoliday \/ UNCHANGED vars PROVE rows' = rows
    BY <2>8 DEF Tick, DeclareHoliday, vars
  <2> QED BY <2>1, <2>2, <2>3, <2>4, <2>5, <2>6, <2>7, <2>8 DEF Next
<1>2. PICK a \in Actors : Commit(a)
  BY <1>1
<1>3. req \in [Actors -> Txn]
  BY DEF DayInv, Types
<1>4. Over(a).pc # "open"
  BY DEF Over, Idle, Done
<1> QED BY <1>2, <1>3, <1>4 DEF Commit

\* A transaction that had read the row as it is takes back no check-in.
LEMMA CheckInStays ==
  ASSUME DayAssumption, DayInv, [Next]_vars
  PROVE  CheckInStep
<1> SUFFICES ASSUME NEW p \in Pupils, CheckedIn(rows[p]),
                    ~ (rows'[p].in /\ rows'[p].status = rows[p].status)
             PROVE  \E a \in Actors : StaleAbout(a, p)
  BY DEF CheckInStep
<1>1. p \in People /\ p \notin Employees /\ rows' # rows
  BY DEF People, DayAssumption, CheckedIn
<1>2. PICK a \in Actors : Commit(a) /\ req[a].pc = "open" /\ req'[a] = Over(a) /\ Over(a).pc # "open"
  BY <1>1, RowsAreCommitted
<1> DEFINE snap == req[a].snap[p]
           plan == req[a].plan[p]
           old == rows[p]
           new == rows'[p]
<1> SUFFICES ASSUME snap = old PROVE FALSE
  BY <1>2 DEF StaleAbout
<1>3. old \in Rows /\ old.id # 0
  <2>1. old \in Rows
    BY <1>1 DEF DayInv, Types
  <2> QED BY <2>1, NobodyIs DEF CheckedIn
<1>4. plan = snap => new = old
  BY <1>1, <1>2, CommitLands DEF DayInv
<1>5. plan # snap
  BY <1>4 DEF CheckedIn
<1>6. req[a].op # "leave"
  <2> SUFFICES ASSUME req[a].op = "leave" PROVE FALSE
    OBVIOUS
  <2>1. SyncPlanned(p, snap, plan)
    BY <1>1, <1>2, <1>5 DEF DayInv, PlansAreSound, PlanIsSound
  <2> QED BY <1>1, <1>3, <1>5, <2>1, AppliedRow DEF SyncPlanned, OnLeave, CheckedIn
<1>7. Planned(p, req[a].op, snap, plan)
  BY <1>1, <1>2, <1>6 DEF DayInv, PlansAreSound, PlanIsSound
<1>8. Edited(p, req[a].op, snap, plan)
  BY <1>3, <1>5, <1>7 DEF Planned, NewDay, Swept, IsFinal, CheckedIn
<1>9. /\ plan.in /\ plan.status = snap.status /\ plan.id = snap.id /\ snap.id # 0
  BY <1>1, <1>3, <1>8 DEF Edited, CheckedIn
<1>10. new.in /\ new.status = old.status
  BY <1>1, <1>2, <1>3, <1>9, CommitLands DEF DayInv, CheckedIn
<1> QED BY <1>10

\* Nor an employee's final absence, but for an early punch.
LEMMA FinalAbsenceStays ==
  ASSUME DayAssumption, DayInv, [Next]_vars
  PROVE  FinalAbsenceStep
<1> SUFFICES ASSUME NEW p \in Employees, IsFinal(rows[p]), ~ IsFinal(rows'[p])
             PROVE  \E a \in Actors : StaleAbout(a, p) \/ (req[a].op = "early" /\ req'[a].pc = "done")
  BY DEF FinalAbsenceStep
<1>1. p \in People /\ p \notin Pupils /\ rows' # rows
  BY DEF People, DayAssumption
<1>2. PICK a \in Actors : Commit(a) /\ req[a].pc = "open" /\ req'[a] = Over(a) /\ Over(a).pc # "open"
  BY <1>1, RowsAreCommitted
<1> DEFINE snap == req[a].snap[p]
           plan == req[a].plan[p]
           old == rows[p]
           new == rows'[p]
<1> SUFFICES ASSUME snap = old PROVE req[a].op = "early" /\ req'[a].pc = "done"
  BY <1>2 DEF StaleAbout
<1>3. old \in Rows /\ old.id # 0
  <2>1. old \in Rows
    BY <1>1 DEF DayInv, Types
  <2> QED BY <2>1, NobodyIs
<1>4. plan # snap
  BY <1>1, <1>2, CommitLands DEF DayInv
<1>5. req[a].op # "leave"
  <2> SUFFICES ASSUME req[a].op = "leave" PROVE FALSE
    OBVIOUS
  <2>1. SyncPlanned(p, snap, plan)
    BY <1>1, <1>2, <1>4 DEF DayInv, PlansAreSound, PlanIsSound
  <2> QED BY <1>1, <1>3, <1>4, <2>1, AppliedRow DEF SyncPlanned, OnLeave, IsFinal
<1>6. Planned(p, req[a].op, snap, plan)
  BY <1>1, <1>2, <1>5 DEF DayInv, PlansAreSound, PlanIsSound
<1>7. Edited(p, req[a].op, snap, plan)
  BY <1>1, <1>3, <1>4, <1>6 DEF Planned, NewDay, Swept
<1>8. IsFinal(plan) => IsFinal(new)
  BY <1>1, <1>2, <1>3, <1>4, <1>7, CommitLands DEF DayInv, Edited, IsFinal
<1>9. req[a].op = "early"
  BY <1>1, <1>7, <1>8 DEF Edited
<1>10. a # Scheduler
  BY <1>9 DEF DayInv, Types
<1> QED BY <1>2, <1>9, <1>10 DEF Over, Done

LEMMA LeavesBacked == ASSUME DayInv PROVE LeaveDaysAreBacked
BY DEF DayInv, LeavesAreRight, Right, LeaveDaysAreBacked, Backed, Granted, Covers

LEMMA LeavesHonoured == ASSUME DayAssumption, DayInv PROVE LoneLeaveIsHonoured
<1> SUFFICES ASSUME NEW p \in People,
                    Cardinality({l \in Leaves : owner[l] = p /\ leave[l].status # "none"}) = 1,
                    NEW l \in Leaves, Covers(l, p), leave[l].status = "approved",
                    ~ muddled[p], Syncing(p) = {}, ~ holiday
             PROVE  Excused(p)
  BY DEF LoneLeaveIsHonoured, Honoured
<1> DEFINE mine == {k \in Leaves : owner[k] = p /\ leave[k].status # "none"}
<1>1. IsFiniteSet(mine)
  BY FS_Subset DEF DayAssumption
<1>2. PICK k : mine = {k}
  BY <1>1, FS_Singleton
<1>3. Alone(l, p)
  BY <1>2 DEF Alone, Granted, Covers
<1> QED BY <1>3 DEF DayInv, LeavesAreRight, Right
=============================================================================
