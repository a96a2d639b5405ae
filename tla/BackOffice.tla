------------------------------- MODULE BackOffice -------------------------------
(***************************************************************************)
(* The components that the office, the teachers and the devices work on.   *)
(* They share no state: each behaviour is one of SchoolDay, Payroll,       *)
(* Inventory, BadgeCache, LessonAttendance or Transport, as scenario says, *)
(* and the variables of the others stay empty.                             *)
(***************************************************************************)
EXTENDS Integers, FiniteSets

\* Each component's constants (see there), under a name of their own where two have one.
CONSTANTS
  BatchPupils, BatchEmployees, BatchLeaves, BatchRequests, BatchShiftPupils, BatchOwners, BatchFaults,
  PupilPupils, PupilEmployees, PupilLeaves, PupilRequests, PupilShiftPupils, PupilOwners, PupilFaults,
  StaffPupils, StaffEmployees, StaffLeaves, StaffRequests, StaffShiftPupils, StaffOwners, StaffFaults,
  Payees, PayRequests,
  Warehouses, Depot, StockRequests, Opening,
  Workers, Loads, TTL, MaxCount, MaxTime,
  Members, Teachers, LessonStatuses, LessonRequests, LessonChanges, LessonTime,
  Fleet,              \* the constants of Transport, a record for each of its scenarios
  NoOne, Unmarked

\* A person is a pupil or an employee, not both.
ASSUME BatchAssumption ==
  /\ BatchPupils \cap BatchEmployees = {} /\ IsFiniteSet(BatchLeaves)
  /\ BatchOwners \subseteq [BatchLeaves -> BatchPupils \cup BatchEmployees]
  /\ BatchRequests \in Nat /\ BatchFaults \in Nat
ASSUME PupilAssumption ==
  /\ PupilPupils \cap PupilEmployees = {} /\ IsFiniteSet(PupilLeaves)
  /\ PupilOwners \subseteq [PupilLeaves -> PupilPupils \cup PupilEmployees]
  /\ PupilRequests \in Nat /\ PupilFaults \in Nat
ASSUME StaffAssumption ==
  /\ StaffPupils \cap StaffEmployees = {} /\ IsFiniteSet(StaffLeaves)
  /\ StaffOwners \subseteq [StaffLeaves -> StaffPupils \cup StaffEmployees]
  /\ StaffRequests \in Nat /\ StaffFaults \in Nat
ASSUME BadgeAssumption ==
  Workers # {} /\ TTL \in Nat /\ MaxCount \in Nat /\ MaxTime \in Nat
ASSUME PayAssumption == PayRequests \in Nat
ASSUME ClassAssumption ==
  /\ NoOne \notin Teachers /\ Unmarked \notin LessonStatuses
  /\ LessonRequests \in Nat /\ LessonChanges \in Nat /\ LessonTime \in Nat
ASSUME StoreAssumption == Depot \in Warehouses /\ StockRequests \in Nat /\ Opening \in Nat
ASSUME FleetAssumption ==
  \A b \in {"trips", "places"} :
    /\ IsFiniteSet(Fleet[b].routes) /\ IsFiniteSet(Fleet[b].students)
    /\ NoOne \notin Fleet[b].routes \cup Fleet[b].students
    /\ Fleet[b].trips \in Nat /\ Fleet[b].requests \in Nat /\ Fleet[b].limit \in Nat
    /\ Fleet[b].seats \subseteq Nat

VARIABLES
  scenario,
  rows, leave, owner, clock, holiday, shifts, dayReq, muddled, faults,
  records, expenses, payReq, payStale,
  stock, total, house, movements, counted, stockReq, edited, stockStale,
  count, badgeClock, store, badgeReq, truth,
  rule, group, session, record, lesson, feed, second, lessonReq, changes,
  route, link, journey, employed, busReq, resumed, raced

dayVars == <<rows, leave, owner, clock, holiday, shifts, dayReq, muddled, faults>>
payVars == <<records, expenses, payReq, payStale>>
stockVars == <<stock, total, house, movements, counted, stockReq, edited, stockStale>>
badgeVars == <<count, badgeClock, store, badgeReq, truth>>
lessonVars == <<rule, group, session, record, lesson, feed, second, lessonReq, changes>>
busVars == <<route, link, journey, employed, busReq, resumed, raced>>
vars == <<scenario, dayVars, payVars, stockVars, badgeVars, lessonVars, busVars>>

\* A school whose scheduler marks the absent pupils.
Batch == INSTANCE SchoolDay WITH
  Pupils <- BatchPupils, Employees <- BatchEmployees, Leaves <- BatchLeaves,
  NumRequests <- BatchRequests, ShiftPupils <- BatchShiftPupils,
  Owners <- BatchOwners, MaxFaults <- BatchFaults, req <- dayReq

\* A school whose pupils have leaves.
Pupil == INSTANCE SchoolDay WITH
  Pupils <- PupilPupils, Employees <- PupilEmployees, Leaves <- PupilLeaves,
  NumRequests <- PupilRequests, ShiftPupils <- PupilShiftPupils,
  Owners <- PupilOwners, MaxFaults <- PupilFaults, req <- dayReq

\* A school that keeps the attendance of its staff.
Staff == INSTANCE SchoolDay WITH
  Pupils <- StaffPupils, Employees <- StaffEmployees, Leaves <- StaffLeaves,
  NumRequests <- StaffRequests, ShiftPupils <- StaffShiftPupils,
  Owners <- StaffOwners, MaxFaults <- StaffFaults, req <- dayReq

Salaries == INSTANCE Payroll WITH
  Employees <- Payees, NumRequests <- PayRequests, req <- payReq, stale <- payStale

Store == INSTANCE Inventory WITH
  Warehouses <- Warehouses, Default <- Depot, NumRequests <- StockRequests,
  Opening <- Opening, req <- stockReq, stale <- stockStale

Badge == INSTANCE BadgeCache WITH
  Workers <- Workers, Requests <- Loads, TTL <- TTL,
  MaxCount <- MaxCount, MaxTime <- MaxTime, clock <- badgeClock, req <- badgeReq

Class == INSTANCE LessonAttendance WITH
  Students <- Members, Teachers <- Teachers, Statuses <- LessonStatuses,
  NumRequests <- LessonRequests, MaxChanges <- LessonChanges, MaxTime <- LessonTime,
  req <- lessonReq

Buses == {"trips", "places"}
Bus(b) == INSTANCE Transport WITH
  Routes <- Fleet[b].routes, Students <- Fleet[b].students, Drivers <- Fleet[b].drivers,
  NumTrips <- Fleet[b].trips, NumRequests <- Fleet[b].requests,
  Seats <- Fleet[b].seats, Limit <- Fleet[b].limit, trip <- journey, req <- busReq

InitDay ==
  \/ scenario = "batch" /\ Batch!Init
  \/ scenario = "pupil" /\ Pupil!Init
  \/ scenario = "staff" /\ Staff!Init
  \/ /\ scenario \notin {"batch", "pupil", "staff"}
     /\ rows = <<>> /\ leave = <<>> /\ owner = <<>> /\ clock = <<>> /\ holiday = <<>>
     /\ shifts = <<>> /\ dayReq = <<>> /\ muddled = <<>> /\ faults = <<>>
InitSalaries ==
  \/ scenario = "salaries" /\ Salaries!Init
  \/ /\ scenario # "salaries"
     /\ records = <<>> /\ expenses = <<>> /\ payReq = <<>> /\ payStale = <<>>
InitStore ==
  \/ scenario = "store" /\ Store!Init
  \/ /\ scenario # "store"
     /\ stock = <<>> /\ total = <<>> /\ house = <<>> /\ movements = <<>>
     /\ counted = <<>> /\ stockReq = <<>> /\ edited = <<>> /\ stockStale = <<>>
InitBadge ==
  \/ scenario = "badge" /\ Badge!Init
  \/ /\ scenario # "badge"
     /\ count = <<>> /\ badgeClock = <<>> /\ store = <<>> /\ badgeReq = <<>> /\ truth = <<>>
InitClass ==
  \/ scenario = "class" /\ Class!Init
  \/ /\ scenario # "class"
     /\ rule = <<>> /\ group = <<>> /\ session = <<>> /\ record = <<>> /\ lesson = <<>>
     /\ feed = <<>> /\ second = <<>> /\ lessonReq = <<>> /\ changes = <<>>
InitBus ==
  \/ \E b \in Buses : scenario = b /\ Bus(b)!Init
  \/ /\ scenario \notin Buses
     /\ route = <<>> /\ link = <<>> /\ journey = <<>> /\ employed = <<>>
     /\ busReq = <<>> /\ resumed = <<>> /\ raced = <<>>

Scenarios == {"batch", "pupil", "staff", "salaries", "store", "badge", "class"} \cup Buses

Init ==
  /\ scenario \in Scenarios
  /\ InitDay /\ InitSalaries /\ InitStore /\ InitBadge /\ InitClass /\ InitBus

Next ==
  \/ scenario = "batch" /\ Batch!Next /\ UNCHANGED <<scenario, payVars, stockVars, badgeVars, lessonVars, busVars>>
  \/ scenario = "pupil" /\ Pupil!Next /\ UNCHANGED <<scenario, payVars, stockVars, badgeVars, lessonVars, busVars>>
  \/ scenario = "staff" /\ Staff!Next /\ UNCHANGED <<scenario, payVars, stockVars, badgeVars, lessonVars, busVars>>
  \/ scenario = "salaries" /\ Salaries!Next /\ UNCHANGED <<scenario, dayVars, stockVars, badgeVars, lessonVars, busVars>>
  \/ scenario = "store" /\ Store!Next /\ UNCHANGED <<scenario, dayVars, payVars, badgeVars, lessonVars, busVars>>
  \/ scenario = "badge" /\ Badge!Next /\ UNCHANGED <<scenario, dayVars, payVars, stockVars, lessonVars, busVars>>
  \/ scenario = "class" /\ Class!Next /\ UNCHANGED <<scenario, dayVars, payVars, stockVars, badgeVars, busVars>>
  \/ \E b \in Buses : scenario = b /\ Bus(b)!Next /\ UNCHANGED <<scenario, dayVars, payVars, stockVars, badgeVars, lessonVars>>

Spec == Init /\ [][Next]_vars

\* The scheduler's threads run: the absence sweep commits or rolls back what it has begun,
\* and trips without a location are looked for again and again as time passes.
Fairness ==
  /\ WF_dayVars(scenario = "batch" /\ Batch!Sweep)
  /\ WF_dayVars(scenario = "batch" /\ (Batch!Commit(0) \/ Batch!Collide(0)))
  /\ WF_busVars(scenario = "trips" /\ Bus("trips")!Tick)
  /\ WF_busVars(scenario = "trips" /\ Bus("trips")!Expire)

-----------------------------------------------------------------------------
TypeOK ==
  /\ scenario = "batch" => Batch!TypeOK
  /\ scenario = "pupil" => Pupil!TypeOK
  /\ scenario = "staff" => Staff!TypeOK
  /\ scenario = "salaries" => Salaries!TypeOK
  /\ scenario = "store" => Store!TypeOK
  /\ scenario = "badge" => Badge!TypeOK
  /\ scenario = "class" => Class!TypeOK
  /\ \A b \in Buses : scenario = b => Bus(b)!TypeOK

\* A pupil's check-in and an employee's final absence stand: what takes them back is a
\* transaction that had read the row before, or an early punch that came late.
DaysStand ==
  [][/\ scenario = "batch" => Batch!CheckInStep
     /\ scenario = "pupil" => Pupil!CheckInStep
     /\ scenario = "staff" => Staff!FinalAbsenceStep]_vars

\* Unless decisions and edits of a person's leaves met, failed or went by dates that had changed,
\* a day that a leave wrote is one that an approved leave covers, and the approved leave of
\* somebody who has no other excuses the day.
LeavesAreHonoured ==
  /\ scenario = "batch" => Batch!LeaveDaysAreBacked /\ Batch!LoneLeaveIsHonoured
  /\ scenario = "pupil" => Pupil!LeaveDaysAreBacked /\ Pupil!LoneLeaveIsHonoured
  /\ scenario = "staff" => Staff!LeaveDaysAreBacked /\ Staff!LoneLeaveIsHonoured

\* So does an approved leave that another one overlaps.
ApprovedLeaveIsHonoured == scenario = "pupil" => Pupil!ApprovedLeaveIsHonoured

\* Once the cutoff has passed every pupil gets a row.
EveryPupilIsAccounted ==
  (scenario = "batch" /\ Batch!CutoffPassed) ~> (scenario = "batch" /\ Batch!Accounted)

\* The expense that a paid salary links to is in the ledger over the total of its items, and a
\* salary that is not paid links to none.
PaidIsInTheLedger == scenario = "salaries" => Salaries!PaidIsInTheLedger

\* Who reads a salary after its payment or approval was committed posts no second expense and
\* changes no total; those who read it before may.
SettledIsLeftAlone ==
  [][scenario = "salaries" => Salaries!PostingStep /\ Salaries!LockedNetStep]_vars

\* What is not paid is not in the ledger.
UnpaidIsNotInTheLedger == scenario = "salaries" => Salaries!UnpaidIsNotInTheLedger

\* The movements account for a stock row that no two requests overlapped on and no form edited,
\* and a request that runs alone leaves the right total.
StockIsAccounted ==
  /\ [](scenario = "store" => Store!StockFollowsMovements)
  /\ [][scenario = "store" => Store!TotalStep]_vars

\* What the cache serves was right less than TTL ago.
LagIsBounded == scenario = "badge" => Badge!LagIsBounded

\* Parents were last told what the lesson's record says, and the teacher who is marked is
\* the one the session was opened with.
LessonIsTold == scenario = "class" => Class!FeedFollowsRecords /\ Class!SnapshotRules

\* A submission of what is recorded tells nobody.
RetriesAreSilent == [][scenario = "class" => Class!RepeatStep]_vars

\* A route has one active trip, whoever starts one at the same moment. Unless requests
\* overlapped on it, it carries no more pupils than it has seats; a pupil who was neither added
\* twice at once nor switched on again rides on one route.
BusesAreOrderly ==
  \A b \in Buses : scenario = b =>
    Bus(b)!SeatsSuffice /\ Bus(b)!OneActiveRoute /\ Bus(b)!OneTripPerRoute

\* One of the driver's devices and the scheduler ends a trip: its time is never overwritten and
\* only the winner is audited.
TripsEndOnce ==
  /\ [](\A b \in Buses : scenario = b => Bus(b)!OnlyTheWinnerIsAudited)
  /\ [][\A b \in Buses : scenario = b => Bus(b)!EndingStep]_vars

\* A trip that nobody can drive any more comes to its end.
StrandedTripsEnd ==
  \A t \in 1 .. Fleet["trips"].trips :
    (scenario = "trips" /\ Bus("trips")!Stranded(t)) ~> ~ (scenario = "trips" /\ Bus("trips")!Stranded(t))
=============================================================================
