---------------------------------- MODULE Transport ----------------------------------
(***************************************************************************)
(* Bus routes (blueprints/transport), the pupils who ride on them, and the *)
(* trips of their drivers (mobile_api/driver.py) with the scheduler that   *)
(* ends forgotten ones (transport_trip_expiry.py). Forms read and write in *)
(* two steps; a ping and the scheduler's sweep are one statement each.     *)
(***************************************************************************)
EXTENDS Integers, FiniteSets

CONSTANTS Routes, Students, Drivers,
          NoOne,
          NumTrips, NumRequests,   \* bounds
          Seats,                   \* the capacities a form may ask for
          Limit                    \* ticks without a location; INACTIVITY_LIMIT

Requests == 1 .. NumRequests
Scheduler == 0
Trips == 1 .. NumTrips
Plans == [active : BOOLEAN, driver : Drivers \cup {NoOne}, capacity : Seats]

VARIABLES
  route,     \* transport_routes: there or not, and what the form sets
  link,      \* student_transport: "none" is no row
  trip,      \* transport_trips; idle: the time since the last location that was accepted,
             \* ended: ended_at, told apart by who wrote it, audits: whose trip_end is logged
  employed,  \* employees with status 'active'
  req,       \* requests: what they are about to write and what they have read
  resumed,   \* history: pupils whose subscription was switched on again
  raced      \* history: pupils and routes written after what was read had changed

vars == <<route, link, trip, employed, req, resumed, raced>>

NoTrip == [state |-> "none", route |-> NoOne, driver |-> NoOne, idle |-> 0,
           ended |-> NoOne, audits |-> {}]
Idle == [do |-> "idle", route |-> NoOne, student |-> NoOne, trip |-> 0,
         driver |-> NoOne, plan |-> NoOne, seen |-> NoOne]

Init ==
  /\ route \in [Routes -> [there : {TRUE}, plan : Plans]]
  /\ link = [b \in Routes |-> [s \in Students |-> "none"]]
  /\ trip = [t \in Trips |-> NoTrip]
  /\ employed = Drivers
  /\ req = [r \in Requests |-> Idle]
  /\ resumed = {} /\ raced = {}

Arrives(r) == req[r].do = "idle" /\ \A q \in 1 .. r - 1 : req[q].do # "idle"
Becomes(r, new) == req' = [req EXCEPT ![r] = new]
End(r) == Becomes(r, [Idle EXCEPT !.do = "ended"])

Riders(b) == {s \in Students : link[b][s] = "active"}
LinksOf(s) == [b \in Routes |-> link[b][s]]

\* What a form reads before it writes: the route, its riders, the pupil's links.
Seen(b, s) == [riders |-> Riders(b), plan |-> route[b].plan,
               links |-> IF s = NoOne THEN NoOne ELSE LinksOf(s)]

\* What the form wrote had changed since it was read.
Raced(r) ==
  LET now == Seen(req[r].route, req[r].student) IN
  (IF req[r].seen.links # now.links THEN {req[r].student} ELSE {})
    \cup (IF <<req[r].seen.riders, req[r].seen.plan.capacity>> # <<now.riders, now.plan.capacity>>
          THEN {req[r].route} ELSE {})
-----------------------------------------------------------------------------
HasRoom(b) == Cardinality(Riders(b)) < route[b].plan.capacity

RidesElsewhere(b, s) == \E other \in Routes \ {b} : link[other][s] = "active"

\* Mutant: add_student does not look at the other routes.
MayBoardAnyway(b, s) == HasRoom(b)

\* add_student with an active subscription: not on another route, and there is room.
MayBoard(b, s) == ~ RidesElsewhere(b, s) /\ HasRoom(b)

AddStudent(r, b, s) ==
  /\ Arrives(r) /\ route[b].there
  /\ link[b][s] = "none" /\ MayBoard(b, s)
  /\ Becomes(r, [Idle EXCEPT !.do = "add", !.route = b, !.student = s, !.seen = Seen(b, s)])
  /\ UNCHANGED <<route, link, trip, employed, resumed, raced>>

\* toggle_student: switching on asks for room, and not for the other routes.
Resume(r, b, s) ==
  /\ Arrives(r) /\ link[b][s] = "inactive" /\ HasRoom(b)
  /\ Becomes(r, [Idle EXCEPT !.do = "resume", !.route = b, !.student = s, !.seen = Seen(b, s)])
  /\ UNCHANGED <<route, link, trip, employed, resumed, raced>>

\* The insert meets the unique constraint or the foreign key, the update a deleted row.
Boards(r) ==
  LET b == req[r].route s == req[r].student IN
  /\ req[r].do \in {"add", "resume"}
  /\ route[b].there
  /\ (req[r].do = "add") = (link[b][s] = "none")
  /\ link' = [link EXCEPT ![b][s] = "active"]
  /\ resumed' = IF req[r].do = "resume" THEN resumed \cup {s} ELSE resumed
  /\ raced' = raced \cup Raced(r)
  /\ End(r)
  /\ UNCHANGED <<route, trip, employed>>

\* Suspending and removing a subscription, or adding it as inactive, depend on no count.
Leave(r, b, s, new) ==
  /\ Arrives(r) /\ route[b].there
  /\ <<link[b][s], new>> \in {<<"active", "inactive">>, <<"active", "none">>, <<"inactive", "none">>,
                               <<"none", "inactive">>}
  /\ link' = [link EXCEPT ![b][s] = new]
  /\ End(r)
  /\ UNCHANGED <<route, trip, employed, resumed, raced>>

\* edit: the capacity may not fall below the riders of now.
Edit(r, b, plan) ==
  /\ Arrives(r) /\ route[b].there /\ plan # route[b].plan
  /\ plan.capacity >= Cardinality(Riders(b))
  /\ plan.driver \in employed \cup {NoOne}
  /\ Becomes(r, [Idle EXCEPT !.do = "edit", !.route = b, !.plan = plan, !.seen = Seen(b, NoOne)])
  /\ UNCHANGED <<route, link, trip, employed, resumed, raced>>

\* Only the columns that the form changes are written.
Edited(plan, new, seen) == [f \in DOMAIN plan |-> IF new[f] = seen[f] THEN plan[f] ELSE new[f]]

SaveEdit(r) ==
  LET b == req[r].route IN
  /\ req[r].do = "edit" /\ route[b].there
  /\ route' = [route EXCEPT ![b].plan = Edited(@, req[r].plan, req[r].seen.plan)]
  /\ raced' = raced \cup Raced(r)
  /\ End(r)
  /\ UNCHANGED <<link, trip, employed, resumed>>

\* delete: a route without riders; its subscriptions and trips go with it. A subscription
\* that was inserted since the links were loaded makes the foreign key refuse.
DeleteRoute(r, b) ==
  /\ Arrives(r) /\ route[b].there /\ Riders(b) = {}
  /\ route' = [route EXCEPT ![b].there = FALSE]
  /\ link' = [link EXCEPT ![b] = [s \in Students |-> "none"]]
  /\ trip' = [t \in Trips |-> IF trip[t].route = b THEN [NoTrip EXCEPT !.state = "deleted"] ELSE trip[t]]
  /\ End(r)
  /\ UNCHANGED <<employed, resumed, raced>>

\* An employee leaves.
Dismiss(r, d) ==
  /\ Arrives(r) /\ d \in employed
  /\ employed' = employed \ {d}
  /\ End(r)
  /\ UNCHANGED <<route, link, trip, resumed, raced>>

\* A form that fails to commit, or the end of a trip that is no longer active: no row matches.
Fails(r) ==
  /\ req[r].do \notin {"idle", "ended"}
  /\ End(r)
  /\ UNCHANGED <<route, link, trip, employed, resumed, raced>>
-----------------------------------------------------------------------------
OnTheRoad(b) == {t \in Trips : trip[t].state = "active" /\ trip[t].route = b}

\* driver_trip_start: a route of this driver without a trip. One that has a trip of
\* this driver, or of another, is answered without a write.
StartTrip(r, d, b) ==
  /\ Arrives(r) /\ d \in employed
  /\ route[b].there /\ route[b].plan.active /\ route[b].plan.driver = d
  /\ OnTheRoad(b) = {}
  /\ Becomes(r, [Idle EXCEPT !.do = "start", !.route = b, !.driver = d])
  /\ UNCHANGED <<route, link, trip, employed, resumed, raced>>

\* The partial unique index and the foreign key let the insert through.
Insertable(b) == route[b].there /\ OnTheRoad(b) = {}

Departs(r, t) ==
  /\ req[r].do = "start" /\ Insertable(req[r].route)
  /\ trip[t].state = "none" /\ \A u \in 1 .. t - 1 : trip[u].state # "none"
  /\ trip' = [trip EXCEPT ![t] = [NoTrip EXCEPT !.state = "active", !.route = req[r].route,
                                                 !.driver = req[r].driver]]
  /\ End(r)
  /\ UNCHANGED <<route, link, employed, resumed, raced>>

\* driver_trip_end reads the trip and then ends it if it is still active.
EndTrip(r, t) ==
  /\ Arrives(r) /\ trip[t].state = "active" /\ trip[t].driver \in employed
  /\ Becomes(r, [Idle EXCEPT !.do = "end", !.trip = t])
  /\ UNCHANGED <<route, link, trip, employed, resumed, raced>>

\* What a statement that ends the trip t at the time of who writes.
Ended(t, who) == [trip[t] EXCEPT !.state = "ended", !.ended = who]

\* Mutant: an ORM write, without asking whether the trip is still active.
ArrivesUnconditionally(r) ==
  LET t == req[r].trip IN
  /\ req[r].do = "end" /\ trip[t].state # "deleted"
  /\ \E logged \in {{}, {r}} :
       trip' = [trip EXCEPT ![t] = [Ended(t, r) EXCEPT !.audits = @ \cup logged]]
  /\ End(r)
  /\ UNCHANGED <<route, link, employed, resumed, raced>>

\* One conditional UPDATE; who wins writes the audit entry, which may be lost.
ArrivesAtSchool(r) ==
  LET t == req[r].trip IN
  /\ req[r].do = "end" /\ trip[t].state = "active"
  /\ \E logged \in {{}, {r}} :
       trip' = [trip EXCEPT ![t] = [Ended(t, r) EXCEPT !.audits = @ \cup logged]]
  /\ End(r)
  /\ UNCHANGED <<route, link, employed, resumed, raced>>

\* driver_trip_location: one conditional UPDATE. A location comes every ten seconds; only
\* those that come after a tick matter here.
MayPing(t) ==
  /\ trip[t].state = "active" /\ trip[t].driver \in employed
  /\ route[trip[t].route].plan.active
  /\ route[trip[t].route].plan.driver = trip[t].driver

Ping(t) ==
  /\ MayPing(t) /\ trip[t].idle > 0
  /\ trip' = [trip EXCEPT ![t].idle = 0]
  /\ UNCHANGED <<route, link, employed, req, resumed, raced>>

Tick ==
  /\ \E t \in Trips : trip[t].state = "active" /\ trip[t].idle < Limit
  /\ trip' = [t \in Trips |-> IF trip[t].state = "active" /\ trip[t].idle < Limit
                              THEN [trip[t] EXCEPT !.idle = @ + 1] ELSE trip[t]]
  /\ UNCHANGED <<route, link, employed, req, resumed, raced>>

\* Mutant: only trips whose driver may still send locations expire.
ExpiredIfItMayPing(t) == trip[t].state = "active" /\ trip[t].idle = Limit /\ MayPing(t)

Expired(t) == trip[t].state = "active" /\ trip[t].idle = Limit

\* expire_inactive_trips: one UPDATE over all schools.
Expire ==
  /\ \E t \in Trips : Expired(t)
  /\ trip' = [t \in Trips |-> IF Expired(t) THEN Ended(t, Scheduler) ELSE trip[t]]
  /\ UNCHANGED <<route, link, employed, req, resumed, raced>>
-----------------------------------------------------------------------------
Next ==
  \/ \E r \in Requests :
       \/ \E b \in Routes :
            \/ \E s \in Students :
                 \/ AddStudent(r, b, s) \/ Resume(r, b, s)
                 \/ \E new \in {"inactive", "none"} : Leave(r, b, s, new)
            \/ \E plan \in Plans : Edit(r, b, plan)
            \/ DeleteRoute(r, b)
            \/ \E d \in Drivers : StartTrip(r, d, b)
       \/ \E d \in Drivers : Dismiss(r, d)
       \/ \E t \in Trips : Departs(r, t) \/ EndTrip(r, t)
       \/ Boards(r) \/ SaveEdit(r) \/ ArrivesAtSchool(r) \/ Fails(r)
  \/ \E t \in Trips : Ping(t)
  \/ Tick \/ Expire

Spec == Init /\ [][Next]_vars

\* Time passes and the scheduler's thread comes back every ten minutes.
LiveSpec == Spec /\ WF_vars(Tick) /\ WF_vars(Expire)
-----------------------------------------------------------------------------
TypeOK ==
  /\ route \in [Routes -> [there : BOOLEAN, plan : Plans]]
  /\ link \in [Routes -> [Students -> {"none", "active", "inactive"}]]
  /\ trip \in [Trips -> [state : {"none", "active", "ended", "deleted"}, route : Routes \cup {NoOne},
                         driver : Drivers \cup {NoOne}, idle : 0 .. Limit,
                         ended : Requests \cup {Scheduler, NoOne}, audits : SUBSET Requests]]
  /\ employed \subseteq Drivers
  /\ \A r \in Requests :
       /\ req[r].do \in {"idle", "add", "resume", "edit", "start", "end", "ended"}
       /\ req[r].route \in Routes \cup {NoOne} /\ req[r].student \in Students \cup {NoOne}
       /\ req[r].trip \in Trips \cup {0} /\ req[r].driver \in Drivers \cup {NoOne}
       /\ req[r].plan \in Plans \cup {NoOne}
  /\ resumed \subseteq Students /\ raced \subseteq Students \cup Routes

\* A route carries no more pupils than it has seats, unless two requests overlapped on it:
\* the riders are counted without a lock, and then two can take the last seat.
SeatsSuffice ==
  \A b \in Routes \ raced : Cardinality(Riders(b)) <= route[b].plan.capacity

\* add_student refuses a pupil with an active subscription elsewhere. A pupil whose
\* subscription was switched on again, which nobody compares with the other routes, or who
\* was added twice at once, may have two: these pupils are left out.
OneActiveRoute ==
  \A s \in Students \ (resumed \cup raced) : Cardinality({b \in Routes : link[b][s] = "active"}) <= 1

\* At most one active trip per route, whoever starts one at the same moment.
OneTripPerRoute == \A b \in Routes : Cardinality(OnTheRoad(b)) <= 1

\* "Only the statement that still sees 'active' ends it, so ended_at is never overwritten and
\* only the winner is audited" (driver_trip_end): of the driver's devices and the scheduler,
\* which have all read or will match the same trip, one ends it; its time stays, and so does
\* a row that was deleted with its route.
EndingStep ==
  \A t \in Trips :
    /\ trip[t].state \in {"ended", "deleted"} => trip'[t].state \in {trip[t].state, "deleted"}
    /\ trip[t].state = "ended" /\ trip'[t].state = "ended" =>
         trip'[t].ended = trip[t].ended /\ trip'[t].audits = trip[t].audits
OnlyTheWinnerIsAudited == \A t \in Trips : trip[t].audits \subseteq {trip[t].ended}

\* A trip whose driver has been taken off the route, or whose route is switched off, does
\* not block it for ever.
Stranded(t) == trip[t].state = "active" /\ ~ MayPing(t)
StrandedTripsEnd == \A t \in Trips : Stranded(t) ~> ~ Stranded(t)
=============================================================================
