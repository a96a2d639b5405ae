------------------------------ MODULE MCBackOffice ------------------------------
(* Small instances of the components of BackOffice: two pupils and the         *)
(* scheduler, whose batch one request disturbs; one pupil with two leaves that *)
(* overlap; an employee and a leave; two salaries; one item in two warehouses; *)
(* one process that caches and two requests of a user; one pupil, two teachers *)
(* and two requests around a lesson; a route, two drivers and its trips; two   *)
(* routes and two pupils.                                                      *)
EXTENDS BackOffice

CONSTANTS ann, bob, eve, trip, illness, omar, zaid, north, south

LeavesOfAnn == {[l \in {trip} |-> ann]}
BothOfAnn == {[l \in {trip, illness} |-> ann]}
LeavesOfEve == {[l \in {trip} |-> eve]}

FleetOf ==
  [trips  |-> [routes |-> {north}, students |-> {}, drivers |-> {omar, zaid},
               trips |-> 2, requests |-> 3, seats |-> {1}, limit |-> 2],
   places |-> [routes |-> {north, south}, students |-> {ann, bob}, drivers |-> {},
               trips |-> 0, requests |-> 3, seats |-> {1, 2}, limit |-> 2]]

\* The second leave is approved before the day begins.
Approved == [status |-> "approved", covers |-> TRUE]

\* Shifts are a matter of the sweep for pupils, so the batch has both kinds of school. Of the
\* two teachers or drivers, alike at the start, only one is on duty then; of two employees,
\* alike too, eve's salary is the one that is further.
MCInit ==
  /\ Init
  /\ scenario = "pupil" => leave[illness] = Approved
  /\ scenario \in {"pupil", "staff"} => ~ shifts
  /\ scenario = "salaries" =>
       /\ records[eve] = Salaries!NoRecord => records[ann] = Salaries!NoRecord
       /\ records[ann].status = "approved" => records[eve].status = "approved"
  /\ scenario = "class" => group.teacher # zaid
  /\ scenario = "trips" => route[north].plan.driver # zaid
  /\ scenario = "places" => \A b \in {north, south} : route[b].plan.active

MCSpec == MCInit /\ [][Next]_vars
LiveSpec == MCSpec /\ Fairness
=============================================================================
