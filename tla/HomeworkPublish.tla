----------------------------- MODULE HomeworkPublish -----------------------------
(***************************************************************************)
(* Delayed homework notifications (services/homework_publish.py): a        *)
(* homework saved for a later date stays pending (parents_notified_at IS   *)
(* NULL) until a web request, the outbox worker's sweep or the operator's  *)
(* flush fans it out, in one transaction that claims the row, checks it    *)
(* again, stages the parents' notifications and stamps the marker.         *)
(*                                                                         *)
(* A fan-out is two steps, the claim with its checks and the commit, and   *)
(* holds the row lock in between.  What it stages is the subject of        *)
(* NotificationOutbox; here it is one announcement.                        *)
(***************************************************************************)
EXTENDS Naturals, FiniteSets

CONSTANTS Homeworks,  \* homework ids, naturals
          Requests,   \* web and mobile requests
          Workers,    \* outbox workers, which run the sweep
          Operators,  \* outbox_worker homework-flush
          NoHomework,
          SweepBatch,
          LastDay,    \* bound: the last school-local date
          MaxEdits,   \* bound: edits and deletions, school or year switches
          MaxFaults   \* bound: failed fan-outs and crashes

ASSUME ConstantsAssumption ==
  /\ Homeworks \subseteq Nat /\ NoHomework \notin Homeworks
  /\ Requests \cap Workers = {} /\ (Requests \cup Workers) \cap Operators = {}
  /\ SweepBatch \in Nat \ {0} /\ LastDay \in Nat
  /\ MaxEdits \in Nat /\ MaxFaults \in Nat

Days == 0 .. LastDay
Actors == Requests \cup Workers \cup Operators
Modes == {"none", "inline", "request", "sweep", "flush"}

\* A homework row; "none": not created, "gone": deleted, "inactive": deleted
\* through the mobile app.
Row == [state : {"none", "active", "inactive", "gone"}, publish : Days, due : Days,
        pending : BOOLEAN]
NoRow == [state |-> "none", publish |-> 0, due |-> 0, pending |-> FALSE]

VARIABLES
  today, sendTime,  \* the school's local date; is it past the send hour?
  open,             \* the school is active and the homework's year current
  homework,         \* the homework table
  deferred,         \* the rows saved with a pending marker
  mode, todo,       \* what each actor is doing, and the ids it has to go through
  claimed, verdict, \* the row its transaction holds, and what it will do to it
  announced,        \* how often the parents of each homework were notified
  skipped,          \* homework marked as handled without telling anybody
  edits, faults

vars == <<today, sendTime, open, homework, deferred, mode, todo, claimed, verdict,
          announced, skipped, edits, faults>>
clockVars == <<today, sendTime>>
actorVars == <<mode, todo, claimed, verdict>>
outcomeVars == <<announced, skipped>>

Init ==
  /\ today = 0 /\ sendTime \in BOOLEAN /\ open = TRUE
  /\ homework = [h \in Homeworks |-> NoRow]
  /\ deferred = {}
  /\ mode = [a \in Actors |-> "none"]
  /\ todo = [a \in Actors |-> {}]
  /\ claimed = [a \in Actors |-> NoHomework]
  /\ verdict = [a \in Actors |-> "none"]
  /\ announced = [h \in Homeworks |-> 0]
  /\ skipped = {} /\ edits = 0 /\ faults = 0

Locked(h) == \E a \in Actors : claimed[a] = h
Pending(h) == homework[h].state = "active" /\ homework[h].pending

Begin(a, m, S) ==
  /\ mode' = [mode EXCEPT ![a] = m]
  /\ todo' = [todo EXCEPT ![a] = S]
  /\ UNCHANGED <<claimed, verdict>>
-----------------------------------------------------------------------------
(* Requests. *)

\* The row is committed first, pending only under the DEFER flag; its
\* announcement comes after, in the same request.
Create(r, h, publish, due, defer) ==
  /\ mode[r] = "none"
  /\ homework[h].state = "none"
  /\ publish <= due
  /\ homework' = [homework EXCEPT ![h] = [state |-> "active", publish |-> publish,
                                          due |-> due, pending |-> defer]]
  /\ deferred' = IF defer THEN deferred \cup {h} ELSE deferred
  /\ Begin(r, IF defer THEN "request" ELSE "inline", {h})
  /\ UNCHANGED <<clockVars, open, outcomeVars, edits, faults>>

Change(h) ==
  /\ edits < MaxEdits /\ edits' = edits + 1
  /\ homework[h].state = "active"
  /\ ~ Locked(h)
  /\ UNCHANGED <<clockVars, open, deferred, outcomeVars, faults>>

\* An edit never touches the marker, and announces a row it finds pending.
Edit(r, h, publish, due) ==
  /\ mode[r] = "none"
  /\ publish <= due
  /\ Change(h)
  /\ homework' = [homework EXCEPT ![h].publish = publish, ![h].due = due]
  /\ IF homework[h].pending THEN Begin(r, "request", {h}) ELSE UNCHANGED actorVars

\* The section edit of the mobile app moves the due date, wherever it likes, and
\* leaves a pending row to the sweep.
EditOnPhone(h, due) ==
  /\ Change(h)
  /\ homework' = [homework EXCEPT ![h].due = due]
  /\ UNCHANGED actorVars

\* The web deletes the row, the mobile app deactivates it.
Delete(h) ==
  /\ Change(h)
  /\ \E s \in {"gone", "inactive"} : homework' = [homework EXCEPT ![h].state = s]
  /\ UNCHANGED actorVars

\* The flag-off path of old: parents hear of it at once, or never.
AnnounceInline(r) ==
  /\ mode[r] = "inline"
  /\ \E h \in todo[r] : announced' = [announced EXCEPT ![h] = @ + 1]
  /\ Begin(r, "none", {})
  /\ UNCHANGED <<clockVars, open, homework, deferred, skipped, edits, faults>>
-----------------------------------------------------------------------------
(* The sweep and the flush: the ids are read in a transaction of their own. *)

Before(h, i) ==
  \/ homework[h].publish < homework[i].publish
  \/ homework[h].publish = homework[i].publish /\ h < i

\* A mistake: only today's homework, so that a missed day is never caught up.
DueToday == {h \in Homeworks : sendTime /\ Pending(h) /\ homework[h].publish = today}

Due == {h \in Homeworks : sendTime /\ Pending(h) /\ homework[h].publish <= today}

SweepDue(w) ==
  /\ mode[w] = "none"
  /\ Due # {}
  /\ Begin(w, "sweep",
           {h \in Due : Cardinality({i \in Due : Before(i, h)}) < SweepBatch})
  /\ UNCHANGED <<clockVars, open, homework, deferred, outcomeVars, edits, faults>>

FlushPending(o) ==
  /\ mode[o] = "none"
  /\ \E h \in Homeworks : Pending(h)
  /\ Begin(o, "flush", {h \in Homeworks : Pending(h)})
  /\ UNCHANGED <<clockVars, open, homework, deferred, outcomeVars, edits, faults>>
-----------------------------------------------------------------------------
(* fan_out_homework *)

\* Mistakes: a deleted homework is like any other; only the sweep looks at the
\* date; the row is read without a lock.
IneligibleUnlessDeleted(h) == ~ open \/ homework[h].due < today
NotDueInSweep(a, h) == mode[a] = "sweep" /\ (homework[h].publish > today \/ ~ sendTime)
ClaimableUnlocked(h) == homework[h].state \in {"active", "inactive"} /\ homework[h].pending

\* What the transaction that holds h is going to do with it.
IneligibleReason(h) ==
  homework[h].state = "inactive" \/ ~ open \/ homework[h].due < today

NotDue(a, h) ==
  /\ mode[a] # "flush"
  /\ homework[h].publish > today \/ (mode[a] = "sweep" /\ ~ sendTime)

Claimable(h) ==
  /\ homework[h].state \in {"active", "inactive"}
  /\ homework[h].pending
  /\ ~ Locked(h)

Without(a, h) ==
  /\ todo' = [todo EXCEPT ![a] = @ \ {h}]
  /\ mode' = [mode EXCEPT ![a] = IF todo[a] = {h} THEN "none" ELSE @]

\* SKIP LOCKED passes over a row that is handled, gone or being handled; one
\* that is not due is let go.  Either way nothing is written.
PassOver(a) ==
  /\ mode[a] \in {"request", "sweep", "flush"} /\ claimed[a] = NoHomework
  /\ \E h \in todo[a] : (Claimable(h) => NotDue(a, h)) /\ Without(a, h)
  /\ UNCHANGED <<clockVars, open, homework, deferred, claimed, verdict, outcomeVars,
                 edits, faults>>

Claim(a) ==
  /\ mode[a] \in {"request", "sweep", "flush"} /\ claimed[a] = NoHomework
  /\ \E h \in todo[a] :
       /\ Claimable(h) /\ ~ NotDue(a, h)
       /\ claimed' = [claimed EXCEPT ![a] = h]
       /\ verdict' = [verdict EXCEPT ![a] = IF IneligibleReason(h) THEN "skip"
                                                                   ELSE "stage"]
  /\ UNCHANGED <<clockVars, open, homework, deferred, mode, todo, outcomeVars,
                 edits, faults>>

Release(a) ==
  /\ Without(a, claimed[a])
  /\ claimed' = [claimed EXCEPT ![a] = NoHomework]
  /\ verdict' = [verdict EXCEPT ![a] = "none"]

Commit(a) ==
  LET h == claimed[a] IN
  /\ h # NoHomework
  /\ homework' = [homework EXCEPT ![h].pending = FALSE]
  /\ announced' = IF verdict[a] = "stage" THEN [announced EXCEPT ![h] = @ + 1]
                                          ELSE announced
  /\ skipped' = IF verdict[a] = "skip" THEN skipped \cup {h} ELSE skipped
  /\ Release(a)
  /\ UNCHANGED <<clockVars, open, deferred, edits, faults>>

Fault == faults < MaxFaults /\ faults' = faults + 1

\* A mistake: the marker is committed before the notifications.
FailWithMarkerSet(a) ==
  /\ Fault
  /\ claimed[a] # NoHomework
  /\ homework' = [homework EXCEPT ![claimed[a]].pending = FALSE]
  /\ Release(a)
  /\ UNCHANGED <<clockVars, open, deferred, outcomeVars, edits>>

\* Anything raised in the transaction rolls it back; the id is done with.
FailToFanOut(a) ==
  /\ Fault
  /\ claimed[a] # NoHomework
  /\ Release(a)
  /\ UNCHANGED <<clockVars, open, homework, deferred, outcomeVars, edits>>

Crash(a) ==
  /\ Fault
  /\ mode[a] # "none"
  /\ mode' = [mode EXCEPT ![a] = "none"]
  /\ todo' = [todo EXCEPT ![a] = {}]
  /\ claimed' = [claimed EXCEPT ![a] = NoHomework]
  /\ verdict' = [verdict EXCEPT ![a] = "none"]
  /\ UNCHANGED <<clockVars, open, homework, deferred, outcomeVars, edits>>
-----------------------------------------------------------------------------
(* The world around: the clock, the school, the academic year. *)

SendHour ==
  /\ ~ sendTime /\ sendTime' = TRUE
  /\ UNCHANGED <<today, open, homework, deferred, actorVars, outcomeVars, edits, faults>>

Midnight ==
  /\ sendTime /\ today < LastDay
  /\ today' = today + 1 /\ sendTime' = FALSE
  /\ UNCHANGED <<open, homework, deferred, actorVars, outcomeVars, edits, faults>>

SwitchSchoolOrYear ==
  /\ edits < MaxEdits /\ edits' = edits + 1
  /\ open' = ~ open
  /\ UNCHANGED <<clockVars, homework, deferred, actorVars, outcomeVars, faults>>

FanOutStep(a) == PassOver(a) \/ Claim(a) \/ Commit(a)

Next ==
  \/ \E r \in Requests, h \in Homeworks, p \in Days, d \in Days :
       (\E defer \in BOOLEAN : Create(r, h, p, d, defer)) \/ Edit(r, h, p, d)
  \/ \E h \in Homeworks : Delete(h) \/ \E d \in Days : EditOnPhone(h, d)
  \/ \E r \in Requests : AnnounceInline(r)
  \/ \E w \in Workers : SweepDue(w)
  \/ \E o \in Operators : FlushPending(o)
  \/ \E a \in Actors : FanOutStep(a) \/ FailToFanOut(a) \/ Crash(a)
  \/ SendHour \/ Midnight \/ SwitchSchoolOrYear

Spec == Init /\ [][Next]_vars

\* The clock runs, started work goes on, and the worker sweeps again and again.
Fairness ==
  /\ WF_vars(SendHour) /\ WF_vars(Midnight)
  /\ \A a \in Actors : WF_vars(FanOutStep(a))
  /\ \A w \in Workers : WF_vars(SweepDue(w))

LiveSpec == Spec /\ Fairness
-----------------------------------------------------------------------------
(* Properties. *)

TypeOK ==
  /\ today \in Days /\ sendTime \in BOOLEAN /\ open \in BOOLEAN
  /\ homework \in [Homeworks -> Row]
  /\ deferred \subseteq Homeworks /\ skipped \subseteq Homeworks
  /\ mode \in [Actors -> Modes]
  /\ todo \in [Actors -> SUBSET Homeworks]
  /\ claimed \in [Actors -> Homeworks \cup {NoHomework}]
  /\ verdict \in [Actors -> {"none", "skip", "stage"}]
  /\ announced \in [Homeworks -> Nat]
  /\ edits \in 0 .. MaxEdits /\ faults \in 0 .. MaxFaults

\* "Database fan-out at most once per homework (the claim + marker)", whoever
\* announces: its own request, an edit, sweeps of several workers, a flush.
AnnouncedAtMostOnce == \A h \in Homeworks : announced[h] <= 1

\* The marker tells the truth of every row saved as pending: stamped exactly
\* when its parents were told or it was skipped, once and for all.
MarkerIsTruthful ==
  \A h \in deferred :
    homework[h].pending <=> announced[h] = 0 /\ h \notin skipped

\* Nobody hears of a deferred homework before the date it publishes on, however
\* it is edited meanwhile (an operator's flush aside).
NeverEarlyStep ==
  \A h \in deferred : announced'[h] # announced[h] =>
    homework[h].publish <= today \/ \E o \in Operators : claimed[o] = h
NeverEarly == [][NeverEarlyStep]_vars

\* Parents are never told of a homework after it was deleted.
NeverAfterDeletionStep ==
  \A h \in deferred : announced'[h] # announced[h] => homework[h].state = "active"
NeverAfterDeletion == [][NeverAfterDeletionStep]_vars

\* A pending homework is handled once its date has come, unless it is deleted
\* or postponed: "a missed run (worker stopped, VPS offline) is caught up".
EventuallyHandled ==
  \A h \in Homeworks :
    Pending(h) /\ homework[h].publish <= today ~> ~ Pending(h) \/ homework[h].publish > today
=============================================================================
