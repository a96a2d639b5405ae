---------------------------- MODULE BackOfficeProofs ----------------------------
(***************************************************************************)
(* Proofs about the components of BackOffice, for any values of their      *)
(* constants, and about their composition.                                 *)
(***************************************************************************)
EXTENDS BackOffice, Sequences, FiniteSetTheorems, TLAPS

-----------------------------------------------------------------------------
(* The badge cache. A value is in truth[t] if it was the count at time t; an  *)
(* entry, and a value on its way to one, was right when it was loaded.       *)

LoadedSince(value, from) == \E t \in from .. badgeClock : value \in truth[t]

BadgeInv ==
  /\ Badge!TypeOK
  /\ truth \in [0 .. MaxTime -> SUBSET Int]
  /\ count \in truth[badgeClock] /\ 0 \in truth[0]
  /\ \A w \in Workers : \E t \in 0 .. badgeClock :
       store[w].expires <= t + TTL /\ store[w].value \in truth[t]
  /\ \A r \in Loads :
       /\ badgeReq[r].pc \in {"loading", "loaded"} => badgeReq[r].now <= badgeClock
       /\ badgeReq[r].pc = "loaded" => LoadedSince(badgeReq[r].value, badgeReq[r].now)

BadgeRequest == [pc : {"idle", "loading", "loaded", "read"}, worker : Workers,
                 now : 0 .. MaxTime, value : 0 .. MaxCount]

LEMMA NoReqIsRequest == Badge!NoReq \in BadgeRequest
BY BadgeAssumption DEF Badge!NoReq, BadgeRequest

LEMMA InitBadgeInv == Badge!Init => BadgeInv
<1> SUFFICES ASSUME Badge!Init PROVE BadgeInv
  OBVIOUS
<1> USE BadgeAssumption
<1>1. Badge!TypeOK
  BY NoReqIsRequest DEF Badge!Init, Badge!TypeOK, Badge!NoEntry, BadgeRequest
<1>2. truth \in [0 .. MaxTime -> SUBSET Int] /\ truth[0] = {0} /\ count = 0 /\ badgeClock = 0
  BY DEF Badge!Init
<1>3. \A w \in Workers : store[w].expires <= 0 + TTL /\ store[w].value \in truth[0]
  BY <1>2 DEF Badge!Init, Badge!NoEntry
<1>4. \A r \in Loads : badgeReq[r].pc = "idle"
  BY DEF Badge!Init, Badge!NoReq
<1> QED BY <1>1, <1>2, <1>3, <1>4 DEF BadgeInv

\* Nothing of this is lost while what was the count at a time is kept.
LEMMA TruthGrows ==
  ASSUME BadgeInv, badgeClock' \in Nat, badgeClock <= badgeClock',
         \A t \in 0 .. badgeClock : truth[t] \subseteq truth'[t]
  PROVE  /\ 0 \in truth'[0]
         /\ \A w \in Workers : \E t \in 0 .. badgeClock' :
              store[w].expires <= t + TTL /\ store[w].value \in truth'[t]
         /\ \A v, n : n \in Nat /\ LoadedSince(v, n) => LoadedSince(v, n)'
<1>1. badgeClock \in Nat
  BY BadgeAssumption DEF BadgeInv, Badge!TypeOK
<1> QED BY <1>1 DEF BadgeInv, LoadedSince

LEMMA BadgeStep == BadgeInv /\ [Badge!Next]_badgeVars => BadgeInv'
<1> SUFFICES ASSUME BadgeInv, [Badge!Next]_badgeVars PROVE BadgeInv'
  OBVIOUS
<1> USE BadgeAssumption
<1>t. /\ count \in 0 .. MaxCount /\ badgeClock \in 0 .. MaxTime
      /\ store \in [Workers -> [value : 0 .. MaxCount, expires : 0 .. MaxTime + TTL]]
      /\ badgeReq \in [Loads -> BadgeRequest]
      /\ truth \in [0 .. MaxTime -> SUBSET Int]
      /\ count \in truth[badgeClock] /\ 0 \in truth[0]
  BY DEF BadgeInv, Badge!TypeOK, BadgeRequest
\* A request that becomes n.
<1>b. ASSUME NEW r \in Loads, NEW n \in BadgeRequest, badgeReq' = [badgeReq EXCEPT ![r] = n],
             badgeClock' = badgeClock, \A t \in 0 .. badgeClock : truth[t] \subseteq truth'[t],
             n.pc \in {"loading", "loaded"} => n.now <= badgeClock,
             n.pc = "loaded" => LoadedSince(n.value, n.now)'
      PROVE  /\ badgeReq' \in [Loads -> BadgeRequest]
             /\ \A q \in Loads :
                  /\ badgeReq'[q].pc \in {"loading", "loaded"} => badgeReq'[q].now <= badgeClock'
                  /\ badgeReq'[q].pc = "loaded" => LoadedSince(badgeReq[q].value, badgeReq[q].now)'
  <2>1. badgeReq' \in [Loads -> BadgeRequest] /\ badgeReq'[r] = n
        /\ \A q \in Loads \ {r} : badgeReq'[q] = badgeReq[q]
    BY <1>t, <1>b
  <2>2. \A q \in Loads \ {r} :
          /\ badgeReq[q].pc \in {"loading", "loaded"} => badgeReq[q].now <= badgeClock
          /\ badgeReq[q].pc = "loaded" => LoadedSince(badgeReq[q].value, badgeReq[q].now)
          /\ badgeReq[q].now \in Nat
    BY <1>t DEF BadgeInv, BadgeRequest
  <2>3. \A q \in Loads \ {r} :
          badgeReq[q].pc = "loaded" => LoadedSince(badgeReq[q].value, badgeReq[q].now)'
    BY <1>b, <1>t, <2>1, <2>2 DEF LoadedSince
  <2>4. LoadedSince(badgeReq[r].value, badgeReq[r].now)' <=> LoadedSince(n.value, n.now)'
    BY <2>1 DEF LoadedSince
  <2> QED BY <1>b, <2>1, <2>2, <2>3, <2>4
<1> DEFINE Kept == /\ truth' \in [0 .. MaxTime -> SUBSET Int]
                   /\ count' \in truth'[badgeClock'] /\ count' \in 0 .. MaxCount
                   /\ badgeClock' \in 0 .. MaxTime /\ badgeClock <= badgeClock'
                   /\ \A t \in 0 .. badgeClock : truth[t] \subseteq truth'[t]
\* The entry of a process that becomes e.
<1>e. ASSUME NEW w \in Workers, NEW e \in [value : 0 .. MaxCount, expires : 0 .. MaxTime + TTL],
             store' = [store EXCEPT ![w] = e], UNCHANGED <<truth, badgeClock>>,
             \E t \in 0 .. badgeClock : e.expires <= t + TTL /\ e.value \in truth[t]
      PROVE  /\ store' \in [Workers -> [value : 0 .. MaxCount, expires : 0 .. MaxTime + TTL]]
             /\ \A v \in Workers : \E t \in 0 .. badgeClock' :
                  store'[v].expires <= t + TTL /\ store'[v].value \in truth'[t]
  <2>1. store' \in [Workers -> [value : 0 .. MaxCount, expires : 0 .. MaxTime + TTL]]
        /\ store'[w] = e /\ \A v \in Workers \ {w} : store'[v] = store[v]
    BY <1>t, <1>e
  <2> QED BY <1>e, <2>1 DEF BadgeInv
<1>k. ASSUME UNCHANGED store, Kept,
             badgeReq' \in [Loads -> BadgeRequest],
             \A q \in Loads :
               /\ badgeReq'[q].pc \in {"loading", "loaded"} => badgeReq'[q].now <= badgeClock'
               /\ badgeReq'[q].pc = "loaded" => LoadedSince(badgeReq[q].value, badgeReq[q].now)'
      PROVE  BadgeInv'
  <2>1. Badge!TypeOK'
    BY <1>t, <1>k DEF Badge!TypeOK, BadgeRequest
  <2>2. /\ 0 \in truth'[0]
        /\ \A w \in Workers : \E t \in 0 .. badgeClock' :
             store[w].expires <= t + TTL /\ store[w].value \in truth'[t]
    BY <1>k, TruthGrows
  <2> QED BY <1>k, <2>1, <2>2 DEF BadgeInv, LoadedSince
<1>s. UNCHANGED <<badgeClock, truth, count>> => Kept
  BY <1>t
<1>n. \A q \in Loads : /\ badgeReq[q].now \in Nat
                       /\ badgeReq[q].pc \in {"loading", "loaded"} => badgeReq[q].now <= badgeClock
                       /\ badgeReq[q].pc = "loaded" => LoadedSince(badgeReq[q].value, badgeReq[q].now)
  BY <1>t DEF BadgeInv, BadgeRequest
\* Time, and what others do, only add to the truth.
<1>1. CASE Badge!Tick \/ Badge!Arrive \/ UNCHANGED badgeVars
  <2>1. Kept /\ UNCHANGED <<store, badgeReq>>
    <3>1. CASE Badge!Tick
      BY <1>t, <3>1 DEF Badge!Tick
    <3>2. CASE Badge!Arrive
      BY <1>t, <3>2 DEF Badge!Arrive, Badge!Sees
    <3>3. CASE UNCHANGED badgeVars
      BY <1>t, <3>3 DEF badgeVars
    <3> QED BY <1>1, <3>1, <3>2, <3>3
  <2>2. \A q \in Loads :
          /\ badgeReq'[q].pc \in {"loading", "loaded"} => badgeReq'[q].now <= badgeClock'
          /\ badgeReq'[q].pc = "loaded" => LoadedSince(badgeReq[q].value, badgeReq[q].now)'
    <3>1. \A v, n : n \in Nat /\ LoadedSince(v, n) => LoadedSince(v, n)'
      BY <2>1, TruthGrows
    <3>2. \A q \in Loads : badgeReq[q].now <= badgeClock => badgeReq[q].now <= badgeClock'
      BY <1>n, <1>t, <2>1
    <3>3. \A q \in Loads : LoadedSince(badgeReq[q].value, badgeReq[q].now)' <=>
             \E t \in badgeReq[q].now .. badgeClock' : badgeReq[q].value \in truth'[t]
      BY <2>1 DEF LoadedSince
    <3>4. \A v, n : LoadedSince(v, n)' <=> \E t \in n .. badgeClock' : v \in truth'[t]
      BY DEF LoadedSince
    <3> QED BY <1>n, <2>1, <3>1, <3>2, <3>3, <3>4
  <2> QED BY <1>k, <1>t, <2>1, <2>2
<1>2. ASSUME NEW r \in Loads, NEW w \in Workers, Badge!Miss(r, w) PROVE BadgeInv'
  <2> DEFINE n == [Badge!NoReq EXCEPT !.pc = "loading", !.worker = w, !.now = badgeClock]
  <2>1. n \in BadgeRequest /\ n.pc = "loading" /\ n.now = badgeClock
    BY <1>t, NoReqIsRequest DEF BadgeRequest
  <2>2. badgeReq' = [badgeReq EXCEPT ![r] = n] /\ UNCHANGED <<count, badgeClock, store, truth>>
    BY <1>2 DEF Badge!Miss
  <2> QED BY <1>b, <1>k, <1>s, <1>t, <2>1, <2>2
<1>3. ASSUME NEW r \in Loads, Badge!Load(r) PROVE BadgeInv'
  <2> DEFINE n == [badgeReq[r] EXCEPT !.pc = "loaded", !.value = count]
  <2>1. n \in BadgeRequest /\ n.pc = "loaded" /\ n.now = badgeReq[r].now /\ n.value = count
        /\ n.now <= badgeClock /\ n.now \in Nat
    BY <1>3, <1>n, <1>t DEF Badge!Load, BadgeRequest
  <2>2. badgeReq' = [badgeReq EXCEPT ![r] = n] /\ UNCHANGED <<count, badgeClock, store, truth>>
    BY <1>3 DEF Badge!Load
  <2>3. LoadedSince(n.value, n.now)'
    BY <1>t, <2>1, <2>2 DEF LoadedSince
  <2> QED BY <1>b, <1>k, <1>s, <1>t, <2>1, <2>2, <2>3
<1>4. ASSUME NEW r \in Loads, Badge!LoadFails(r) PROVE BadgeInv'
  <2>1. /\ badgeReq' = [badgeReq EXCEPT ![r] = Badge!NoReq] /\ UNCHANGED <<count, badgeClock, store, truth>>
    BY <1>4 DEF Badge!LoadFails
  <2>2. Badge!NoReq.pc = "idle"
    BY DEF Badge!NoReq
  <2> QED BY <1>b, <1>k, <1>s, <1>t, <2>1, <2>2, NoReqIsRequest
<1>5. ASSUME NEW r \in Loads, NEW w \in Workers, Badge!Read(r, w) PROVE BadgeInv'
  <2> DEFINE n == [Badge!NoReq EXCEPT !.pc = "read", !.worker = w]
  <2>1. n \in BadgeRequest /\ n.pc = "read"
    BY NoReqIsRequest DEF BadgeRequest
  <2>2. badgeReq' = [badgeReq EXCEPT ![r] = n] /\ UNCHANGED store /\ Kept
    BY <1>5, <1>t DEF Badge!Read, Badge!Sees
  <2>3. badgeClock' = badgeClock
    BY <1>5 DEF Badge!Read
  <2> QED BY <1>b, <1>k, <1>t, <2>1, <2>2, <2>3
\* An entry expires TTL after the lookup that missed, which was before the load.
<1>6. ASSUME NEW r \in Loads, Badge!Store(r) \/ Badge!Invalidate(r) PROVE BadgeInv'
  <2> DEFINE w == badgeReq[r].worker
             e == IF Badge!Store(r)
                  THEN [value |-> badgeReq[r].value, expires |-> badgeReq[r].now + TTL]
                  ELSE Badge!NoEntry
  <2>1. /\ badgeReq' = [badgeReq EXCEPT ![r] = Badge!NoReq] /\ UNCHANGED <<count, badgeClock, truth>>
        /\ store' = [store EXCEPT ![w] = e] /\ w \in Workers
    BY <1>6, <1>t DEF Badge!Store, Badge!Invalidate, BadgeRequest
  <2>2. e \in [value : 0 .. MaxCount, expires : 0 .. MaxTime + TTL]
    BY <1>t DEF BadgeRequest, Badge!NoEntry
  <2>3. \E t \in 0 .. badgeClock : e.expires <= t + TTL /\ e.value \in truth[t]
    <3>1. CASE Badge!Store(r)
      <4>1. PICK t \in badgeReq[r].now .. badgeClock : badgeReq[r].value \in truth[t]
        BY <1>n, <3>1 DEF Badge!Store, LoadedSince
      <4>2. t \in 0 .. badgeClock /\ badgeReq[r].now + TTL <= t + TTL
        BY <1>n, <1>t
      <4> QED BY <3>1, <4>1, <4>2
    <3>2. CASE ~ Badge!Store(r)
      BY <1>t, <3>2 DEF Badge!NoEntry
    <3> QED BY <3>1, <3>2
  <2> HIDE DEF e, w
  <2>4. /\ store' \in [Workers -> [value : 0 .. MaxCount, expires : 0 .. MaxTime + TTL]]
        /\ \A v \in Workers : \E t \in 0 .. badgeClock' :
             store'[v].expires <= t + TTL /\ store'[v].value \in truth'[t]
    BY <1>e, <2>1, <2>2, <2>3
  <2>5. Badge!NoReq.pc = "idle"
    BY DEF Badge!NoReq
  <2>6. /\ badgeReq' \in [Loads -> BadgeRequest]
        /\ \A q \in Loads :
             /\ badgeReq'[q].pc \in {"loading", "loaded"} => badgeReq'[q].now <= badgeClock'
             /\ badgeReq'[q].pc = "loaded" => LoadedSince(badgeReq[q].value, badgeReq[q].now)'
    BY <1>b, <2>1, <2>5, NoReqIsRequest
  <2>7. Badge!TypeOK'
    BY <1>t, <2>1, <2>4, <2>6 DEF Badge!TypeOK, BadgeRequest
  <2> QED BY <1>t, <2>1, <2>4, <2>6, <2>7 DEF BadgeInv, LoadedSince
<1> QED BY <1>1, <1>2, <1>3, <1>4, <1>5, <1>6 DEF Badge!Next

LEMMA BadgesLagLittle == BadgeInv => Badge!LagIsBounded
<1> SUFFICES ASSUME BadgeInv, NEW w \in Workers, store[w].expires > badgeClock
             PROVE  \E t \in 0 .. badgeClock : badgeClock < t + TTL /\ store[w].value \in truth[t]
  BY DEF Badge!LagIsBounded, Badge!Hit
<1>1. badgeClock \in Nat /\ store[w].expires \in Nat
  BY BadgeAssumption DEF BadgeInv, Badge!TypeOK
<1>2. PICK t \in 0 .. badgeClock : store[w].expires <= t + TTL /\ store[w].value \in truth[t]
  BY DEF BadgeInv
<1> QED BY <1>1, <1>2, BadgeAssumption

-----------------------------------------------------------------------------
(* Lessons. A record and the last job of its pupil's parents change in one     *)
(* commit. The teacher's row follows the session's snapshot because a request  *)
(* that found the session has read its teacher there (Loyal), and one that did *)
(* not looks at the snapshot again before it writes.                           *)

\* A snapshot and the teachers' rows belong to a session that is there.
SessionComesFirst ==
  /\ session.teacher # NoOne \/ lesson # <<>> => session.open
  /\ \A r \in Class!Requests : lessonReq[r].pc = "opened" => session.open

\* A request for the teachers' sheet that found a session with a teacher has that teacher.
Loyal ==
  \A r \in Class!Requests :
    /\ lessonReq[r].pc = "creating" => lessonReq[r].fresh
    /\ lessonReq[r].pc \in {"creating", "opened"} /\ lessonReq[r].kind = "lesson" =>
         lessonReq[r].teacher # NoOne
    /\ /\ lessonReq[r].pc = "opened" /\ lessonReq[r].kind = "lesson"
       /\ ~ lessonReq[r].fresh /\ session.teacher # NoOne
       => lessonReq[r].teacher = session.teacher

LessonInv == Class!TypeOK /\ Class!FeedFollowsRecords /\ Class!SnapshotRules /\ SessionComesFirst /\ Loyal

LessonRequest == [pc : {"idle", "creating", "opened", "read", "ended"}, kind : {"pupils", "lesson"},
            fresh : BOOLEAN, teacher : Teachers \cup {NoOne},
            marks : Class!Marks, seen : Class!Marks, at : 0 .. LessonTime]
LessonRow == [teacher : Teachers, status : LessonStatuses]
LessonJob == [status : LessonStatuses, at : 0 .. LessonTime]
LEMMA NothingIsMarked == Class!Nothing \in Class!Marks
BY DEF Class!Nothing, Class!Marks

LEMMA IdleIsLessonRequest == Class!Idle \in LessonRequest
BY NothingIsMarked, ClassAssumption DEF Class!Idle, LessonRequest

LEMMA InitLessonInv == Class!Init => LessonInv
<1> SUFFICES ASSUME Class!Init PROVE LessonInv
  OBVIOUS
<1>1. Class!TypeOK
  <2>1. lessonReq \in [Class!Requests -> LessonRequest] /\ record \in Class!Marks
    BY IdleIsLessonRequest, NothingIsMarked DEF Class!Init
  <2>2. 0 \in 0 .. LessonTime /\ 0 \in 0 .. LessonChanges
    BY ClassAssumption
  <2>3. lesson \in Seq(LessonRow) /\ feed \in [Members -> Seq(LessonJob)]
    BY DEF Class!Init
  <2>4. group \in Class!Groups /\ session \in [open : BOOLEAN, teacher : Teachers \cup {NoOne}, recorded : BOOLEAN]
    BY DEF Class!Init, Class!Groups
  <2> QED BY <2>1, <2>2, <2>3, <2>4 DEF Class!Init, Class!TypeOK, LessonRequest, LessonRow,
      LessonJob
<1>2. Class!FeedFollowsRecords
  BY DEF Class!Init, Class!FeedFollowsRecords, Class!Nothing
<1>3. Class!SnapshotRules /\ SessionComesFirst /\ Loyal
  BY DEF Class!Init, Class!SnapshotRules, SessionComesFirst, Loyal, Class!Idle
<1> QED BY <1>1, <1>2, <1>3 DEF LessonInv

\* The teacher a request resolves, and that it is the snapshot's where there is one.
LEMMA Scheduled ==
  ASSUME LessonInv
  PROVE  /\ Class!ScheduledTeacher \in Teachers \cup {NoOne}
         /\ session.teacher # NoOne => Class!ScheduledTeacher = session.teacher
<1>1. CASE session.open /\ lesson # <<>>
  <2>1. lesson \in Seq(LessonRow)
    BY DEF LessonInv, Class!TypeOK, LessonRow
  <2>2. 1 \in 1 .. Len(lesson) /\ lesson[1] \in LessonRow
    BY <1>1, <2>1
  <2> QED BY <1>1, <2>2 DEF Class!ScheduledTeacher, LessonInv, Class!SnapshotRules, LessonRow
<1>2. CASE ~ (session.open /\ lesson # <<>>)
  BY <1>2 DEF Class!ScheduledTeacher, LessonInv, Class!TypeOK, Class!Groups, SessionComesFirst
<1> QED BY <1>1, <1>2

LEMMA LessonOpens ==
  ASSUME LessonInv, NEW r \in Class!Requests, NEW kind \in {"pupils", "lesson"}, Class!Open(r, kind)
  PROVE  LessonInv'
<1> USE DEF Class!Open
<1>1. /\ lessonReq \in [Class!Requests -> LessonRequest] /\ Class!Idle \in LessonRequest
      /\ group.teacher \in Teachers \cup {NoOne}
  BY IdleIsLessonRequest DEF LessonInv, Class!TypeOK, LessonRequest, Class!Groups
<1>2. lessonReq'[r] \in LessonRequest /\ \A q \in Class!Requests \ {r} : lessonReq'[q] = lessonReq[q]
  BY <1>1, Scheduled DEF LessonRequest, LessonInv, Class!TypeOK
<1>3. /\ lessonReq'[r].pc = IF session.open THEN "opened" ELSE "creating"
      /\ lessonReq'[r].kind = kind /\ lessonReq'[r].fresh = ~ session.open
      /\ kind = "lesson" => lessonReq'[r].teacher = Class!ScheduledTeacher
  BY <1>1 DEF LessonRequest, Class!Idle
<1>4. lessonReq' \in [Class!Requests -> LessonRequest]
  BY <1>1, <1>2
<1>5. Class!TypeOK'
  BY <1>4 DEF LessonInv, Class!TypeOK, LessonRequest, Class!Groups
<1>6. Class!FeedFollowsRecords' /\ Class!SnapshotRules'
  BY DEF LessonInv, Class!FeedFollowsRecords, Class!SnapshotRules
<1>7. SessionComesFirst'
  BY <1>2, <1>3 DEF LessonInv, SessionComesFirst
<1>8. Loyal'
  <2>1. lessonReq'[r].pc = "creating" => lessonReq'[r].fresh
    <3>1. CASE session.open
      BY <1>3, <3>1
    <3>2. CASE ~ session.open
      BY <1>3, <3>2
    <3> QED BY <3>1, <3>2
  <2>2. lessonReq'[r].kind = "lesson" => lessonReq'[r].teacher # NoOne
    BY <1>3
  <2>3. lessonReq'[r].kind = "lesson" /\ session.teacher # NoOne => lessonReq'[r].teacher = session.teacher
    BY <1>3, Scheduled
  <2> QED BY <1>2, <2>1, <2>2, <2>3 DEF LessonInv, Loyal
<1> QED BY <1>5, <1>6, <1>7, <1>8 DEF LessonInv

LEMMA SessionBegins ==
  ASSUME LessonInv, NEW r \in Class!Requests, Class!Create(r)
  PROVE  LessonInv'
<1> USE DEF Class!Create
<1>1. lessonReq \in [Class!Requests -> LessonRequest] /\ session.open \in BOOLEAN
  BY DEF LessonInv, Class!TypeOK, LessonRequest
<1>2. /\ lessonReq'[r] \in LessonRequest /\ \A q \in Class!Requests \ {r} : lessonReq'[q] = lessonReq[q]
      /\ lessonReq'[r] = [lessonReq[r] EXCEPT !.pc = "opened"] /\ lessonReq[r].fresh
  BY <1>1 DEF LessonRequest, LessonInv, Loyal
<1>3. session.open => session' = session
  OBVIOUS
<1>4. ~ session.open => /\ session' = [open |-> TRUE, teacher |-> lessonReq[r].teacher, recorded |-> FALSE]
                        /\ session.teacher = NoOne /\ lesson = <<>>
                        /\ \A q \in Class!Requests : lessonReq[q].pc # "opened"
  BY DEF LessonInv, SessionComesFirst
<1>5. Class!TypeOK'
  <2>1. session' \in [open : BOOLEAN, teacher : Teachers \cup {NoOne}, recorded : BOOLEAN]
    BY <1>1, <1>3, <1>4 DEF LessonInv, Class!TypeOK, LessonRequest
  <2>2. lessonReq' \in [Class!Requests -> LessonRequest]
    BY <1>1, <1>2
  <2> QED BY <2>1, <2>2 DEF LessonInv, Class!TypeOK, LessonRequest, Class!Groups
<1>6. Class!FeedFollowsRecords'
  BY DEF LessonInv, Class!FeedFollowsRecords
<1>7. Class!SnapshotRules'
  BY <1>1, <1>3, <1>4 DEF LessonInv, Class!SnapshotRules
<1>8. SessionComesFirst'
  BY <1>1, <1>2, <1>3, <1>4 DEF LessonInv, SessionComesFirst
<1>9. Loyal'
  <2>1. /\ lessonReq'[r].pc = "opened" /\ lessonReq'[r].fresh
        /\ lessonReq'[r].kind = lessonReq[r].kind /\ lessonReq'[r].teacher = lessonReq[r].teacher
    BY <1>1, <1>2 DEF LessonRequest
  <2> QED BY <1>1, <1>2, <1>3, <1>4, <2>1 DEF LessonInv, Loyal
<1> QED BY <1>5, <1>6, <1>7, <1>8, <1>9 DEF LessonInv

\* A request that only reads, or ends without a write.
LEMMA LessonReaders ==
  ASSUME LessonInv, NEW r \in Class!Requests,
         Class!CreateFails(r) \/ (\E marks \in Class!Marks : Class!ReadRecords(r, marks)) \/ Class!Refuse(r)
  PROVE  LessonInv'
<1>1. UNCHANGED <<rule, group, session, record, lesson, feed, second, changes>>
  BY DEF Class!CreateFails, Class!ReadRecords, Class!Refuse
<1>2. /\ lessonReq' \in [Class!Requests -> LessonRequest]
      /\ \A q \in Class!Requests \ {r} : lessonReq'[q] = lessonReq[q]
  <2>1. lessonReq \in [Class!Requests -> LessonRequest] /\ Class!Idle \in LessonRequest
    BY IdleIsLessonRequest DEF LessonInv, Class!TypeOK, LessonRequest
  <2>2. CASE Class!CreateFails(r) \/ Class!Refuse(r)
    BY <2>1, <2>2 DEF Class!CreateFails, Class!Refuse, LessonRequest
  <2>3. CASE \E marks \in Class!Marks : Class!ReadRecords(r, marks)
    <3>1. PICK marks \in Class!Marks : Class!ReadRecords(r, marks)
      BY <2>3
    <3>2. [s \in Members |-> IF s \in group.suspended THEN Unmarked ELSE marks[s]] \in Class!Marks
      BY DEF Class!Marks
    <3>3. record \in Class!Marks /\ second \in 0 .. LessonTime
      BY DEF LessonInv, Class!TypeOK
    <3> QED BY <2>1, <3>1, <3>2, <3>3 DEF Class!ReadRecords, LessonRequest
  <2> QED BY <2>2, <2>3
<1>3. lessonReq'[r].pc \in {"read", "ended"}
  <2>1. lessonReq \in [Class!Requests -> LessonRequest] /\ Class!Idle \in LessonRequest
    BY IdleIsLessonRequest DEF LessonInv, Class!TypeOK, LessonRequest
  <2>2. CASE Class!CreateFails(r) \/ Class!Refuse(r)
    BY <2>1, <2>2 DEF Class!CreateFails, Class!Refuse, LessonRequest
  <2>3. CASE \E marks \in Class!Marks : Class!ReadRecords(r, marks)
    <3>1. PICK marks \in Class!Marks : Class!ReadRecords(r, marks)
      BY <2>3
    <3> QED BY <2>1, <3>1 DEF Class!ReadRecords, LessonRequest
  <2> QED BY <2>2, <2>3
<1>4. Class!TypeOK'
  BY <1>1, <1>2 DEF LessonInv, Class!TypeOK, LessonRequest, Class!Groups
<1>5. Class!FeedFollowsRecords' /\ Class!SnapshotRules'
  BY <1>1 DEF LessonInv, Class!FeedFollowsRecords, Class!SnapshotRules
<1>6. SessionComesFirst' /\ Loyal'
  BY <1>1, <1>2, <1>3 DEF LessonInv, SessionComesFirst, Loyal
<1> QED BY <1>4, <1>5, <1>6 DEF LessonInv
\* What a submission writes of each pupil.
LEMMA SubmitWrites ==
  ASSUME LessonInv, NEW r \in Class!Requests, Class!Submit(r), NEW s \in Members
  PROVE  /\ s \in Class!Changed(r) =>
              /\ lessonReq[r].marks[s] \in LessonStatuses /\ lessonReq[r].marks[s] # lessonReq[r].seen[s]
              /\ record'[s] = lessonReq[r].marks[s]
              /\ Class!Entry(r, s) \in LessonJob
              /\ feed'[s] = Append(feed[s], Class!Entry(r, s))
         /\ s \notin Class!Changed(r) => record'[s] = record[s] /\ feed'[s] = feed[s]
<1>1. lessonReq[r] \in LessonRequest
  BY DEF LessonInv, Class!TypeOK, LessonRequest
<1>2. s \in Class!Changed(r) <=> lessonReq[r].marks[s] \notin {Unmarked, lessonReq[r].seen[s]}
  BY DEF Class!Changed
<1>3. lessonReq[r].marks[s] \in LessonStatuses \cup {Unmarked}
  BY <1>1 DEF LessonRequest, Class!Marks
<1> QED BY <1>1, <1>2, <1>3 DEF Class!Submit, Class!Entry, LessonJob, LessonRequest

LEMMA MarksAreSubmitted ==
  ASSUME LessonInv, NEW r \in Class!Requests, Class!Submit(r)
  PROVE  LessonInv'
<1>1. UNCHANGED <<rule, group, lesson, second, changes>>
  BY DEF Class!Submit
<1>2. /\ session' \in [open : BOOLEAN, teacher : Teachers \cup {NoOne}, recorded : BOOLEAN]
      /\ session'.open = session.open /\ session'.teacher = session.teacher
  BY DEF Class!Submit, LessonInv, Class!TypeOK
<1>3. /\ lessonReq' \in [Class!Requests -> LessonRequest] /\ lessonReq'[r].pc = "ended"
      /\ \A q \in Class!Requests \ {r} : lessonReq'[q] = lessonReq[q]
  <2>1. lessonReq \in [Class!Requests -> LessonRequest] /\ Class!Idle \in LessonRequest
    BY IdleIsLessonRequest DEF LessonInv, Class!TypeOK, LessonRequest
  <2> QED BY <2>1 DEF Class!Submit, LessonRequest
<1>4. record' \in Class!Marks
  <2>1. record' = [s \in Members |-> IF s \in Class!Changed(r) THEN lessonReq[r].marks[s] ELSE record[s]]
    BY DEF Class!Submit
  <2>2. \A s \in Members : record'[s] \in LessonStatuses \cup {Unmarked}
    BY SubmitWrites DEF LessonInv, Class!TypeOK, Class!Marks
  <2> QED BY <2>1, <2>2 DEF Class!Marks
<1>5. feed' \in [Members -> Seq(LessonJob)]
  <2>1. feed' = [s \in Members |-> IF s \in Class!Changed(r) THEN Append(feed[s], Class!Entry(r, s)) ELSE feed[s]]
    BY DEF Class!Submit
  <2>2. ASSUME NEW s \in Members PROVE feed'[s] \in Seq(LessonJob)
    <3>1. feed[s] \in Seq(LessonJob)
      BY DEF LessonInv, Class!TypeOK, LessonJob
    <3>2. \/ feed'[s] = feed[s]
          \/ feed'[s] = Append(feed[s], Class!Entry(r, s)) /\ Class!Entry(r, s) \in LessonJob
      BY SubmitWrites
    <3> QED BY <3>1, <3>2
  <2> QED BY <2>1, <2>2
<1>6. Class!TypeOK'
  BY <1>1, <1>2, <1>3, <1>4, <1>5 DEF LessonInv, Class!TypeOK, LessonRequest, LessonJob,
      Class!Groups
<1>7. Class!FeedFollowsRecords'
  <2> SUFFICES ASSUME NEW s \in Members
               PROVE  record'[s] = IF feed'[s] = <<>> THEN Unmarked ELSE feed'[s][Len(feed'[s])].status
    BY DEF Class!FeedFollowsRecords
  <2>1. CASE s \in Class!Changed(r)
    <3>1. feed[s] \in Seq(LessonJob) /\ Class!Entry(r, s) \in LessonJob
      BY <2>1, SubmitWrites DEF LessonInv, Class!TypeOK, LessonJob
    <3>2. feed'[s] # <<>> /\ feed'[s][Len(feed'[s])] = Class!Entry(r, s)
      BY <2>1, <3>1, SubmitWrites
    <3> QED BY <2>1, <3>2, SubmitWrites DEF Class!Entry
  <2>2. CASE s \notin Class!Changed(r)
    BY <2>2, SubmitWrites DEF LessonInv, Class!FeedFollowsRecords
  <2> QED BY <2>1, <2>2
<1>8. Class!SnapshotRules' /\ SessionComesFirst' /\ Loyal'
  BY <1>1, <1>2, <1>3 DEF LessonInv, Class!SnapshotRules, SessionComesFirst, Loyal
<1> QED BY <1>6, <1>7, <1>8 DEF LessonInv
\* A row of the request's teacher is written, or its status is.
LEMMA TeacherIsMarked ==
  ASSUME LessonInv, NEW r \in Class!Requests, NEW status \in LessonStatuses, Class!RecordTeacher(r, status)
  PROVE  LessonInv'
<1> DEFINE t == lessonReq[r].teacher
           new == [teacher |-> t, status |-> status]
<1>1. /\ UNCHANGED <<rule, group, session, record, feed, second, changes>>
      /\ lessonReq[r].pc = "opened" /\ lessonReq[r].kind = "lesson" /\ Class!SnapshotAgrees(r)
  BY DEF Class!RecordTeacher
<1>2. lessonReq[r] \in LessonRequest /\ lesson \in Seq(LessonRow)
  BY DEF LessonInv, Class!TypeOK, LessonRequest, LessonRow
<1>3. t \in Teachers /\ (session.teacher # NoOne => t = session.teacher) /\ session.open
  BY <1>1, <1>2 DEF LessonInv, Loyal, SessionComesFirst, Class!SnapshotAgrees, LessonRequest
<1>4. lesson' \in Seq(LessonRow) /\ \A i \in 1 .. Len(lesson') :
                                 \/ lesson'[i].teacher = t
                                 \/ i \in 1 .. Len(lesson) /\ lesson'[i].teacher = lesson[i].teacher
  <2>1. CASE Class!RowOf(t) = {}
    <3>1. lesson' = Append(lesson, new) /\ new \in LessonRow /\ new.teacher = t
      BY <2>1, <1>3 DEF Class!RecordTeacher, LessonRow
    <3> QED BY <1>2, <3>1 DEF LessonRow
  <2>2. CASE Class!RowOf(t) # {}
    <3>1. lesson' = [i \in 1 .. Len(lesson) |->
                       IF i \in Class!RowOf(t) THEN [lesson[i] EXCEPT !.status = status] ELSE lesson[i]]
      BY <2>2 DEF Class!RecordTeacher
    <3>2. \A i \in 1 .. Len(lesson) : lesson[i] \in LessonRow
      BY <1>2
    <3>3. \A i \in 1 .. Len(lesson) : lesson'[i] \in LessonRow /\ lesson'[i].teacher = lesson[i].teacher
      BY <3>1, <3>2 DEF LessonRow
    <3>4. Len(lesson) \in Nat /\ lesson' \in [1 .. Len(lesson) -> LessonRow]
      BY <1>2, <3>1, <3>3
    <3>5. lesson' \in Seq(LessonRow) /\ Len(lesson') = Len(lesson)
      BY <3>4
    <3> QED BY <3>3, <3>5
  <2> QED BY <2>1, <2>2
<1>5. /\ lessonReq' \in [Class!Requests -> LessonRequest] /\ lessonReq'[r].pc = "ended"
      /\ \A q \in Class!Requests \ {r} : lessonReq'[q] = lessonReq[q]
  <2>1. lessonReq \in [Class!Requests -> LessonRequest] /\ Class!Idle \in LessonRequest
    BY IdleIsLessonRequest DEF LessonInv, Class!TypeOK, LessonRequest
  <2> QED BY <2>1 DEF Class!RecordTeacher, LessonRequest
<1>6. Class!TypeOK'
  BY <1>1, <1>4, <1>5 DEF LessonInv, Class!TypeOK, LessonRequest, LessonRow, Class!Groups
<1>7. Class!SnapshotRules'
  BY <1>1, <1>3, <1>4 DEF LessonInv, Class!SnapshotRules
<1>8. Class!FeedFollowsRecords' /\ SessionComesFirst' /\ Loyal'
  BY <1>1, <1>3, <1>5 DEF LessonInv, Class!FeedFollowsRecords, SessionComesFirst, Loyal
<1> QED BY <1>6, <1>7, <1>8 DEF LessonInv

\* The office and the clock leave the session, the records and the requests alone.
LEMMA LessonOffice ==
  ASSUME LessonInv,
         \/ \E new \in {"active", "off", "deleted"} : Class!ChangeRule(new)
         \/ \E new \in Class!Groups : Class!ChangeGroup(new)
         \/ Class!Tick
  PROVE  LessonInv'
<1>1. UNCHANGED <<session, record, lesson, feed, lessonReq>>
  BY DEF Class!ChangeRule, Class!ChangeGroup, Class!Tick
<1>2. /\ rule' \in {"active", "off", "deleted"} /\ group' \in Class!Groups
      /\ second' \in 0 .. LessonTime /\ changes' \in 0 .. LessonChanges
  BY ClassAssumption
  DEF Class!ChangeRule, Class!ChangeGroup, Class!Tick, LessonInv, Class!TypeOK
<1>3. Class!TypeOK'
  BY <1>1, <1>2 DEF LessonInv, Class!TypeOK, Class!Groups
<1> QED BY <1>1, <1>3 DEF LessonInv, Class!FeedFollowsRecords, Class!SnapshotRules,
    SessionComesFirst, Loyal

LEMMA LessonStep == LessonInv /\ [Class!Next]_lessonVars => LessonInv'
<1> SUFFICES ASSUME LessonInv, [Class!Next]_lessonVars PROVE LessonInv'
  OBVIOUS
<1>1. CASE UNCHANGED lessonVars
  BY <1>1 DEF lessonVars, LessonInv, Class!TypeOK, Class!FeedFollowsRecords, Class!SnapshotRules,
      SessionComesFirst, Loyal, Class!Groups
<1>2. CASE Class!Next
  <2>1. ASSUME NEW r \in Class!Requests,
               \/ \E kind \in {"pupils", "lesson"} : Class!Open(r, kind)
               \/ Class!Create(r) \/ Class!CreateFails(r)
               \/ \E marks \in Class!Marks : Class!ReadRecords(r, marks)
               \/ Class!Submit(r) \/ Class!Refuse(r)
               \/ \E status \in LessonStatuses : Class!RecordTeacher(r, status)
        PROVE  LessonInv'
    BY <2>1, LessonOpens, SessionBegins, LessonReaders, MarksAreSubmitted, TeacherIsMarked
  <2> QED BY <1>2, <2>1, LessonOffice DEF Class!Next
<1> QED BY <1>1, <1>2

\* Only a submission tells parents, and only of a change.
LEMMA LessonRepeats == LessonInv /\ [Class!Next]_lessonVars => [Class!RepeatStep]_lessonVars
<1> SUFFICES ASSUME LessonInv, Class!Next,
                    NEW s \in Members, feed'[s] # feed[s],
                    feed'[s][Len(feed'[s])].status = record[s]
             PROVE  /\ \E r \in Class!Requests : lessonReq[r].pc = "read" /\ lessonReq[r].seen[s] # record[s]
                    /\ \A i \in 1 .. Len(feed[s]) : feed[s][i] # feed'[s][Len(feed'[s])]
  BY DEF Class!RepeatStep
<1>1. PICK r \in Class!Requests : Class!Submit(r)
  BY DEF Class!Next, Class!Open, Class!Create, Class!CreateFails, Class!ReadRecords, Class!Refuse,
      Class!RecordTeacher, Class!ChangeRule, Class!ChangeGroup, Class!Tick
<1>2. s \in Class!Changed(r)
  BY <1>1, SubmitWrites
<1>3. /\ feed[s] \in Seq(LessonJob) /\ Class!Entry(r, s) \in LessonJob
      /\ feed'[s] = Append(feed[s], Class!Entry(r, s))
  BY <1>1, <1>2, SubmitWrites DEF LessonInv, Class!TypeOK, LessonJob
<1>4. feed'[s][Len(feed'[s])] = Class!Entry(r, s)
  BY <1>3
<1>5. lessonReq[r].pc = "read" /\ lessonReq[r].seen[s] # record[s]
  <2>1. Class!Entry(r, s).status = lessonReq[r].marks[s]
    BY DEF Class!Entry
  <2>2. lessonReq[r].marks[s] = record[s]
    BY <1>4, <2>1
  <2>3. lessonReq[r].marks[s] # lessonReq[r].seen[s]
    BY <1>1, <1>2, SubmitWrites
  <2> QED BY <1>1, <2>2, <2>3 DEF Class!Submit
<1>6. \A i \in 1 .. Len(feed[s]) : feed[s][i] # Class!Entry(r, s)
  BY <1>1, <1>2 DEF Class!Submit, Class!Collides
<1> QED BY <1>4, <1>5, <1>6

-----------------------------------------------------------------------------
(* The buses. What a form has read allowed what it is going to write; what    *)
(* has changed since makes the pupil or the route raced.                      *)

LinkStates == {"none", "active", "inactive"}

BusSeen(b) == [riders : SUBSET Fleet[b].students, plan : Bus(b)!Plans,
               links : {NoOne} \cup [Fleet[b].routes -> LinkStates]]

BusRequest(b) ==
  [do : {"idle", "add", "resume", "edit", "start", "end", "ended"},
   route : Fleet[b].routes \cup {NoOne}, student : Fleet[b].students \cup {NoOne},
   trip : Bus(b)!Trips \cup {0}, driver : Fleet[b].drivers \cup {NoOne},
   plan : Bus(b)!Plans \cup {NoOne}, seen : BusSeen(b) \cup {NoOne}]

BusTrip(b) ==
  [state : {"none", "active", "ended", "deleted"}, route : Fleet[b].routes \cup {NoOne},
   driver : Fleet[b].drivers \cup {NoOne}, idle : 0 .. Fleet[b].limit,
   ended : Bus(b)!Requests \cup {Bus(b)!Scheduler, NoOne}, audits : SUBSET Bus(b)!Requests]

\* A subscription is switched on where there was room, and added where there was no other.
RoomWasSeen(b, q) ==
  /\ q.do \in {"add", "resume"} =>
       /\ q.route \in Fleet[b].routes /\ q.student \in Fleet[b].students /\ q.seen \in BusSeen(b)
       /\ Cardinality(q.seen.riders) < q.seen.plan.capacity
       /\ q.do = "add" => \A c \in Fleet[b].routes \ {q.route} : q.seen.links[c] # "active"
  /\ q.do = "edit" =>
       /\ q.route \in Fleet[b].routes /\ q.plan \in Bus(b)!Plans /\ q.seen \in BusSeen(b)
       /\ q.student = NoOne /\ q.seen.links = NoOne
       /\ Cardinality(q.seen.riders) <= q.plan.capacity
  /\ q.do = "start" => q.route \in Fleet[b].routes
  /\ q.do = "end" => q.trip \in Bus(b)!Trips

\* A trip that has not ended has no time of its end, and who has logged it is who wrote the time.
EndIsSigned(t) ==
  /\ t.state \in {"none", "active"} => t.ended = NoOne /\ t.audits = {}
  /\ t.audits \subseteq {t.ended}

EndsAreSigned(b) == \A t \in Bus(b)!Trips : EndIsSigned(journey[t])

OneOnTheRoad(b) ==
  \A c \in Fleet[b].routes : \A t, u \in Bus(b)!OnTheRoad(c) : t = u

BusTypes(b) ==
  /\ Bus(b)!TypeOK
  /\ busReq \in [Bus(b)!Requests -> BusRequest(b)]

BusInv(b) ==
  /\ BusTypes(b)
  /\ \A r \in Bus(b)!Requests : RoomWasSeen(b, busReq[r])
  /\ Bus(b)!SeatsSuffice /\ Bus(b)!OneActiveRoute /\ OneOnTheRoad(b) /\ EndsAreSigned(b)

LEMMA BusFacts ==
  ASSUME NEW b \in Buses, BusTypes(b), NEW c \in Fleet[b].routes
  PROVE  /\ route[c].plan \in Bus(b)!Plans /\ route[c].plan.capacity \in Nat
         /\ Bus(b)!Riders(c) \subseteq Fleet[b].students
         /\ IsFiniteSet(Bus(b)!Riders(c)) /\ Cardinality(Bus(b)!Riders(c)) \in Nat
         /\ \A s \in Fleet[b].students \cup {NoOne} : Bus(b)!Seen(c, s) \in BusSeen(b)
<1>1. /\ route \in [Fleet[b].routes -> [there : BOOLEAN, plan : Bus(b)!Plans]]
      /\ link \in [Fleet[b].routes -> [Fleet[b].students -> LinkStates]]
  BY DEF BusTypes, Bus!TypeOK, LinkStates
<1>2. route[c].plan \in Bus(b)!Plans /\ route[c].plan.capacity \in Nat
  BY <1>1, FleetAssumption DEF Bus!Plans, Buses
<1>3. Bus(b)!Riders(c) \subseteq Fleet[b].students
  BY DEF Bus!Riders
<1>4. IsFiniteSet(Bus(b)!Riders(c)) /\ Cardinality(Bus(b)!Riders(c)) \in Nat
  BY <1>3, FS_Subset, FS_CardinalityType, FleetAssumption DEF Buses
<1>5. ASSUME NEW s \in Fleet[b].students \cup {NoOne}
      PROVE  Bus(b)!Seen(c, s) \in BusSeen(b)
  <2>1. s # NoOne => Bus(b)!LinksOf(s) \in [Fleet[b].routes -> LinkStates]
    BY <1>1 DEF Bus!LinksOf
  <2> QED BY <1>2, <1>3, <2>1 DEF Bus!Seen, BusSeen
<1> QED BY <1>2, <1>3, <1>4, <1>5

\* The request r becomes new.
LEMMA BusRequestStep ==
  ASSUME NEW b \in Buses, BusInv(b), NEW r \in Bus(b)!Requests,
         NEW new \in BusRequest(b), Bus(b)!Becomes(r, new), RoomWasSeen(b, new)
  PROVE  /\ busReq' \in [Bus(b)!Requests -> BusRequest(b)]
         /\ \A q \in Bus(b)!Requests : RoomWasSeen(b, busReq'[q])
<1>1. busReq \in [Bus(b)!Requests -> BusRequest(b)] /\ busReq' = [busReq EXCEPT ![r] = new]
  BY DEF BusInv, BusTypes, Bus!Becomes
<1>2. /\ busReq' \in [Bus(b)!Requests -> BusRequest(b)] /\ busReq'[r] = new
      /\ \A q \in Bus(b)!Requests \ {r} : busReq'[q] = busReq[q]
  BY <1>1
<1> QED BY <1>2 DEF BusInv

LEMMA BusEnd ==
  ASSUME NEW b \in Buses, BusInv(b), NEW r \in Bus(b)!Requests, Bus(b)!End(r)
  PROVE  /\ busReq' \in [Bus(b)!Requests -> BusRequest(b)]
         /\ \A q \in Bus(b)!Requests : RoomWasSeen(b, busReq'[q])
<1> DEFINE new == [Bus(b)!Idle EXCEPT !.do = "ended"]
<1>1. new \in BusRequest(b) /\ new.do = "ended"
  BY DEF Bus!Idle, BusRequest
<1>2. RoomWasSeen(b, new)
  BY <1>1 DEF RoomWasSeen
<1>3. Bus(b)!Becomes(r, new)
  BY DEF Bus!End
<1> QED BY <1>1, <1>2, <1>3, BusRequestStep

\* What the requests of a type are is part of it.
LEMMA BusTypesHold ==
  ASSUME NEW b \in Buses,
         (route \in [Fleet[b].routes -> [there : BOOLEAN, plan : Bus(b)!Plans]])',
         (link \in [Fleet[b].routes -> [Fleet[b].students -> LinkStates]])',
         (journey \in [Bus(b)!Trips -> BusTrip(b)])',
         (employed \subseteq Fleet[b].drivers)', (resumed \subseteq Fleet[b].students)',
         (raced \subseteq Fleet[b].students \cup Fleet[b].routes)',
         (busReq \in [Bus(b)!Requests -> BusRequest(b)])'
  PROVE  BusTypes(b)'
BY DEF BusTypes, Bus!TypeOK, BusRequest, BusTrip, LinkStates

LEMMA BusTypesSay ==
  ASSUME NEW b \in Buses, BusTypes(b)
  PROVE  /\ route \in [Fleet[b].routes -> [there : BOOLEAN, plan : Bus(b)!Plans]]
         /\ link \in [Fleet[b].routes -> [Fleet[b].students -> LinkStates]]
         /\ journey \in [Bus(b)!Trips -> BusTrip(b)]
         /\ employed \subseteq Fleet[b].drivers /\ resumed \subseteq Fleet[b].students
         /\ raced \subseteq Fleet[b].students \cup Fleet[b].routes
         /\ busReq \in [Bus(b)!Requests -> BusRequest(b)]
BY DEF BusTypes, Bus!TypeOK, BusTrip, LinkStates

\* A step that takes no seat, asks for none and starts no trip.
LEMMA QuietStep ==
  ASSUME NEW b \in Buses, BusInv(b), BusTypes(b)',
         \A q \in Bus(b)!Requests : RoomWasSeen(b, busReq'[q]),
         \A c \in Fleet[b].routes : route'[c].plan = route[c].plan,
         \A c \in Fleet[b].routes, s \in Fleet[b].students :
           link'[c][s] = "active" => link[c][s] = "active",
         \A t \in Bus(b)!Trips : journey'[t].state = "active" =>
           journey[t].state = "active" /\ journey'[t].route = journey[t].route,
         EndsAreSigned(b)', raced \subseteq raced', resumed \subseteq resumed'
  PROVE  BusInv(b)'
<1>1. Bus(b)!SeatsSuffice'
  <2> SUFFICES ASSUME NEW c \in Fleet[b].routes, c \notin raced'
               PROVE  Cardinality(Bus(b)!Riders(c)') <= route'[c].plan.capacity
    BY DEF Bus!SeatsSuffice, Bus!Cardinality, Cardinality
  <2>1. Bus(b)!Riders(c)' \subseteq Bus(b)!Riders(c)
    BY DEF Bus!Riders
  <2>2. BusTypes(b) /\ Cardinality(Bus(b)!Riders(c)) <= route[c].plan.capacity
    BY DEF BusInv, Bus!SeatsSuffice, Bus!Cardinality, Cardinality
  <2>3. Cardinality(Bus(b)!Riders(c)') \in Nat /\ Cardinality(Bus(b)!Riders(c)') <= Cardinality(Bus(b)!Riders(c))
    BY <2>1, <2>2, BusFacts, FS_Subset, FS_CardinalityType
  <2> QED BY <2>2, <2>3, BusFacts
<1>2. Bus(b)!OneActiveRoute'
  <2> SUFFICES ASSUME NEW s \in Fleet[b].students, s \notin resumed' \cup raced'
               PROVE  Cardinality({c \in Fleet[b].routes : link'[c][s] = "active"}) <= 1
    BY DEF Bus!OneActiveRoute, Bus!Cardinality, Cardinality
  <2> DEFINE Rides == {c \in Fleet[b].routes : link[c][s] = "active"}
             Rode == {c \in Fleet[b].routes : link'[c][s] = "active"}
  <2>1. IsFiniteSet(Rides) /\ Rode \subseteq Rides
    BY FS_Subset, FleetAssumption DEF Buses
  <2>2. Cardinality(Rides) <= 1
    BY DEF BusInv, Bus!OneActiveRoute, Bus!Cardinality, Cardinality
  <2> HIDE DEF Rides, Rode
  <2>3. Cardinality(Rode) <= Cardinality(Rides) /\ Cardinality(Rode) \in Nat /\ Cardinality(Rides) \in Nat
    BY <2>1, FS_Subset, FS_CardinalityType
  <2>4. Cardinality(Rode) <= 1
    BY <2>2, <2>3
  <2> QED BY <2>4 DEF Rode
<1>3. OneOnTheRoad(b)'
  BY DEF BusInv, OneOnTheRoad, Bus!OnTheRoad
<1> QED BY <1>1, <1>2, <1>3 DEF BusInv

\* A form that has read, and a trip that is about to start or to end.
LEMMA BusReadStep ==
  ASSUME NEW b \in Buses, BusInv(b), NEW r \in Bus(b)!Requests, NEW new \in BusRequest(b),
         Bus(b)!Becomes(r, new), RoomWasSeen(b, new),
         UNCHANGED <<route, link, journey, employed, resumed, raced>>
  PROVE  BusInv(b)'
<1>1. /\ busReq' \in [Bus(b)!Requests -> BusRequest(b)]
      /\ \A q \in Bus(b)!Requests : RoomWasSeen(b, busReq'[q])
  BY BusRequestStep
<1>2. BusTypes(b)' /\ EndsAreSigned(b)'
  BY <1>1, BusTypesHold, BusTypesSay DEF BusInv, EndsAreSigned
<1> QED BY <1>1, <1>2, QuietStep

LEMMA SubscribeStep ==
  ASSUME NEW b \in Buses, BusInv(b), NEW r \in Bus(b)!Requests,
         NEW c \in Fleet[b].routes, NEW s \in Fleet[b].students,
         Bus(b)!AddStudent(r, c, s) \/ Bus(b)!Resume(r, c, s)
  PROVE  BusInv(b)'
<1> DEFINE do == IF Bus(b)!AddStudent(r, c, s) THEN "add" ELSE "resume"
           new == [Bus(b)!Idle EXCEPT !.do = do, !.route = c, !.student = s,
                                      !.seen = Bus(b)!Seen(c, s)]
<1>1. Bus(b)!Becomes(r, new) /\ UNCHANGED <<route, link, journey, employed, resumed, raced>>
  BY DEF Bus!AddStudent, Bus!Resume
<1>2. /\ Bus(b)!HasRoom(c)
      /\ do = "add" => \A other \in Fleet[b].routes \ {c} : link[other][s] # "active"
  BY DEF Bus!AddStudent, Bus!Resume, Bus!MayBoard, Bus!RidesElsewhere
<1>3. Bus(b)!Seen(c, s) \in BusSeen(b)
  BY BusFacts DEF BusInv
<1>4. new \in BusRequest(b) /\ new.do \in {"add", "resume"} /\ new.do = do /\ new.route = c /\ new.student = s
      /\ new.seen = Bus(b)!Seen(c, s)
  BY <1>3 DEF Bus!Idle, BusRequest
<1>5. /\ Cardinality(Bus(b)!Seen(c, s).riders) < Bus(b)!Seen(c, s).plan.capacity
      /\ do = "add" => \A other \in Fleet[b].routes \ {c} : Bus(b)!Seen(c, s).links[other] # "active"
  <2>1. s # NoOne
    BY FleetAssumption DEF Buses
  <2> QED BY <1>2, <2>1 DEF Bus!Seen, Bus!HasRoom, Bus!Cardinality, Cardinality, Bus!LinksOf
<1> HIDE DEF new, do
<1>6. RoomWasSeen(b, new)
  BY <1>3, <1>4, <1>5 DEF RoomWasSeen
<1> QED BY <1>1, <1>4, <1>6, BusReadStep

LEMMA EditStep ==
  ASSUME NEW b \in Buses, BusInv(b), NEW r \in Bus(b)!Requests,
         NEW c \in Fleet[b].routes, NEW plan \in Bus(b)!Plans, Bus(b)!Edit(r, c, plan)
  PROVE  BusInv(b)'
<1> DEFINE new == [Bus(b)!Idle EXCEPT !.do = "edit", !.route = c, !.plan = plan,
                                      !.seen = Bus(b)!Seen(c, NoOne)]
<1>1. Bus(b)!Becomes(r, new) /\ UNCHANGED <<route, link, journey, employed, resumed, raced>>
  BY DEF Bus!Edit
<1>2. Bus(b)!Seen(c, NoOne) \in BusSeen(b) /\ Cardinality(Bus(b)!Riders(c)) \in Nat
  BY BusFacts DEF BusInv
<1>3. /\ new \in BusRequest(b) /\ new.do = "edit" /\ new.route = c /\ new.plan = plan
      /\ new.seen = Bus(b)!Seen(c, NoOne) /\ new.student = NoOne
  BY <1>2 DEF Bus!Idle, BusRequest
<1>4. Cardinality(Bus(b)!Seen(c, NoOne).riders) <= plan.capacity
  <2>1. plan.capacity >= Cardinality(Bus(b)!Riders(c))
    BY DEF Bus!Edit, Bus!Cardinality, Cardinality
  <2>2. plan.capacity \in Nat
    BY FleetAssumption DEF Buses, Bus!Plans
  <2> QED BY <1>2, <2>1, <2>2 DEF Bus!Seen
<1> HIDE DEF new
<1>5. Bus(b)!Seen(c, NoOne).links = NoOne
  BY DEF Bus!Seen
<1>6. RoomWasSeen(b, new)
  BY <1>2, <1>3, <1>4, <1>5 DEF RoomWasSeen
<1> QED BY <1>1, <1>3, <1>6, BusReadStep

LEMMA DriverStep ==
  ASSUME NEW b \in Buses, BusInv(b), NEW r \in Bus(b)!Requests,
         \/ \E c \in Fleet[b].routes, d \in Fleet[b].drivers : Bus(b)!StartTrip(r, d, c)
         \/ \E t \in Bus(b)!Trips : Bus(b)!EndTrip(r, t)
  PROVE  BusInv(b)'
<1>1. PICK new \in BusRequest(b) :
        /\ Bus(b)!Becomes(r, new) /\ RoomWasSeen(b, new)
        /\ UNCHANGED <<route, link, journey, employed, resumed, raced>>
  <2>1. ASSUME NEW c \in Fleet[b].routes, NEW d \in Fleet[b].drivers, Bus(b)!StartTrip(r, d, c)
        PROVE  \E new \in BusRequest(b) :
                 /\ Bus(b)!Becomes(r, new) /\ RoomWasSeen(b, new)
                 /\ UNCHANGED <<route, link, journey, employed, resumed, raced>>
    <3> DEFINE new == [Bus(b)!Idle EXCEPT !.do = "start", !.route = c, !.driver = d]
    <3>1. new \in BusRequest(b) /\ new.do = "start" /\ new.route = c
      BY DEF Bus!Idle, BusRequest
    <3>2. RoomWasSeen(b, new)
      BY <3>1 DEF RoomWasSeen
    <3> QED BY <2>1, <3>1, <3>2 DEF Bus!StartTrip
  <2>2. ASSUME NEW t \in Bus(b)!Trips, Bus(b)!EndTrip(r, t)
        PROVE  \E new \in BusRequest(b) :
                 /\ Bus(b)!Becomes(r, new) /\ RoomWasSeen(b, new)
                 /\ UNCHANGED <<route, link, journey, employed, resumed, raced>>
    <3> DEFINE new == [Bus(b)!Idle EXCEPT !.do = "end", !.trip = t]
    <3>1. new \in BusRequest(b) /\ new.do = "end" /\ new.trip = t
      BY DEF Bus!Idle, BusRequest
    <3>2. RoomWasSeen(b, new)
      BY <3>1 DEF RoomWasSeen
    <3> QED BY <2>2, <3>1, <3>2 DEF Bus!EndTrip
  <2> QED BY <2>1, <2>2
<1> QED BY <1>1, BusReadStep

\* What ends without a seat, a capacity or a new trip.
LEMMA BusLeaveStep ==
  ASSUME NEW b \in Buses, BusInv(b), NEW r \in Bus(b)!Requests,
         \/ \E c \in Fleet[b].routes, s \in Fleet[b].students, new \in {"inactive", "none"} :
              Bus(b)!Leave(r, c, s, new)
         \/ \E d \in Fleet[b].drivers : Bus(b)!Dismiss(r, d)
         \/ Bus(b)!Fails(r) \/ Bus(b)!ArrivesAtSchool(r)
  PROVE  BusInv(b)'
<1>t. BusTypes(b)
  BY DEF BusInv
<1>1. Bus(b)!End(r) /\ UNCHANGED <<route, resumed, raced>>
  BY DEF Bus!Leave, Bus!Dismiss, Bus!Fails, Bus!ArrivesAtSchool
<1>2. /\ busReq' \in [Bus(b)!Requests -> BusRequest(b)]
      /\ \A q \in Bus(b)!Requests : RoomWasSeen(b, busReq'[q])
  BY <1>1, BusEnd
<1>3. /\ link' \in [Fleet[b].routes -> [Fleet[b].students -> LinkStates]]
      /\ \A c \in Fleet[b].routes, s \in Fleet[b].students :
           link'[c][s] = "active" => link[c][s] = "active"
  <2>1. ASSUME NEW c \in Fleet[b].routes, NEW s \in Fleet[b].students, NEW new \in {"inactive", "none"},
               Bus(b)!Leave(r, c, s, new)
        PROVE  <1>3!1 /\ <1>3!2
    <3>1. link' = [link EXCEPT ![c][s] = new]
      BY <2>1 DEF Bus!Leave
    <3> QED BY <3>1, <1>t, BusTypesSay DEF LinkStates
  <2>2. CASE UNCHANGED link
    BY <2>2, <1>t, BusTypesSay
  <2> QED BY <2>1, <2>2 DEF Bus!Dismiss, Bus!Fails, Bus!ArrivesAtSchool
<1>4. employed' \subseteq Fleet[b].drivers
  BY <1>t, BusTypesSay DEF Bus!Leave, Bus!Dismiss, Bus!Fails, Bus!ArrivesAtSchool
<1>5. /\ journey' \in [Bus(b)!Trips -> BusTrip(b)] /\ EndsAreSigned(b)'
      /\ \A t \in Bus(b)!Trips : journey'[t].state = "active" => journey'[t] = journey[t]
  <2>s. EndsAreSigned(b) /\ \A t \in Bus(b)!Trips : journey[t] \in BusTrip(b)
    BY <1>t, BusTypesSay DEF BusInv
  <2>1. CASE Bus(b)!ArrivesAtSchool(r)
    <3> DEFINE u == busReq[r].trip
    <3>1. PICK logged \in {{}, {r}} :
            journey' = [journey EXCEPT ![u] = [Bus(b)!Ended(u, r) EXCEPT !.audits = @ \cup logged]]
      BY <2>1 DEF Bus!ArrivesAtSchool
    <3>2. u \in Bus(b)!Trips /\ journey[u].state = "active"
      BY <2>1 DEF Bus!ArrivesAtSchool, BusInv, RoomWasSeen
    <3> HIDE DEF u
    <3> DEFINE over == [Bus(b)!Ended(u, r) EXCEPT !.audits = @ \cup logged]
    <3> DEFINE rec == Bus(b)!Ended(u, r)
    <3>3. rec \in BusTrip(b) /\ rec.state = "ended" /\ rec.ended = r /\ rec.audits = {}
      <4>1. journey[u] \in BusTrip(b) /\ journey[u].audits = {}
        BY <2>s, <3>2 DEF EndsAreSigned, EndIsSigned
      <4>2. rec = [journey[u] EXCEPT !.state = "ended", !.ended = r]
        BY DEF Bus!Ended
      <4> HIDE DEF rec
      <4> QED BY <4>1, <4>2 DEF BusTrip
    <3>e. over = [rec EXCEPT !.audits = @ \cup logged]
      OBVIOUS
    <3> HIDE DEF rec, over
    <3>4. over \in BusTrip(b) /\ over.state = "ended" /\ EndIsSigned(over)
      <4>1. over \in BusTrip(b) /\ over.state = "ended" /\ over.ended = r
        BY <3>3, <3>e DEF BusTrip
      <4>2. over.audits = logged
        BY <3>3, <3>e DEF BusTrip
      <4> QED BY <4>1, <4>2 DEF EndIsSigned
    <3>5. journey' = [journey EXCEPT ![u] = over]
      BY <3>1 DEF over, rec
    <3> QED BY <2>s, <3>2, <3>4, <3>5, <1>t, BusTypesSay DEF EndsAreSigned
  <2>2. CASE UNCHANGED journey
    BY <2>2, <2>s, <1>t, BusTypesSay DEF EndsAreSigned
  <2> QED BY <2>1, <2>2 DEF Bus!Leave, Bus!Dismiss, Bus!Fails
<1>6. BusTypes(b)'
  BY <1>t, <1>1, <1>2, <1>3, <1>4, <1>5, BusTypesHold, BusTypesSay
<1> QED BY <1>1, <1>2, <1>3, <1>5, <1>6, QuietStep

LEMMA BusTimeStep ==
  ASSUME NEW b \in Buses, BusInv(b),
         (\E t \in Bus(b)!Trips : Bus(b)!Ping(t)) \/ Bus(b)!Tick \/ Bus(b)!Expire
  PROVE  BusInv(b)'
<1>t. BusTypes(b)
  BY DEF BusInv
<1>1. UNCHANGED <<route, link, employed, busReq, resumed, raced>>
  BY DEF Bus!Ping, Bus!Tick, Bus!Expire
<1>2. /\ journey' \in [Bus(b)!Trips -> BusTrip(b)] /\ EndsAreSigned(b)'
      /\ \A t \in Bus(b)!Trips : journey'[t].state = "active" =>
           journey[t].state = "active" /\ journey'[t].route = journey[t].route
  <2>1. EndsAreSigned(b) /\ \A t \in Bus(b)!Trips : journey[t] \in BusTrip(b)
    BY <1>t, BusTypesSay DEF BusInv
  <2>2. \A t \in Bus(b)!Trips :
          \/ journey'[t] \in {journey[t], [journey[t] EXCEPT !.idle = 0]}
          \/ journey[t].idle < Fleet[b].limit /\ journey'[t] = [journey[t] EXCEPT !.idle = @ + 1]
          \/ journey[t].state = "active" /\ journey'[t] = Bus(b)!Ended(t, Bus(b)!Scheduler)
    BY <1>t, BusTypesSay DEF Bus!Ping, Bus!Tick, Bus!Expire, Bus!Expired
  <2>3. ASSUME NEW t \in Bus(b)!Trips
        PROVE  /\ journey'[t] \in BusTrip(b) /\ journey'[t].route = journey[t].route
               /\ journey'[t].state = "active" => journey[t].state = "active"
               /\ EndIsSigned(journey'[t])
    <3>1. Fleet[b].limit \in Nat
      BY FleetAssumption DEF Buses
    <3>2. journey[t] \in BusTrip(b) /\ EndIsSigned(journey[t])
      BY <2>1 DEF EndsAreSigned
    <3>3. CASE journey'[t] \in {journey[t], [journey[t] EXCEPT !.idle = 0]}
      BY <3>1, <3>2, <3>3 DEF BusTrip, EndIsSigned
    <3>4. CASE journey[t].idle < Fleet[b].limit /\ journey'[t] = [journey[t] EXCEPT !.idle = @ + 1]
      BY <3>1, <3>2, <3>4 DEF BusTrip, EndIsSigned
    <3>5. CASE journey[t].state = "active" /\ journey'[t] = Bus(b)!Ended(t, Bus(b)!Scheduler)
      BY <3>2, <3>5 DEF BusTrip, EndIsSigned, Bus!Ended
    <3> QED BY <2>2, <3>3, <3>4, <3>5
  <2>4. journey' = [t \in Bus(b)!Trips |-> journey'[t]]
    BY <1>t, BusTypesSay DEF Bus!Ping, Bus!Tick, Bus!Expire
  <2> QED BY <2>3, <2>4 DEF EndsAreSigned
<1>3. BusTypes(b)'
  BY <1>t, <1>1, <1>2, BusTypesHold, BusTypesSay
<1> QED BY <1>1, <1>2, <1>3, QuietStep DEF BusInv

\* Two facts on cardinalities that the next steps need.
LEMMA OneMore ==
  ASSUME NEW S, IsFiniteSet(S), NEW x
  PROVE  /\ Cardinality(S) \in Nat /\ Cardinality(S \cup {x}) \in Nat
         /\ Cardinality(S \cup {x}) <= Cardinality(S) + 1
<1>1. Cardinality(S \cup {x}) = IF x \in S THEN Cardinality(S) ELSE Cardinality(S) + 1
  BY FS_AddElement
<1>2. Cardinality(S) \in Nat
  BY FS_CardinalityType
<1> QED BY <1>1, <1>2

LEMMA AtMostOne ==
  ASSUME NEW S, \A x, y \in S : x = y
  PROVE  Cardinality(S) <= 1
<1>1. CASE S = {}
  BY <1>1, FS_EmptySet
<1>2. CASE S # {}
  <2>1. PICK x \in S : \A y \in S : y = x
    BY <1>2
  <2>2. S = {x}
    BY <2>1
  <2> QED BY <2>2, FS_Singleton
<1> QED BY <1>1, <1>2

\* The seat that a form has found is there unless the route is raced.
LEMMA BoardsStep ==
  ASSUME NEW b \in Buses, BusInv(b), NEW r \in Bus(b)!Requests, Bus(b)!Boards(r)
  PROVE  BusInv(b)'
<1> DEFINE c == busReq[r].route
           s == busReq[r].student
           seen == busReq[r].seen
<1>t. BusTypes(b)
  BY DEF BusInv
<1>1. /\ Bus(b)!End(r) /\ UNCHANGED <<route, journey, employed>>
      /\ busReq[r].do \in {"add", "resume"}
      /\ link' = [link EXCEPT ![c][s] = "active"]
      /\ resumed' = IF busReq[r].do = "resume" THEN resumed \cup {s} ELSE resumed
      /\ raced' = raced \cup Bus(b)!Raced(r)
  BY DEF Bus!Boards
<1>2. /\ c \in Fleet[b].routes /\ s \in Fleet[b].students /\ seen \in BusSeen(b)
      /\ Cardinality(seen.riders) < seen.plan.capacity
      /\ busReq[r].do = "add" => \A d \in Fleet[b].routes \ {c} : seen.links[d] # "active"
  BY <1>1 DEF BusInv, RoomWasSeen
<1>3. /\ Bus(b)!Raced(r) \subseteq {s, c}
      /\ c \notin Bus(b)!Raced(r) => Bus(b)!Riders(c) = seen.riders /\ route[c].plan.capacity = seen.plan.capacity
      /\ s \notin Bus(b)!Raced(r) => Bus(b)!LinksOf(s) = seen.links
  <2>1. s # NoOne
    BY <1>2, FleetAssumption DEF Buses
  <2> QED BY <2>1 DEF Bus!Raced, Bus!Seen
<1> HIDE DEF c, s, seen
<1>4. /\ busReq' \in [Bus(b)!Requests -> BusRequest(b)]
      /\ \A q \in Bus(b)!Requests : RoomWasSeen(b, busReq'[q])
  BY <1>1, BusEnd
<1>5. /\ link' \in [Fleet[b].routes -> [Fleet[b].students -> LinkStates]]
      /\ \A d \in Fleet[b].routes, p \in Fleet[b].students :
           link'[d][p] = IF d = c /\ p = s THEN "active" ELSE link[d][p]
  BY <1>1, <1>2, <1>t, BusTypesSay DEF LinkStates
<1>6. BusTypes(b)'
  <2>1. resumed' \subseteq Fleet[b].students /\ raced' \subseteq Fleet[b].students \cup Fleet[b].routes
    BY <1>1, <1>2, <1>3, <1>t, BusTypesSay
  <2> QED BY <1>1, <1>4, <1>5, <1>t, <2>1, BusTypesHold, BusTypesSay
<1>7. Bus(b)!SeatsSuffice'
  <2> SUFFICES ASSUME NEW d \in Fleet[b].routes, d \notin raced'
               PROVE  Cardinality(Bus(b)!Riders(d)') <= route[d].plan.capacity
    BY <1>1 DEF Bus!SeatsSuffice, Bus!Cardinality, Cardinality
  <2>1. CASE d # c
    <3>1. Bus(b)!Riders(d)' = Bus(b)!Riders(d)
      BY <1>5, <2>1 DEF Bus!Riders
    <3> QED BY <1>1, <3>1 DEF BusInv, Bus!SeatsSuffice, Bus!Cardinality, Cardinality
  <2>2. CASE d = c
    <3>1. Bus(b)!Riders(d)' = Bus(b)!Riders(d) \cup {s}
      BY <1>2, <1>5, <2>2 DEF Bus!Riders
    <3>2. Cardinality(Bus(b)!Riders(d)) < route[d].plan.capacity
      BY <1>1, <1>2, <1>3, <2>2
    <3>3. IsFiniteSet(Bus(b)!Riders(d)) /\ route[d].plan.capacity \in Nat
      BY <1>t, BusFacts
    <3>4. /\ Cardinality(Bus(b)!Riders(d)) \in Nat /\ Cardinality(Bus(b)!Riders(d)') \in Nat
          /\ Cardinality(Bus(b)!Riders(d)') <= Cardinality(Bus(b)!Riders(d)) + 1
      BY <3>1, <3>3, OneMore
    <3> QED BY <3>2, <3>3, <3>4
  <2> QED BY <2>1, <2>2
<1>8. Bus(b)!OneActiveRoute'
  <2> SUFFICES ASSUME NEW p \in Fleet[b].students, p \notin resumed' \cup raced'
               PROVE  Cardinality({d \in Fleet[b].routes : link'[d][p] = "active"}) <= 1
    BY DEF Bus!OneActiveRoute, Bus!Cardinality, Cardinality
  <2>1. CASE p # s
    <3>1. {d \in Fleet[b].routes : link'[d][p] = "active"} = {d \in Fleet[b].routes : link[d][p] = "active"}
      BY <1>5, <2>1
    <3>2. p \notin resumed \cup raced
      BY <1>1
    <3>3. Cardinality({d \in Fleet[b].routes : link[d][p] = "active"}) <= 1
      BY <3>2 DEF BusInv, Bus!OneActiveRoute, Bus!Cardinality, Cardinality
    <3> QED BY <3>1, <3>3
  <2>2. CASE p = s
    <3>1. busReq[r].do = "add" /\ Bus(b)!LinksOf(s) = seen.links
      BY <1>1, <1>3, <2>2
    <3>2. \A d \in Fleet[b].routes \ {c} : link[d][s] # "active"
      BY <1>2, <3>1 DEF Bus!LinksOf
    <3>3. \A d \in Fleet[b].routes : link'[d][p] = "active" => d = c
      BY <1>5, <1>2, <2>2, <3>2
    <3> QED BY <3>3, AtMostOne
  <2> QED BY <2>1, <2>2
<1>9. OneOnTheRoad(b)' /\ EndsAreSigned(b)'
  BY <1>1 DEF BusInv, OneOnTheRoad, Bus!OnTheRoad, EndsAreSigned
<1> QED BY <1>4, <1>6, <1>7, <1>8, <1>9 DEF BusInv

\* The capacity that a form sets holds the riders it has seen.
LEMMA SaveEditStep ==
  ASSUME NEW b \in Buses, BusInv(b), NEW r \in Bus(b)!Requests, Bus(b)!SaveEdit(r)
  PROVE  BusInv(b)'
<1> DEFINE c == busReq[r].route
           seen == busReq[r].seen
           plan == busReq[r].plan
           saved == Bus(b)!Edited(route[c].plan, plan, seen.plan)
<1>t. BusTypes(b)
  BY DEF BusInv
<1>1. /\ Bus(b)!End(r) /\ UNCHANGED <<link, journey, employed, resumed>>
      /\ busReq[r].do = "edit" /\ raced' = raced \cup Bus(b)!Raced(r)
      /\ route' = [route EXCEPT ![c].plan = saved]
  BY DEF Bus!SaveEdit
<1>2. /\ c \in Fleet[b].routes /\ plan \in Bus(b)!Plans /\ seen \in BusSeen(b)
      /\ busReq[r].student = NoOne /\ seen.links = NoOne
      /\ Cardinality(seen.riders) <= plan.capacity
  BY <1>1 DEF BusInv, RoomWasSeen
<1>3. /\ Bus(b)!Raced(r) \subseteq {c}
      /\ c \notin Bus(b)!Raced(r) => Bus(b)!Riders(c) = seen.riders /\ route[c].plan.capacity = seen.plan.capacity
  BY <1>2 DEF Bus!Raced, Bus!Seen
<1>4. /\ saved \in Bus(b)!Plans
      /\ saved.capacity = IF plan.capacity = seen.plan.capacity THEN route[c].plan.capacity ELSE plan.capacity
  <2>1. route[c].plan \in Bus(b)!Plans
    BY <1>2, <1>t, BusTypesSay
  <2> QED BY <1>2, <2>1 DEF Bus!Edited, Bus!Plans
<1> HIDE DEF c, seen, plan, saved
<1>5. /\ busReq' \in [Bus(b)!Requests -> BusRequest(b)]
      /\ \A q \in Bus(b)!Requests : RoomWasSeen(b, busReq'[q])
  BY <1>1, BusEnd
<1>6. /\ route' \in [Fleet[b].routes -> [there : BOOLEAN, plan : Bus(b)!Plans]]
      /\ route'[c].plan = saved /\ \A d \in Fleet[b].routes \ {c} : route'[d].plan = route[d].plan
  BY <1>1, <1>2, <1>4, <1>t, BusTypesSay
<1>7. BusTypes(b)'
  <2>1. raced' \subseteq Fleet[b].students \cup Fleet[b].routes
    BY <1>1, <1>2, <1>3, <1>t, BusTypesSay
  <2> QED BY <1>1, <1>5, <1>6, <1>t, <2>1, BusTypesHold, BusTypesSay
<1>8. Bus(b)!SeatsSuffice'
  <2> SUFFICES ASSUME NEW d \in Fleet[b].routes, d \notin raced'
               PROVE  Cardinality(Bus(b)!Riders(d)) <= route'[d].plan.capacity
    <3>1. \A d \in Fleet[b].routes : Bus(b)!Riders(d)' = Bus(b)!Riders(d)
      BY <1>1 DEF Bus!Riders
    <3> QED BY <3>1 DEF Bus!SeatsSuffice, Bus!Cardinality, Cardinality
  <2>1. CASE d # c
    BY <1>1, <1>6, <2>1 DEF BusInv, Bus!SeatsSuffice, Bus!Cardinality, Cardinality
  <2>2. CASE d = c
    BY <1>1, <1>2, <1>3, <1>4, <1>6, <2>2
  <2> QED BY <2>1, <2>2
<1>9. Bus(b)!OneActiveRoute' /\ OneOnTheRoad(b)' /\ EndsAreSigned(b)'
  BY <1>1 DEF BusInv, Bus!OneActiveRoute, OneOnTheRoad, Bus!OnTheRoad, EndsAreSigned
<1> QED BY <1>5, <1>7, <1>8, <1>9 DEF BusInv

\* A route goes with its subscriptions and its trips.
LEMMA DeleteRouteStep ==
  ASSUME NEW b \in Buses, BusInv(b), NEW r \in Bus(b)!Requests,
         NEW c \in Fleet[b].routes, Bus(b)!DeleteRoute(r, c)
  PROVE  BusInv(b)'
<1>t. BusTypes(b)
  BY DEF BusInv
<1>1. /\ Bus(b)!End(r) /\ UNCHANGED <<employed, resumed, raced>>
      /\ route' = [route EXCEPT ![c].there = FALSE]
      /\ link' = [link EXCEPT ![c] = [s \in Fleet[b].students |-> "none"]]
      /\ journey' = [t \in Bus(b)!Trips |-> IF journey[t].route = c
                       THEN [Bus(b)!NoTrip EXCEPT !.state = "deleted"] ELSE journey[t]]
  BY DEF Bus!DeleteRoute
<1>2. /\ busReq' \in [Bus(b)!Requests -> BusRequest(b)]
      /\ \A q \in Bus(b)!Requests : RoomWasSeen(b, busReq'[q])
  BY <1>1, BusEnd
<1>3. /\ route' \in [Fleet[b].routes -> [there : BOOLEAN, plan : Bus(b)!Plans]]
      /\ \A d \in Fleet[b].routes : route'[d].plan = route[d].plan
  BY <1>1, <1>t, BusTypesSay
<1>4. /\ link' \in [Fleet[b].routes -> [Fleet[b].students -> LinkStates]]
      /\ \A d \in Fleet[b].routes, s \in Fleet[b].students :
           link'[d][s] = "active" => link[d][s] = "active"
  <2>1. [s \in Fleet[b].students |-> "none"] \in [Fleet[b].students -> LinkStates]
    BY DEF LinkStates
  <2> QED BY <1>1, <1>t, <2>1, BusTypesSay
<1>5. /\ [Bus(b)!NoTrip EXCEPT !.state = "deleted"] \in BusTrip(b)
      /\ EndIsSigned([Bus(b)!NoTrip EXCEPT !.state = "deleted"])
  BY FleetAssumption DEF Bus!NoTrip, BusTrip, Buses, EndIsSigned
<1>6. /\ journey' \in [Bus(b)!Trips -> BusTrip(b)] /\ EndsAreSigned(b)'
      /\ \A t \in Bus(b)!Trips : journey'[t].state = "active" => journey'[t] = journey[t]
  <2>1. EndsAreSigned(b)
    BY DEF BusInv
  <2>2. [Bus(b)!NoTrip EXCEPT !.state = "deleted"].state = "deleted"
    BY DEF Bus!NoTrip
  <2> DEFINE gone == [Bus(b)!NoTrip EXCEPT !.state = "deleted"]
  <2>3. \A t \in Bus(b)!Trips : journey[t] \in BusTrip(b) /\ EndIsSigned(journey[t])
    BY <1>t, <2>1, BusTypesSay DEF EndsAreSigned
  <2>4. /\ gone \in BusTrip(b) /\ EndIsSigned(gone) /\ gone.state = "deleted"
        /\ journey' = [t \in Bus(b)!Trips |-> IF journey[t].route = c THEN gone ELSE journey[t]]
    BY <1>1, <1>5, <2>2
  <2> HIDE DEF gone
  <2>5. \A t \in Bus(b)!Trips : journey'[t] = gone \/ journey'[t] = journey[t]
    BY <2>4
  <2>6. \A t \in Bus(b)!Trips : journey'[t] \in BusTrip(b) /\ EndIsSigned(journey'[t])
    BY <2>3, <2>4, <2>5
  <2>7. journey' \in [Bus(b)!Trips -> BusTrip(b)]
    BY <2>4, <2>6
  <2>8. \A t \in Bus(b)!Trips : journey'[t].state = "active" => journey'[t] = journey[t]
    BY <2>4, <2>5
  <2> QED BY <2>6, <2>7, <2>8 DEF EndsAreSigned
<1>7. BusTypes(b)'
  BY <1>1, <1>2, <1>3, <1>4, <1>6, <1>t, BusTypesHold, BusTypesSay
<1> QED BY <1>1, <1>2, <1>3, <1>4, <1>6, <1>7, QuietStep

\* The unique index lets a trip depart where none is on the road.
LEMMA DepartsStep ==
  ASSUME NEW b \in Buses, BusInv(b), NEW r \in Bus(b)!Requests,
         NEW t \in Bus(b)!Trips, Bus(b)!Departs(r, t)
  PROVE  BusInv(b)'
<1> DEFINE new == [Bus(b)!NoTrip EXCEPT !.state = "active", !.route = busReq[r].route,
                                        !.driver = busReq[r].driver]
<1>t. BusTypes(b)
  BY DEF BusInv
<1>1. /\ Bus(b)!End(r) /\ UNCHANGED <<route, link, employed, resumed, raced>>
      /\ busReq[r].do = "start" /\ Bus(b)!OnTheRoad(busReq[r].route) = {}
      /\ journey' = [journey EXCEPT ![t] = new]
  BY DEF Bus!Departs, Bus!Insertable
<1>2. /\ busReq' \in [Bus(b)!Requests -> BusRequest(b)]
      /\ \A q \in Bus(b)!Requests : RoomWasSeen(b, busReq'[q])
  BY <1>1, BusEnd
<1>3. new \in BusTrip(b) /\ EndIsSigned(new) /\ new.route = busReq[r].route
  <2>1. busReq[r] \in BusRequest(b)
    BY <1>t, BusTypesSay
  <2>2. busReq[r].route \in Fleet[b].routes \cup {NoOne} /\ busReq[r].driver \in Fleet[b].drivers \cup {NoOne}
    BY <2>1 DEF BusRequest
  <2>3. 0 \in 0 .. Fleet[b].limit
    BY FleetAssumption DEF Buses
  <2> DEFINE none == Bus(b)!NoTrip
  <2>4. none \in BusTrip(b) /\ none.ended = NoOne /\ none.audits = {}
    BY <2>3 DEF Bus!NoTrip, BusTrip
  <2>e. new = [none EXCEPT !.state = "active", !.route = busReq[r].route, !.driver = busReq[r].driver]
    OBVIOUS
  <2> HIDE DEF new, none
  <2>5. new \in BusTrip(b)
    BY <2>2, <2>4, <2>e DEF BusTrip
  <2>6. new.state = "active" /\ new.ended = NoOne /\ new.audits = {} /\ new.route = busReq[r].route
    BY <2>4, <2>e DEF BusTrip
  <2>7. EndIsSigned(new)
    BY <2>6 DEF EndIsSigned
  <2> QED BY <2>5, <2>6, <2>7
<1> HIDE DEF new
<1>4. /\ journey' \in [Bus(b)!Trips -> BusTrip(b)] /\ journey'[t].route = busReq[r].route
      /\ \A u \in Bus(b)!Trips \ {t} : journey'[u] = journey[u]
  BY <1>1, <1>3, <1>t, BusTypesSay
<1>5. BusTypes(b)' /\ EndsAreSigned(b)'
  <2>1. BusTypes(b)'
    BY <1>1, <1>2, <1>4, <1>t, BusTypesHold, BusTypesSay
  <2> QED BY <1>1, <1>3, <1>4, <1>t, <2>1, BusTypesSay DEF BusInv, EndsAreSigned
<1>6. OneOnTheRoad(b)'
  <2> SUFFICES ASSUME NEW c \in Fleet[b].routes, NEW u \in Bus(b)!OnTheRoad(c)',
                      NEW v \in Bus(b)!OnTheRoad(c)'
               PROVE  u = v
    BY DEF OneOnTheRoad
  <2>1. \A w \in Bus(b)!OnTheRoad(c)' : w = t \/ w \in Bus(b)!OnTheRoad(c)
    BY <1>4 DEF Bus!OnTheRoad
  <2>2. t \in Bus(b)!OnTheRoad(c)' => Bus(b)!OnTheRoad(c) = {}
    BY <1>1, <1>4 DEF Bus!OnTheRoad
  <2> QED BY <2>1, <2>2 DEF BusInv, OneOnTheRoad
<1>7. Bus(b)!SeatsSuffice' /\ Bus(b)!OneActiveRoute'
  BY <1>1 DEF BusInv, Bus!SeatsSuffice, Bus!OneActiveRoute, Bus!Riders
<1> QED BY <1>2, <1>5, <1>6, <1>7 DEF BusInv

LEMMA BusStep == ASSUME NEW b \in Buses PROVE BusInv(b) /\ [Bus(b)!Next]_busVars => BusInv(b)'
<1> SUFFICES ASSUME BusInv(b), [Bus(b)!Next]_busVars PROVE BusInv(b)'
  OBVIOUS
<1>1. CASE UNCHANGED busVars
  <2>1. BusTypes(b)' /\ EndsAreSigned(b)'
    BY <1>1 DEF busVars, BusInv, BusTypes, Bus!TypeOK, EndsAreSigned
  <2> QED BY <1>1, <2>1, QuietStep DEF busVars, BusInv
<1>2. ASSUME NEW r \in Bus(b)!Requests, NEW c \in Fleet[b].routes,
             \/ \E s \in Fleet[b].students :
                  \/ Bus(b)!AddStudent(r, c, s) \/ Bus(b)!Resume(r, c, s)
                  \/ \E new \in {"inactive", "none"} : Bus(b)!Leave(r, c, s, new)
             \/ \E plan \in Bus(b)!Plans : Bus(b)!Edit(r, c, plan)
             \/ Bus(b)!DeleteRoute(r, c)
             \/ \E d \in Fleet[b].drivers : Bus(b)!StartTrip(r, d, c)
      PROVE  BusInv(b)'
  BY <1>2, SubscribeStep, BusLeaveStep, EditStep, DeleteRouteStep, DriverStep
<1>3. ASSUME NEW r \in Bus(b)!Requests,
             \/ \E d \in Fleet[b].drivers : Bus(b)!Dismiss(r, d)
             \/ \E t \in Bus(b)!Trips : Bus(b)!Departs(r, t) \/ Bus(b)!EndTrip(r, t)
             \/ Bus(b)!Boards(r) \/ Bus(b)!SaveEdit(r) \/ Bus(b)!ArrivesAtSchool(r) \/ Bus(b)!Fails(r)
      PROVE  BusInv(b)'
  BY <1>3, BusLeaveStep, DepartsStep, DriverStep, BoardsStep, SaveEditStep
<1> QED BY <1>1, <1>2, <1>3, BusTimeStep DEF Bus!Next

LEMMA InitBusInv == ASSUME NEW b \in Buses PROVE Bus(b)!Init => BusInv(b)
<1> SUFFICES ASSUME Bus(b)!Init PROVE BusInv(b)
  OBVIOUS
<1>1. /\ route \in [Fleet[b].routes -> [there : {TRUE}, plan : Bus(b)!Plans]]
      /\ link = [c \in Fleet[b].routes |-> [s \in Fleet[b].students |-> "none"]]
      /\ journey = [t \in Bus(b)!Trips |-> Bus(b)!NoTrip] /\ employed = Fleet[b].drivers
      /\ busReq = [r \in Bus(b)!Requests |-> Bus(b)!Idle] /\ resumed = {} /\ raced = {}
  BY DEF Bus!Init
<1>2. /\ Bus(b)!NoTrip \in BusTrip(b) /\ Bus(b)!Idle \in BusRequest(b) /\ Bus(b)!NoTrip.state = "none"
      /\ EndIsSigned(Bus(b)!NoTrip)
  BY FleetAssumption DEF Bus!NoTrip, Bus!Idle, BusTrip, BusRequest, Buses, EndIsSigned
<1>3. \A c \in Fleet[b].routes : route[c].plan \in Bus(b)!Plans /\ route[c].plan.capacity \in Nat
  BY <1>1, FleetAssumption DEF Bus!Plans, Buses
<1>4. BusTypes(b)
  <2>1. route \in [Fleet[b].routes -> [there : BOOLEAN, plan : Bus(b)!Plans]]
    BY <1>1
  <2>2. /\ journey \in [Bus(b)!Trips -> BusTrip(b)]
        /\ busReq \in [Bus(b)!Requests -> BusRequest(b)]
    BY <1>1, <1>2
  <2>3. link \in [Fleet[b].routes -> [Fleet[b].students -> LinkStates]]
    BY <1>1 DEF LinkStates
  <2> QED BY <1>1, <2>1, <2>2, <2>3 DEF BusTypes, Bus!TypeOK, BusTrip, BusRequest, LinkStates
<1>5. \A r \in Bus(b)!Requests : RoomWasSeen(b, busReq[r])
  BY <1>1 DEF RoomWasSeen, Bus!Idle
<1>6. Bus(b)!SeatsSuffice
  <2>1. \A c \in Fleet[b].routes : Bus(b)!Riders(c) = {}
    BY <1>1 DEF Bus!Riders
  <2>2. \A c \in Fleet[b].routes : Cardinality(Bus(b)!Riders(c)) <= route[c].plan.capacity
    BY <1>3, <2>1, FS_EmptySet
  <2> QED BY <2>2 DEF Bus!SeatsSuffice, Bus!Cardinality, Cardinality
<1>7. Bus(b)!OneActiveRoute
  <2>2. ASSUME NEW s \in Fleet[b].students
        PROVE  Cardinality({c \in Fleet[b].routes : link[c][s] = "active"}) <= 1
    BY <1>1, AtMostOne
  <2> QED BY <2>2 DEF Bus!OneActiveRoute, Bus!Cardinality, Cardinality
<1>8. OneOnTheRoad(b) /\ EndsAreSigned(b)
  BY <1>1, <1>2 DEF OneOnTheRoad, Bus!OnTheRoad, EndsAreSigned
<1> QED BY <1>4, <1>5, <1>6, <1>7, <1>8 DEF BusInv

LEMMA OneTripEach == ASSUME NEW b \in Buses, BusInv(b) PROVE Bus(b)!OneTripPerRoute
<1>1. \A c \in Fleet[b].routes : Cardinality(Bus(b)!OnTheRoad(c)) <= 1
  BY AtMostOne DEF BusInv, OneOnTheRoad
<1> QED BY <1>1 DEF Bus!OneTripPerRoute, Bus!Cardinality, Cardinality

LEMMA OnlyWinners == ASSUME NEW b \in Buses, BusInv(b) PROVE Bus(b)!OnlyTheWinnerIsAudited
BY DEF BusInv, EndsAreSigned, EndIsSigned, Bus!OnlyTheWinnerIsAudited

LEMMA EndsStand ==
  ASSUME NEW b \in Buses, BusInv(b), [Bus(b)!Next]_busVars
  PROVE  Bus(b)!EndingStep
<1> SUFFICES ASSUME NEW t \in Bus(b)!Trips, journey[t].state \in {"ended", "deleted"}
             PROVE  journey'[t] = journey[t] \/ journey'[t].state = "deleted"
  <2>1. \A t \in Bus(b)!Trips : journey[t].state \in {"ended", "deleted"} =>
          journey'[t] = journey[t] \/ journey'[t].state = "deleted"
    OBVIOUS
  <2> QED BY <2>1 DEF Bus!EndingStep
<1>t. journey \in [Bus(b)!Trips -> BusTrip(b)]
  BY BusTypesSay DEF BusInv
<1>1. CASE UNCHANGED journey
  BY <1>1
<1>2. CASE \E u \in Bus(b)!Trips : Bus(b)!Ping(u)
  BY <1>2, <1>t DEF Bus!Ping, Bus!MayPing
<1>3. CASE Bus(b)!Tick \/ Bus(b)!Expire
  BY <1>3 DEF Bus!Tick, Bus!Expire, Bus!Expired
<1>4. CASE \E r \in Bus(b)!Requests, c \in Fleet[b].routes : Bus(b)!DeleteRoute(r, c)
  <2>1. PICK c \in Fleet[b].routes :
          journey' = [u \in Bus(b)!Trips |-> IF journey[u].route = c
                        THEN [Bus(b)!NoTrip EXCEPT !.state = "deleted"] ELSE journey[u]]
    BY <1>4 DEF Bus!DeleteRoute
  <2> QED BY <2>1 DEF Bus!NoTrip
<1>5. CASE \E r \in Bus(b)!Requests, u \in Bus(b)!Trips : Bus(b)!Departs(r, u)
  BY <1>5, <1>t DEF Bus!Departs
<1>6. CASE \E r \in Bus(b)!Requests : Bus(b)!ArrivesAtSchool(r)
  <2>1. PICK u, over : journey[u].state = "active" /\ journey' = [journey EXCEPT ![u] = over]
    BY <1>6 DEF Bus!ArrivesAtSchool
  <2> QED BY <2>1, <1>t
\* The other steps leave the trips alone.
<1>7. ASSUME NEW r \in Bus(b)!Requests,
        \/ \E c \in Fleet[b].routes :
             \/ \E s \in Fleet[b].students :
                  \/ Bus(b)!AddStudent(r, c, s) \/ Bus(b)!Resume(r, c, s)
                  \/ \E new \in {"inactive", "none"} : Bus(b)!Leave(r, c, s, new)
             \/ \E plan \in Bus(b)!Plans : Bus(b)!Edit(r, c, plan)
             \/ \E d \in Fleet[b].drivers : Bus(b)!StartTrip(r, d, c)
        \/ \E d \in Fleet[b].drivers : Bus(b)!Dismiss(r, d)
        \/ \E u \in Bus(b)!Trips : Bus(b)!EndTrip(r, u)
        \/ Bus(b)!Boards(r) \/ Bus(b)!SaveEdit(r) \/ Bus(b)!Fails(r)
      PROVE UNCHANGED journey
  BY <1>7 DEF Bus!AddStudent, Bus!Resume, Bus!Leave, Bus!Edit, Bus!StartTrip,
         Bus!Dismiss, Bus!EndTrip, Bus!Boards, Bus!SaveEdit, Bus!Fails
<1>8. UNCHANGED busVars => UNCHANGED journey
  BY DEF busVars
<1> QED BY <1>1, <1>2, <1>3, <1>4, <1>5, <1>6, <1>7, <1>8 DEF Bus!Next

-----------------------------------------------------------------------------
(* The store. A movement is about to change what it has read by what it       *)
(* records, a count by nothing; the rows of a flush are locked, so what it    *)
(* found changed since it was read (lost) is all that has.                    *)

Levels == Nat \cup {Store!NoRow}
Units(q) == IF q = Store!NoRow THEN 0 ELSE q

\* What a movement does to a warehouse.
Gain(m, w) == (IF m.to = w /\ m.type # "out" THEN 1 ELSE 0) - (IF m.from = w /\ m.type # "in" THEN 1 ELSE 0)

IsStoreRequest(q) ==
  q \in [pc : {"idle", "open", "flushed", "done"},
         op : {"none", "movement", "count", "edit", "delete"},
         snap : [Warehouses -> Levels], plan : [Warehouses -> Levels], rows : SUBSET Warehouses,
         lost : SUBSET Warehouses, total : {q.total}, sum : {q.sum},
         moves : SUBSET Store!Movement, counts : SUBSET Warehouses, met : BOOLEAN]

Records(r, q) ==
  \/ q.op \in {"count", "edit", "delete"} /\ q.moves = {}
  \/ /\ q.op = "movement"
     /\ \E m \in Store!Movement : q.moves = {m} /\ m.by = r /\ q.rows = {m.from, m.to}

Planned(q) ==
  /\ q.op = "movement" => \A m \in q.moves, w \in q.rows : Units(q.plan[w]) = Units(q.snap[w]) + Gain(m, w)
  /\ q.op = "count" => \A w \in q.rows : Units(q.plan[w]) = Units(q.snap[w])
  /\ q.op \in {"movement", "edit"} => \A w \in q.rows : q.plan[w] # Store!NoRow

Busy(q) == q.pc \in {"open", "flushed"}

StoreTypes ==
  /\ stock \in [Warehouses -> Levels]
  /\ movements \subseteq Store!Movement /\ IsFiniteSet(movements)
  /\ edited \subseteq Warehouses /\ stockStale \subseteq Warehouses
  /\ stockReq = [r \in Store!Requests |-> stockReq[r]]
  /\ \A r \in Store!Requests : IsStoreRequest(stockReq[r])

RequestsRecord ==
  \A r \in Store!Requests :
    /\ Busy(stockReq[r]) => Records(r, stockReq[r]) /\ Planned(stockReq[r])
    /\ stockReq[r].pc = "idle" => stockReq[r] = Store!Idle

RowsAreLocked ==
  \A r \in Store!Requests : stockReq[r].pc = "flushed" =>
    /\ \A w \in stockReq[r].rows \ stockReq[r].lost : stockReq[r].snap[w] = stock[w]
    /\ \A q \in Store!Requests \ {r} :
         stockReq[q].pc = "flushed" => stockReq[q].rows \cap stockReq[r].rows = {}

MovesAreNew == \A m \in movements : stockReq[m.by].pc = "done"

\* What the item's total will be: nobody has changed a row since the flush.
TotalOf(held, rws, plan) ==
  Store!SumFunction([w \in Warehouses |-> IF w \in rws THEN plan[w] ELSE Units(held[w])])
TotalsAreFresh ==
  \A r \in Store!Requests : Busy(stockReq[r]) /\ ~ stockReq[r].met =>
    /\ stockReq[r].total = total
    /\ stockReq[r].pc = "flushed" /\ Store!Totals(r) =>
         stockReq[r].sum = TotalOf(stock, stockReq[r].rows, stockReq[r].plan)

StoreInv ==
  /\ StoreTypes /\ RequestsRecord /\ RowsAreLocked /\ MovesAreNew /\ TotalsAreFresh
  /\ Store!StockFollowsMovements

LEMMA StoreFacts ==
  /\ Store!NoStock \in [Warehouses -> Levels] /\ IsStoreRequest(Store!Idle) /\ IsStoreRequest(Store!Done)
  /\ Store!Idle.pc = "idle" /\ Store!Done.pc = "done"
  /\ Store!Idle.met = FALSE /\ Store!Idle.lost = {} /\ Store!Idle.sum = 0
BY DEF Levels, Store!NoStock, Store!NoRow, IsStoreRequest, Store!Idle, Store!Done

LEMMA InitStoreInv == Store!Init => StoreInv
<1> SUFFICES ASSUME Store!Init PROVE StoreInv
  OBVIOUS
<1>1. \A r \in Store!Requests : stockReq[r] = Store!Idle
  BY DEF Store!Init
<1>2. StoreTypes
  BY <1>1, StoreFacts, StoreAssumption, FS_EmptySet DEF Store!Init, StoreTypes, Levels, Store!NoRow
<1>3. RequestsRecord /\ RowsAreLocked /\ MovesAreNew /\ TotalsAreFresh
  BY <1>1, StoreFacts DEF Store!Init, RequestsRecord, RowsAreLocked, MovesAreNew, TotalsAreFresh, Busy
<1>4. Store!StockFollowsMovements
  <2> SUFFICES ASSUME NEW w \in Warehouses
               PROVE  Store!Held(w) = (IF w = Depot THEN Opening ELSE 0) + Store!In(w) - Store!Out(w)
    BY DEF Store!StockFollowsMovements
  <2>1. Store!In(w) = 0 /\ Store!Out(w) = 0
    <3>1. {m \in movements : m.to = w /\ m.type # "out"} = {} /\ {m \in movements : m.from = w /\ m.type # "in"} = {}
      BY DEF Store!Init
    <3> QED BY <3>1, FS_EmptySet DEF Store!In, Store!Out, Store!Cardinality, Cardinality
  <2>2. Store!Held(w) = IF w = Depot THEN Opening ELSE 0
    BY StoreAssumption DEF Store!Init, Store!Held, Store!NoRow
  <2> QED BY <2>1, <2>2, StoreAssumption
<1> QED BY <1>2, <1>3, <1>4 DEF StoreInv

\* A step of the request r that leaves the stock and the movements alone.
LEMMA StoreRequestStep ==
  ASSUME StoreInv, NEW r \in Store!Requests, NEW new,
         UNCHANGED <<stock, total, movements, edited, stockStale>>,
         stockReq' = [stockReq EXCEPT ![r] = new],
         IsStoreRequest(new), new.pc # "idle", stockReq[r].pc # "done",
         Busy(new) => Records(r, new) /\ Planned(new),
         new.pc = "flushed" =>
           /\ \A w \in new.rows \ new.lost : new.snap[w] = stock[w]
           /\ \A q \in Store!Requests \ {r} :
                stockReq[q].pc = "flushed" => stockReq[q].rows \cap new.rows = {},
         Busy(new) /\ ~ new.met =>
           /\ new.total = total
           /\ new.pc = "flushed" /\ new.op \in {"movement", "edit"} =>
                new.sum = TotalOf(stock, new.rows, new.plan)
  PROVE  StoreInv'
<1>1. /\ stockReq' = [q \in Store!Requests |-> stockReq'[q]] /\ stockReq'[r] = new
      /\ \A q \in Store!Requests \ {r} : stockReq'[q] = stockReq[q]
  BY DEF StoreInv, StoreTypes
<1>2. StoreTypes'
  BY <1>1 DEF StoreInv, StoreTypes, IsStoreRequest
<1>3. RequestsRecord'
  BY <1>1 DEF StoreInv, RequestsRecord
<1>4. RowsAreLocked'
  BY <1>1 DEF StoreInv, RowsAreLocked
<1>5. MovesAreNew'
  BY <1>1 DEF StoreInv, MovesAreNew, StoreTypes, Store!Movement
<1>6. TotalsAreFresh'
  BY <1>1 DEF StoreInv, TotalsAreFresh, Store!Totals
<1>7. Store!StockFollowsMovements'
  BY DEF StoreInv, Store!StockFollowsMovements, Store!Held, Store!In, Store!Out
<1> QED BY <1>2, <1>3, <1>4, <1>5, <1>6, <1>7 DEF StoreInv

\* A request that has read.
LEMMA StoreBegin ==
  ASSUME StoreInv, NEW r \in Store!Requests, NEW op \in {"movement", "count", "edit", "delete"},
         NEW rws \in SUBSET Warehouses, NEW plan \in [Warehouses -> Levels],
         NEW moves \in SUBSET Store!Movement, NEW counts \in SUBSET Warehouses,
         Store!Begin(r, op, rws, plan, moves, counts),
         \/ op # "movement" /\ moves = {}
         \/ /\ op = "movement"
            /\ \E m \in Store!Movement : moves = {m} /\ m.by = r /\ rws = {m.from, m.to},
         op = "movement" => \A m \in moves, w \in rws : Units(plan[w]) = Units(stock[w]) + Gain(m, w),
         op = "count" => \A w \in rws : Units(plan[w]) = Units(stock[w]),
         op \in {"movement", "edit"} => \A w \in rws : plan[w] # Store!NoRow
  PROVE  StoreInv'
<1> DEFINE new == [Store!Idle EXCEPT !.pc = "open", !.op = op, !.snap = stock, !.plan = plan,
                     !.rows = rws, !.total = total, !.moves = moves, !.counts = counts]
<1>1. stockReq[r].pc = "idle" /\ stockReq[r] = Store!Idle
  BY DEF Store!Begin, Store!Arrives, StoreInv, RequestsRecord
<1>2. /\ stockReq' = [stockReq EXCEPT ![r] = new]
      /\ UNCHANGED <<stock, total, movements, edited, stockStale>>
  BY <1>1 DEF Store!Begin
<1>3. /\ new.pc = "open" /\ new.op = op /\ new.snap = stock /\ new.plan = plan /\ new.rows = rws
      /\ new.lost = {} /\ new.total = total /\ new.moves = moves /\ new.counts = counts
      /\ IsStoreRequest(new)
  BY DEF Store!Idle, IsStoreRequest, StoreInv, StoreTypes
<1> HIDE DEF new
<1>4. Records(r, new) /\ Planned(new)
  BY <1>3 DEF Records, Planned
<1> QED BY <1>1, <1>2, <1>3, <1>4, StoreRequestStep

LEMMA StockIsLevels ==
  ASSUME StoreInv
  PROVE  /\ stock \in [Warehouses -> Levels]
         /\ \A w \in Warehouses : Store!Held(w) = Units(stock[w]) /\ Store!Held(w) \in Nat
         /\ Nat \subseteq Levels /\ \A n \in Nat : Units(n) = n /\ n # Store!NoRow
BY DEF StoreInv, StoreTypes, Store!Held, Units, Levels, Store!NoRow

LEMMA MovementStep ==
  ASSUME StoreInv, NEW r \in Store!Requests, NEW type \in {"in", "out"}, NEW w \in Warehouses,
         Store!CreateMovement(r, type, w)
  PROVE  StoreInv'
<1> DEFINE n == IF type = "in" THEN Store!Held(w) + 1 ELSE Store!Held(w) - 1
           m == [type |-> type, from |-> w, to |-> w, by |-> r]
           plan == [stock EXCEPT ![w] = n]
<1>1. Store!Begin(r, "movement", {w}, plan, {m}, {})
  BY DEF Store!CreateMovement
<1>2. n \in Nat /\ n = Units(stock[w]) + Gain(m, w)
  BY StockIsLevels DEF Store!CreateMovement, Gain
<1>3. m \in Store!Movement /\ m.by = r /\ {w} = {m.from, m.to}
  BY DEF Store!Movement
<1> HIDE DEF n, m
<1>4. plan \in [Warehouses -> Levels] /\ Units(plan[w]) = Units(stock[w]) + Gain(m, w) /\ plan[w] # Store!NoRow
  BY <1>2, StockIsLevels
<1> HIDE DEF plan
<1> QED BY <1>1, <1>3, <1>4, StoreBegin

LEMMA TransferStep ==
  ASSUME StoreInv, NEW r \in Store!Requests, NEW v \in Warehouses, NEW w \in Warehouses,
         Store!Transfer(r, v, w)
  PROVE  StoreInv'
<1> DEFINE m == [type |-> "transfer", from |-> v, to |-> w, by |-> r]
           plan == [stock EXCEPT ![v] = Store!Held(v) - 1, ![w] = Store!Held(w) + 1]
<1>1. Store!Begin(r, "movement", {v, w}, plan, {m}, {}) /\ v # w /\ Store!Held(v) >= 1
  BY DEF Store!Transfer
<1>2. /\ Store!Held(v) - 1 \in Nat /\ Store!Held(v) - 1 = Units(stock[v]) + Gain(m, v)
      /\ Store!Held(w) + 1 \in Nat /\ Store!Held(w) + 1 = Units(stock[w]) + Gain(m, w)
  BY <1>1, StockIsLevels DEF Gain
<1>3. m \in Store!Movement /\ m.by = r /\ {v, w} = {m.from, m.to}
  BY DEF Store!Movement
<1> HIDE DEF m
<1>4. /\ plan \in [Warehouses -> Levels]
      /\ plan[v] = Store!Held(v) - 1 /\ plan[w] = Store!Held(w) + 1
  BY <1>1, <1>2, StockIsLevels
<1>5. \A x \in {v, w} : Units(plan[x]) = Units(stock[x]) + Gain(m, x) /\ plan[x] # Store!NoRow
  BY <1>2, <1>4, StockIsLevels
<1> HIDE DEF plan
<1> QED BY <1>1, <1>3, <1>4, <1>5, StoreBegin

LEMMA CountStep ==
  ASSUME StoreInv, NEW r \in Store!Requests, NEW w \in Warehouses, Store!CreateCount(r, w)
  PROVE  StoreInv'
<1> DEFINE plan == [stock EXCEPT ![w] = Store!Held(w)]
           rws == IF stock[w] = Store!NoRow THEN {w} ELSE {}
<1>1. Store!Begin(r, "count", rws, plan, {}, {w}) /\ rws \in SUBSET Warehouses
  BY DEF Store!CreateCount
<1>2. plan \in [Warehouses -> Levels] /\ \A x \in Warehouses : Units(plan[x]) = Units(stock[x])
  BY StockIsLevels
<1> HIDE DEF plan, rws
<1> QED BY <1>1, <1>2, StoreBegin

LEMMA EditItemStep ==
  ASSUME StoreInv, NEW r \in Store!Requests, NEW w \in Warehouses, NEW q \in {0, 1},
         Store!EditItem(r, w, q)
  PROVE  StoreInv'
<1> DEFINE plan == [stock EXCEPT ![w] = q]
           rws == {v \in Warehouses : stock[v] # Store!NoRow} \cup {w}
<1>1. Store!Begin(r, "edit", rws, plan, {}, {}) /\ rws \in SUBSET Warehouses
  BY DEF Store!EditItem
<1>2. plan \in [Warehouses -> Levels] /\ \A x \in rws : plan[x] # Store!NoRow
  BY StockIsLevels
<1> HIDE DEF plan, rws
<1> QED BY <1>1, <1>2, StoreBegin

LEMMA DeleteWarehouseStep ==
  ASSUME StoreInv, NEW r \in Store!Requests, NEW w \in Warehouses, Store!DeleteWarehouse(r, w)
  PROVE  StoreInv'
<1> DEFINE plan == [stock EXCEPT ![w] = Store!NoRow]
<1>1. Store!Begin(r, "delete", {w}, plan, {}, {w})
  BY DEF Store!DeleteWarehouse
<1>2. plan \in [Warehouses -> Levels]
  BY StockIsLevels DEF Levels
<1> HIDE DEF plan
<1> QED BY <1>1, <1>2, StoreBegin

LEMMA FailInv ==
  ASSUME StoreInv, NEW r \in Store!Requests, Store!Fail(r)
  PROVE  StoreInv'
BY StoreRequestStep, StoreFacts DEF Store!Fail, Busy

LEMMA ToggleInv ==
  ASSUME StoreInv, NEW w \in Warehouses, Store!ToggleWarehouse(w)
  PROVE  StoreInv'
<1>1. UNCHANGED <<stock, total, movements, stockReq, edited, stockStale>>
  BY DEF Store!ToggleWarehouse
<1> QED BY <1>1 DEF StoreInv, StoreTypes, RequestsRecord, RowsAreLocked, MovesAreNew, TotalsAreFresh,
            Store!StockFollowsMovements, Store!Held, Store!In, Store!Out, Store!Totals

\* The flush takes the rows, and computes the total from what it sees.
LEMMA FlushInv ==
  ASSUME StoreInv, NEW r \in Store!Requests, Store!Flush(r)
  PROVE  StoreInv'
<1> DEFINE q == stockReq[r]
           new == [q EXCEPT !.pc = "flushed", !.rows = Store!Rows(r),
                     !.lost = {w \in Store!Rows(r) : q.snap[w] # stock[w]},
                     !.sum = IF Store!Totals(r) THEN Store!SumWith(r) ELSE q.total]
<1>1. /\ q.pc = "open" /\ Store!Free(r)
      /\ stockReq' = [stockReq EXCEPT ![r] = new]
      /\ UNCHANGED <<stock, total, movements, edited, stockStale>>
  BY DEF Store!Flush
<1>2. IsStoreRequest(q) /\ Records(r, q) /\ Planned(q)
  BY <1>1 DEF StoreInv, StoreTypes, RequestsRecord, Busy
<1>3. /\ Store!Rows(r) \subseteq q.rows
      /\ q.op \in {"none", "movement", "count"} => Store!Rows(r) = q.rows
  BY <1>2 DEF Store!Rows, IsStoreRequest
<1>4. /\ new.pc = "flushed" /\ new.op = q.op /\ new.rows = Store!Rows(r) /\ new.moves = q.moves
      /\ new.snap = q.snap /\ new.plan = q.plan /\ new.met = q.met /\ new.total = q.total
      /\ new.lost = {w \in Store!Rows(r) : q.snap[w] # stock[w]}
      /\ new.sum = IF Store!Totals(r) THEN Store!SumWith(r) ELSE q.total
      /\ IsStoreRequest(new)
  BY <1>2, <1>3 DEF IsStoreRequest
<1> HIDE DEF new
<1>5. Records(r, new) /\ Planned(new)
  BY <1>2, <1>3, <1>4 DEF Records, Planned
<1>6. /\ \A w \in new.rows \ new.lost : new.snap[w] = stock[w]
      /\ \A p \in Store!Requests \ {r} :
           stockReq[p].pc = "flushed" => stockReq[p].rows \cap new.rows = {}
  BY <1>1, <1>3, <1>4 DEF Store!Free
<1>7. ~ new.met => /\ new.total = total
                   /\ new.op \in {"movement", "edit"} => new.sum = TotalOf(stock, new.rows, new.plan)
  <2>1. Store!SumWith(r) = TotalOf(stock, Store!Rows(r), q.plan)
    <3>1. [w \in Warehouses |-> IF w \in Store!Rows(r) THEN q.plan[w] ELSE Store!Held(w)]
            = [w \in Warehouses |-> IF w \in Store!Rows(r) THEN q.plan[w] ELSE Units(stock[w])]
      BY StockIsLevels
    <3> QED BY <3>1 DEF Store!SumWith, TotalOf
  <2> QED BY <1>1, <1>4, <2>1 DEF StoreInv, TotalsAreFresh, Busy, Store!Totals
<1> QED BY <1>1, <1>4, <1>5, <1>6, <1>7, StoreRequestStep DEF Busy

\* What a commit makes of a warehouse that neither a form nor a stale value has set: its
\* units change by what the request's movement does there.
LEMMA CommitMoves ==
  ASSUME StoreInv, NEW r \in Store!Requests, Store!Commit(r),
         NEW w \in Warehouses, w \notin edited' \cup stockStale'
  PROVE  /\ w \notin edited \cup stockStale
         /\ stockReq[r].op # "movement" => Units(stock'[w]) = Units(stock[w])
         /\ \A m \in stockReq[r].moves : Units(stock'[w]) = Units(stock[w]) + Gain(m, w)
<1> DEFINE q == stockReq[r]
<1>1. /\ q.pc = "flushed"
      /\ stock' = [x \in Warehouses |-> IF x \in q.rows THEN q.plan[x] ELSE stock[x]]
      /\ edited' = IF q.op \in {"edit", "delete"} THEN edited \cup q.rows ELSE edited
      /\ stockStale' = stockStale \cup q.lost
  BY DEF Store!Commit
<1>2. IsStoreRequest(q) /\ Records(r, q) /\ Planned(q)
  BY <1>1 DEF StoreInv, StoreTypes, RequestsRecord, Busy
<1>3. \A x \in q.rows \ q.lost : q.snap[x] = stock[x]
  BY <1>1 DEF StoreInv, RowsAreLocked
<1>4. w \notin edited \cup stockStale /\ w \notin q.lost /\ (w \in q.rows => q.op \notin {"edit", "delete"})
  BY <1>1
<1>5. CASE w \notin q.rows
  <2>1. stock'[w] = stock[w]
    BY <1>1, <1>5
  <2>2. \A m \in q.moves : Gain(m, w) = 0
    BY <1>2, <1>5 DEF Records, Gain
  <2>3. Units(stock[w]) \in Nat
    BY StockIsLevels
  <2> QED BY <1>4, <2>1, <2>2, <2>3
<1>6. CASE w \in q.rows
  <2>1. stock'[w] = q.plan[w] /\ q.snap[w] = stock[w]
    BY <1>1, <1>3, <1>4, <1>6
  <2>2. q.op \in {"movement", "count"} /\ (q.op # "movement" => q.moves = {})
    BY <1>2, <1>4, <1>6 DEF Records
  <2> QED BY <1>2, <1>4, <1>6, <2>1, <2>2 DEF Planned
<1> QED BY <1>5, <1>6

LEMMA CommitInv ==
  ASSUME StoreInv, NEW r \in Store!Requests, Store!Commit(r)
  PROVE  StoreInv'
<1> DEFINE q == stockReq[r]
<1>1. /\ q.pc = "flushed"
      /\ stock' = [x \in Warehouses |-> IF x \in q.rows THEN q.plan[x] ELSE stock[x]]
      /\ movements' = movements \cup q.moves
      /\ edited' = IF q.op \in {"edit", "delete"} THEN edited \cup q.rows ELSE edited
      /\ stockStale' = stockStale \cup q.lost
  BY DEF Store!Commit
<1>2. IsStoreRequest(q) /\ Records(r, q) /\ Planned(q)
  BY <1>1 DEF StoreInv, StoreTypes, RequestsRecord, Busy
\* The others have met it.
<1>3. /\ stockReq' = [p \in Store!Requests |-> stockReq'[p]] /\ stockReq'[r] = Store!Done
      /\ \A p \in Store!Requests \ {r} :
           stockReq'[p] = IF Busy(stockReq[p]) THEN [stockReq[p] EXCEPT !.met = TRUE] ELSE stockReq[p]
  BY DEF Store!Commit, Busy
<1>4. \A p \in Store!Requests \ {r} :
        /\ IsStoreRequest(stockReq'[p])
        /\ stockReq'[p].pc = stockReq[p].pc /\ stockReq'[p].op = stockReq[p].op
        /\ stockReq'[p].snap = stockReq[p].snap /\ stockReq'[p].plan = stockReq[p].plan
        /\ stockReq'[p].rows = stockReq[p].rows /\ stockReq'[p].lost = stockReq[p].lost
        /\ stockReq'[p].moves = stockReq[p].moves
        /\ Busy(stockReq[p]) => stockReq'[p].met
        /\ ~ Busy(stockReq[p]) => stockReq'[p] = stockReq[p]
  <2> SUFFICES ASSUME NEW p \in Store!Requests \ {r} PROVE <1>4!(p)
    OBVIOUS
  <2>1. IsStoreRequest(stockReq[p])
    BY DEF StoreInv, StoreTypes
  <2>2. CASE Busy(stockReq[p])
    BY <1>3, <2>1, <2>2 DEF IsStoreRequest
  <2>3. CASE ~ Busy(stockReq[p])
    BY <1>3, <2>1, <2>3
  <2> QED BY <2>2, <2>3
<1>5. StoreTypes'
  <2>1. stock' \in [Warehouses -> Levels]
    BY <1>1, <1>2, StockIsLevels DEF IsStoreRequest
  <2>2. movements' \subseteq Store!Movement /\ IsFiniteSet(movements')
    <3>1. IsFiniteSet(q.moves)
      BY <1>2, FS_EmptySet, FS_Singleton DEF Records
    <3> QED BY <1>1, <1>2, <3>1, FS_Union DEF StoreInv, StoreTypes, IsStoreRequest
  <2>3. edited' \subseteq Warehouses /\ stockStale' \subseteq Warehouses
    BY <1>1, <1>2 DEF StoreInv, StoreTypes, IsStoreRequest
  <2>4. \A p \in Store!Requests : IsStoreRequest(stockReq'[p])
    BY <1>3, <1>4, StoreFacts
  <2> QED BY <1>3, <2>1, <2>2, <2>3, <2>4 DEF StoreTypes, IsStoreRequest
<1>6. RequestsRecord'
  <2> SUFFICES ASSUME NEW p \in Store!Requests
               PROVE  /\ Busy(stockReq'[p]) => Records(p, stockReq'[p]) /\ Planned(stockReq'[p])
                      /\ stockReq'[p].pc = "idle" => stockReq'[p] = Store!Idle
    BY DEF RequestsRecord
  <2>1. CASE p = r
    BY <1>3, <2>1, StoreFacts DEF Busy
  <2>2. CASE p # r
    <3>1. Busy(stockReq[p]) => Records(p, stockReq[p]) /\ Planned(stockReq[p])
      BY DEF StoreInv, RequestsRecord
    <3>2. /\ Records(p, stockReq[p]) => Records(p, stockReq'[p])
          /\ Planned(stockReq[p]) => Planned(stockReq'[p])
          /\ Busy(stockReq'[p]) <=> Busy(stockReq[p])
      BY <1>4, <2>2 DEF Records, Planned, Busy
    <3>3. stockReq'[p].pc = "idle" => stockReq'[p] = Store!Idle
      BY <1>4, <2>2 DEF StoreInv, RequestsRecord, Busy
    <3> QED BY <3>1, <3>2, <3>3
  <2> QED BY <2>1, <2>2
<1>7. RowsAreLocked'
  <2> SUFFICES ASSUME NEW p \in Store!Requests, stockReq'[p].pc = "flushed"
               PROVE  /\ \A w \in stockReq'[p].rows \ stockReq'[p].lost : stockReq'[p].snap[w] = stock'[w]
                      /\ \A o \in Store!Requests \ {p} :
                           stockReq'[o].pc = "flushed" => stockReq'[o].rows \cap stockReq'[p].rows = {}
    BY DEF RowsAreLocked
  <2>1. p # r /\ stockReq[p].pc = "flushed"
    BY <1>3, <1>4, StoreFacts
  <2>2. stockReq[p].rows \cap q.rows = {} /\ stockReq[p].rows \subseteq Warehouses
    BY <1>1, <2>1 DEF StoreInv, RowsAreLocked, StoreTypes, IsStoreRequest
  <2>3. \A w \in stockReq[p].rows : stock'[w] = stock[w]
    BY <1>1, <2>2
  <2>4. \A w \in stockReq[p].rows \ stockReq[p].lost : stockReq[p].snap[w] = stock[w]
    BY <2>1 DEF StoreInv, RowsAreLocked
  <2>5. \A o \in Store!Requests \ {p} :
          stockReq'[o].pc = "flushed" =>
            o # r /\ stockReq[o].pc = "flushed" /\ stockReq'[o].rows = stockReq[o].rows
    BY <1>3, <1>4, StoreFacts
  <2>6. \A o \in Store!Requests \ {p} :
          stockReq[o].pc = "flushed" => stockReq[o].rows \cap stockReq[p].rows = {}
    BY <2>1 DEF StoreInv, RowsAreLocked
  <2> QED BY <1>4, <2>1, <2>3, <2>4, <2>5, <2>6
<1>8. MovesAreNew'
  <2> SUFFICES ASSUME NEW m \in movements' PROVE stockReq'[m.by].pc = "done"
    BY DEF MovesAreNew
  <2>1. CASE m \in q.moves
    BY <1>2, <1>3, <2>1, StoreFacts DEF Records
  <2>2. CASE m \in movements
    <3>1. m.by \in Store!Requests /\ stockReq[m.by].pc = "done"
      BY <2>2 DEF StoreInv, StoreTypes, MovesAreNew, Store!Movement
    <3> QED BY <1>3, <1>4, <3>1, StoreFacts
  <2> QED BY <1>1, <2>1, <2>2
<1>9. TotalsAreFresh'
  <2>1. \A p \in Store!Requests : ~ (Busy(stockReq'[p]) /\ ~ stockReq'[p].met)
    <3> SUFFICES ASSUME NEW p \in Store!Requests, Busy(stockReq'[p]) PROVE stockReq'[p].met
      OBVIOUS
    <3>1. p # r
      BY <1>3, StoreFacts DEF Busy
    <3> QED BY <1>4, <3>1 DEF Busy
  <2> QED BY <2>1 DEF TotalsAreFresh
<1>10. Store!StockFollowsMovements'
  <2> SUFFICES ASSUME NEW w \in Warehouses, w \notin edited' \cup stockStale'
               PROVE  Store!Held(w)' = (IF w = Depot THEN Opening ELSE 0) + Store!In(w)' - Store!Out(w)'
    BY DEF Store!StockFollowsMovements
  <2> DEFINE in(M) == {m \in M : m.to = w /\ m.type # "out"}
             out(M) == {m \in M : m.from = w /\ m.type # "in"}
  <2>1. /\ Store!In(w) = Cardinality(in(movements)) /\ Store!Out(w) = Cardinality(out(movements))
        /\ Store!In(w)' = Cardinality(in(movements')) /\ Store!Out(w)' = Cardinality(out(movements'))
    BY DEF Store!In, Store!Out, Store!Cardinality, Cardinality
  <2>2. /\ IsFiniteSet(in(movements)) /\ IsFiniteSet(out(movements))
        /\ Cardinality(in(movements)) \in Nat /\ Cardinality(out(movements)) \in Nat
    <3>1. in(movements) \subseteq movements /\ out(movements) \subseteq movements /\ IsFiniteSet(movements)
      BY DEF StoreInv, StoreTypes
    <3> QED BY <3>1, FS_Subset, FS_CardinalityType
  <2>3. /\ Store!Held(w) = Units(stock[w]) /\ Store!Held(w) \in Nat
        /\ Store!Held(w)' = Units(stock'[w])
    BY <1>5, StockIsLevels DEF StoreTypes, Store!Held, Units
  <2>4. /\ w \notin edited \cup stockStale
        /\ q.op # "movement" => Units(stock'[w]) = Units(stock[w])
        /\ \A m \in q.moves : Units(stock'[w]) = Units(stock[w]) + Gain(m, w)
    BY CommitMoves
  <2>5. Store!Held(w) = (IF w = Depot THEN Opening ELSE 0) + Store!In(w) - Store!Out(w)
    BY <2>4 DEF StoreInv, Store!StockFollowsMovements
  <2>6. CASE q.moves = {}
    <3>1. q.op # "movement" /\ movements' = movements
      BY <1>1, <1>2, <2>6 DEF Records
    <3> QED BY <2>1, <2>3, <2>4, <2>5, <3>1
  <2>7. CASE q.moves # {}
    <3>1. PICK m \in Store!Movement : q.moves = {m} /\ m.by = r
      BY <1>2, <2>7 DEF Records
    <3>2. m \notin movements
      BY <1>1, <3>1 DEF StoreInv, MovesAreNew
    <3>3. /\ in(movements') = IF m.to = w /\ m.type # "out" THEN in(movements) \cup {m} ELSE in(movements)
          /\ out(movements') = IF m.from = w /\ m.type # "in" THEN out(movements) \cup {m} ELSE out(movements)
          /\ m \notin in(movements) /\ m \notin out(movements)
      BY <1>1, <3>1, <3>2
    <3> HIDE DEF in, out
    <3>4. /\ Cardinality(in(movements) \cup {m}) = Cardinality(in(movements)) + 1
          /\ Cardinality(out(movements) \cup {m}) = Cardinality(out(movements)) + 1
      BY <2>2, <3>3, FS_AddElement
    <3>5. Units(stock'[w]) = Units(stock[w]) + Gain(m, w)
      BY <2>4, <3>1
    <3> DEFINE gains == m.to = w /\ m.type # "out"
               loses == m.from = w /\ m.type # "in"
    <3>6. Store!In(w)' = Store!In(w) + (IF gains THEN 1 ELSE 0)
      BY <2>1, <2>2, <3>3, <3>4
    <3>7. Store!Out(w)' = Store!Out(w) + (IF loses THEN 1 ELSE 0)
      BY <2>1, <2>2, <3>3, <3>4
    <3>8. Gain(m, w) = (IF gains THEN 1 ELSE 0) - (IF loses THEN 1 ELSE 0)
      BY DEF Gain
    <3>9. Store!In(w) \in Nat /\ Store!Out(w) \in Nat
      BY <2>1, <2>2
    <3> HIDE DEF gains, loses
    <3> DEFINE opened == IF w = Depot THEN Opening ELSE 0
    <3>10. opened \in Nat /\ Store!Held(w) = opened + Store!In(w) - Store!Out(w)
      BY <2>5, StoreAssumption
    <3> HIDE DEF opened
    <3>11. Store!Held(w)' = opened + Store!In(w)' - Store!Out(w)'
      BY <2>3, <3>5, <3>6, <3>7, <3>8, <3>9, <3>10
    <3> QED BY <3>11 DEF opened
  <2> QED BY <2>6, <2>7
<1> QED BY <1>5, <1>6, <1>7, <1>8, <1>9, <1>10 DEF StoreInv

LEMMA StoreStep == StoreInv /\ [Store!Next]_stockVars => StoreInv'
<1> SUFFICES ASSUME StoreInv, [Store!Next]_stockVars PROVE StoreInv'
  OBVIOUS
<1>1. CASE UNCHANGED stockVars
  BY <1>1 DEF stockVars, StoreInv, StoreTypes, RequestsRecord, RowsAreLocked, MovesAreNew, TotalsAreFresh,
              Store!StockFollowsMovements, Store!Held, Store!In, Store!Out, Store!Totals
<1>2. ASSUME NEW r \in Store!Requests, NEW w \in Warehouses,
             \/ Store!CreateMovement(r, "in", w) \/ Store!CreateMovement(r, "out", w)
             \/ \E v \in Warehouses : Store!Transfer(r, v, w)
             \/ Store!CreateCount(r, w) \/ (\E q \in {0, 1} : Store!EditItem(r, w, q))
             \/ Store!DeleteWarehouse(r, w)
      PROVE  StoreInv'
  BY <1>2, MovementStep, TransferStep, CountStep, EditItemStep, DeleteWarehouseStep
<1> QED BY <1>1, <1>2, FlushInv, CommitInv, FailInv, ToggleInv DEF Store!Next

(* The quantities. Requests begin one after the other and each adds one unit   *)
(* at most to what it has read, so the r-th plans no more than Opening + r.    *)

AtMost(f, n) == \A w \in Warehouses : f[w] <= n
Sums == {Store!SumFunction(held) : held \in [Warehouses -> Store!Quantities \ {Store!NoRow}]}

QuantityInv ==
  /\ house \in [Warehouses -> {"active", "inactive", "gone"}] /\ counted \subseteq Warehouses
  /\ AtMost(stock, Opening + StockRequests) /\ total \in Sums
  /\ \A r \in Store!Requests :
       /\ stockReq[r].pc = "idle" => AtMost(stock, Opening + r - 1)
       /\ stockReq[r].pc # "idle" => \A q \in 1 .. r - 1 : stockReq[q].pc # "idle"
       /\ AtMost(stockReq[r].snap, Opening + StockRequests) /\ AtMost(stockReq[r].plan, Opening + r)
       /\ Busy(stockReq[r]) => stockReq[r].total \in Sums
       /\ stockReq[r].pc = "flushed" => stockReq[r].sum \in Sums

LEMMA StoreNumbers ==
  /\ \A r \in Store!Requests : r \in Nat /\ r >= 1 /\ r <= StockRequests
  /\ Opening \in Nat /\ StockRequests \in Nat
  /\ \A q \in Store!Requests, r \in Store!Requests : q < r => q \in 1 .. r - 1
BY StoreAssumption DEF Store!Requests

LEMMA NothingIsLittle ==
  ASSUME NEW n \in Nat
  PROVE  AtMost(Store!Idle.snap, n) /\ AtMost(Store!Idle.plan, n) /\ Store!Done.pc = "done"
         /\ AtMost(Store!Done.snap, n) /\ AtMost(Store!Done.plan, n)
BY DEF AtMost, Store!Idle, Store!Done, Store!NoStock, Store!NoRow

LEMMA SumsAreSums ==
  ASSUME NEW held \in [Warehouses -> Nat], AtMost(held, Opening + StockRequests)
  PROVE  Store!SumFunction(held) \in Sums
<1>1. held \in [Warehouses -> Store!Quantities \ {Store!NoRow}]
  BY StoreNumbers DEF AtMost, Store!Quantities, Store!NoRow
<1> QED BY <1>1 DEF Sums

LEMMA InitQuantities == Store!Init => QuantityInv
<1> SUFFICES ASSUME Store!Init PROVE QuantityInv
  OBVIOUS
<1>1. \A r \in Store!Requests : stockReq[r] = Store!Idle /\ stockReq[r].pc = "idle"
  BY StoreFacts DEF Store!Init
<1>2. /\ AtMost(stock, Opening + StockRequests)
      /\ \A r \in Store!Requests : AtMost(stock, Opening + r - 1)
  BY StoreNumbers DEF Store!Init, AtMost, Store!NoRow
<1>3. total \in Sums
  <2> DEFINE held == [w \in Warehouses |-> IF w = Depot THEN Opening ELSE 0]
  <2>1. held \in [Warehouses -> Nat] /\ AtMost(held, Opening + StockRequests)
    BY StoreNumbers DEF AtMost
  <2>2. total = Store!SumFunction(held)
    BY DEF Store!Init
  <2> HIDE DEF held
  <2> QED BY <2>1, <2>2, SumsAreSums
<1>4. house \in [Warehouses -> {"active", "inactive", "gone"}] /\ counted \subseteq Warehouses
  BY DEF Store!Init
<1>5. \A r \in Store!Requests : AtMost(stockReq[r].snap, Opening + StockRequests)
                                /\ AtMost(stockReq[r].plan, Opening + r)
  <2> SUFFICES ASSUME NEW r \in Store!Requests
               PROVE  AtMost(stockReq[r].snap, Opening + StockRequests) /\ AtMost(stockReq[r].plan, Opening + r)
    OBVIOUS
  <2>1. Opening + StockRequests \in Nat /\ Opening + r \in Nat
    BY StoreNumbers
  <2> QED BY <1>1, <2>1, NothingIsLittle
<1> QED BY <1>1, <1>2, <1>3, <1>4, <1>5 DEF QuantityInv, Busy

\* A step of the request r alone.
LEMMA QuantityRequestStep ==
  ASSUME StoreInv, QuantityInv, NEW r \in Store!Requests, NEW new,
         UNCHANGED <<stock, total, house, counted>>,
         stockReq' = [stockReq EXCEPT ![r] = new],
         new.pc # "idle", \A q \in 1 .. r - 1 : stockReq[q].pc # "idle",
         AtMost(new.snap, Opening + StockRequests), AtMost(new.plan, Opening + r),
         Busy(new) => new.total \in Sums,
         new.pc = "flushed" => new.sum \in Sums
  PROVE  QuantityInv'
<1>1. /\ stockReq'[r] = new
      /\ \A q \in Store!Requests \ {r} : stockReq'[q] = stockReq[q]
  BY DEF StoreInv, StoreTypes
<1>2. \A q \in Store!Requests : stockReq[q].pc # "idle" => stockReq'[q].pc # "idle"
  BY <1>1
<1>3. \A p \in Store!Requests : stockReq'[p].pc # "idle" => \A q \in 1 .. p - 1 : stockReq'[q].pc # "idle"
  <2> SUFFICES ASSUME NEW p \in Store!Requests, stockReq'[p].pc # "idle", NEW q \in 1 .. p - 1
               PROVE  stockReq'[q].pc # "idle"
    OBVIOUS
  <2>1. q \in Store!Requests
    BY StoreNumbers DEF Store!Requests
  <2>2. stockReq[q].pc # "idle"
    BY <1>1 DEF QuantityInv
  <2> QED BY <1>2, <2>1, <2>2
<1>4. \A p \in Store!Requests : stockReq'[p].pc = "idle" => AtMost(stock', Opening + p - 1)
  BY <1>1 DEF QuantityInv, AtMost
<1>5. \A p \in Store!Requests :
        /\ AtMost(stockReq'[p].snap, Opening + StockRequests) /\ AtMost(stockReq'[p].plan, Opening + p)
        /\ Busy(stockReq'[p]) => stockReq'[p].total \in Sums
        /\ stockReq'[p].pc = "flushed" => stockReq'[p].sum \in Sums
  BY <1>1 DEF QuantityInv
<1>6. /\ house' \in [Warehouses -> {"active", "inactive", "gone"}] /\ counted' \subseteq Warehouses
      /\ AtMost(stock', Opening + StockRequests) /\ total' \in Sums'
      /\ Sums' = Sums
  BY DEF QuantityInv, AtMost, Sums
<1>7. \A p \in Store!Requests :
        /\ Busy(stockReq'[p]) => stockReq'[p].total \in Sums'
        /\ stockReq'[p].pc = "flushed" => stockReq'[p].sum \in Sums'
  BY <1>5, <1>6
<1> QED BY <1>3, <1>4, <1>5, <1>6, <1>7 DEF QuantityInv, AtMost, Busy

LEMMA QuantityBegin ==
  ASSUME StoreInv, QuantityInv, NEW r \in Store!Requests,
         NEW op, NEW rws, NEW plan, NEW moves, NEW counts,
         Store!Begin(r, op, rws, plan, moves, counts), AtMost(plan, Opening + r)
  PROVE  QuantityInv'
<1> DEFINE new == [stockReq[r] EXCEPT !.pc = "open", !.op = op, !.snap = stock, !.plan = plan,
                     !.rows = rws, !.total = total, !.moves = moves, !.counts = counts]
<1>1. /\ stockReq' = [stockReq EXCEPT ![r] = new] /\ UNCHANGED <<stock, total, house, counted>>
      /\ \A q \in 1 .. r - 1 : stockReq[q].pc # "idle"
  BY DEF Store!Begin, Store!Arrives
<1>2. new.pc = "open" /\ new.snap = stock /\ new.plan = plan /\ new.total = total
  BY DEF StoreInv, StoreTypes, IsStoreRequest
<1> HIDE DEF new
<1>3. AtMost(stock, Opening + StockRequests) /\ total \in Sums
  BY DEF QuantityInv
<1> QED BY <1>1, <1>2, <1>3, QuantityRequestStep

\* Whoever begins may add one unit to what a warehouse has.
LEMMA QuantityPlan ==
  ASSUME StoreInv, QuantityInv, NEW r \in Store!Requests, stockReq[r].pc = "idle"
  PROVE  /\ AtMost(stock, Opening + r)
         /\ \A w \in Warehouses : Store!Held(w) \in Nat /\ Store!Held(w) + 1 <= Opening + r
<1>1. AtMost(stock, Opening + r - 1)
  BY DEF QuantityInv
<1>2. \A w \in Warehouses : stock[w] \in Nat \cup {-1}
  BY DEF StoreInv, StoreTypes, Levels, Store!NoRow
<1> QED BY <1>1, <1>2, StoreNumbers DEF AtMost, Store!Held, Store!NoRow

LEMMA QuantityOps ==
  ASSUME StoreInv, QuantityInv, NEW r \in Store!Requests, NEW w \in Warehouses,
         \/ Store!CreateMovement(r, "in", w) \/ Store!CreateMovement(r, "out", w)
         \/ \E v \in Warehouses : Store!Transfer(r, v, w)
         \/ Store!CreateCount(r, w) \/ (\E q \in {0, 1} : Store!EditItem(r, w, q))
         \/ Store!DeleteWarehouse(r, w)
  PROVE  QuantityInv'
<1>1. stockReq[r].pc = "idle"
  BY DEF Store!CreateMovement, Store!Transfer, Store!CreateCount, Store!EditItem, Store!DeleteWarehouse,
         Store!Begin, Store!Arrives
<1>2. AtMost(stock, Opening + r) /\ stock \in [Warehouses -> Levels]
  BY <1>1, QuantityPlan DEF StoreInv, StoreTypes
<1>3. \A v \in Warehouses : Store!Held(v) \in Nat /\ Store!Held(v) + 1 <= Opening + r
  BY <1>1, QuantityPlan
<1>4. ASSUME NEW v \in Warehouses, NEW m, NEW n, m <= Opening + r, n <= Opening + r
      PROVE  AtMost([stock EXCEPT ![w] = n], Opening + r) /\ AtMost([stock EXCEPT ![v] = m, ![w] = n], Opening + r)
  BY <1>2, <1>4 DEF AtMost
<1>n. /\ r \in Nat /\ r >= 1 /\ Opening \in Nat
      /\ \A v \in Warehouses : Store!Held(v) - 1 <= Opening + r /\ Store!Held(v) <= Opening + r
  BY <1>3, StoreNumbers
<1>5. CASE Store!CreateMovement(r, "in", w)
  <2>1. AtMost([stock EXCEPT ![w] = Store!Held(w) + 1], Opening + r)
    BY <1>3, <1>4
  <2>2. PICK moves : Store!Begin(r, "movement", {w}, [stock EXCEPT ![w] = Store!Held(w) + 1], moves, {})
    BY <1>5 DEF Store!CreateMovement
  <2> QED BY <2>1, <2>2, QuantityBegin
<1>6. CASE Store!CreateMovement(r, "out", w)
  <2>1. AtMost([stock EXCEPT ![w] = Store!Held(w) - 1], Opening + r)
    BY <1>n, <1>4
  <2>2. PICK moves : Store!Begin(r, "movement", {w}, [stock EXCEPT ![w] = Store!Held(w) - 1], moves, {})
    BY <1>6 DEF Store!CreateMovement
  <2> QED BY <2>1, <2>2, QuantityBegin
<1>7. ASSUME NEW v \in Warehouses, Store!Transfer(r, v, w) PROVE QuantityInv'
  <2> DEFINE plan == [stock EXCEPT ![v] = Store!Held(v) - 1, ![w] = Store!Held(w) + 1]
  <2>1. AtMost(plan, Opening + r)
    BY <1>n, <1>3, <1>4
  <2>2. PICK moves : Store!Begin(r, "movement", {v, w}, plan, moves, {})
    BY <1>7 DEF Store!Transfer
  <2> QED BY <2>1, <2>2, QuantityBegin
<1>8. CASE Store!CreateCount(r, w)
  <2>1. AtMost([stock EXCEPT ![w] = Store!Held(w)], Opening + r)
    BY <1>n, <1>4
  <2> QED BY <1>8, <2>1, QuantityBegin DEF Store!CreateCount
<1>9. ASSUME NEW q \in {0, 1}, Store!EditItem(r, w, q) PROVE QuantityInv'
  <2>1. AtMost([stock EXCEPT ![w] = q], Opening + r)
    BY <1>n, <1>4
  <2> QED BY <1>9, <2>1, QuantityBegin DEF Store!EditItem
<1>10. CASE Store!DeleteWarehouse(r, w)
  <2>1. AtMost([stock EXCEPT ![w] = Store!NoRow], Opening + r)
    BY <1>n, <1>4 DEF Store!NoRow
  <2> QED BY <1>10, <2>1, QuantityBegin DEF Store!DeleteWarehouse
<1> QED BY <1>5, <1>6, <1>7, <1>8, <1>9, <1>10

LEMMA QuantityFail ==
  ASSUME StoreInv, QuantityInv, NEW r \in Store!Requests, Store!Fail(r)
  PROVE  QuantityInv'
<1>1. /\ stockReq' = [stockReq EXCEPT ![r] = Store!Done] /\ UNCHANGED <<stock, total, house, counted>>
      /\ stockReq[r].pc # "idle"
  BY DEF Store!Fail
<1>2. /\ AtMost(Store!Done.snap, Opening + StockRequests) /\ AtMost(Store!Done.plan, Opening + r)
      /\ ~ Busy(Store!Done) /\ Store!Done.pc = "done"
  <2>1. Opening + StockRequests \in Nat /\ Opening + r \in Nat
    BY StoreNumbers
  <2> QED BY <2>1, NothingIsLittle DEF Busy
<1>3. \A q \in 1 .. r - 1 : stockReq[q].pc # "idle"
  BY <1>1 DEF QuantityInv
<1> QED BY <1>1, <1>2, <1>3, QuantityRequestStep DEF Busy

LEMMA QuantityToggle ==
  ASSUME QuantityInv, NEW w \in Warehouses, Store!ToggleWarehouse(w)
  PROVE  QuantityInv'
<1>1. /\ UNCHANGED <<stock, total, counted, stockReq>>
      /\ house' \in [Warehouses -> {"active", "inactive", "gone"}]
  BY DEF Store!ToggleWarehouse, QuantityInv
<1> QED BY <1>1 DEF QuantityInv, AtMost, Busy, Sums

\* The rows that count in a total all have units.
LEMMA QuantityFlush ==
  ASSUME StoreInv, QuantityInv, NEW r \in Store!Requests, Store!Flush(r)
  PROVE  QuantityInv'
<1> DEFINE q == stockReq[r]
           new == [q EXCEPT !.pc = "flushed", !.rows = Store!Rows(r),
                     !.lost = {w \in Store!Rows(r) : q.snap[w] # stock[w]},
                     !.sum = IF Store!Totals(r) THEN Store!SumWith(r) ELSE q.total]
<1>1. /\ q.pc = "open" /\ stockReq' = [stockReq EXCEPT ![r] = new]
      /\ UNCHANGED <<stock, total, house, counted>>
  BY DEF Store!Flush
<1>2. IsStoreRequest(q) /\ Planned(q)
  BY <1>1 DEF StoreInv, StoreTypes, RequestsRecord, Busy
<1>3. /\ new.pc = "flushed" /\ new.snap = q.snap /\ new.plan = q.plan /\ new.total = q.total
      /\ new.sum = IF Store!Totals(r) THEN Store!SumWith(r) ELSE q.total
  BY <1>2 DEF IsStoreRequest
<1> HIDE DEF new
<1>4. Store!Totals(r) => Store!SumWith(r) \in Sums
  <2> SUFFICES ASSUME Store!Totals(r) PROVE Store!SumWith(r) \in Sums
    OBVIOUS
  <2> DEFINE held == [w \in Warehouses |-> IF w \in Store!Rows(r) THEN q.plan[w] ELSE Store!Held(w)]
  <2>1. Store!Rows(r) \subseteq q.rows
    BY DEF Store!Rows
  <2>2. \A w \in Store!Rows(r) : q.plan[w] # Store!NoRow
    BY <1>2, <2>1 DEF Planned, Store!Totals
  <2>3. held \in [Warehouses -> Nat]
    BY <1>2, <2>2, StockIsLevels DEF IsStoreRequest, Levels
  <2>4. AtMost(held, Opening + StockRequests)
    <3> SUFFICES ASSUME NEW w \in Warehouses PROVE held[w] <= Opening + StockRequests
      BY DEF AtMost
    <3>1. q.plan[w] <= Opening + r /\ stock[w] <= Opening + StockRequests
      BY DEF QuantityInv, AtMost
    <3>2. q.plan[w] \in Int /\ stock[w] \in Int
      BY <1>2, StockIsLevels DEF IsStoreRequest, Levels, Store!NoRow
    <3> QED BY <3>1, <3>2, StoreNumbers DEF Store!Held
  <2>5. Store!SumWith(r) = Store!SumFunction(held)
    BY DEF Store!SumWith
  <2> HIDE DEF held
  <2> QED BY <2>3, <2>4, <2>5, SumsAreSums
<1>5. /\ \A p \in 1 .. r - 1 : stockReq[p].pc # "idle"
      /\ AtMost(q.snap, Opening + StockRequests) /\ AtMost(q.plan, Opening + r)
      /\ q.total \in Sums
  BY <1>1 DEF QuantityInv, Busy
<1> QED BY <1>1, <1>3, <1>4, <1>5, QuantityRequestStep

LEMMA QuantityCommit ==
  ASSUME StoreInv, QuantityInv, NEW r \in Store!Requests, Store!Commit(r)
  PROVE  QuantityInv'
<1> DEFINE q == stockReq[r]
<1>1. /\ q.pc = "flushed"
      /\ stock' = [w \in Warehouses |-> IF w \in q.rows THEN q.plan[w] ELSE stock[w]]
      /\ total' = IF q.sum # q.total THEN q.sum ELSE total
      /\ counted' = IF q.op = "count" THEN counted \cup q.counts ELSE counted
      /\ house' = [w \in Warehouses |-> IF q.op = "delete" /\ w \in q.counts THEN "gone" ELSE house[w]]
  BY DEF Store!Commit
<1>2. IsStoreRequest(q) /\ AtMost(q.plan, Opening + r) /\ q.sum \in Sums
  BY <1>1 DEF StoreInv, StoreTypes, QuantityInv
<1>3. /\ stockReq'[r] = Store!Done
      /\ \A p \in Store!Requests \ {r} :
           stockReq'[p] = IF Busy(stockReq[p]) THEN [stockReq[p] EXCEPT !.met = TRUE] ELSE stockReq[p]
  BY DEF Store!Commit, Busy
<1>4. \A p \in Store!Requests \ {r} :
        /\ stockReq'[p].pc = stockReq[p].pc /\ stockReq'[p].snap = stockReq[p].snap
        /\ stockReq'[p].plan = stockReq[p].plan
        /\ stockReq[p].pc # "idle" /\ Busy(stockReq'[p]) => stockReq'[p].total = stockReq[p].total
        /\ stockReq'[p].pc = "flushed" => stockReq'[p].sum = stockReq[p].sum
  <2> SUFFICES ASSUME NEW p \in Store!Requests \ {r} PROVE <1>4!(p)
    OBVIOUS
  <2>1. IsStoreRequest(stockReq[p])
    BY DEF StoreInv, StoreTypes
  <2> QED BY <1>3, <2>1 DEF IsStoreRequest
<1>5. Sums' = Sums
  BY DEF Sums
<1>6. /\ house' \in [Warehouses -> {"active", "inactive", "gone"}] /\ counted' \subseteq Warehouses
      /\ total' \in Sums
  BY <1>1, <1>2 DEF QuantityInv, IsStoreRequest
\* Whoever has not begun comes after r, and after what r has read.
<1>7. \A n \in Nat : AtMost(stock, n) /\ Opening + r <= n => AtMost(stock', n)
  <2> SUFFICES ASSUME NEW n \in Nat, AtMost(stock, n), Opening + r <= n, NEW w \in Warehouses
               PROVE  stock'[w] <= n
    BY DEF AtMost
  <2>1. q.plan[w] \in Int /\ q.plan[w] <= Opening + r
    BY <1>2 DEF IsStoreRequest, Levels, Store!NoRow, AtMost
  <2> QED BY <1>1, <2>1, StoreNumbers DEF AtMost
<1>8. AtMost(stock', Opening + StockRequests)
  BY <1>7, StoreNumbers DEF QuantityInv
<1>9. \A p \in Store!Requests : stockReq'[p].pc = "idle" => AtMost(stock', Opening + p - 1)
  <2> SUFFICES ASSUME NEW p \in Store!Requests, stockReq'[p].pc = "idle"
               PROVE  AtMost(stock', Opening + p - 1)
    OBVIOUS
  <2>1. p # r /\ stockReq[p].pc = "idle"
    BY <1>3, <1>4, StoreFacts
  <2>2. p > r
    BY <1>1, <2>1, StoreNumbers DEF QuantityInv
  <2>3. AtMost(stock, Opening + p - 1)
    BY <2>1 DEF QuantityInv
  <2>4. Opening + p - 1 \in Nat /\ Opening + r <= Opening + p - 1
    BY <2>2, StoreNumbers
  <2> QED BY <1>7, <2>3, <2>4
<1>10. \A p \in Store!Requests : stockReq'[p].pc # "idle" => \A o \in 1 .. p - 1 : stockReq'[o].pc # "idle"
  <2> SUFFICES ASSUME NEW p \in Store!Requests, stockReq'[p].pc # "idle", NEW o \in 1 .. p - 1
               PROVE  stockReq'[o].pc # "idle"
    OBVIOUS
  <2>1. o \in Store!Requests
    BY StoreNumbers DEF Store!Requests
  <2>2. stockReq[p].pc # "idle"
    BY <1>1, <1>4
  <2>3. stockReq[o].pc # "idle"
    BY <2>2 DEF QuantityInv
  <2> QED BY <1>3, <1>4, <2>1, <2>3, StoreFacts
<1>11. \A p \in Store!Requests :
         /\ AtMost(stockReq'[p].snap, Opening + StockRequests) /\ AtMost(stockReq'[p].plan, Opening + p)
         /\ Busy(stockReq'[p]) => stockReq'[p].total \in Sums
         /\ stockReq'[p].pc = "flushed" => stockReq'[p].sum \in Sums
  <2> SUFFICES ASSUME NEW p \in Store!Requests PROVE <1>11!(p)
    OBVIOUS
  <2>1. CASE p = r
    <3>1. Opening + StockRequests \in Nat /\ Opening + r \in Nat
      BY StoreNumbers
    <3> QED BY <1>3, <2>1, <3>1, NothingIsLittle DEF Busy
  <2>2. CASE p # r
    BY <1>4, <2>2 DEF QuantityInv, Busy
  <2> QED BY <2>1, <2>2
<1> QED BY <1>5, <1>6, <1>8, <1>9, <1>10, <1>11 DEF QuantityInv, AtMost, Busy

LEMMA QuantityStep == StoreInv /\ QuantityInv /\ [Store!Next]_stockVars => QuantityInv'
<1> SUFFICES ASSUME StoreInv, QuantityInv, [Store!Next]_stockVars PROVE QuantityInv'
  OBVIOUS
<1>1. CASE UNCHANGED stockVars
  BY <1>1 DEF stockVars, QuantityInv, AtMost, Busy, Sums
<1>2. CASE Store!Next
  BY <1>2, QuantityOps, QuantityFlush, QuantityCommit, QuantityFail, QuantityToggle DEF Store!Next
<1> QED BY <1>1, <1>2

LEMMA StoreHasTypes == StoreInv /\ QuantityInv => Store!TypeOK
<1> SUFFICES ASSUME StoreInv, QuantityInv PROVE Store!TypeOK
  OBVIOUS
<1>1. ASSUME NEW f \in [Warehouses -> Levels], NEW n \in Nat, AtMost(f, n), n <= Opening + StockRequests
      PROVE  f \in [Warehouses -> Store!Quantities]
  BY <1>1, StoreNumbers DEF AtMost, Levels, Store!Quantities, Store!NoRow
<1>2. Opening + StockRequests \in Nat
  BY StoreNumbers
<1>3. stock \in [Warehouses -> Store!Quantities]
  BY <1>1, <1>2 DEF StoreInv, StoreTypes, QuantityInv
<1>4. ASSUME NEW r \in Store!Requests
      PROVE  /\ stockReq[r].pc \in {"idle", "open", "flushed", "done"}
             /\ stockReq[r].snap \in [Warehouses -> Store!Quantities]
             /\ stockReq[r].plan \in [Warehouses -> Store!Quantities]
             /\ stockReq[r].pc = "flushed" => stockReq[r].sum \in Sums
  <2>1. IsStoreRequest(stockReq[r])
    BY DEF StoreInv, StoreTypes
  <2>2. /\ AtMost(stockReq[r].snap, Opening + StockRequests) /\ AtMost(stockReq[r].plan, Opening + r)
        /\ stockReq[r].pc = "flushed" => stockReq[r].sum \in Sums
    BY DEF QuantityInv
  <2>3. Opening + r \in Nat /\ Opening + r <= Opening + StockRequests
    BY StoreNumbers
  <2> QED BY <1>1, <1>2, <2>1, <2>2, <2>3 DEF IsStoreRequest
<1>5. \A n \in Sums : Store!IsSum(n)
  BY DEF Sums, Store!IsSum
<1> QED BY <1>3, <1>4, <1>5 DEF StoreInv, StoreTypes, QuantityInv, Store!TypeOK

\* What a request that met no other wrote is the sum of what it leaves.
LEMMA TotalIsLeft ==
  ASSUME StoreInv
  PROVE  Store!TotalStep
<1> SUFFICES ASSUME NEW r \in Store!Requests, Store!Commit(r), Store!Totals(r), ~ stockReq[r].met
             PROVE  total' = Store!SumFunction(
                      [w \in Warehouses |-> IF stock'[w] = Store!NoRow THEN 0 ELSE stock'[w]])
  BY DEF Store!TotalStep
<1> DEFINE q == stockReq[r]
<1>1. /\ q.pc = "flushed"
      /\ stock' = [x \in Warehouses |-> IF x \in q.rows THEN q.plan[x] ELSE stock[x]]
      /\ total' = IF q.sum # q.total THEN q.sum ELSE total
  BY DEF Store!Commit
<1>2. q.total = total /\ q.sum = TotalOf(stock, q.rows, q.plan)
  BY <1>1 DEF StoreInv, TotalsAreFresh, Busy
<1>3. \A w \in q.rows : q.plan[w] # Store!NoRow
  BY <1>1 DEF StoreInv, RequestsRecord, Busy, Planned, Store!Totals
<1>4. [w \in Warehouses |-> IF w \in q.rows THEN q.plan[w] ELSE Units(stock[w])]
        = [w \in Warehouses |-> IF stock'[w] = Store!NoRow THEN 0 ELSE stock'[w]]
  BY <1>1, <1>3 DEF Units
<1>5. total' = q.sum
  BY <1>1, <1>2
<1> QED BY <1>2, <1>4, <1>5 DEF TotalOf

-----------------------------------------------------------------------------
(* The salaries: what is proved of Payroll holds of its instance here,         *)
(* definition for definition.                                                  *)

SalariesP == INSTANCE PayrollProofs WITH
  Employees <- Payees, NumRequests <- PayRequests, req <- payReq, stale <- payStale

LEMMA SameSalaries ==
  /\ Salaries!Init = SalariesP!Init
  /\ Salaries!PaidIsInTheLedger = SalariesP!PaidIsInTheLedger
  /\ Salaries!PostingStep = SalariesP!PostingStep
  /\ Salaries!LockedNetStep = SalariesP!LockedNetStep
BY DEF Salaries!Init, SalariesP!Init,
       Salaries!PaidIsInTheLedger, SalariesP!PaidIsInTheLedger,
       Salaries!PostingStep, SalariesP!PostingStep, Salaries!LockedNetStep, SalariesP!LockedNetStep,
       Salaries!Cardinality, SalariesP!Cardinality, Salaries!NoRecord, SalariesP!NoRecord,
       Salaries!None, SalariesP!None, Salaries!Idle, SalariesP!Idle, Salaries!Locked, SalariesP!Locked,
       Salaries!Requests, SalariesP!Requests, Salaries!Expenses, SalariesP!Expenses

LEMMA SameSalaryTypes == Salaries!TypeOK = SalariesP!TypeOK
BY DEF Salaries!TypeOK, SalariesP!TypeOK, Salaries!Record, SalariesP!Record, Salaries!Expenses, SalariesP!Expenses, Salaries!Request, SalariesP!Request, Salaries!Requests, SalariesP!Requests, Salaries!None, SalariesP!None,
       Salaries!Statuses, SalariesP!Statuses, Salaries!Items, SalariesP!Items

LEMMA SameSalarySteps == Salaries!Next = SalariesP!Next
BY DEF
      Salaries!Cardinality, SalariesP!Cardinality, Salaries!Next, SalariesP!Next,
      Salaries!Requests, SalariesP!Requests, Salaries!None, SalariesP!None, Salaries!Expenses,
      SalariesP!Expenses, Salaries!NoRecord, SalariesP!NoRecord, Salaries!Locked,
      SalariesP!Locked, Salaries!Idle, SalariesP!Idle, Salaries!Done, SalariesP!Done,
      Salaries!Recomputed, SalariesP!Recomputed, Salaries!Rebuilt, SalariesP!Rebuilt,
      Salaries!Generated, SalariesP!Generated, Salaries!Posted, SalariesP!Posted,
      Salaries!Unposted, SalariesP!Unposted, Salaries!Arrives, SalariesP!Arrives,
      Salaries!Begin, SalariesP!Begin, Salaries!With, SalariesP!With, Salaries!GeneratePayroll,
      SalariesP!GeneratePayroll, Salaries!Editable, SalariesP!Editable, Salaries!AddItem,
      SalariesP!AddItem, Salaries!DeleteItem, SalariesP!DeleteItem, Salaries!Recalculate,
      SalariesP!Recalculate, Salaries!ApproveThese, SalariesP!ApproveThese, Salaries!Approve,
      SalariesP!Approve, Salaries!ApproveAll, SalariesP!ApproveAll, Salaries!Cancel,
      SalariesP!Cancel, Salaries!DeleteRecord, SalariesP!DeleteRecord, Salaries!MarkPaid,
      SalariesP!MarkPaid, Salaries!PayAll, SalariesP!PayAll, Salaries!PayNext,
      SalariesP!PayNext, Salaries!Unpay, SalariesP!Unpay, Salaries!UnpostSalaryExpense,
      SalariesP!UnpostSalaryExpense, Salaries!Touched, SalariesP!Touched, Salaries!Collides,
      SalariesP!Collides, Salaries!Set, SalariesP!Set, Salaries!Written, SalariesP!Written,
      Salaries!Created, SalariesP!Created, Salaries!After, SalariesP!After, Salaries!Commit,
      SalariesP!Commit, Salaries!Fail, SalariesP!Fail

-----------------------------------------------------------------------------
(* The three schools. SchoolDayProofs is about any school; the instances of    *)
(* SchoolDay that it extends are the ones of BackOffice, definition for        *)
(* definition.                                                                 *)

BatchP == INSTANCE SchoolDayProofs WITH
  Pupils <- BatchPupils, Employees <- BatchEmployees, Leaves <- BatchLeaves,
  NumRequests <- BatchRequests, ShiftPupils <- BatchShiftPupils,
  Owners <- BatchOwners, MaxFaults <- BatchFaults, req <- dayReq

LEMMA BatchIsASchool == BatchP!DayAssumption
BY BatchAssumption DEF BatchP!DayAssumption, BatchP!People, BatchP!IsFiniteSet, IsFiniteSet

LEMMA SameBatch ==
  /\ Batch!Init = BatchP!Init
  /\ Batch!CheckInStep = BatchP!CheckInStep /\ Batch!FinalAbsenceStep = BatchP!FinalAbsenceStep
  /\ Batch!LeaveDaysAreBacked = BatchP!LeaveDaysAreBacked
  /\ Batch!LoneLeaveIsHonoured = BatchP!LoneLeaveIsHonoured
BY DEF
       Batch!Init, BatchP!Init, Batch!CheckInStep, BatchP!CheckInStep, Batch!FinalAbsenceStep,
       BatchP!FinalAbsenceStep, Batch!LeaveDaysAreBacked, BatchP!LeaveDaysAreBacked,
       Batch!LoneLeaveIsHonoured, BatchP!LoneLeaveIsHonoured, Batch!Cardinality,
       BatchP!Cardinality, Batch!Honoured, BatchP!Honoured, Batch!Excused, BatchP!Excused,
       Batch!Syncing, BatchP!Syncing, Batch!Covers, BatchP!Covers, Batch!OnLeave, BatchP!OnLeave,
       Batch!IsFinal, BatchP!IsFinal, Batch!CheckedIn, BatchP!CheckedIn, Batch!StaleAbout,
       BatchP!StaleAbout, Batch!People, BatchP!People, Batch!Requests, BatchP!Requests,
       Batch!Actors, BatchP!Actors, Batch!Scheduler, BatchP!Scheduler, Batch!Idle, BatchP!Idle,
       Batch!NoRow, BatchP!NoRow, Batch!New, BatchP!New

LEMMA SameBatchTypes == Batch!TypeOK = BatchP!TypeOK
BY DEF
       Batch!TypeOK, BatchP!TypeOK, Batch!Row, BatchP!Row, Batch!Ids, BatchP!Ids, Batch!Sources,
       BatchP!Sources, Batch!Statuses, BatchP!Statuses, Batch!Clock, BatchP!Clock, Batch!Cutoff,
       BatchP!Cutoff, Batch!Departure, BatchP!Departure, Batch!NextDay, BatchP!NextDay,
       Batch!People, BatchP!People, Batch!Requests, BatchP!Requests, Batch!Actors, BatchP!Actors,
       Batch!Scheduler, BatchP!Scheduler

LEMMA SameBatchSteps == Batch!Next = BatchP!Next
BY DEF
       Batch!People, BatchP!People, Batch!Requests, BatchP!Requests, Batch!Scheduler,
       BatchP!Scheduler, Batch!Actors, BatchP!Actors, Batch!Cutoff, BatchP!Cutoff, Batch!Departure,
       BatchP!Departure, Batch!NextDay, BatchP!NextDay, Batch!Clock, BatchP!Clock, Batch!Ids,
       BatchP!Ids, Batch!Sources, BatchP!Sources, Batch!Row, BatchP!Row, Batch!NoRow, BatchP!NoRow,
       Batch!New, BatchP!New, Batch!OnLeave, BatchP!OnLeave, Batch!IsFinal, BatchP!IsFinal,
       Batch!Statuses, BatchP!Statuses, Batch!Covers, BatchP!Covers, Batch!Idle, BatchP!Idle,
       Batch!Done, BatchP!Done, Batch!Punched, BatchP!Punched, Batch!Recorded, BatchP!Recorded,
       Batch!Synced, BatchP!Synced, Batch!MarkedAbsent, BatchP!MarkedAbsent, Batch!Cleaned,
       BatchP!Cleaned, Batch!Marks, BatchP!Marks, Batch!Marked, BatchP!Marked, Batch!FacePunched,
       BatchP!FacePunched, Batch!Locked, BatchP!Locked, Batch!Saved, BatchP!Saved,
       Batch!Convertible, BatchP!Convertible, Batch!Applied, BatchP!Applied, Batch!Revoked,
       BatchP!Revoked, Batch!Touched, BatchP!Touched, Batch!Plan, BatchP!Plan, Batch!Arrives,
       BatchP!Arrives, Batch!Begin, BatchP!Begin, Batch!AiFacePunch, BatchP!AiFacePunch,
       Batch!StudentScan, BatchP!StudentScan, Batch!RecordAttendance, BatchP!RecordAttendance,
       Batch!HardwareSync, BatchP!HardwareSync, Batch!Take, BatchP!Take, Batch!EmployeePunch,
       BatchP!EmployeePunch, Batch!ManualAttendanceSave, BatchP!ManualAttendanceSave,
       Batch!CleanupHolidayAbsences, BatchP!CleanupHolidayAbsences, Batch!Missing, BatchP!Missing,
       Batch!Run, BatchP!Run, Batch!RunAutoAbsent, BatchP!RunAutoAbsent,
       Batch!RunAutoAbsentForShift, BatchP!RunAutoAbsentForShift, Batch!RunAutoAbsentShiftless,
       BatchP!RunAutoAbsentShiftless, Batch!RunEmployeeAutoAbsent, BatchP!RunEmployeeAutoAbsent,
       Batch!MarkAbsentToday, BatchP!MarkAbsentToday, Batch!Syncing, BatchP!Syncing,
       Batch!StartSync, BatchP!StartSync, Batch!DecideLeave, BatchP!DecideLeave, Batch!CreateLeave,
       BatchP!CreateLeave, Batch!EditDates, BatchP!EditDates, Batch!Backfill, BatchP!Backfill,
       Batch!Days, BatchP!Days, Batch!NoDays, BatchP!NoDays, Batch!SyncLeave, BatchP!SyncLeave,
       Batch!ResyncLeaveDates, BatchP!ResyncLeaveDates, Batch!FreshId, BatchP!FreshId,
       Batch!Written, BatchP!Written, Batch!Conflicts, BatchP!Conflicts, Batch!Over, BatchP!Over,
       Batch!StaffRun, BatchP!StaffRun, Batch!Collides, BatchP!Collides, Batch!Torn, BatchP!Torn,
       Batch!Commit, BatchP!Commit, Batch!Abandon, BatchP!Abandon, Batch!Collide, BatchP!Collide,
       Batch!Fail, BatchP!Fail, Batch!Tick, BatchP!Tick, Batch!DeclareHoliday,
       BatchP!DeclareHoliday, Batch!Sweep, BatchP!Sweep, Batch!Scan, BatchP!Scan, Batch!Decide,
       BatchP!Decide, Batch!Next, BatchP!Next,
       Batch!ReadLeave, BatchP!ReadLeave, Batch!CommitDecision, BatchP!CommitDecision,
       Batch!CommitDates, BatchP!CommitDates

PupilP == INSTANCE SchoolDayProofs WITH
  Pupils <- PupilPupils, Employees <- PupilEmployees, Leaves <- PupilLeaves,
  NumRequests <- PupilRequests, ShiftPupils <- PupilShiftPupils,
  Owners <- PupilOwners, MaxFaults <- PupilFaults, req <- dayReq

LEMMA PupilIsASchool == PupilP!DayAssumption
BY PupilAssumption DEF PupilP!DayAssumption, PupilP!People, PupilP!IsFiniteSet, IsFiniteSet

LEMMA SamePupil ==
  /\ Pupil!Init = PupilP!Init
  /\ Pupil!CheckInStep = PupilP!CheckInStep /\ Pupil!FinalAbsenceStep = PupilP!FinalAbsenceStep
  /\ Pupil!LeaveDaysAreBacked = PupilP!LeaveDaysAreBacked
  /\ Pupil!LoneLeaveIsHonoured = PupilP!LoneLeaveIsHonoured
BY DEF
       Pupil!Init, PupilP!Init, Pupil!CheckInStep, PupilP!CheckInStep, Pupil!FinalAbsenceStep,
       PupilP!FinalAbsenceStep, Pupil!LeaveDaysAreBacked, PupilP!LeaveDaysAreBacked,
       Pupil!LoneLeaveIsHonoured, PupilP!LoneLeaveIsHonoured, Pupil!Cardinality,
       PupilP!Cardinality, Pupil!Honoured, PupilP!Honoured, Pupil!Excused, PupilP!Excused,
       Pupil!Syncing, PupilP!Syncing, Pupil!Covers, PupilP!Covers, Pupil!OnLeave, PupilP!OnLeave,
       Pupil!IsFinal, PupilP!IsFinal, Pupil!CheckedIn, PupilP!CheckedIn, Pupil!StaleAbout,
       PupilP!StaleAbout, Pupil!People, PupilP!People, Pupil!Requests, PupilP!Requests,
       Pupil!Actors, PupilP!Actors, Pupil!Scheduler, PupilP!Scheduler, Pupil!Idle, PupilP!Idle,
       Pupil!NoRow, PupilP!NoRow, Pupil!New, PupilP!New

LEMMA SamePupilTypes == Pupil!TypeOK = PupilP!TypeOK
BY DEF
       Pupil!TypeOK, PupilP!TypeOK, Pupil!Row, PupilP!Row, Pupil!Ids, PupilP!Ids, Pupil!Sources,
       PupilP!Sources, Pupil!Statuses, PupilP!Statuses, Pupil!Clock, PupilP!Clock, Pupil!Cutoff,
       PupilP!Cutoff, Pupil!Departure, PupilP!Departure, Pupil!NextDay, PupilP!NextDay,
       Pupil!People, PupilP!People, Pupil!Requests, PupilP!Requests, Pupil!Actors, PupilP!Actors,
       Pupil!Scheduler, PupilP!Scheduler

LEMMA SamePupilSteps == Pupil!Next = PupilP!Next
BY DEF
       Pupil!People, PupilP!People, Pupil!Requests, PupilP!Requests, Pupil!Scheduler,
       PupilP!Scheduler, Pupil!Actors, PupilP!Actors, Pupil!Cutoff, PupilP!Cutoff, Pupil!Departure,
       PupilP!Departure, Pupil!NextDay, PupilP!NextDay, Pupil!Clock, PupilP!Clock, Pupil!Ids,
       PupilP!Ids, Pupil!Sources, PupilP!Sources, Pupil!Row, PupilP!Row, Pupil!NoRow, PupilP!NoRow,
       Pupil!New, PupilP!New, Pupil!OnLeave, PupilP!OnLeave, Pupil!IsFinal, PupilP!IsFinal,
       Pupil!Statuses, PupilP!Statuses, Pupil!Covers, PupilP!Covers, Pupil!Idle, PupilP!Idle,
       Pupil!Done, PupilP!Done, Pupil!Punched, PupilP!Punched, Pupil!Recorded, PupilP!Recorded,
       Pupil!Synced, PupilP!Synced, Pupil!MarkedAbsent, PupilP!MarkedAbsent, Pupil!Cleaned,
       PupilP!Cleaned, Pupil!Marks, PupilP!Marks, Pupil!Marked, PupilP!Marked, Pupil!FacePunched,
       PupilP!FacePunched, Pupil!Locked, PupilP!Locked, Pupil!Saved, PupilP!Saved,
       Pupil!Convertible, PupilP!Convertible, Pupil!Applied, PupilP!Applied, Pupil!Revoked,
       PupilP!Revoked, Pupil!Touched, PupilP!Touched, Pupil!Plan, PupilP!Plan, Pupil!Arrives,
       PupilP!Arrives, Pupil!Begin, PupilP!Begin, Pupil!AiFacePunch, PupilP!AiFacePunch,
       Pupil!StudentScan, PupilP!StudentScan, Pupil!RecordAttendance, PupilP!RecordAttendance,
       Pupil!HardwareSync, PupilP!HardwareSync, Pupil!Take, PupilP!Take, Pupil!EmployeePunch,
       PupilP!EmployeePunch, Pupil!ManualAttendanceSave, PupilP!ManualAttendanceSave,
       Pupil!CleanupHolidayAbsences, PupilP!CleanupHolidayAbsences, Pupil!Missing, PupilP!Missing,
       Pupil!Run, PupilP!Run, Pupil!RunAutoAbsent, PupilP!RunAutoAbsent,
       Pupil!RunAutoAbsentForShift, PupilP!RunAutoAbsentForShift, Pupil!RunAutoAbsentShiftless,
       PupilP!RunAutoAbsentShiftless, Pupil!RunEmployeeAutoAbsent, PupilP!RunEmployeeAutoAbsent,
       Pupil!MarkAbsentToday, PupilP!MarkAbsentToday, Pupil!Syncing, PupilP!Syncing,
       Pupil!StartSync, PupilP!StartSync, Pupil!DecideLeave, PupilP!DecideLeave, Pupil!CreateLeave,
       PupilP!CreateLeave, Pupil!EditDates, PupilP!EditDates, Pupil!Backfill, PupilP!Backfill,
       Pupil!Days, PupilP!Days, Pupil!NoDays, PupilP!NoDays, Pupil!SyncLeave, PupilP!SyncLeave,
       Pupil!ResyncLeaveDates, PupilP!ResyncLeaveDates, Pupil!FreshId, PupilP!FreshId,
       Pupil!Written, PupilP!Written, Pupil!Conflicts, PupilP!Conflicts, Pupil!Over, PupilP!Over,
       Pupil!StaffRun, PupilP!StaffRun, Pupil!Collides, PupilP!Collides, Pupil!Torn, PupilP!Torn,
       Pupil!Commit, PupilP!Commit, Pupil!Abandon, PupilP!Abandon, Pupil!Collide, PupilP!Collide,
       Pupil!Fail, PupilP!Fail, Pupil!Tick, PupilP!Tick, Pupil!DeclareHoliday,
       PupilP!DeclareHoliday, Pupil!Sweep, PupilP!Sweep, Pupil!Scan, PupilP!Scan, Pupil!Decide,
       PupilP!Decide, Pupil!Next, PupilP!Next,
       Pupil!ReadLeave, PupilP!ReadLeave, Pupil!CommitDecision, PupilP!CommitDecision,
       Pupil!CommitDates, PupilP!CommitDates

StaffP == INSTANCE SchoolDayProofs WITH
  Pupils <- StaffPupils, Employees <- StaffEmployees, Leaves <- StaffLeaves,
  NumRequests <- StaffRequests, ShiftPupils <- StaffShiftPupils,
  Owners <- StaffOwners, MaxFaults <- StaffFaults, req <- dayReq

LEMMA StaffIsASchool == StaffP!DayAssumption
BY StaffAssumption DEF StaffP!DayAssumption, StaffP!People, StaffP!IsFiniteSet, IsFiniteSet

LEMMA SameStaff ==
  /\ Staff!Init = StaffP!Init
  /\ Staff!CheckInStep = StaffP!CheckInStep /\ Staff!FinalAbsenceStep = StaffP!FinalAbsenceStep
  /\ Staff!LeaveDaysAreBacked = StaffP!LeaveDaysAreBacked
  /\ Staff!LoneLeaveIsHonoured = StaffP!LoneLeaveIsHonoured
BY DEF
       Staff!Init, StaffP!Init, Staff!CheckInStep, StaffP!CheckInStep, Staff!FinalAbsenceStep,
       StaffP!FinalAbsenceStep, Staff!LeaveDaysAreBacked, StaffP!LeaveDaysAreBacked,
       Staff!LoneLeaveIsHonoured, StaffP!LoneLeaveIsHonoured, Staff!Cardinality,
       StaffP!Cardinality, Staff!Honoured, StaffP!Honoured, Staff!Excused, StaffP!Excused,
       Staff!Syncing, StaffP!Syncing, Staff!Covers, StaffP!Covers, Staff!OnLeave, StaffP!OnLeave,
       Staff!IsFinal, StaffP!IsFinal, Staff!CheckedIn, StaffP!CheckedIn, Staff!StaleAbout,
       StaffP!StaleAbout, Staff!People, StaffP!People, Staff!Requests, StaffP!Requests,
       Staff!Actors, StaffP!Actors, Staff!Scheduler, StaffP!Scheduler, Staff!Idle, StaffP!Idle,
       Staff!NoRow, StaffP!NoRow, Staff!New, StaffP!New

LEMMA SameStaffTypes == Staff!TypeOK = StaffP!TypeOK
BY DEF
       Staff!TypeOK, StaffP!TypeOK, Staff!Row, StaffP!Row, Staff!Ids, StaffP!Ids, Staff!Sources,
       StaffP!Sources, Staff!Statuses, StaffP!Statuses, Staff!Clock, StaffP!Clock, Staff!Cutoff,
       StaffP!Cutoff, Staff!Departure, StaffP!Departure, Staff!NextDay, StaffP!NextDay,
       Staff!People, StaffP!People, Staff!Requests, StaffP!Requests, Staff!Actors, StaffP!Actors,
       Staff!Scheduler, StaffP!Scheduler

LEMMA SameStaffSteps == Staff!Next = StaffP!Next
BY DEF
       Staff!People, StaffP!People, Staff!Requests, StaffP!Requests, Staff!Scheduler,
       StaffP!Scheduler, Staff!Actors, StaffP!Actors, Staff!Cutoff, StaffP!Cutoff, Staff!Departure,
       StaffP!Departure, Staff!NextDay, StaffP!NextDay, Staff!Clock, StaffP!Clock, Staff!Ids,
       StaffP!Ids, Staff!Sources, StaffP!Sources, Staff!Row, StaffP!Row, Staff!NoRow, StaffP!NoRow,
       Staff!New, StaffP!New, Staff!OnLeave, StaffP!OnLeave, Staff!IsFinal, StaffP!IsFinal,
       Staff!Statuses, StaffP!Statuses, Staff!Covers, StaffP!Covers, Staff!Idle, StaffP!Idle,
       Staff!Done, StaffP!Done, Staff!Punched, StaffP!Punched, Staff!Recorded, StaffP!Recorded,
       Staff!Synced, StaffP!Synced, Staff!MarkedAbsent, StaffP!MarkedAbsent, Staff!Cleaned,
       StaffP!Cleaned, Staff!Marks, StaffP!Marks, Staff!Marked, StaffP!Marked, Staff!FacePunched,
       StaffP!FacePunched, Staff!Locked, StaffP!Locked, Staff!Saved, StaffP!Saved,
       Staff!Convertible, StaffP!Convertible, Staff!Applied, StaffP!Applied, Staff!Revoked,
       StaffP!Revoked, Staff!Touched, StaffP!Touched, Staff!Plan, StaffP!Plan, Staff!Arrives,
       StaffP!Arrives, Staff!Begin, StaffP!Begin, Staff!AiFacePunch, StaffP!AiFacePunch,
       Staff!StudentScan, StaffP!StudentScan, Staff!RecordAttendance, StaffP!RecordAttendance,
       Staff!HardwareSync, StaffP!HardwareSync, Staff!Take, StaffP!Take, Staff!EmployeePunch,
       StaffP!EmployeePunch, Staff!ManualAttendanceSave, StaffP!ManualAttendanceSave,
       Staff!CleanupHolidayAbsences, StaffP!CleanupHolidayAbsences, Staff!Missing, StaffP!Missing,
       Staff!Run, StaffP!Run, Staff!RunAutoAbsent, StaffP!RunAutoAbsent,
       Staff!RunAutoAbsentForShift, StaffP!RunAutoAbsentForShift, Staff!RunAutoAbsentShiftless,
       StaffP!RunAutoAbsentShiftless, Staff!RunEmployeeAutoAbsent, StaffP!RunEmployeeAutoAbsent,
       Staff!MarkAbsentToday, StaffP!MarkAbsentToday, Staff!Syncing, StaffP!Syncing,
       Staff!StartSync, StaffP!StartSync, Staff!DecideLeave, StaffP!DecideLeave, Staff!CreateLeave,
       StaffP!CreateLeave, Staff!EditDates, StaffP!EditDates, Staff!Backfill, StaffP!Backfill,
       Staff!Days, StaffP!Days, Staff!NoDays, StaffP!NoDays, Staff!SyncLeave, StaffP!SyncLeave,
       Staff!ResyncLeaveDates, StaffP!ResyncLeaveDates, Staff!FreshId, StaffP!FreshId,
       Staff!Written, StaffP!Written, Staff!Conflicts, StaffP!Conflicts, Staff!Over, StaffP!Over,
       Staff!StaffRun, StaffP!StaffRun, Staff!Collides, StaffP!Collides, Staff!Torn, StaffP!Torn,
       Staff!Commit, StaffP!Commit, Staff!Abandon, StaffP!Abandon, Staff!Collide, StaffP!Collide,
       Staff!Fail, StaffP!Fail, Staff!Tick, StaffP!Tick, Staff!DeclareHoliday,
       StaffP!DeclareHoliday, Staff!Sweep, StaffP!Sweep, Staff!Scan, StaffP!Scan, Staff!Decide,
       StaffP!Decide, Staff!Next, StaffP!Next,
       Staff!ReadLeave, StaffP!ReadLeave, Staff!CommitDecision, StaffP!CommitDecision,
       Staff!CommitDates, StaffP!CommitDates

-----------------------------------------------------------------------------
(* The composition: one component runs, the others do not.                    *)

LEMMA OneRuns ==
  [Next]_vars =>
    /\ scenario' = scenario
    /\ scenario = "badge" => [Badge!Next]_badgeVars
    /\ scenario = "salaries" => [Salaries!Next]_payVars
    /\ scenario = "store" => [Store!Next]_stockVars
    /\ scenario = "class" => [Class!Next]_lessonVars
    /\ scenario = "batch" => [Batch!Next]_dayVars
    /\ scenario = "pupil" => [Pupil!Next]_dayVars
    /\ scenario = "staff" => [Staff!Next]_dayVars
    /\ \A b \in Buses : scenario = b => [Bus(b)!Next]_busVars
BY DEF Next, vars, Buses

\* A day's step, as its proofs know it.
LEMMA BatchSteps == [Next]_vars /\ scenario = "batch" => [BatchP!Next]_(BatchP!vars)
BY OneRuns, SameBatchSteps DEF dayVars, BatchP!vars

LEMMA PupilSteps == [Next]_vars /\ scenario = "pupil" => [PupilP!Next]_(PupilP!vars)
BY OneRuns, SamePupilSteps DEF dayVars, PupilP!vars

LEMMA StaffSteps == [Next]_vars /\ scenario = "staff" => [StaffP!Next]_(StaffP!vars)
BY OneRuns, SameStaffSteps DEF dayVars, StaffP!vars

OfficeInv ==
  /\ scenario = "badge" => BadgeInv
  /\ scenario = "salaries" => SalariesP!IInv
  /\ scenario = "class" => LessonInv
  /\ scenario = "batch" => BatchP!DayInv
  /\ scenario = "pupil" => PupilP!DayInv
  /\ scenario = "staff" => StaffP!DayInv
  /\ scenario = "store" => StoreInv /\ QuantityInv
  /\ \A b \in Buses : scenario = b => BusInv(b)

LEMMA InitOffice == Init => OfficeInv
<1> SUFFICES ASSUME Init PROVE OfficeInv
  OBVIOUS
<1>1. scenario = "badge" => BadgeInv
  BY InitBadgeInv DEF Init, InitBadge
<1>2. scenario = "salaries" => SalariesP!IInv
  BY SalariesP!InitInv, SameSalaries, PayAssumption DEF Init, InitSalaries
<1>3. scenario = "class" => LessonInv
  BY InitLessonInv DEF Init, InitClass
<1>4. ASSUME NEW b \in Buses, scenario = b PROVE BusInv(b)
  BY <1>4, InitBusInv DEF Init, InitBus
<1>5. scenario = "store" => StoreInv /\ QuantityInv
  BY InitStoreInv, InitQuantities DEF Init, InitStore
<1>6. scenario = "batch" => BatchP!DayInv
  BY BatchP!InitDayInv, BatchIsASchool, SameBatch DEF Init, InitDay
<1>7. scenario = "pupil" => PupilP!DayInv
  BY PupilP!InitDayInv, PupilIsASchool, SamePupil DEF Init, InitDay
<1>8. scenario = "staff" => StaffP!DayInv
  BY StaffP!InitDayInv, StaffIsASchool, SameStaff DEF Init, InitDay
<1> QED BY <1>1, <1>2, <1>3, <1>4, <1>5, <1>6, <1>7, <1>8 DEF OfficeInv

LEMMA NextOffice == OfficeInv /\ [Next]_vars => OfficeInv'
<1> SUFFICES ASSUME OfficeInv, [Next]_vars PROVE OfficeInv'
  OBVIOUS
<1>1. scenario = "badge" => BadgeInv'
  BY BadgeStep, OneRuns DEF OfficeInv
<1>2. scenario = "salaries" => SalariesP!IInv'
  <2>1. scenario = "salaries" => [SalariesP!Next]_(SalariesP!vars)
    BY OneRuns, SameSalarySteps DEF payVars, SalariesP!vars
  <2> QED BY <2>1, SalariesP!NextInv, PayAssumption DEF OfficeInv
<1>3. scenario = "class" => LessonInv'
  BY LessonStep, OneRuns DEF OfficeInv
<1>4. ASSUME NEW b \in Buses, scenario = b PROVE BusInv(b)'
  BY <1>4, BusStep, OneRuns DEF OfficeInv
<1>5. scenario = "store" => StoreInv' /\ QuantityInv'
  BY StoreStep, QuantityStep, OneRuns DEF OfficeInv
<1>6. scenario = "batch" => BatchP!DayInv'
  BY BatchSteps, BatchP!NextDayInv, BatchIsASchool DEF OfficeInv
<1>7. scenario = "pupil" => PupilP!DayInv'
  BY PupilSteps, PupilP!NextDayInv, PupilIsASchool DEF OfficeInv
<1>8. scenario = "staff" => StaffP!DayInv'
  BY StaffSteps, StaffP!NextDayInv, StaffIsASchool DEF OfficeInv
<1> QED BY <1>1, <1>2, <1>3, <1>4, <1>5, <1>6, <1>7, <1>8, OneRuns DEF OfficeInv

LEMMA OfficeInvariance == Spec => []OfficeInv
BY InitOffice, NextOffice, PTL DEF Spec

\* Every component keeps its types, for any sets of people, wares, workers and vehicles: no
\* stock falls below nothing, no cached count or time leaves its range, and every request
\* holds rows and plans of the kind it may write.
THEOREM TypeCorrect == Spec => []TypeOK
<1>1. OfficeInv => TypeOK
  <2> SUFFICES ASSUME OfficeInv PROVE TypeOK
    OBVIOUS
  <2>1. scenario = "batch" => Batch!TypeOK
    BY BatchP!DayTypes, BatchIsASchool, SameBatchTypes DEF OfficeInv
  <2>2. scenario = "pupil" => Pupil!TypeOK
    BY PupilP!DayTypes, PupilIsASchool, SamePupilTypes DEF OfficeInv
  <2>3. scenario = "staff" => Staff!TypeOK
    BY StaffP!DayTypes, StaffIsASchool, SameStaffTypes DEF OfficeInv
  <2>4. scenario = "salaries" => Salaries!TypeOK
    BY SameSalaryTypes DEF OfficeInv, SalariesP!IInv
  <2>5. scenario = "store" => Store!TypeOK
    BY StoreHasTypes DEF OfficeInv
  <2>6. (scenario = "badge" => Badge!TypeOK) /\ (scenario = "class" => Class!TypeOK)
    BY DEF OfficeInv, BadgeInv, LessonInv
  <2>7. \A b \in Buses : scenario = b => Bus(b)!TypeOK
    BY DEF OfficeInv, BusInv, BusTypes
  <2> QED BY <2>1, <2>2, <2>3, <2>4, <2>5, <2>6, <2>7 DEF TypeOK
<1> QED BY OfficeInvariance, <1>1, PTL

\* Whatever loads, invalidations and expiries overlap in however many processes, a badge
\* that the cache serves was the right one less than TTL ago (BadgeCache).
THEOREM BadgesAreFresh == Spec => []LagIsBounded
<1>1. OfficeInv => LagIsBounded
  BY BadgesLagLittle DEF OfficeInv, LagIsBounded
<1> QED BY OfficeInvariance, <1>1, PTL

\* Unless requests overlapped on the record, the expense that a paid salary links to is in the
\* ledger over the total of its items, and one that is not paid links to none; the ledger may
\* have other expenses (services/payroll).
THEOREM PaidIsPosted == Spec => []PaidIsInTheLedger
<1>1. OfficeInv => PaidIsInTheLedger
  BY SameSalaries DEF OfficeInv, PaidIsInTheLedger, SalariesP!IInv
<1> QED BY OfficeInvariance, <1>1, PTL

\* Who reads a salary after its payment, or its approval, was committed posts no second expense
\* and changes no total, pay-all included, which reads the records one by one; an expense is
\* posted by the transaction that pays the salary and links to it. Requests that read it before
\* are not excluded, and do post two (post_salary_expense, is_locked).
THEOREM NoLateChange == Spec => SettledIsLeftAlone
<1>1. OfficeInv /\ [Next]_vars =>
        [scenario = "salaries" => Salaries!PostingStep /\ Salaries!LockedNetStep]_vars
  <2> SUFFICES ASSUME OfficeInv, [Next]_vars, scenario = "salaries"
               PROVE  Salaries!PostingStep /\ Salaries!LockedNetStep
    OBVIOUS
  <2>1. [SalariesP!Next]_(SalariesP!vars)
    BY OneRuns, SameSalarySteps DEF payVars, SalariesP!vars
  <2>2. SalariesP!PostingStep /\ SalariesP!LockedNetStep
    BY <2>1, SalariesP!PostingInv, SalariesP!LockedInv, PayAssumption DEF OfficeInv
  <2> QED BY <2>2, SameSalaries
<1>2. Spec => [][Next]_vars
  BY PTL DEF Spec
<1> QED BY OfficeInvariance, <1>1, <1>2, PTL DEF SettledIsLeftAlone

\* Parents were last told what is recorded, and the rows of a session are of the teacher
\* it was opened with, however requests and the office's changes overlap (submit_attendance,
\* submit_instructor_attendance).
THEOREM LessonsAreTold == Spec => []LessonIsTold
<1>1. OfficeInv => LessonIsTold
  BY DEF OfficeInv, LessonIsTold, LessonInv
<1> QED BY OfficeInvariance, <1>1, PTL

\* A submission of what is recorded tells nobody, but for one that had read an older record.
THEOREM NoIdleNews == Spec => RetriesAreSilent
<1>1. OfficeInv /\ [Next]_vars => [scenario = "class" => Class!RepeatStep]_vars
  <2> SUFFICES ASSUME OfficeInv, [Next]_vars, scenario = "class"
               PROVE  Class!RepeatStep
    OBVIOUS
  <2>1. [Class!RepeatStep]_lessonVars
    BY OneRuns, LessonRepeats DEF OfficeInv
  <2>2. UNCHANGED lessonVars => Class!RepeatStep
    BY DEF lessonVars, Class!RepeatStep
  <2> QED BY <2>1, <2>2
<1>2. Spec => [][Next]_vars
  BY PTL DEF Spec
<1> QED BY OfficeInvariance, <1>1, <1>2, PTL DEF RetriesAreSilent

\* Unless syncs of a person's leaves met, one failed or went by dates that another edit had
\* replaced, or a status was written under a source its writer had not read: a day that a leave wrote is one that an approved leave covers, and
\* the approved leave of somebody who has no other excuses the day, whatever scans, sheets,
\* sweeps and decisions come between (leave_attendance).
THEOREM LeavesStand == Spec => []LeavesAreHonoured
<1>1. OfficeInv => LeavesAreHonoured
  <2> SUFFICES ASSUME OfficeInv PROVE LeavesAreHonoured
    OBVIOUS
  <2>1. scenario = "batch" => Batch!LeaveDaysAreBacked /\ Batch!LoneLeaveIsHonoured
    BY BatchP!LeavesBacked, BatchP!LeavesHonoured, BatchIsASchool, SameBatch DEF OfficeInv
  <2>2. scenario = "pupil" => Pupil!LeaveDaysAreBacked /\ Pupil!LoneLeaveIsHonoured
    BY PupilP!LeavesBacked, PupilP!LeavesHonoured, PupilIsASchool, SamePupil DEF OfficeInv
  <2>3. scenario = "staff" => Staff!LeaveDaysAreBacked /\ Staff!LoneLeaveIsHonoured
    BY StaffP!LeavesBacked, StaffP!LeavesHonoured, StaffIsASchool, SameStaff DEF OfficeInv
  <2> QED BY <2>1, <2>2, <2>3 DEF LeavesAreHonoured
<1> QED BY OfficeInvariance, <1>1, PTL

\* A pupil's check-in and an employee's final absence are taken back only by transactions that
\* had read the row before, and the latter by a late punch made before the cutoff
\* (attendance_service, employee_attendance_helper, leave_attendance).
THEOREM DaysAreKept == Spec => DaysStand
<1>1. OfficeInv /\ [Next]_vars =>
        [/\ scenario = "batch" => Batch!CheckInStep
         /\ scenario = "pupil" => Pupil!CheckInStep
         /\ scenario = "staff" => Staff!FinalAbsenceStep]_vars
  <2> SUFFICES ASSUME OfficeInv, [Next]_vars
               PROVE  /\ scenario = "batch" => Batch!CheckInStep
                      /\ scenario = "pupil" => Pupil!CheckInStep
                      /\ scenario = "staff" => Staff!FinalAbsenceStep
    OBVIOUS
  <2>1. scenario = "batch" => Batch!CheckInStep
    BY BatchSteps, BatchP!CheckInStays, BatchIsASchool, SameBatch DEF OfficeInv
  <2>2. scenario = "pupil" => Pupil!CheckInStep
    BY PupilSteps, PupilP!CheckInStays, PupilIsASchool, SamePupil DEF OfficeInv
  <2>3. scenario = "staff" => Staff!FinalAbsenceStep
    BY StaffSteps, StaffP!FinalAbsenceStays, StaffIsASchool, SameStaff DEF OfficeInv
  <2> QED BY <2>1, <2>2, <2>3
<1>2. Spec => [][Next]_vars
  BY PTL DEF Spec
<1> QED BY OfficeInvariance, <1>1, <1>2, PTL DEF DaysStand

\* A route has one active trip, whatever overlaps. A route on which no two requests overlapped
\* carries no more pupils than it has seats, and a pupil who was neither added by two requests
\* at once nor switched on again rides on one route; for the other pupils and routes that is
\* false, and nothing is claimed (add_student, edit, driver_trip_start).
THEOREM BusesKeepOrder == Spec => []BusesAreOrderly
<1>1. OfficeInv => BusesAreOrderly
  <2> SUFFICES ASSUME OfficeInv, NEW b \in Buses, scenario = b
               PROVE  Bus(b)!SeatsSuffice /\ Bus(b)!OneActiveRoute /\ Bus(b)!OneTripPerRoute
    BY DEF BusesAreOrderly
  <2>1. BusInv(b)
    BY DEF OfficeInv
  <2> QED BY <2>1, OneTripEach DEF BusInv
<1> QED BY OfficeInvariance, <1>1, PTL

\* Of the driver's devices and the scheduler, which all took the same trip to be active, one
\* ends it: the time that it wrote is not overwritten, and nobody else logs an end. A trip that
\* was deleted with its route does not come back (driver_trip_end, expire_inactive_trips).
THEOREM OneEndsTheTrip == Spec => TripsEndOnce
<1>1. OfficeInv => \A b \in Buses : scenario = b => Bus(b)!OnlyTheWinnerIsAudited
  BY OnlyWinners DEF OfficeInv
<1>2. OfficeInv /\ [Next]_vars => [\A b \in Buses : scenario = b => Bus(b)!EndingStep]_vars
  <2> SUFFICES ASSUME OfficeInv, [Next]_vars, NEW b \in Buses, scenario = b
               PROVE  Bus(b)!EndingStep
    OBVIOUS
  <2> QED BY OneRuns, EndsStand DEF OfficeInv
<1>3. Spec => [][Next]_vars
  BY PTL DEF Spec
<1> QED BY OfficeInvariance, <1>1, <1>2, <1>3, PTL DEF TripsEndOnce

\* The movements account for the stock of a warehouse that no form has set and no stale value
\* overwritten, and a request that met no other leaves the right total, whatever overlaps
\* elsewhere; of the rows that were set or overwritten, and of the totals of requests that met,
\* nothing is claimed (create_movement, _recompute_item_total).
THEOREM StockAddsUp == Spec => StockIsAccounted
<1>1. OfficeInv => (scenario = "store" => Store!StockFollowsMovements)
  BY DEF OfficeInv, StoreInv
<1>2. OfficeInv /\ [Next]_vars => [scenario = "store" => Store!TotalStep]_vars
  BY TotalIsLeft DEF OfficeInv
<1>3. Spec => [][Next]_vars
  BY PTL DEF Spec
<1> QED BY OfficeInvariance, <1>1, <1>2, <1>3, PTL DEF StockIsAccounted
=============================================================================
