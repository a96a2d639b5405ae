-------------------------- MODULE DurableQueueProofs --------------------------
(***************************************************************************)
(* Theorems about DurableQueue, for any number of jobs, processes, faults  *)
(* and attempts: its types, that no job Redis accepted is lost, that one   *)
(* is given up only after its last attempt, and that without faults each   *)
(* runs at most once.                                                      *)
(***************************************************************************)
EXTENDS DurableQueue, TLAPS

Lists == [Entries -> Nat]
Stored(e) == Holds(main, e) \/ \E c \in Consumers : Holds(processing[c], e)
HasHeld(c) == pc[c] \in {"run", "remove"}

\* Whoever runs or removes has an entry in hand; entries come from submissions.
HeldCoherent == \A c \in Consumers : HasHeld(c) => held[c] \in Entries
OriginInv ==
  /\ \A e \in Entries : Stored(e) => JobOf(e) \in submitted
  /\ \A c \in Consumers : HasHeld(c) => JobOf(held[c]) \in submitted

BasicInv == TypeOK /\ HeldCoherent /\ OriginInv
-----------------------------------------------------------------------------
(* Lists. *)

LEMMA EntryParts ==
  /\ \A e \in Entries : JobOf(e) \in Jobs /\ AttemptsOf(e) \in Nat
                        /\ AttemptsOf(e) < MaxAttempts
  /\ \A j \in Jobs : <<j, 0>> \in Entries /\ JobOf(<<j, 0>>) = j
  /\ \A e \in Entries : ~ LastAttempt(e) =>
       LET next == <<JobOf(e), AttemptsOf(e) + 1>> IN
       /\ next \in Entries /\ JobOf(next) = JobOf(e)
       /\ AttemptsOf(next) = AttemptsOf(e) + 1
  BY QueueAssumption DEF Entries, JobOf, AttemptsOf, LastAttempt

\* What pushing an entry does to a list.
LEMMA PutFacts ==
  ASSUME NEW list \in Lists, NEW e \in Entries
  PROVE  /\ Put(list, e) \in Lists
         /\ Holds(Put(list, e), e)
         /\ \A f \in Entries : Holds(list, f) => Holds(Put(list, e), f)
         /\ \A f \in Entries : Holds(Put(list, e), f) => f = e \/ Holds(list, f)
  BY DEF Lists, Put, Holds

\* What taking an entry away does to a list.
LEMMA TakeFacts ==
  ASSUME NEW list \in Lists, NEW e \in Entries
  PROVE  /\ Take(list, e) \in Lists
         /\ \A f \in Entries : f # e /\ Holds(list, f) => Holds(Take(list, e), f)
         /\ \A f \in Entries : Holds(Take(list, e), f) => Holds(list, f)
  BY DEF Lists, Take, Holds

\* What Redis does when an entry moves from one list to another.
LEMMA PopFacts ==
  ASSUME TypeOK, NEW c \in Consumers, NEW e \in Entries, MoveToOwnList(c, e)
  PROVE  /\ main' \in Lists /\ processing' \in [Consumers -> Lists]
         /\ \A f \in Entries : Stored(f)' <=> Stored(f)
  <1>1. main \in Lists /\ processing \in [Consumers -> Lists]
    BY DEF TypeOK, Lists
  <1>2. /\ main' = Take(main, e) /\ Holds(main, e)
        /\ processing' = [processing EXCEPT ![c] = Put(@, e)]
    BY DEF MoveToOwnList
  <1>3. processing' \in [Consumers -> Lists] /\ main' \in Lists
    BY <1>1, <1>2, PutFacts, TakeFacts
  <1>4. Stored(e)' /\ Stored(e)
    BY <1>1, <1>2, PutFacts DEF Stored
  <1>5. ASSUME NEW f \in Entries, f # e PROVE Stored(f)' <=> Stored(f)
    <2>1. \A d \in Consumers : Holds(processing'[d], f) <=> Holds(processing[d], f)
      BY <1>1, <1>2, <1>5, PutFacts
    <2>2. Holds(main', f) <=> Holds(main, f)
      BY <1>1, <1>2, <1>5, TakeFacts
    <2> QED
      BY <2>1, <2>2 DEF Stored
  <1> QED
    BY <1>3, <1>4, <1>5

LEMMA MoveOrphanFacts ==
  ASSUME TypeOK, NEW c \in Consumers, MoveOrphan(c)
  PROVE  /\ main' \in Lists /\ processing' \in [Consumers -> Lists]
         /\ \A f \in Entries : Stored(f)' <=> Stored(f)
  <1>1. main \in Lists /\ processing \in [Consumers -> Lists]
    BY DEF TypeOK, Lists
  <1>2. CASE UNCHANGED <<main, processing>>
    BY <1>1, <1>2 DEF Stored
  <1>3. ASSUME NEW d \in Consumers, NEW e \in Entries, Holds(processing[d], e),
               main' = Put(main, e),
               processing' = [processing EXCEPT ![d] = Take(@, e)]
        PROVE  /\ main' \in Lists /\ processing' \in [Consumers -> Lists]
               /\ \A f \in Entries : Stored(f)' <=> Stored(f)
    <2>1. processing' \in [Consumers -> Lists] /\ main' \in Lists
      BY <1>1, <1>3, PutFacts, TakeFacts
    <2>2. Stored(e)' /\ Stored(e)
      BY <1>1, <1>3, PutFacts DEF Stored
    <2>3. ASSUME NEW f \in Entries, f # e PROVE Stored(f)' <=> Stored(f)
      <3>1. \A b \in Consumers : Holds(processing'[b], f) <=> Holds(processing[b], f)
        BY <1>1, <1>3, <2>3, TakeFacts
      <3>2. Holds(main', f) <=> Holds(main, f)
        BY <1>1, <1>3, <2>3, PutFacts
      <3> QED
        BY <3>1, <3>2 DEF Stored
    <2> QED
      BY <2>1, <2>2, <2>3
  <1>4. target[c] \in Consumers
    BY DEF MoveOrphan, TypeOK
  <1> QED
    BY <1>2, <1>3, <1>4 DEF MoveOrphan

\* A push: everything stays stored, and the new entry is.
LEMMA PushFacts ==
  ASSUME TypeOK, NEW e \in Entries, main' = Put(main, e), processing' = processing
  PROVE  /\ main' \in Lists /\ processing' \in [Consumers -> Lists]
         /\ Stored(e)' /\ \A f \in Entries : Stored(f) => Stored(f)'
         /\ \A f \in Entries : Stored(f)' => f = e \/ Stored(f)
  <1>1. main \in Lists /\ processing \in [Consumers -> Lists]
    BY DEF TypeOK, Lists
  <1> QED
    BY <1>1, PutFacts DEF Stored

LEMMA RemoveFacts ==
  ASSUME TypeOK, NEW c \in Consumers, held[c] \in Entries, Remove(c)
  PROVE  /\ main' \in Lists /\ processing' \in [Consumers -> Lists]
         /\ \A f \in Entries : f # held[c] /\ Stored(f) => Stored(f)'
         /\ \A f \in Entries : Stored(f)' => Stored(f)
  <1>1. main \in Lists /\ processing \in [Consumers -> Lists]
    BY DEF TypeOK, Lists
  <1>2. main' = main /\ processing' = [processing EXCEPT ![c] = Take(@, held[c])]
    BY DEF Remove
  <1>3. processing' \in [Consumers -> Lists]
    BY <1>1, <1>2, TakeFacts
  <1>4. \A f \in Entries, d \in Consumers :
          /\ f # held[c] /\ Holds(processing[d], f) => Holds(processing'[d], f)
          /\ Holds(processing'[d], f) => Holds(processing[d], f)
    BY <1>1, <1>2, TakeFacts
  <1> QED
    BY <1>1, <1>2, <1>3, <1>4 DEF Stored
-----------------------------------------------------------------------------
(* Types. *)

LEMMA RunOnceType ==
  ASSUME runs \in [Jobs -> Nat], done \in [Jobs -> Nat], NEW j \in Jobs, RunOnce(j)
  PROVE  /\ runs' \in [Jobs -> Nat] /\ done' \in [Jobs -> Nat]
         /\ \A k \in Jobs : done'[k] >= done[k]
  BY DEF RunOnce

LEMMA FallBackType ==
  ASSUME TypeOK, NEW c \in Consumers, NEW j \in Jobs, FallBack(c, j)
  PROVE  /\ pool' \in [Consumers -> SUBSET Jobs]
         /\ runs' \in [Jobs -> Nat] /\ done' \in [Jobs -> Nat]
         /\ \A k \in Jobs : done'[k] >= done[k]
  <1>1. /\ pool \in [Consumers -> SUBSET Jobs]
        /\ runs \in [Jobs -> Nat] /\ done \in [Jobs -> Nat]
    BY DEF TypeOK
  <1>2. CASE pool' = [pool EXCEPT ![c] = @ \cup {j}] /\ UNCHANGED <<runs, done>>
    BY <1>1, <1>2
  <1>3. CASE RunOnce(j) /\ UNCHANGED pool
    BY <1>1, <1>3, RunOnceType
  <1> QED
    BY <1>2, <1>3 DEF FallBack

LEMMA NextCases ==
  ASSUME [Next]_vars
  PROVE  \/ UNCHANGED vars
         \/ \E c \in Consumers, j \in Jobs : Submit(c, j)
         \/ \E c \in Consumers : RunPooled(c)
         \/ \E c \in Consumers : Pop(c) \/ LosePopReply(c)
         \/ \E c \in Consumers : MoveOrphan(c)
         \/ \E c \in Consumers : Raise(c) \/ FailToRequeue(c)
         \/ \E c \in Consumers : Finish(c)
         \/ \E c \in Consumers : Remove(c)
         \/ \E c \in Consumers :
              \/ Heartbeat(c) \/ PickOrphan(c) \/ EndScan(c) \/ PopNothing(c)
              \/ LoseConnection(c) \/ FailScan(c) \/ FailToRemove(c)
              \/ Start(c) \/ SignalStop(c) \/ Exit(c) \/ Crash(c)
         \/ Tick \/ OverrunHeartbeat
  BY DEF Next, ConsumerStep, ConsumerFault

Quiet(c) ==
  \/ Heartbeat(c) \/ PickOrphan(c) \/ EndScan(c) \/ PopNothing(c)
  \/ LoseConnection(c) \/ FailScan(c) \/ FailToRemove(c)
  \/ Start(c) \/ SignalStop(c) \/ Exit(c) \/ Crash(c)

\* A quiet step leaves the lists and the ledger alone, and nobody takes anything
\* into its hands.
LEMMA QuietFacts ==
  ASSUME TypeOK, NEW c \in Consumers, Quiet(c)
  PROVE  /\ UNCHANGED <<submitted, main, processing, ledgerVars>>
         /\ \A d \in Consumers : HasHeld(d)' =>
              HasHeld(d) /\ pc'[d] = pc[d] /\ held'[d] = held[d]
  <1>1. UNCHANGED <<submitted, main, processing, ledgerVars>>
    BY DEF Quiet, Heartbeat, PickOrphan, EndScan, PopNothing, LoseConnection, FailScan,
       FailToRemove, Start, SignalStop, Exit, Crash, redisVars
  <1>2. \/ UNCHANGED <<pc, held>>
        \/ /\ \E step \in {"off", "top", "scan", "pop"} : Goto(c, step)
           /\ \A d \in Consumers : d # c => held'[d] = held[d]
    BY DEF Quiet, Heartbeat, PickOrphan, EndScan, PopNothing, LoseConnection, FailScan,
       FailToRemove, Start, SignalStop, Exit, Crash, TypeOK
  <1> QED
    BY <1>1, <1>2 DEF HasHeld, Goto, TypeOK

LEMMA QuietType ==
  ASSUME TypeOK, NEW c \in Consumers, Quiet(c)
  PROVE  TypeOK'
  <1> USE QueueAssumption DEF TypeOK, Goto, Fault
  <1>a. /\ submitted' \subseteq Jobs /\ queued' \subseteq submitted' /\ dropped' \subseteq Jobs
        /\ main' \in [Entries -> Nat] /\ processing' \in [Consumers -> [Entries -> Nat]]
        /\ runs' \in [Jobs -> Nat] /\ done' \in [Jobs -> Nat]
    BY QuietFacts DEF ledgerVars
  <1> DEFINE Rest ==
        /\ alive \in [Consumers -> 0 .. HeartbeatTTL]
        /\ pc \in [Consumers -> {"off", "top", "scan", "pop", "run", "remove"}]
        /\ stopping \subseteq Consumers /\ down \subseteq Consumers
        /\ held \in [Consumers -> Entries \cup {NoEntry}]
        /\ target \in [Consumers -> Consumers \cup {NoConsumer}]
        /\ sinceScan \in [Consumers -> 0 .. ReclaimEvery]
        /\ pool \in [Consumers -> SUBSET Jobs]
        /\ faults \in 0 .. MaxFaults /\ stops \in 0 .. MaxStops
  <1>r. Rest
    OBVIOUS
  <1>1. ASSUME Heartbeat(c) PROVE Rest'
    <2>1. alive' \in [Consumers -> 0 .. HeartbeatTTL]
      BY <1>r, <1>1 DEF Heartbeat
    <2>2. /\ pc' \in [Consumers -> {"off", "top", "scan", "pop", "run", "remove"}]
          /\ sinceScan' \in [Consumers -> 0 .. ReclaimEvery]
      <3>1. CASE Goto(c, "scan") /\ sinceScan' = [sinceScan EXCEPT ![c] = 0]
        BY <1>r, <3>1
      <3>2. CASE Goto(c, "pop") /\ UNCHANGED sinceScan
        BY <1>r, <3>2
      <3> QED
        BY <1>1, <3>1, <3>2 DEF Heartbeat
    <2> QED
      BY <1>r, <1>1, <2>1, <2>2 DEF Heartbeat
  <1>2. ASSUME PickOrphan(c) PROVE Rest'
    BY <1>r, <1>2 DEF PickOrphan, redisVars
  <1>3. ASSUME EndScan(c) PROVE Rest'
    BY <1>r, <1>3 DEF EndScan, redisVars
  <1>4. ASSUME PopNothing(c) PROVE Rest'
    BY <1>r, <1>4 DEF PopNothing, redisVars
  <1>5. ASSUME LoseConnection(c) PROVE Rest'
    BY <1>r, <1>5 DEF LoseConnection, redisVars
  <1>6. ASSUME FailScan(c) PROVE Rest'
    BY <1>r, <1>6 DEF FailScan, redisVars
  <1>7. ASSUME FailToRemove(c) PROVE Rest'
    BY <1>r, <1>7 DEF FailToRemove, redisVars
  <1>8. ASSUME Start(c) PROVE Rest'
    BY <1>r, <1>8 DEF Start, redisVars
  <1>9. ASSUME SignalStop(c) PROVE Rest'
    BY <1>r, <1>9 DEF SignalStop, redisVars
  <1>10. ASSUME Exit(c) PROVE Rest'
    BY <1>r, <1>10 DEF Exit
  <1>11. ASSUME Crash(c) PROVE Rest'
    BY <1>r, <1>11 DEF Crash, redisVars
  <1> QED
    BY <1>a, <1>1, <1>2, <1>3, <1>4, <1>5, <1>6, <1>7, <1>8, <1>9, <1>10, <1>11 DEF Quiet

LEMMA TypeStep == BasicInv /\ [Next]_vars => TypeOK'
  <1> SUFFICES ASSUME TypeOK, HeldCoherent, [Next]_vars PROVE TypeOK'
    BY DEF BasicInv
  <1> USE DEF TypeOK, Lists
  <1>1. CASE UNCHANGED vars
    BY <1>1 DEF vars, redisVars, loopVars, ledgerVars
  <1>2. ASSUME NEW c \in Consumers, NEW j \in Jobs, Submit(c, j) PROVE TypeOK'
    <2>1. submitted' \subseteq Jobs /\ queued' \subseteq submitted'
      BY <1>2 DEF Submit, PushNew
    <2>2. main' \in Lists
      BY <1>2, EntryParts, PutFacts DEF Submit, PushNew
    <2>3. /\ pool' \in [Consumers -> SUBSET Jobs]
          /\ runs' \in [Jobs -> Nat] /\ done' \in [Jobs -> Nat]
      BY <1>2, FallBackType DEF Submit
    <2>4. down' \subseteq Consumers /\ faults' \in 0 .. MaxFaults /\ stops' = stops
      BY <1>2, QueueAssumption DEF Submit, Fault
    <2> QED
      BY <1>2, <2>1, <2>2, <2>3, <2>4, Zenon DEF Submit, loopVars
  <1>3. ASSUME NEW c \in Consumers, RunPooled(c) PROVE TypeOK'
    <2>1. PICK j \in Jobs : RunOnce(j) /\ pool' = [pool EXCEPT ![c] = @ \ {j}]
      BY <1>3 DEF RunPooled
    <2>2. runs' \in [Jobs -> Nat] /\ done' \in [Jobs -> Nat]
      BY <2>1, RunOnceType
    <2> QED
      BY <1>3, <2>1, <2>2 DEF RunPooled, redisVars, loopVars
  <1>4. ASSUME NEW c \in Consumers, Pop(c) \/ LosePopReply(c) PROVE TypeOK'
    <2>1. PICK e \in Entries : MoveToOwnList(c, e)
      BY <1>4 DEF Pop, LosePopReply
    <2>2. main' \in Lists /\ processing' \in [Consumers -> Lists]
      BY <2>1, PopFacts
    <2>3. CASE Pop(c)
      <3>1. held' \in [Consumers -> Entries \cup {NoEntry}]
        BY <2>3 DEF Pop
      <3>2. PICK f \in Entries : runs' = [runs EXCEPT ![JobOf(f)] = @ + 1]
        BY <2>3 DEF Pop
      <3>3. runs' \in [Jobs -> Nat]
        BY <3>2, EntryParts
      <3> QED
        BY <2>2, <2>3, <3>1, <3>3 DEF Pop, Goto
    <2>4. CASE LosePopReply(c)
      BY <2>2, <2>4, QueueAssumption DEF LosePopReply, Goto, Fault, ledgerVars
    <2> QED
      BY <1>4, <2>3, <2>4
  <1>5. ASSUME NEW c \in Consumers, MoveOrphan(c) PROVE TypeOK'
    <2>1. main' \in Lists /\ processing' \in [Consumers -> Lists]
      BY <1>5, MoveOrphanFacts
    <2> QED
      BY <1>5, <2>1 DEF MoveOrphan, ledgerVars
  <1>6. ASSUME NEW c \in Consumers, Raise(c) \/ FailToRequeue(c) PROVE TypeOK'
    <2>1. held[c] \in Entries
      BY <1>6 DEF Raise, FailToRequeue, HeldCoherent, HasHeld
    <2>2. main' \in Lists
      BY <1>6, <2>1, EntryParts, PutFacts DEF Raise, FailToRequeue, Requeue
    <2>3. dropped' \subseteq Jobs
      BY <1>6, <2>1, EntryParts DEF Raise, FailToRequeue, GiveUp
    <2> QED
      BY <1>6, <2>2, <2>3, QueueAssumption DEF Raise, FailToRequeue, Goto, Fault
  <1>7. ASSUME NEW c \in Consumers, Finish(c) PROVE TypeOK'
    <2>1. JobOf(held[c]) \in Jobs
      BY <1>7, EntryParts DEF Finish, HeldCoherent, HasHeld
    <2> QED
      BY <1>7, <2>1 DEF Finish, Goto, redisVars
  <1>8. ASSUME NEW c \in Consumers, Remove(c) PROVE TypeOK'
    <2>1. held[c] \in Entries
      BY <1>8 DEF Remove, HeldCoherent, HasHeld
    <2>2. main' \in Lists /\ processing' \in [Consumers -> Lists]
      BY <1>8, <2>1, RemoveFacts
    <2> QED
      BY <1>8, <2>2 DEF Remove, Goto, ledgerVars
  <1>9. ASSUME NEW c \in Consumers, Quiet(c) PROVE TypeOK'
    BY <1>9, QuietType
  <1>10. CASE Tick \/ OverrunHeartbeat
    BY <1>10, QueueAssumption DEF Tick, OverrunHeartbeat, PassTime, Fault, ledgerVars
  <1> QED
    BY <1>1, <1>2, <1>3, <1>4, <1>5, <1>6, <1>7, <1>8, <1>9, <1>10, NextCases DEF Quiet

LEMMA HeldStep == BasicInv /\ [Next]_vars => HeldCoherent'
  <1> SUFFICES ASSUME TypeOK, HeldCoherent, [Next]_vars PROVE HeldCoherent'
    BY DEF BasicInv
  <1>0. ASSUME \A c \in Consumers : HasHeld(c)' => HasHeld(c) /\ held'[c] = held[c]
        PROVE  HeldCoherent'
    BY <1>0 DEF HeldCoherent
  <1>1. CASE UNCHANGED <<pc, held>>
    BY <1>0, <1>1 DEF HasHeld
  <1>2. ASSUME NEW c \in Consumers, Pop(c) PROVE HeldCoherent'
    BY <1>2 DEF Pop, Goto, HeldCoherent, HasHeld, TypeOK
  <1>3. ASSUME NEW c \in Consumers,
               \/ LosePopReply(c) \/ Raise(c) \/ FailToRequeue(c) \/ Finish(c)
               \/ Remove(c)
        PROVE  HeldCoherent'
    <2>1. /\ \A d \in Consumers : d # c => pc'[d] = pc[d] /\ held'[d] = held[d]
          /\ HasHeld(c)' => pc[c] = "run" /\ held'[c] = held[c]
      BY <1>3 DEF LosePopReply, Raise, FailToRequeue, Finish, Remove, Goto, HasHeld, TypeOK
    <2> QED
      BY <1>0, <2>1 DEF HasHeld
  <1>4. ASSUME NEW c \in Consumers, Quiet(c) PROVE HeldCoherent'
    BY <1>0, <1>4, QuietFacts
  <1>5. ASSUME \/ UNCHANGED vars \/ Tick \/ OverrunHeartbeat
               \/ \E c \in Consumers, j \in Jobs : Submit(c, j)
               \/ \E c \in Consumers : RunPooled(c) \/ MoveOrphan(c)
        PROVE  UNCHANGED <<pc, held>>
    BY <1>5 DEF vars, loopVars, Tick, OverrunHeartbeat, PassTime, Submit, RunPooled,
       MoveOrphan
  <1> QED
    BY <1>1, <1>2, <1>3, <1>4, <1>5, NextCases DEF Quiet

\* Every entry in Redis, and in a hand, is of a job somebody submitted.
LEMMA OriginStep == BasicInv /\ [Next]_vars => OriginInv'
  <1> SUFFICES ASSUME TypeOK, HeldCoherent, OriginInv, [Next]_vars PROVE OriginInv'
    BY DEF BasicInv
  <1>0. ASSUME submitted \subseteq submitted',
               \A e \in Entries : Stored(e)' => JobOf(e) \in submitted',
               \A c \in Consumers : HasHeld(c)' =>
                 \/ HasHeld(c) /\ held'[c] = held[c]
                 \/ (held[c] \in Entries /\ Stored(held[c]))'
        PROVE  OriginInv'
    BY <1>0 DEF OriginInv
  <1>1. ASSUME \/ UNCHANGED vars \/ Tick \/ OverrunHeartbeat
               \/ \E c \in Consumers : RunPooled(c)
        PROVE  OriginInv'
    <2>1. UNCHANGED <<submitted, main, processing, pc, held>>
      BY <1>1 DEF vars, loopVars, redisVars, Tick, OverrunHeartbeat, PassTime, RunPooled
    <2> QED
      BY <2>1, Zenon DEF OriginInv, Stored, HasHeld
  <1>2. ASSUME NEW c \in Consumers, NEW j \in Jobs, Submit(c, j) PROVE OriginInv'
    <2>1. /\ UNCHANGED <<pc, held, processing>> /\ submitted' = submitted \cup {j}
          /\ main' = main \/ main' = Put(main, <<j, 0>>)
      BY <1>2 DEF Submit, loopVars, PushNew
    <2>2. \A e \in Entries : Stored(e)' => e = <<j, 0>> \/ Stored(e)
      <3>1. CASE main' = main
        BY <2>1, <3>1 DEF Stored
      <3>2. CASE main' = Put(main, <<j, 0>>)
        BY <2>1, <3>2, EntryParts, PushFacts
      <3> QED
        BY <2>1, <3>1, <3>2
    <2>3. \A e \in Entries : Stored(e)' => JobOf(e) \in submitted'
      BY <2>1, <2>2, EntryParts DEF OriginInv
    <2> QED
      BY <1>0, <2>1, <2>3 DEF HasHeld
  <1>3. ASSUME NEW c \in Consumers, Pop(c) \/ LosePopReply(c) PROVE OriginInv'
    <2>1. PICK e \in Entries : /\ MoveToOwnList(c, e)
                               /\ held' = held \/ held' = [held EXCEPT ![c] = e]
                               /\ HasHeld(c)' => held' = [held EXCEPT ![c] = e]
      BY <1>3 DEF Pop, LosePopReply, Goto, HasHeld, TypeOK
    <2>2. /\ \A f \in Entries : Stored(f)' <=> Stored(f)
          /\ Stored(e)
      BY <2>1, PopFacts DEF MoveToOwnList, Stored
    <2>3. submitted' = submitted /\ \A d \in Consumers : d # c => pc'[d] = pc[d]
      BY <1>3 DEF Pop, LosePopReply, Goto, TypeOK
    <2>4. \A d \in Consumers : HasHeld(d)' =>
            \/ HasHeld(d) /\ held'[d] = held[d]
            \/ (held[d] \in Entries /\ Stored(held[d]))'
      <3>1. ASSUME HasHeld(c)' PROVE (held[c] \in Entries /\ Stored(held[c]))'
        <4>1. held'[c] = e
          BY <2>1, <3>1 DEF TypeOK
        <4>2. Stored(e)'
          BY <2>2
        <4> QED
          BY <4>1, <4>2 DEF Stored
      <3>2. ASSUME NEW d \in Consumers, d # c, HasHeld(d)'
            PROVE  HasHeld(d) /\ held'[d] = held[d]
        BY <2>1, <2>3, <3>2 DEF HasHeld, TypeOK
      <3> QED
        BY <3>1, <3>2
    <2> QED
      BY <1>0, <2>2, <2>3, <2>4 DEF OriginInv
  <1>4. ASSUME NEW c \in Consumers, MoveOrphan(c) PROVE OriginInv'
    BY <1>0, <1>4, MoveOrphanFacts DEF MoveOrphan, OriginInv, HasHeld
  <1>5. ASSUME NEW c \in Consumers, Raise(c) \/ FailToRequeue(c) PROVE OriginInv'
    <2>1. held[c] \in Entries /\ JobOf(held[c]) \in submitted
      BY <1>5 DEF Raise, FailToRequeue, HeldCoherent, OriginInv, HasHeld
    <2>2. /\ UNCHANGED <<submitted, held, processing>>
          /\ \A d \in Consumers : HasHeld(d)' => HasHeld(d)
      BY <1>5 DEF Raise, FailToRequeue, Goto, HasHeld, TypeOK
    <2>3. \A e \in Entries : Stored(e)' => Stored(e) \/ JobOf(e) = JobOf(held[c])
      <3>1. CASE main' = main
        BY <2>2, <3>1 DEF Stored
      <3>2. CASE ~ LastAttempt(held[c]) /\ Requeue(held[c])
        BY <2>1, <2>2, <3>2, EntryParts, PushFacts DEF Requeue
      <3> QED
        BY <1>5, <3>1, <3>2 DEF Raise, FailToRequeue
    <2> QED
      BY <1>0, <2>1, <2>2, <2>3 DEF OriginInv
  <1>6. ASSUME NEW c \in Consumers, Finish(c) PROVE OriginInv'
    <2>1. /\ UNCHANGED <<submitted, held, main, processing>>
          /\ \A d \in Consumers : HasHeld(d)' => HasHeld(d)
      BY <1>6 DEF Finish, Goto, HasHeld, TypeOK, redisVars
    <2> QED
      BY <1>0, <2>1 DEF OriginInv, Stored
  <1>7. ASSUME NEW c \in Consumers, Remove(c) PROVE OriginInv'
    <2>1. held[c] \in Entries
      BY <1>7 DEF Remove, HeldCoherent, HasHeld
    <2>2. /\ submitted' = submitted
          /\ \A d \in Consumers : HasHeld(d)' => HasHeld(d) /\ held'[d] = held[d]
      BY <1>7 DEF Remove, Goto, HasHeld, TypeOK
    <2> QED
      BY <1>0, <1>7, <2>1, <2>2, RemoveFacts DEF OriginInv
  <1>8. ASSUME NEW c \in Consumers, Quiet(c) PROVE OriginInv'
    BY <1>0, <1>8, QuietFacts DEF OriginInv, Stored
  <1> QED
    BY <1>1, <1>2, <1>3, <1>4, <1>5, <1>6, <1>7, <1>8, NextCases DEF Quiet

LEMMA InitBasic == Init => BasicInv
  BY QueueAssumption
     DEF Init, BasicInv, TypeOK, HeldCoherent, OriginInv, HasHeld, Stored, Holds, EmptyList

\* What a consumer has in hand is an entry, and of a submitted job, always.
THEOREM BasicInvariant == Spec => []BasicInv
  <1>1. BasicInv /\ [Next]_vars => BasicInv'
    BY TypeStep, HeldStep, OriginStep DEF BasicInv
  <1> QED
    BY InitBasic, <1>1, PTL DEF Spec

\* The lists, the heartbeats and the ledgers keep their types.
THEOREM TypeCorrect == Spec => []TypeOK
  <1>1. BasicInv => TypeOK
    BY DEF BasicInv
  <1> QED
    BY BasicInvariant, <1>1, PTL
-----------------------------------------------------------------------------
(* No job Redis accepted is lost. *)

\* e is the entry that keeps j alive: whoever is about to remove an entry of j
\* removes one of an earlier attempt.
Keeps(j, e) ==
  /\ JobOf(e) = j /\ Stored(e)
  /\ \A c \in Consumers : pc[c] = "remove" /\ JobOf(held[c]) = j =>
       AttemptsOf(held[c]) < AttemptsOf(e)

KeptInv == \A j \in queued : Settled(j) \/ \E e \in Entries : Keeps(j, e)

LEMMA InitKept == Init => KeptInv
  BY DEF Init, KeptInv

LEMMA KeptStep == ASSUME BasicInv, KeptInv, [Next]_vars PROVE KeptInv'
  <1> USE DEF BasicInv
  <1>q. queued \subseteq Jobs
    BY DEF TypeOK
  <1>0. ASSUME queued' = queued,
               \A j \in Jobs : Settled(j) => Settled(j)',
               \A e \in Entries : Stored(e) => Stored(e)',
               \A c \in Consumers : pc'[c] = "remove" => pc[c] = "remove" /\ held'[c] = held[c]
        PROVE  KeptInv'
    <2> SUFFICES ASSUME NEW j \in queued, ~ Settled(j)' PROVE \E e \in Entries : Keeps(j, e)'
      BY <1>0 DEF KeptInv
    <2>1. PICK e \in Entries : Keeps(j, e)
      BY <1>0, <1>q DEF KeptInv
    <2>2. Keeps(j, e)'
      BY <1>0, <2>1 DEF Keeps
    <2> QED
      BY <2>2
  <1>1. ASSUME UNCHANGED vars \/ Tick \/ OverrunHeartbeat PROVE KeptInv'
    <2>1. UNCHANGED <<main, processing, pc, held, queued, done, dropped>>
      BY <1>1 DEF vars, loopVars, redisVars, ledgerVars, Tick, OverrunHeartbeat, PassTime
    <2> QED
      BY <1>0, <2>1 DEF Stored, Settled
  <1>2. ASSUME NEW c \in Consumers, RunPooled(c) PROVE KeptInv'
    <2>1. UNCHANGED <<main, processing, pc, held, queued, dropped>>
      BY <1>2 DEF RunPooled, loopVars, redisVars
    <2>2. \A k \in Jobs : done'[k] \in Nat /\ done[k] \in Nat /\ done'[k] >= done[k]
      BY <1>2, RunOnceType DEF RunPooled, TypeOK
    <2> QED
      BY <1>0, <2>1, <2>2 DEF Stored, Settled
  <1>3. ASSUME NEW c \in Consumers, NEW j \in Jobs, Submit(c, j) PROVE KeptInv'
    <2>1. /\ UNCHANGED <<pc, held, processing, dropped>> /\ j \notin submitted
          /\ UNCHANGED <<main, queued>> \/ PushNew(j)
      BY <1>3 DEF Submit, loopVars
    <2>2. \A k \in Jobs : done'[k] \in Nat /\ done[k] \in Nat /\ done'[k] >= done[k]
      BY <1>3, FallBackType DEF Submit, TypeOK
    <2>3. \A k \in Jobs : Settled(k) => Settled(k)'
      BY <2>1, <2>2 DEF Settled
    <2>4. CASE UNCHANGED <<main, queued>>
      BY <1>0, <2>1, <2>3, <2>4 DEF Stored
    <2>5. CASE PushNew(j)
      <3>1. \A e \in Entries : Stored(e) => Stored(e)'
        BY <2>1, <2>5, EntryParts, PushFacts DEF PushNew
      <3>2. Keeps(j, <<j, 0>>)'
        <4>1. Stored(<<j, 0>>)'
          BY <2>1, <2>5, EntryParts, PushFacts DEF PushNew
        <4>2. \A d \in Consumers : pc'[d] = "remove" => JobOf(held'[d]) # j
          BY <2>1 DEF OriginInv, HasHeld
        <4> QED
          BY <4>1, <4>2, EntryParts DEF Keeps
      <3>3. ASSUME NEW k \in queued, ~ Settled(k)' PROVE \E e \in Entries : Keeps(k, e)'
        <4>1. PICK e \in Entries : Keeps(k, e)
          BY <1>q, <2>3, <3>3 DEF KeptInv
        <4>2. Keeps(k, e)'
          BY <2>1, <3>1, <4>1 DEF Keeps
        <4> QED
          BY <4>2
      <3> QED
        BY <2>5, <3>2, <3>3, EntryParts DEF KeptInv, PushNew
    <2> QED
      BY <2>1, <2>4, <2>5
  <1>4. ASSUME NEW c \in Consumers, Pop(c) \/ LosePopReply(c) PROVE KeptInv'
    <2>1. \A e \in Entries : Stored(e) => Stored(e)'
      BY <1>4, PopFacts DEF Pop, LosePopReply
    <2>2. /\ UNCHANGED <<queued, done, dropped>>
          /\ \A d \in Consumers : pc'[d] = "remove" => pc[d] = "remove" /\ held'[d] = held[d]
      BY <1>4 DEF Pop, LosePopReply, Goto, TypeOK, ledgerVars
    <2> QED
      BY <1>0, <2>1, <2>2 DEF Settled
  <1>5. ASSUME NEW c \in Consumers, MoveOrphan(c) PROVE KeptInv'
    <2>1. UNCHANGED <<pc, held, queued, done, dropped>>
      BY <1>5 DEF MoveOrphan, ledgerVars
    <2> QED
      BY <1>0, <1>5, <2>1, MoveOrphanFacts DEF Settled
  <1>6. ASSUME NEW c \in Consumers, Raise(c) \/ FailToRequeue(c) PROVE KeptInv'
    <2> DEFINE h == held[c]
               next == <<JobOf(h), AttemptsOf(h) + 1>>
    <2>1. h \in Entries
      BY <1>6 DEF Raise, FailToRequeue, HeldCoherent, HasHeld
    <2>2. /\ UNCHANGED <<queued, done, held, processing>>
          /\ dropped \subseteq dropped'
          /\ \A d \in Consumers : d # c => pc'[d] = pc[d]
          /\ pc[c] = "run"
      BY <1>6 DEF Raise, FailToRequeue, GiveUp, Goto, TypeOK
    <2>3. \/ JobOf(h) \in dropped'
          \/ ~ LastAttempt(h) /\ Requeue(h)
      BY <1>6 DEF Raise, FailToRequeue, GiveUp
    <2>4. main' = main \/ (~ LastAttempt(h) /\ Requeue(h))
      BY <1>6 DEF Raise, FailToRequeue
    <2>5. \A e \in Entries : Stored(e) => Stored(e)'
      <3>1. CASE main' = main
        BY <2>2, <3>1 DEF Stored
      <3>2. CASE ~ LastAttempt(h) /\ Requeue(h)
        BY <2>1, <2>2, <3>2, EntryParts, PushFacts DEF Requeue
      <3> QED
        BY <2>4, <3>1, <3>2
    <2> SUFFICES ASSUME NEW j \in queued, ~ Settled(j)'
                 PROVE  \E e \in Entries : Keeps(j, e)'
      BY <2>2 DEF KeptInv
    <2>6. PICK e \in Entries : Keeps(j, e)
      BY <2>2 DEF KeptInv, Settled
    <2>7. CASE JobOf(h) # j
      <3>1. Keeps(j, e)'
        BY <2>2, <2>5, <2>6, <2>7 DEF Keeps
      <3> QED
        BY <3>1
    <2>8. CASE JobOf(h) = j
      <3>1. ~ LastAttempt(h) /\ Requeue(h)
        BY <2>3, <2>8 DEF Settled
      <3>2. /\ next \in Entries /\ JobOf(next) = j
            /\ AttemptsOf(next) = AttemptsOf(h) + 1
        BY <2>1, <2>8, <3>1, EntryParts
      <3>3. Stored(next)'
        BY <2>2, <3>1, <3>2, PushFacts DEF Requeue
      <3>4. AttemptsOf(h) \in Nat /\ AttemptsOf(e) \in Nat
        BY <2>1, EntryParts
      <3>5. \A d \in Consumers : pc'[d] = "remove" /\ JobOf(held'[d]) = j =>
              \/ held'[d] = h
              \/ AttemptsOf(held'[d]) < AttemptsOf(e) /\ AttemptsOf(held'[d]) \in Nat
        <4> SUFFICES ASSUME NEW d \in Consumers, d # c, pc[d] = "remove", JobOf(held[d]) = j
                     PROVE  AttemptsOf(held[d]) < AttemptsOf(e) /\ AttemptsOf(held[d]) \in Nat
          BY <2>2
        <4>1. held[d] \in Entries
          BY DEF HeldCoherent, HasHeld
        <4> QED
          BY <2>6, <4>1, EntryParts DEF Keeps
      <3>6. CASE AttemptsOf(e) > AttemptsOf(h)
        <4>1. Keeps(j, e)'
          BY <2>5, <2>6, <3>4, <3>5, <3>6 DEF Keeps
        <4> QED
          BY <4>1
      <3>7. CASE AttemptsOf(e) <= AttemptsOf(h)
        <4>1. PICK n \in Entries : n = next
          BY <3>2
        <4>2. \A d \in Consumers : pc'[d] = "remove" /\ JobOf(held'[d]) = j =>
                AttemptsOf(held'[d]) < AttemptsOf(n)
          BY <3>2, <3>4, <3>5, <3>7, <4>1
        <4>3. JobOf(n) = j /\ Stored(n)'
          BY <2>2, <3>1, <3>2, <4>1, PushFacts DEF Requeue
        <4>4. Keeps(j, n)'
          BY <4>2, <4>3 DEF Keeps
        <4> QED
          BY <4>4
      <3> QED
        BY <3>4, <3>6, <3>7
    <2> QED
      BY <2>7, <2>8
  <1>7. ASSUME NEW c \in Consumers, Finish(c) PROVE KeptInv'
    <2>1. held[c] \in Entries
      BY <1>7 DEF Finish, HeldCoherent, HasHeld
    <2>2. /\ UNCHANGED <<queued, dropped, held, main, processing>>
          /\ \A d \in Consumers : d # c => pc'[d] = pc[d]
          /\ done' = [done EXCEPT ![JobOf(held[c])] = @ + 1]
      BY <1>7 DEF Finish, Goto, TypeOK, redisVars
    <2>3. \A k \in Jobs : k = JobOf(held[c]) \/ Settled(k) => Settled(k)'
      BY <2>1, <2>2, EntryParts DEF Settled, TypeOK
    <2> SUFFICES ASSUME NEW j \in queued, ~ Settled(j)'
                 PROVE  \E e \in Entries : Keeps(j, e)'
      BY <2>2 DEF KeptInv
    <2>4. PICK e \in Entries : Keeps(j, e)
      BY <1>q, <2>3 DEF KeptInv
    <2>5. JobOf(held[c]) # j
      BY <1>q, <2>2, <2>3
    <2>6. Keeps(j, e)'
      BY <2>2, <2>4, <2>5 DEF Keeps, Stored
    <2> QED
      BY <2>6
  <1>8. ASSUME NEW c \in Consumers, Remove(c) PROVE KeptInv'
    <2>1. held[c] \in Entries
      BY <1>8 DEF Remove, HeldCoherent, HasHeld
    <2>2. /\ UNCHANGED <<queued, done, dropped>> /\ pc[c] = "remove"
          /\ \A d \in Consumers : pc'[d] = "remove" => pc[d] = "remove" /\ held'[d] = held[d]
      BY <1>8 DEF Remove, Goto, TypeOK, ledgerVars
    <2> SUFFICES ASSUME NEW j \in queued, ~ Settled(j)'
                 PROVE  \E e \in Entries : Keeps(j, e)'
      BY <2>2 DEF KeptInv
    <2>3. PICK e \in Entries : Keeps(j, e)
      BY <2>2 DEF KeptInv, Settled
    <2>4. e # held[c]
      BY <2>1, <2>2, <2>3, EntryParts DEF Keeps
    <2>5. Stored(e)'
      BY <1>8, <2>1, <2>3, <2>4, RemoveFacts DEF Keeps
    <2>6. Keeps(j, e)'
      BY <2>2, <2>3, <2>5 DEF Keeps
    <2> QED
      BY <2>6
  <1>9. ASSUME NEW c \in Consumers, Quiet(c) PROVE KeptInv'
    <2>1. /\ UNCHANGED <<main, processing, queued, done, dropped>>
          /\ \A d \in Consumers : pc'[d] = "remove" => pc[d] = "remove" /\ held'[d] = held[d]
      BY <1>9, QuietFacts DEF HasHeld, ledgerVars
    <2> QED
      BY <1>0, <2>1 DEF Stored, Settled
  <1> QED
    BY <1>1, <1>2, <1>3, <1>4, <1>5, <1>6, <1>7, <1>8, <1>9, NextCases DEF Quiet

\* Whatever crashes, fails or is taken back, and however often: a job Redis
\* accepted is in one of its lists until it succeeded or was given up.
THEOREM NothingLost == Spec => []DurableUntilSettled
  <1>1. BasicInv /\ KeptInv /\ [Next]_vars => KeptInv'
    BY KeptStep
  <1>2. KeptInv => DurableUntilSettled
    BY DEF KeptInv, Keeps, DurableUntilSettled, InRedis, Stored
  <1> QED
    BY InitKept, BasicInvariant, <1>1, <1>2, PTL DEF Spec
-----------------------------------------------------------------------------
(* A job is given up only after its last attempt. *)

\* An entry that says n attempts were made is of a job that was executed n times, and
\* the execution in progress counts.
AttemptInv ==
  /\ \A e \in Entries : Stored(e) => runs[JobOf(e)] >= AttemptsOf(e)
  /\ \A c \in Consumers : pc[c] = "run" => runs[JobOf(held[c])] > AttemptsOf(held[c])

LEMMA InitAttempts == Init => AttemptInv
  BY DEF Init, AttemptInv, Stored, Holds, EmptyList

\* Executions are counted and never forgotten.
LEMMA RunsGrow ==
  ASSUME BasicInv, [Next]_vars
  PROVE  \A j \in Jobs : runs[j] \in Nat /\ runs'[j] \in Nat /\ runs'[j] >= runs[j]
  <1>t. runs \in [Jobs -> Nat]
    BY DEF BasicInv, TypeOK
  <1>1. CASE UNCHANGED runs
    BY <1>1, <1>t
  <1>2. ASSUME NEW j \in Jobs, RunOnce(j) PROVE \A k \in Jobs : runs'[k] >= runs[k] /\ runs'[k] \in Nat
    BY <1>2, <1>t DEF RunOnce
  <1>3. ASSUME NEW e \in Entries, runs' = [runs EXCEPT ![JobOf(e)] = @ + 1]
        PROVE  \A k \in Jobs : runs'[k] >= runs[k] /\ runs'[k] \in Nat
    BY <1>3, <1>t
  <1>4. ASSUME NEW c \in Consumers, NEW j \in Jobs, Submit(c, j)
        PROVE  UNCHANGED runs \/ RunOnce(j)
    BY <1>4 DEF Submit, FallBack
  <1>5. ASSUME NEW c \in Consumers, RunPooled(c) PROVE \E j \in Jobs : RunOnce(j)
    BY <1>5 DEF RunPooled, BasicInv, TypeOK
  <1>6. ASSUME NEW c \in Consumers, Pop(c) \/ LosePopReply(c)
        PROVE  \/ UNCHANGED runs
               \/ \E e \in Entries : runs' = [runs EXCEPT ![JobOf(e)] = @ + 1]
    BY <1>6 DEF Pop, LosePopReply, ledgerVars
  <1>7. ASSUME \/ UNCHANGED vars \/ Tick \/ OverrunHeartbeat
               \/ \E c \in Consumers : MoveOrphan(c) \/ Raise(c) \/ FailToRequeue(c)
                                       \/ Finish(c) \/ Remove(c)
        PROVE  UNCHANGED runs
    BY <1>7 DEF vars, ledgerVars, Tick, OverrunHeartbeat, PassTime, MoveOrphan, Raise,
       FailToRequeue, Finish, Remove
  <1>8. ASSUME NEW c \in Consumers, Quiet(c) PROVE UNCHANGED runs
    BY <1>8, QuietFacts DEF BasicInv, ledgerVars
  <1> QED
    BY <1>t, <1>1, <1>2, <1>3, <1>4, <1>5, <1>6, <1>7, <1>8, NextCases DEF Quiet

LEMMA AttemptStep == ASSUME BasicInv, AttemptInv, [Next]_vars PROVE AttemptInv'
  <1> USE DEF BasicInv
  <1>r. \A j \in Jobs : runs[j] \in Nat /\ runs'[j] \in Nat /\ runs'[j] >= runs[j]
    BY RunsGrow
  <1>0. ASSUME \A e \in Entries : Stored(e)' => Stored(e) \/ runs'[JobOf(e)] >= AttemptsOf(e),
               \A c \in Consumers : pc'[c] = "run" =>
                 \/ pc[c] = "run" /\ held'[c] = held[c]
                 \/ runs'[JobOf(held'[c])] > AttemptsOf(held'[c])
        PROVE  AttemptInv'
    <2>1. \A e \in Entries : Stored(e)' => runs'[JobOf(e)] >= AttemptsOf(e)
      BY <1>0, <1>r, EntryParts DEF AttemptInv
    <2>2. ASSUME NEW c \in Consumers, pc[c] = "run", held'[c] = held[c]
          PROVE  runs'[JobOf(held'[c])] > AttemptsOf(held'[c])
      <3>1. held[c] \in Entries
        BY <2>2 DEF HeldCoherent, HasHeld
      <3> QED
        BY <1>r, <2>2, <3>1, EntryParts DEF AttemptInv
    <2> QED
      BY <1>0, <2>1, <2>2 DEF AttemptInv
  <1>1. ASSUME \/ UNCHANGED vars \/ Tick \/ OverrunHeartbeat
               \/ \E c \in Consumers : RunPooled(c)
        PROVE  AttemptInv'
    <2>1. UNCHANGED <<main, processing, pc, held>>
      BY <1>1 DEF vars, loopVars, redisVars, Tick, OverrunHeartbeat, PassTime, RunPooled
    <2> QED
      BY <1>0, <2>1 DEF Stored
  <1>2. ASSUME NEW c \in Consumers, NEW j \in Jobs, Submit(c, j) PROVE AttemptInv'
    <2>1. /\ UNCHANGED <<pc, held, processing>>
          /\ main' = main \/ main' = Put(main, <<j, 0>>)
      BY <1>2 DEF Submit, loopVars, PushNew
    <2>2. \A e \in Entries : Stored(e)' => e = <<j, 0>> \/ Stored(e)
      <3>1. CASE main' = main
        BY <2>1, <3>1 DEF Stored
      <3>2. CASE main' = Put(main, <<j, 0>>)
        BY <2>1, <3>2, EntryParts, PushFacts
      <3> QED
        BY <2>1, <3>1, <3>2
    <2>3. runs'[JobOf(<<j, 0>>)] >= AttemptsOf(<<j, 0>>)
      BY <1>r DEF JobOf, AttemptsOf
    <2> QED
      BY <1>0, <2>1, <2>2, <2>3
  <1>3. ASSUME NEW c \in Consumers, Pop(c) PROVE AttemptInv'
    <2>1. PICK e \in Entries :
            /\ MoveToOwnList(c, e)
            /\ held' = [held EXCEPT ![c] = e]
            /\ runs' = [runs EXCEPT ![JobOf(e)] = @ + 1]
      BY <1>3 DEF Pop
    <2>2. \A f \in Entries : Stored(f)' <=> Stored(f)
      BY <2>1, PopFacts
    <2>3. runs'[JobOf(e)] > AttemptsOf(e)
      <3>1. Stored(e)
        BY <2>1 DEF MoveToOwnList, Stored
      <3> QED
        BY <1>r, <2>1, <3>1, EntryParts DEF AttemptInv, TypeOK
    <2>4. held'[c] = e /\ \A d \in Consumers : d # c => held'[d] = held[d] /\ pc'[d] = pc[d]
      BY <1>3, <2>1 DEF Pop, Goto, TypeOK
    <2> QED
      BY <1>0, <2>2, <2>3, <2>4
  <1>4. ASSUME NEW c \in Consumers, LosePopReply(c) PROVE AttemptInv'
    <2>1. \A f \in Entries : Stored(f)' <=> Stored(f)
      BY <1>4, PopFacts DEF LosePopReply
    <2>2. \A d \in Consumers : pc'[d] = "run" => pc[d] = "run" /\ held'[d] = held[d]
      BY <1>4 DEF LosePopReply, Goto, TypeOK
    <2> QED
      BY <1>0, <2>1, <2>2
  <1>5. ASSUME NEW c \in Consumers, MoveOrphan(c) PROVE AttemptInv'
    BY <1>0, <1>5, MoveOrphanFacts DEF MoveOrphan
  <1>6. ASSUME NEW c \in Consumers, Raise(c) \/ FailToRequeue(c) PROVE AttemptInv'
    <2> DEFINE h == held[c]
               next == <<JobOf(h), AttemptsOf(h) + 1>>
    <2>1. h \in Entries /\ pc[c] = "run"
      BY <1>6 DEF Raise, FailToRequeue, HeldCoherent, HasHeld
    <2>2. /\ UNCHANGED <<held, processing, runs>>
          /\ \A d \in Consumers : pc'[d] = "run" => pc[d] = "run"
      BY <1>6 DEF Raise, FailToRequeue, Goto, TypeOK
    <2>3. main' = main \/ (~ LastAttempt(h) /\ Requeue(h))
      BY <1>6 DEF Raise, FailToRequeue
    <2>4. \A e \in Entries : Stored(e)' => Stored(e) \/ runs'[JobOf(e)] >= AttemptsOf(e)
      <3>1. CASE main' = main
        BY <2>2, <3>1 DEF Stored
      <3>2. CASE ~ LastAttempt(h) /\ Requeue(h)
        <4>1. /\ next \in Entries /\ JobOf(next) = JobOf(h)
              /\ AttemptsOf(next) = AttemptsOf(h) + 1
          BY <2>1, <3>2, EntryParts
        <4>2. \A e \in Entries : Stored(e)' => e = next \/ Stored(e)
          BY <2>2, <3>2, <4>1, PushFacts DEF Requeue
        <4>3. runs[JobOf(h)] >= AttemptsOf(h) + 1
          BY <1>r, <2>1, EntryParts DEF AttemptInv
        <4> QED
          BY <2>2, <4>1, <4>2, <4>3
      <3> QED
        BY <2>3, <3>1, <3>2
    <2> QED
      BY <1>0, <2>2, <2>4
  <1>7. ASSUME NEW c \in Consumers, Finish(c) PROVE AttemptInv'
    <2>1. /\ UNCHANGED <<held, main, processing>>
          /\ \A d \in Consumers : pc'[d] = "run" => pc[d] = "run"
      BY <1>7 DEF Finish, Goto, TypeOK, redisVars
    <2> QED
      BY <1>0, <2>1 DEF Stored
  <1>8. ASSUME NEW c \in Consumers, Remove(c) PROVE AttemptInv'
    <2>1. held[c] \in Entries
      BY <1>8 DEF Remove, HeldCoherent, HasHeld
    <2>2. \A d \in Consumers : pc'[d] = "run" => pc[d] = "run" /\ held'[d] = held[d]
      BY <1>8 DEF Remove, Goto, TypeOK
    <2> QED
      BY <1>0, <1>8, <2>1, <2>2, RemoveFacts
  <1>9. ASSUME NEW c \in Consumers, Quiet(c) PROVE AttemptInv'
    <2>1. /\ UNCHANGED <<main, processing>>
          /\ \A d \in Consumers : pc'[d] = "run" => pc[d] = "run" /\ held'[d] = held[d]
      BY <1>9, QuietFacts DEF HasHeld
    <2> QED
      BY <1>0, <2>1 DEF Stored
  <1> QED
    BY <1>1, <1>2, <1>3, <1>4, <1>5, <1>6, <1>7, <1>8, <1>9, NextCases DEF Quiet

ExhaustedStep == \A j \in dropped' \ dropped : runs[j] >= MaxAttempts \/ faults' # faults

LEMMA GiveUpStep == ASSUME BasicInv, AttemptInv, [Next]_vars PROVE ExhaustedStep
  <1> USE DEF BasicInv, ExhaustedStep
  <1>1. ASSUME NEW c \in Consumers, Raise(c) PROVE ExhaustedStep
    <2>1. held[c] \in Entries /\ pc[c] = "run"
      BY <1>1 DEF Raise, HeldCoherent, HasHeld
    <2>2. CASE UNCHANGED dropped
      BY <2>2
    <2>3. CASE LastAttempt(held[c]) /\ GiveUp(held[c])
      <3>1. runs[JobOf(held[c])] > AttemptsOf(held[c]) /\ runs[JobOf(held[c])] \in Nat
        BY <2>1, EntryParts DEF AttemptInv, TypeOK
      <3>2. runs[JobOf(held[c])] >= MaxAttempts
        BY <2>1, <2>3, <3>1, EntryParts, QueueAssumption DEF LastAttempt
      <3> QED
        BY <2>3, <3>2 DEF GiveUp
    <2> QED
      BY <1>1, <2>2, <2>3 DEF Raise
  <1>2. ASSUME NEW c \in Consumers, FailToRequeue(c) PROVE ExhaustedStep
    BY <1>2, QueueAssumption DEF FailToRequeue, Fault, TypeOK
  <1>3. ASSUME \/ UNCHANGED vars \/ Tick \/ OverrunHeartbeat
               \/ \E c \in Consumers, j \in Jobs : Submit(c, j)
               \/ \E c \in Consumers :
                    \/ RunPooled(c) \/ Pop(c) \/ LosePopReply(c) \/ MoveOrphan(c)
                    \/ Finish(c) \/ Remove(c)
        PROVE  ExhaustedStep
    <2>1. UNCHANGED dropped
      BY <1>3 DEF vars, ledgerVars, Tick, OverrunHeartbeat, PassTime, Submit, RunPooled,
         Pop, LosePopReply, MoveOrphan, Finish, Remove
    <2> QED
      BY <2>1
  <1>4. ASSUME NEW c \in Consumers, Quiet(c) PROVE ExhaustedStep
    BY <1>4, QuietFacts DEF ledgerVars
  <1> QED
    BY <1>1, <1>2, <1>3, <1>4, NextCases DEF Quiet

\* "Retried up to DURABLE_QUEUE_MAX_ATTEMPTS total attempts": unless putting it back
\* fails in this very step, a job that is given up was executed that many times.
THEOREM ExhaustedFirst == Spec => GivenUpOnlyWhenExhausted
  <1>1. BasicInv /\ AttemptInv /\ [Next]_vars => AttemptInv'
    BY AttemptStep
  <1>2. BasicInv /\ AttemptInv /\ [Next]_vars => [ExhaustedStep]_vars
    BY GiveUpStep
  <1> QED
    BY InitAttempts, BasicInvariant, <1>1, <1>2, PTL
       DEF Spec, GivenUpOnlyWhenExhausted, ExhaustedStep
-----------------------------------------------------------------------------
(* Without faults nothing happens twice. *)

\* Nobody waits out a cooldown or takes back a list, whoever is past the top of its
\* loop has a heartbeat, and a consumer's list is what it has in hand.
Calm ==
  /\ down = {}
  /\ \A c \in Consumers : target[c] = NoConsumer
  /\ \A c \in Consumers : pc[c] \in {"scan", "pop", "run", "remove"} => alive[c] > 0
  /\ \A c \in Consumers, e \in Entries : Holds(processing[c], e) => HasHeld(c) /\ held[c] = e
  /\ \A c \in Consumers : HasHeld(c) => processing[c][held[c]] = 1

\* A job waits once in the queue, or in one pool, or is executed by one consumer.
Running(c, j) == pc[c] = "run" /\ JobOf(held[c]) = j
OnePlace ==
  /\ \A e \in Entries : main[e] <= 1
  /\ \A e, f \in Entries : Holds(main, e) /\ Holds(main, f) /\ JobOf(e) = JobOf(f) => e = f
  /\ \A e \in Entries, c \in Consumers :
       Holds(main, e) => ~ Running(c, JobOf(e)) /\ JobOf(e) \notin pool[c]
  /\ \A c, d \in Consumers, j \in Jobs :
       /\ Running(c, j) => j \notin pool[d]
       /\ c # d => ~ (Running(c, j) /\ Running(d, j)) /\ ~ (j \in pool[c] /\ j \in pool[d])

\* A job that has such a place has not succeeded yet, and its entry counts its executions.
Fresh(j) == done[j] = 0 /\ runs[j] = 0
Counted ==
  /\ \A j \in Jobs : done[j] <= 1 /\ runs[j] <= MaxAttempts
  /\ \A e \in Entries : Holds(main, e) => done[JobOf(e)] = 0 /\ runs[JobOf(e)] = AttemptsOf(e)
  /\ \A c \in Consumers : pc[c] = "run" =>
       done[JobOf(held[c])] = 0 /\ runs[JobOf(held[c])] = AttemptsOf(held[c]) + 1
  /\ \A c \in Consumers : \A j \in pool[c] : j \in submitted /\ Fresh(j)
  /\ \A j \in Jobs \ submitted : Fresh(j)

FaultlessInv == faults = 0 => Calm /\ OnePlace /\ Counted

LEMMA InitFaultless == Init => FaultlessInv
  BY QueueAssumption DEF Init, FaultlessInv, Calm, OnePlace, Counted, Fresh, Running, HasHeld,
     Holds, EmptyList

\* A step after which there has been no fault is none.
LEMMA NoFault ==
  ASSUME BasicInv, [Next]_vars, faults' = 0
  PROVE  /\ faults = 0
         /\ \/ UNCHANGED vars
            \/ \E c \in Consumers, j \in Jobs : Submit(c, j) /\ UNCHANGED down
            \/ \E c \in Consumers :
                 \/ RunPooled(c) \/ Heartbeat(c) \/ PickOrphan(c) \/ MoveOrphan(c) \/ EndScan(c)
                 \/ Pop(c) \/ PopNothing(c) \/ Finish(c) \/ Raise(c) \/ Remove(c)
                 \/ Start(c) \/ SignalStop(c) \/ Exit(c)
            \/ Tick
  <1>f. faults \in Nat
    BY QueueAssumption DEF BasicInv, TypeOK
  <1>n. \A kind \in AllFaultKinds : ~ Fault(kind)
    BY <1>f DEF Fault
  <1>1. ~ OverrunHeartbeat /\ \A c \in Consumers : ~ ConsumerFault(c)
    BY <1>n DEF OverrunHeartbeat, ConsumerFault, LoseConnection, FailScan, LosePopReply,
       FailToRequeue, FailToRemove, Crash, AllFaultKinds
  <1>2. \A c \in Consumers, j \in Jobs : Submit(c, j) => UNCHANGED <<down, faults>>
    BY <1>n DEF Submit, AllFaultKinds
  <1>3. \A c \in Consumers :
          RunPooled(c) \/ ConsumerStep(c) \/ Start(c) \/ SignalStop(c) => UNCHANGED faults
    BY DEF RunPooled, ConsumerStep, Heartbeat, PickOrphan, MoveOrphan, EndScan, Pop, PopNothing,
       Finish, Raise, Remove, Exit, Start, SignalStop
  <1>4. UNCHANGED vars \/ Tick => UNCHANGED faults
    BY DEF vars, Tick
  <1> QED
    BY <1>1, <1>2, <1>3, <1>4 DEF Next, ConsumerStep

\* Nothing is an orphan then.
LEMMA NoOrphan ==
  ASSUME TypeOK, Calm, NEW c \in Consumers
  PROVE  ~ PickOrphan(c) /\ ~ MoveOrphan(c)
  <1>1. \A d \in Consumers : ~ IsOrphan(c, d)
    BY DEF IsOrphan, IsEmpty, Calm, HasHeld
  <1> QED
    BY <1>1 DEF PickOrphan, MoveOrphan, Calm

LEMMA CalmStep ==
  ASSUME BasicInv, Calm, OnePlace, [Next]_vars, faults' = 0
  PROVE  Calm'
  <1> USE DEF BasicInv
  <1>l. main \in Lists /\ processing \in [Consumers -> Lists]
    BY DEF TypeOK, Lists
  \* A step that leaves the lists and what is in hand alone.
  <1>0. ASSUME UNCHANGED <<processing, target>>, down' = {},
               \A c \in Consumers : HasHeld(c) <=> HasHeld(c)',
               \A c \in Consumers : HasHeld(c) => held'[c] = held[c],
               \A c \in Consumers : pc'[c] \in {"scan", "pop", "run", "remove"} => alive'[c] > 0
        PROVE  Calm'
    BY <1>0 DEF Calm
  <1>1. CASE UNCHANGED vars
    BY <1>0, <1>1 DEF vars, redisVars, loopVars, Calm, HasHeld
  <1>2. ASSUME NEW c \in Consumers, NEW j \in Jobs, Submit(c, j), UNCHANGED down PROVE Calm'
    BY <1>0, <1>2 DEF Submit, loopVars, Calm, HasHeld
  <1>3. ASSUME NEW c \in Consumers, RunPooled(c) PROVE Calm'
    BY <1>0, <1>3 DEF RunPooled, redisVars, loopVars, Calm, HasHeld
  <1>4. ASSUME NEW c \in Consumers, Heartbeat(c) PROVE Calm'
    <2>1. UNCHANGED <<processing, target, held, down>> /\ pc[c] = "top"
      BY <1>4 DEF Heartbeat
    <2>2. /\ pc'[c] \in {"scan", "pop"} /\ alive'[c] = HeartbeatTTL
          /\ \A d \in Consumers : d # c => pc'[d] = pc[d] /\ alive'[d] = alive[d]
      BY <1>4 DEF Heartbeat, Goto, TypeOK
    <2> QED
      BY <1>0, <2>1, <2>2, QueueAssumption DEF Calm, HasHeld
  <1>5. ASSUME NEW c \in Consumers, EndScan(c) \/ PopNothing(c) \/ Start(c) \/ SignalStop(c)
        PROVE  Calm'
    <2>1. UNCHANGED <<processing, target, held, down, alive>>
      BY <1>5 DEF EndScan, PopNothing, Start, SignalStop, redisVars
    <2>2. /\ pc'[c] = pc[c] \/ pc'[c] = "top" \/ (pc'[c] = "pop" /\ pc[c] = "scan")
          /\ pc'[c] = pc[c] \/ pc[c] \in {"scan", "pop", "off"}
          /\ \A d \in Consumers : d # c => pc'[d] = pc[d]
      BY <1>5 DEF EndScan, PopNothing, Start, SignalStop, Goto, TypeOK, Live
    <2> QED
      BY <1>0, <2>1, <2>2 DEF Calm, HasHeld
  <1>6. ASSUME NEW c \in Consumers, Exit(c) PROVE Calm'
    <2>1. /\ UNCHANGED <<processing, target, held>> /\ down' = {}
          /\ pc[c] = "top" /\ pc'[c] = "off"
          /\ \A d \in Consumers : d # c => pc'[d] = pc[d] /\ alive'[d] = alive[d]
      BY <1>6 DEF Exit, Goto, TypeOK, Calm
    <2> QED
      BY <1>0, <2>1 DEF Calm, HasHeld
  <1>7. ASSUME NEW c \in Consumers, Pop(c) PROVE Calm'
    <2>1. PICK e \in Entries : MoveToOwnList(c, e) /\ held' = [held EXCEPT ![c] = e]
      BY <1>7 DEF Pop
    <2>2. /\ UNCHANGED <<target, down, alive>> /\ pc[c] = "pop" /\ pc'[c] = "run"
          /\ \A d \in Consumers : d # c => pc'[d] = pc[d]
      BY <1>7 DEF Pop, Goto, TypeOK
    <2>3. \A d \in Consumers : d # c => processing'[d] = processing[d] /\ held'[d] = held[d]
      BY <2>1, <1>l DEF MoveToOwnList, TypeOK
    <2>4. held'[c] = e /\ processing'[c] = Put(processing[c], e)
      BY <2>1, <1>l DEF MoveToOwnList, TypeOK
    <2>5. \A f \in Entries : processing[c][f] = 0
      BY <1>l, <2>2 DEF Calm, HasHeld, Holds, Lists
    <2>6. \A f \in Entries : processing'[c][f] = IF f = e THEN 1 ELSE 0
      BY <1>l, <2>4, <2>5 DEF Put, Lists
    <2> QED
      BY <2>2, <2>3, <2>4, <2>6 DEF Calm, HasHeld, Holds
  <1>8. ASSUME NEW c \in Consumers, Finish(c) \/ Raise(c) PROVE Calm'
    <2>1. /\ UNCHANGED <<processing, target, held, down, alive>>
          /\ pc[c] = "run" /\ pc'[c] = "remove"
          /\ \A d \in Consumers : d # c => pc'[d] = pc[d]
      BY <1>8 DEF Finish, Raise, Goto, TypeOK, redisVars
    <2> QED
      BY <1>0, <2>1 DEF Calm, HasHeld
  <1>9. ASSUME NEW c \in Consumers, Remove(c) PROVE Calm'
    <2>1. /\ UNCHANGED <<target, down, alive>> /\ pc[c] = "remove" /\ pc'[c] = "top"
          /\ \A d \in Consumers : d # c =>
               pc'[d] = pc[d] /\ held'[d] = held[d] /\ processing'[d] = processing[d]
          /\ processing'[c] = Take(processing[c], held[c])
      BY <1>9, <1>l DEF Remove, Goto, TypeOK
    <2>2. held[c] \in Entries /\ processing[c][held[c]] = 1
      BY <2>1 DEF HeldCoherent, HasHeld, Calm
    <2>3. \A f \in Entries : processing'[c][f] = 0
      BY <1>l, <2>1, <2>2 DEF Take, Calm, Holds, Lists
    <2> QED
      BY <2>1, <2>3 DEF Calm, HasHeld, Holds
  <1>10. CASE Tick
    <2>1. UNCHANGED <<processing, target, held, pc>> /\ down' = {}
      BY <1>10 DEF Tick, PassTime
    <2>2. \A c \in Consumers : /\ alive'[c] = IF alive[c] = 0 THEN 0 ELSE alive[c] - 1
                               /\ pc[c] # "off" => alive[c] # 1
      BY <1>10 DEF Tick, PassTime, Live, Calm
    <2>3. \A c \in Consumers : alive[c] \in Nat
      BY QueueAssumption DEF TypeOK
    <2> QED
      BY <1>0, <2>1, <2>2, <2>3 DEF Calm, HasHeld
  <1> QED
    BY NoFault, NoOrphan, <1>1, <1>2, <1>3, <1>4, <1>5, <1>6, <1>7, <1>8, <1>9, <1>10

\* Only these steps move a job or count something.
LEMMA IdleSteps ==
  ASSUME BasicInv, Calm, [Next]_vars, faults' = 0
  PROVE  \/ \E c \in Consumers, j \in Jobs : Submit(c, j) /\ UNCHANGED down
         \/ \E c \in Consumers : RunPooled(c) \/ Pop(c) \/ Finish(c) \/ Raise(c)
         \/ /\ UNCHANGED <<main, pool, runs, done, submitted>>
            /\ \A c \in Consumers : pc'[c] = "run" => pc[c] = "run" /\ held'[c] = held[c]
  <1> USE DEF BasicInv
  <1> DEFINE Idle == /\ UNCHANGED <<main, pool, runs, done, submitted>>
                     /\ \A c \in Consumers :
                          pc'[c] = "run" => pc[c] = "run" /\ held'[c] = held[c]
  <1>1. UNCHANGED vars \/ Tick => Idle
    BY DEF vars, redisVars, loopVars, ledgerVars, Tick, PassTime
  <1>2. ASSUME NEW c \in Consumers,
               \/ Heartbeat(c) \/ EndScan(c) \/ PopNothing(c) \/ Start(c) \/ SignalStop(c)
               \/ Exit(c)
        PROVE  Idle
    <2>1. UNCHANGED <<main, pool, runs, done, submitted, held>>
      BY <1>2 DEF Heartbeat, EndScan, PopNothing, Start, SignalStop, Exit, redisVars, ledgerVars
    <2>2. \A d \in Consumers : pc'[d] = "run" => pc[d] = "run"
      BY <1>2 DEF Heartbeat, EndScan, PopNothing, Start, SignalStop, Exit, Goto, TypeOK
    <2> QED
      BY <2>1, <2>2
  <1>3. ASSUME NEW c \in Consumers, Remove(c) PROVE Idle
    BY <1>3 DEF Remove, Goto, TypeOK, ledgerVars
  <1> QED
    BY NoFault, NoOrphan, <1>1, <1>2, <1>3

\* What a push does when every entry is there at most once.
LEMMA PushOnce ==
  ASSUME main \in Lists, NEW e \in Entries, main' = Put(main, e)
  PROVE  \A f \in Entries : main'[f] = IF f = e THEN main[f] + 1 ELSE main[f]
  BY DEF Put, Lists

LEMMA PlaceStep ==
  ASSUME BasicInv, Calm, OnePlace, Counted, [Next]_vars, faults' = 0
  PROVE  OnePlace'
  <1> USE DEF BasicInv
  <1>l. main \in Lists /\ \A e \in Entries : main[e] \in Nat
    BY DEF TypeOK, Lists
  <1>1. ASSUME UNCHANGED <<main, pool, runs, done, submitted>>,
               \A c \in Consumers : pc'[c] = "run" => pc[c] = "run" /\ held'[c] = held[c]
        PROVE  OnePlace'
    BY <1>1 DEF OnePlace, Running, Holds
  <1>2. ASSUME NEW c \in Consumers, NEW j \in Jobs, Submit(c, j), UNCHANGED down PROVE OnePlace'
    <2>1. UNCHANGED <<pc, held>> /\ j \notin submitted
      BY <1>2 DEF Submit, loopVars
    <2>2. /\ \A e \in Entries : Holds(main, e) => JobOf(e) # j
          /\ \A d \in Consumers : ~ Running(d, j) /\ j \notin pool[d]
      BY <2>1 DEF OriginInv, Stored, Running, HasHeld, Counted
    <2>3. CASE PushNew(j) /\ UNCHANGED pool
      <3>1. /\ <<j, 0>> \in Entries /\ JobOf(<<j, 0>>) = j
            /\ main' = Put(main, <<j, 0>>)
        BY <2>3, EntryParts DEF PushNew
      <3>2. \A f \in Entries : main'[f] = IF f = <<j, 0>> THEN main[f] + 1 ELSE main[f]
        BY <1>l, <3>1, PushOnce
      <3>3. main[<<j, 0>>] = 0
        BY <1>l, <2>2, <3>1 DEF Holds
      <3> QED
        BY <1>l, <2>1, <2>2, <2>3, <3>1, <3>2, <3>3 DEF OnePlace, Running, Holds
    <2>4. CASE FallBack(c, j) /\ UNCHANGED main
      <3>1. pool' = pool \/ pool' = [pool EXCEPT ![c] = @ \cup {j}]
        BY <2>4 DEF FallBack
      <3>2. \A d \in Consumers, k \in Jobs : k \in pool'[d] => k \in pool[d] \/ (d = c /\ k = j)
        BY <3>1 DEF TypeOK
      <3> QED
        BY <2>1, <2>2, <2>4, <3>2, EntryParts DEF OnePlace, Running, Holds
    <2> QED
      BY <1>2, <2>3, <2>4, NoFault DEF Submit, Fault, TypeOK
  <1>3. ASSUME NEW c \in Consumers, RunPooled(c) PROVE OnePlace'
    <2>1. /\ UNCHANGED <<main, pc, held>>
          /\ \A d \in Consumers : pool'[d] \subseteq pool[d]
      BY <1>3 DEF RunPooled, redisVars, loopVars, TypeOK
    <2> QED
      BY <2>1 DEF OnePlace, Running, Holds
  <1>4. ASSUME NEW c \in Consumers, Pop(c) PROVE OnePlace'
    <2>1. PICK e \in Entries : MoveToOwnList(c, e) /\ held' = [held EXCEPT ![c] = e]
      BY <1>4 DEF Pop
    <2>2. /\ UNCHANGED pool /\ pc[c] = "pop"
          /\ held'[c] = e /\ \A d \in Consumers : d # c => pc'[d] = pc[d] /\ held'[d] = held[d]
      BY <1>4, <2>1 DEF Pop, Goto, TypeOK
    <2>3. Holds(main, e) /\ \A f \in Entries : main'[f] = IF f = e THEN 0 ELSE main[f]
      BY <1>l, <2>1 DEF MoveToOwnList, Take, OnePlace, Holds, Lists
    <2>4. \A f \in Entries : Holds(main', f) => Holds(main, f) /\ JobOf(f) # JobOf(e)
      BY <2>3 DEF OnePlace, Holds
    <2>5. \A d \in Consumers, k \in Jobs :
            Running(d, k)' => Running(d, k) \/ (d = c /\ k = JobOf(e))
      BY <2>2 DEF Running
    <2>6. \A d \in Consumers : ~ Running(d, JobOf(e)) /\ JobOf(e) \notin pool[d]
      BY <2>3 DEF OnePlace
    <2>7. \A f \in Entries : main'[f] <= 1
      BY <2>3 DEF OnePlace
    <2> QED
      BY <2>2, <2>4, <2>5, <2>6, <2>7, EntryParts DEF OnePlace
  <1>5. ASSUME NEW c \in Consumers, Finish(c) PROVE OnePlace'
    <2>1. /\ UNCHANGED <<main, held, pool>>
          /\ \A d \in Consumers : pc'[d] = "run" => pc[d] = "run"
      BY <1>5 DEF Finish, Goto, TypeOK, redisVars
    <2> QED
      BY <2>1 DEF OnePlace, Running, Holds
  <1>6. ASSUME NEW c \in Consumers, Raise(c) PROVE OnePlace'
    <2> DEFINE h == held[c]
               j == JobOf(h)
               next == <<JobOf(h), AttemptsOf(h) + 1>>
    <2>1. h \in Entries /\ j \in Jobs /\ pc[c] = "run"
      BY <1>6, EntryParts DEF Raise, HeldCoherent, HasHeld
    <2>2. /\ UNCHANGED <<held, pool>> /\ pc'[c] # "run"
          /\ \A d \in Consumers : d # c => pc'[d] = pc[d]
      BY <1>6 DEF Raise, Goto, TypeOK
    <2>3. CASE UNCHANGED main
      BY <2>2, <2>3 DEF OnePlace, Running, Holds
    <2>4. CASE ~ LastAttempt(h) /\ Requeue(h)
      <3>1. next \in Entries /\ JobOf(next) = j /\ main' = Put(main, next)
        BY <2>1, <2>4, EntryParts DEF Requeue
      <3>2. /\ \A e \in Entries : Holds(main, e) => JobOf(e) # j
            /\ \A d \in Consumers : ~ Running(d, j)' /\ j \notin pool[d]
        BY <2>1, <2>2 DEF OnePlace, Running
      <3>3. \A f \in Entries : main'[f] = IF f = next THEN main[f] + 1 ELSE main[f]
        BY <1>l, <3>1, PushOnce
      <3>4. main[next] = 0
        BY <1>l, <3>1, <3>2 DEF Holds
      <3>5. \A f \in Entries : Holds(main', f) => f = next \/ Holds(main, f)
        BY <3>3 DEF Holds
      <3>6. \A f \in Entries : main'[f] <= 1
        BY <3>3, <3>4 DEF OnePlace
      <3>7. \A d \in Consumers, k \in Jobs : Running(d, k)' => Running(d, k)
        BY <2>2 DEF Running
      <3>8. \A e \in Entries, d \in Consumers : Holds(main', e) =>
              ~ Running(d, JobOf(e))' /\ JobOf(e) \notin pool'[d]
        BY <2>2, <3>1, <3>2, <3>5, <3>7, EntryParts DEF OnePlace
      <3>9. \A e, f \in Entries : Holds(main', e) /\ Holds(main', f) /\ JobOf(e) = JobOf(f) => e = f
        BY <3>1, <3>2, <3>5 DEF OnePlace
      <3> QED
        BY <2>2, <3>6, <3>7, <3>8, <3>9 DEF OnePlace
    <2> QED
      BY <1>6, <2>3, <2>4 DEF Raise
  <1> QED
    BY IdleSteps, <1>1, <1>2, <1>3, <1>4, <1>5, <1>6

\* An execution outside the queue counts for its job alone.
LEMMA RunOnceCounts ==
  ASSUME TypeOK, NEW j \in Jobs, RunOnce(j), Fresh(j)
  PROVE  /\ runs'[j] = 1 /\ done'[j] \in {0, 1}
         /\ \A k \in Jobs : k # j => runs'[k] = runs[k] /\ done'[k] = done[k]
  BY DEF RunOnce, Fresh, TypeOK

LEMMA CountStep ==
  ASSUME BasicInv, Calm, OnePlace, Counted, [Next]_vars, faults' = 0
  PROVE  Counted'
  <1> USE DEF BasicInv
  <1>m. MaxAttempts >= 1 /\ MaxAttempts \in Nat
    BY QueueAssumption
  <1>l. main \in Lists /\ \A c \in Consumers : pool[c] \subseteq Jobs
    BY DEF TypeOK, Lists
  <1>1. ASSUME UNCHANGED <<main, pool, runs, done, submitted>>,
               \A c \in Consumers : pc'[c] = "run" => pc[c] = "run" /\ held'[c] = held[c]
        PROVE  Counted'
    BY <1>1 DEF Counted, Fresh
  <1>2. ASSUME NEW c \in Consumers, NEW j \in Jobs, Submit(c, j), UNCHANGED down PROVE Counted'
    <2>1. UNCHANGED <<pc, held>> /\ j \notin submitted /\ submitted' = submitted \cup {j}
      BY <1>2 DEF Submit, loopVars
    <2>2. /\ Fresh(j)
          /\ \A e \in Entries : Holds(main, e) => JobOf(e) # j
          /\ \A d \in Consumers : ~ Running(d, j) /\ j \notin pool[d]
      BY <2>1 DEF OriginInv, Stored, Running, HasHeld, Counted
    <2>3. CASE PushNew(j) /\ UNCHANGED <<pool, runs, done>>
      <3>1. /\ <<j, 0>> \in Entries /\ JobOf(<<j, 0>>) = j /\ AttemptsOf(<<j, 0>>) = 0
            /\ main' = Put(main, <<j, 0>>)
        BY <2>3, EntryParts DEF PushNew, AttemptsOf
      <3>2. \A f \in Entries : Holds(main', f) => f = <<j, 0>> \/ Holds(main, f)
        BY <1>l, <3>1, PutFacts
      <3> QED
        BY <2>1, <2>2, <2>3, <3>1, <3>2 DEF Counted, Fresh
    <2>4. CASE FallBack(c, j) /\ UNCHANGED main
      <3>1. CASE pool' = [pool EXCEPT ![c] = @ \cup {j}] /\ UNCHANGED <<runs, done>>
        <4>1. \A d \in Consumers : \A k \in pool'[d] : k \in pool[d] \/ k = j
          BY <3>1 DEF TypeOK
        <4> QED
          BY <2>1, <2>2, <2>4, <3>1, <4>1 DEF Counted, Fresh
      <3>2. CASE RunOnce(j) /\ UNCHANGED pool
        <4>1. /\ runs'[j] = 1 /\ done'[j] \in {0, 1}
              /\ \A k \in Jobs : k # j => runs'[k] = runs[k] /\ done'[k] = done[k]
          BY <2>2, <3>2, RunOnceCounts
        <4>2. \A d \in Consumers : pc[d] = "run" => JobOf(held[d]) \in Jobs /\ JobOf(held[d]) # j
          BY <2>2, EntryParts DEF HeldCoherent, HasHeld, Running
        <4> QED
          BY <1>l, <1>m, <2>1, <2>2, <2>4, <3>2, <4>1, <4>2, EntryParts DEF Counted, Fresh
      <3> QED
        BY <2>4, <3>1, <3>2 DEF FallBack
    <2> QED
      BY <1>2, <2>3, <2>4, NoFault DEF Submit, Fault, TypeOK
  <1>3. ASSUME NEW c \in Consumers, RunPooled(c) PROVE Counted'
    <2>1. PICK j \in pool[c] : RunOnce(j) /\ pool' = [pool EXCEPT ![c] = @ \ {j}]
      BY <1>3 DEF RunPooled
    <2>2. j \in Jobs /\ j \in submitted /\ Fresh(j)
      BY <1>l DEF Counted
    <2>3. UNCHANGED <<main, pc, held, submitted>>
      BY <1>3 DEF RunPooled, redisVars, loopVars
    <2>4. /\ runs'[j] = 1 /\ done'[j] \in {0, 1}
          /\ \A k \in Jobs : k # j => runs'[k] = runs[k] /\ done'[k] = done[k]
      BY <2>1, <2>2, RunOnceCounts
    <2>5. \A d \in Consumers : \A k \in pool'[d] : k \in pool[d] /\ k # j
      BY <1>l, <2>1, <2>2 DEF OnePlace, TypeOK
    <2>6. \A e \in Entries : Holds(main, e) => JobOf(e) # j
      BY <2>1 DEF OnePlace
    <2>7. \A d \in Consumers : pc[d] = "run" => JobOf(held[d]) \in Jobs /\ JobOf(held[d]) # j
      BY <2>1, <2>2, EntryParts DEF HeldCoherent, HasHeld, Running, OnePlace
    <2> QED
      BY <1>l, <1>m, <2>2, <2>3, <2>4, <2>5, <2>6, <2>7, EntryParts DEF Counted, Fresh
  <1>4. ASSUME NEW c \in Consumers, Pop(c) PROVE Counted'
    <2>1. PICK e \in Entries : /\ MoveToOwnList(c, e) /\ held' = [held EXCEPT ![c] = e]
                               /\ runs' = [runs EXCEPT ![JobOf(e)] = @ + 1]
      BY <1>4 DEF Pop
    <2> DEFINE j == JobOf(e)
    <2>2. /\ UNCHANGED <<pool, done, submitted>>
          /\ held'[c] = e /\ \A d \in Consumers : d # c => pc'[d] = pc[d] /\ held'[d] = held[d]
      BY <1>4, <2>1 DEF Pop, Goto, TypeOK
    <2>3. Holds(main, e) /\ main' = Take(main, e)
      BY <2>1 DEF MoveToOwnList
    <2>4. \A f \in Entries : Holds(main', f) => Holds(main, f) /\ JobOf(f) # j
      BY <1>l, <2>3 DEF Take, OnePlace, Holds, Lists
    <2>5. /\ j \in Jobs /\ j \in submitted /\ done[j] = 0 /\ runs'[j] = AttemptsOf(e) + 1
          /\ AttemptsOf(e) \in Nat /\ AttemptsOf(e) + 1 <= MaxAttempts
          /\ \A k \in Jobs : k # j => runs'[k] = runs[k]
      BY <1>m, <2>1, <2>3, EntryParts DEF Counted, TypeOK, OriginInv, Stored
    <2>6. \A d \in Consumers :
            pc[d] = "run" => JobOf(held[d]) \in Jobs /\ JobOf(held[d]) # j /\ j \notin pool[d]
      BY <2>3, EntryParts DEF HeldCoherent, HasHeld, Running, OnePlace
    <2>7. \A d \in Consumers : j \notin pool[d]
      BY <2>3 DEF OnePlace
    <2> QED
      BY <1>l, <2>2, <2>4, <2>5, <2>6, <2>7, EntryParts DEF Counted, Fresh
  <1>5. ASSUME NEW c \in Consumers, Finish(c) PROVE Counted'
    <2> DEFINE j == JobOf(held[c])
    <2>1. /\ UNCHANGED <<main, held, pool, runs, submitted>> /\ pc[c] = "run" /\ pc'[c] # "run"
          /\ \A d \in Consumers : d # c => pc'[d] = pc[d]
          /\ done' = [done EXCEPT ![j] = @ + 1]
      BY <1>5 DEF Finish, Goto, TypeOK, redisVars
    <2>2. j \in Jobs /\ j \in submitted /\ done[j] = 0
      BY <2>1, EntryParts DEF HeldCoherent, HasHeld, OriginInv, Counted
    <2>3. done'[j] = 1 /\ \A k \in Jobs : k # j => done'[k] = done[k]
      BY <2>1, <2>2 DEF TypeOK
    <2>4. /\ \A e \in Entries : Holds(main, e) => JobOf(e) # j
          /\ \A d \in Consumers : j \notin pool[d] /\ (d # c => ~ Running(d, j))
      BY <2>1, <2>2 DEF OnePlace, Running
    <2>5. \A d \in Consumers : pc'[d] = "run" =>
            pc[d] = "run" /\ JobOf(held[d]) \in Jobs /\ JobOf(held[d]) # j
      BY <2>1, <2>4, EntryParts DEF HeldCoherent, HasHeld, Running
    <2> QED
      BY <1>l, <2>1, <2>2, <2>3, <2>4, <2>5, EntryParts DEF Counted, Fresh
  <1>6. ASSUME NEW c \in Consumers, Raise(c) PROVE Counted'
    <2> DEFINE h == held[c]
               j == JobOf(h)
               next == <<JobOf(h), AttemptsOf(h) + 1>>
    <2>1. h \in Entries /\ j \in Jobs /\ pc[c] = "run"
      BY <1>6, EntryParts DEF Raise, HeldCoherent, HasHeld
    <2>2. /\ UNCHANGED <<held, pool, runs, done, submitted>>
          /\ \A d \in Consumers : pc'[d] = "run" => pc[d] = "run"
      BY <1>6 DEF Raise, Goto, TypeOK
    <2>3. CASE UNCHANGED main
      BY <2>2, <2>3 DEF Counted, Fresh
    <2>4. CASE ~ LastAttempt(h) /\ Requeue(h)
      <3>1. /\ next \in Entries /\ JobOf(next) = j /\ AttemptsOf(next) = AttemptsOf(h) + 1
            /\ main' = Put(main, next)
        BY <2>1, <2>4, EntryParts DEF Requeue
      <3>2. \A f \in Entries : Holds(main', f) => f = next \/ Holds(main, f)
        BY <1>l, <3>1, PutFacts
      <3>3. done[j] = 0 /\ runs[j] = AttemptsOf(next)
        BY <2>1, <3>1 DEF Counted
      <3> QED
        BY <2>2, <3>1, <3>2, <3>3 DEF Counted, Fresh
    <2> QED
      BY <1>6, <2>3, <2>4 DEF Raise
  <1> QED
    BY IdleSteps, <1>1, <1>2, <1>3, <1>4, <1>5, <1>6

\* As long as there was no fault no two consumers have the same attempt, and a job
\* succeeds at most once and starts at most MaxAttempts times.
THEOREM OnceInCalm == Spec => []OnceWithoutFaults
  <1>1. BasicInv /\ FaultlessInv /\ [Next]_vars => FaultlessInv'
    BY NoFault, CalmStep, PlaceStep, CountStep DEF FaultlessInv
  <1>2. BasicInv /\ FaultlessInv => OnceWithoutFaults
    <2> SUFFICES ASSUME BasicInv, Calm, OnePlace, Counted
                 PROVE  /\ \A j \in Jobs : done[j] <= 1 /\ runs[j] <= MaxAttempts
                        /\ \A c \in Consumers : IsAlone(c)
      BY DEF FaultlessInv, OnceWithoutFaults
    <2> SUFFICES ASSUME NEW c \in Consumers, pc[c] = "run" PROVE IsAlone(c)
      BY DEF Counted, IsAlone
    <2>1. held[c] \in Entries /\ JobOf(held[c]) \in Jobs /\ Running(c, JobOf(held[c]))
      BY EntryParts DEF BasicInv, HeldCoherent, HasHeld, Running
    <2>2. Holds(processing[c], held[c])
      BY DEF Calm, HasHeld, Holds
    <2>3. \A e \in Entries : JobOf(e) = JobOf(held[c]) => ~ Holds(main, e)
      BY <2>1 DEF OnePlace
    <2>4. ASSUME NEW e \in Entries, JobOf(e) = JobOf(held[c]), NEW d \in Consumers \ {c},
                 Holds(processing[d], e)
          PROVE  pc[d] = "remove" /\ held[d] = e
      <3>1. HasHeld(d) /\ held[d] = e
        BY <2>4 DEF Calm
      <3>2. ~ Running(d, JobOf(held[c]))
        BY <2>1, <2>4 DEF OnePlace
      <3> QED
        BY <2>4, <3>1, <3>2 DEF HasHeld, Running
    <2> QED
      BY <2>2, <2>3, <2>4 DEF IsAlone
  <1> QED
    BY InitFaultless, BasicInvariant, <1>1, <1>2, PTL DEF Spec
=============================================================================
