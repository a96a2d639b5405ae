------------------------------ MODULE DurableQueue ------------------------------
(***************************************************************************)
(* Background tasks: async_dispatch.submit hands a task to the durable     *)
(* Redis queue, to the process's thread pool, or runs it inline; one       *)
(* consumer thread per web process executes what is in Redis               *)
(* (services/async_dispatch.py, durable_queue.py, redis_client.py).        *)
(*                                                                         *)
(* A Redis list is a bag of entries <<job, attempts>>.  A process is named *)
(* by its consumer id; an id that has left nothing behind in Redis may be  *)
(* taken again and stands for a fresh one.  A tick is the 30 s a process   *)
(* leaves Redis alone after a failure; heartbeats live HeartbeatTTL ticks. *)
(***************************************************************************)
EXTENDS Naturals, FiniteSets

CONSTANTS Jobs, Registered, \* those of a @durable_task function
          Consumers, NoConsumer, NoEntry,
          Slots,             \* processes gunicorn keeps running
          MaxAttempts, HeartbeatTTL, ReclaimEvery,
          MaxPending,        \* the bound of the process's thread pool
          FaultKinds,        \* which faults a run may meet
          MaxFaults, MaxStops, MaxRuns
                             \* bounds: faults, orderly stops, executions of one job

AllFaultKinds == {"crash", "connection", "enqueue", "pop", "requeue", "remove", "slow"}

ASSUME QueueAssumption ==
  /\ Registered \subseteq Jobs /\ NoConsumer \notin Consumers
  /\ Slots \in Nat /\ MaxAttempts \in Nat \ {0}
  /\ HeartbeatTTL \in Nat \ {0} /\ ReclaimEvery \in Nat /\ MaxPending \in Nat
  /\ FaultKinds \subseteq AllFaultKinds /\ MaxFaults \in Nat
  /\ MaxStops \in Nat /\ MaxRuns \in Nat

Entries == Jobs \X (0 .. MaxAttempts - 1)
ASSUME NoEntryAssumption == NoEntry \notin Entries
JobOf(e) == e[1]
AttemptsOf(e) == e[2]

VARIABLES
  submitted,   \* jobs some request handed to submit
  main,        \* the queue in Redis
  processing,  \* each consumer's processing list in Redis
  alive,       \* what is left of each consumer's heartbeat key
  pc,          \* where each consumer's loop is; "off": no such process
  stopping,    \* processes told to stop
  held,        \* the entry a consumer executes
  target,      \* the consumer whose list it is taking back
  sinceScan,   \* ticks since its last orphan scan (a new loop scans at once)
  down,        \* processes in the cooldown of mark_failed
  pool,        \* what waits in each process's thread pool
  queued,      \* jobs Redis has accepted
  runs,        \* executions of each job begun
  done,        \* those that ended without an exception
  dropped,     \* jobs given up by _handle_failure
  faults, stops

redisVars == <<main, processing, alive>>
loopVars == <<pc, stopping, held, target, sinceScan>>
ledgerVars == <<queued, runs, done, dropped>>
vars == <<submitted, redisVars, loopVars, down, pool, ledgerVars, faults, stops>>

Live == {c \in Consumers : pc[c] # "off"}
Put(list, e) == [list EXCEPT ![e] = @ + 1]
\* LREM of one entry, which leaves a list without it alone.
Take(list, e) == [list EXCEPT ![e] = IF @ = 0 THEN 0 ELSE @ - 1]
Holds(list, e) == list[e] > 0
IsEmpty(list) == \A e \in Entries : ~ Holds(list, e)
EmptyList == [e \in Entries |-> 0]

Init ==
  /\ submitted = {}
  /\ main = EmptyList
  /\ processing = [c \in Consumers |-> EmptyList]
  /\ alive = [c \in Consumers |-> 0]
  /\ pc = [c \in Consumers |-> "off"]
  /\ stopping = {}
  /\ held = [c \in Consumers |-> NoEntry]
  /\ target = [c \in Consumers |-> NoConsumer]
  /\ sinceScan = [c \in Consumers |-> ReclaimEvery]
  /\ down = {}
  /\ pool = [c \in Consumers |-> {}]
  /\ queued = {} /\ dropped = {}
  /\ runs = [j \in Jobs |-> 0]
  /\ done = [j \in Jobs |-> 0]
  /\ faults = 0 /\ stops = 0

Fault(kind) ==
  /\ kind \in FaultKinds
  /\ faults < MaxFaults
  /\ faults' = faults + 1
  /\ UNCHANGED stops
-----------------------------------------------------------------------------
(* async_dispatch.submit, from a request that process c serves. *)

\* One execution outside the queue; an exception is logged and forgotten.
RunOnce(j) ==
  /\ runs' = [runs EXCEPT ![j] = @ + 1]
  /\ \/ done' = [done EXCEPT ![j] = @ + 1]
     \/ UNCHANGED done

\* The thread pool, or the caller's own thread when the pool is full or gone.
FallBack(c, j) ==
  \/ /\ Cardinality(pool[c]) < MaxPending /\ c \notin stopping
     /\ pool' = [pool EXCEPT ![c] = @ \cup {j}]
     /\ UNCHANGED <<runs, done>>
  \/ /\ Cardinality(pool[c]) >= MaxPending \/ c \in stopping
     /\ RunOnce(j)
     /\ UNCHANGED pool

PushNew(j) ==
  /\ main' = Put(main, <<j, 0>>)
  /\ queued' = queued \cup {j}

Submit(c, j) ==
  /\ c \in Live /\ j \notin submitted
  /\ submitted' = submitted \cup {j}
  /\ \/ /\ j \in Registered /\ c \notin down
        /\ PushNew(j)
        /\ UNCHANGED <<down, pool, runs, done, faults, stops>>
     \/ /\ j \notin Registered \/ c \in down
        /\ FallBack(c, j)
        /\ UNCHANGED <<main, queued, down, faults, stops>>
     \/ \* LPUSH raises, after Redis has run it or instead
        /\ j \in Registered /\ c \notin down /\ Fault("enqueue")
        /\ PushNew(j) \/ UNCHANGED <<main, queued>>
        /\ down' = down \cup {c}
        /\ FallBack(c, j)
  /\ UNCHANGED <<processing, alive, loopVars, dropped>>

RunPooled(c) ==
  /\ c \in Live
  /\ \E j \in pool[c] : RunOnce(j) /\ pool' = [pool EXCEPT ![c] = @ \ {j}]
  /\ UNCHANGED <<submitted, redisVars, loopVars, down, queued, dropped, faults, stops>>
-----------------------------------------------------------------------------
(* One iteration of _consumer_loop. *)

Goto(c, step) == pc' = [pc EXCEPT ![c] = step]

\* Renew the heartbeat, then scan for orphans when it is time to.
Heartbeat(c) ==
  /\ pc[c] = "top" /\ c \notin stopping /\ c \notin down
  /\ alive' = [alive EXCEPT ![c] = HeartbeatTTL]
  /\ IF sinceScan[c] >= ReclaimEvery
     THEN Goto(c, "scan") /\ sinceScan' = [sinceScan EXCEPT ![c] = 0]
     ELSE Goto(c, "pop") /\ UNCHANGED sinceScan
  /\ UNCHANGED <<submitted, main, processing, stopping, held, target, down, pool,
                 ledgerVars, faults, stops>>

\* Mistakes: every other consumer's list is an orphan; the key read the wrong
\* way round.
AnyOther(c, d) == d # c /\ ~ IsEmpty(processing[d])
OtherAndAlive(c, d) == AnyOther(c, d) /\ alive[d] > 0
IsOrphan(c, d) == d # c /\ alive[d] = 0 /\ ~ IsEmpty(processing[d])

PickOrphan(c) ==
  /\ pc[c] = "scan" /\ target[c] = NoConsumer
  /\ \E d \in Consumers : IsOrphan(c, d) /\ target' = [target EXCEPT ![c] = d]
  /\ UNCHANGED <<submitted, redisVars, pc, stopping, held, sinceScan, down, pool,
                 ledgerVars, faults, stops>>

\* RPOPLPUSH until the list is empty; the heartbeat is not looked at again.
MoveOrphan(c) ==
  LET d == target[c] IN
  /\ pc[c] = "scan" /\ d # NoConsumer
  /\ IF IsEmpty(processing[d])
     THEN target' = [target EXCEPT ![c] = NoConsumer] /\ UNCHANGED <<main, processing>>
     ELSE /\ \E e \in Entries :
               /\ Holds(processing[d], e)
               /\ main' = Put(main, e)
               /\ processing' = [processing EXCEPT ![d] = Take(@, e)]
          /\ UNCHANGED target
  /\ UNCHANGED <<submitted, alive, pc, stopping, held, sinceScan, down, pool,
                 ledgerVars, faults, stops>>

EndScan(c) ==
  /\ pc[c] = "scan" /\ target[c] = NoConsumer
  /\ \A d \in Consumers : ~ IsOrphan(c, d)
  /\ Goto(c, "pop")
  /\ UNCHANGED <<submitted, redisVars, stopping, held, target, sinceScan, down, pool,
                 ledgerVars, faults, stops>>

\* A mistake: a plain pop, which keeps the entry in the consumer's memory only.
PopToMemory(c, e) == Holds(main, e) /\ main' = Take(main, e) /\ UNCHANGED processing

\* BRPOPLPUSH: the entry moves to the consumer's own processing list.
MoveToOwnList(c, e) ==
  /\ Holds(main, e)
  /\ main' = Take(main, e)
  /\ processing' = [processing EXCEPT ![c] = Put(@, e)]

Pop(c) ==
  /\ pc[c] = "pop"
  /\ \E e \in Entries :
       /\ runs[JobOf(e)] < MaxRuns
       /\ MoveToOwnList(c, e)
       /\ held' = [held EXCEPT ![c] = e]
       /\ runs' = [runs EXCEPT ![JobOf(e)] = @ + 1]
  /\ Goto(c, "run")
  /\ UNCHANGED <<submitted, alive, stopping, target, sinceScan, down, pool, queued,
                 done, dropped, faults, stops>>

PopNothing(c) ==
  /\ pc[c] = "pop"
  /\ \A e \in Entries : Holds(main, e) => runs[JobOf(e)] >= MaxRuns
  /\ Goto(c, "top")
  /\ UNCHANGED <<submitted, redisVars, stopping, held, target, sinceScan, down, pool,
                 ledgerVars, faults, stops>>

Finish(c) ==
  /\ pc[c] = "run"
  /\ done' = [done EXCEPT ![JobOf(held[c])] = @ + 1]
  /\ Goto(c, "remove")
  /\ UNCHANGED <<submitted, redisVars, stopping, held, target, sinceScan, down, pool,
                 queued, runs, dropped, faults, stops>>

Requeue(e) == main' = Put(main, <<JobOf(e), AttemptsOf(e) + 1>>)
GiveUp(e) == dropped' = dropped \cup {JobOf(e)}

\* Mistake: one attempt fewer.
LastAttemptTooEarly(e) == AttemptsOf(e) + 2 >= MaxAttempts
LastAttempt(e) == AttemptsOf(e) + 1 >= MaxAttempts

\* _handle_failure: back into the queue, unless this was the last attempt.
Raise(c) ==
  /\ pc[c] = "run"
  /\ IF LastAttempt(held[c]) THEN GiveUp(held[c]) /\ UNCHANGED main
                             ELSE Requeue(held[c]) /\ UNCHANGED dropped
  /\ Goto(c, "remove")
  /\ UNCHANGED <<submitted, processing, alive, stopping, held, target, sinceScan,
                 down, pool, queued, runs, done, faults, stops>>

\* LREM of the entry it popped, which may have been taken back meanwhile.
Remove(c) ==
  /\ pc[c] = "remove"
  /\ processing' = [processing EXCEPT ![c] = Take(@, held[c])]
  /\ held' = [held EXCEPT ![c] = NoEntry]
  /\ Goto(c, "top")
  /\ UNCHANGED <<submitted, main, alive, stopping, target, sinceScan, down, pool,
                 ledgerVars, faults, stops>>
-----------------------------------------------------------------------------
(* What can fail in it. *)

\* A command that Redis has not run raises: cooldown, and the loop starts again.
LoseConnection(c) ==
  /\ pc[c] \in {"top", "pop"} /\ c \notin down /\ Fault("connection")
  /\ Goto(c, "top")
  /\ down' = down \cup {c}
  /\ UNCHANGED <<submitted, redisVars, stopping, held, target, sinceScan, pool,
                 ledgerVars>>

\* An exception inside the scan only ends the scan.
FailScan(c) ==
  /\ pc[c] = "scan" /\ Fault("connection")
  /\ Goto(c, "pop")
  /\ target' = [target EXCEPT ![c] = NoConsumer]
  /\ UNCHANGED <<submitted, redisVars, stopping, held, sinceScan, down, pool, ledgerVars>>

\* Redis moves the entry and the answer is lost: nobody executes it, and it
\* stays in the list of a consumer that lives on.
LosePopReply(c) ==
  /\ pc[c] = "pop" /\ Fault("pop")
  /\ \E e \in Entries : MoveToOwnList(c, e)
  /\ Goto(c, "top")
  /\ down' = down \cup {c}
  /\ UNCHANGED <<submitted, alive, stopping, held, target, sinceScan, pool, ledgerVars>>

\* The LPUSH of a retry raises, after Redis has run it or instead; the job is
\* given up as if it had no attempt left.
FailToRequeue(c) ==
  /\ pc[c] = "run" /\ ~ LastAttempt(held[c]) /\ Fault("requeue")
  /\ Requeue(held[c]) \/ UNCHANGED main
  /\ GiveUp(held[c])
  /\ Goto(c, "remove")
  /\ down' = down \cup {c}
  /\ UNCHANGED <<submitted, processing, alive, stopping, held, target, sinceScan,
                 pool, queued, runs, done>>

FailToRemove(c) ==
  /\ pc[c] = "remove" /\ Fault("remove")
  /\ held' = [held EXCEPT ![c] = NoEntry]
  /\ Goto(c, "top")
  /\ down' = down \cup {c}
  /\ UNCHANGED <<submitted, redisVars, stopping, target, sinceScan, pool, ledgerVars>>
-----------------------------------------------------------------------------
(* Processes and time. *)

Start(c) ==
  /\ c \notin Live /\ Cardinality(Live) < Slots
  /\ alive[c] = 0 /\ IsEmpty(processing[c])
  /\ \A d \in Consumers : target[d] # c
  /\ Goto(c, "top")
  /\ UNCHANGED <<submitted, redisVars, stopping, held, target, sinceScan, down, pool,
                 ledgerVars, faults, stops>>

SignalStop(c) ==
  /\ c \in Live /\ c \notin stopping /\ stops < MaxStops
  /\ stopping' = stopping \cup {c} /\ stops' = stops + 1
  /\ UNCHANGED <<submitted, redisVars, pc, held, target, sinceScan, down, pool,
                 ledgerVars, faults>>

\* The consumer drops its heartbeat, and the pool is drained before the
\* interpreter exits.
Exit(c) ==
  /\ pc[c] = "top" /\ c \in stopping /\ pool[c] = {}
  /\ Goto(c, "off")
  /\ stopping' = stopping \ {c}
  /\ down' = down \ {c}
  /\ alive' = IF c \in down THEN alive ELSE [alive EXCEPT ![c] = 0]
  /\ sinceScan' = [sinceScan EXCEPT ![c] = ReclaimEvery]
  /\ UNCHANGED <<submitted, main, processing, held, target, pool, ledgerVars, faults, stops>>

Crash(c) ==
  /\ c \in Live /\ Fault("crash")
  /\ Goto(c, "off")
  /\ stopping' = stopping \ {c}
  /\ down' = down \ {c}
  /\ held' = [held EXCEPT ![c] = NoEntry]
  /\ target' = [target EXCEPT ![c] = NoConsumer]
  /\ sinceScan' = [sinceScan EXCEPT ![c] = ReclaimEvery]
  /\ pool' = [pool EXCEPT ![c] = {}]
  /\ UNCHANGED <<submitted, redisVars, ledgerVars>>

\* A tick during which the heartbeats of the consumers in S run out, those
\* waiting out a cooldown aside.
PassTime(S) ==
  /\ S = {c \in Live : alive[c] = 1 /\ ~ (c \in down /\ pc[c] = "top")}
  /\ alive' = [c \in Consumers |-> IF alive[c] = 0 THEN 0 ELSE alive[c] - 1]
  /\ sinceScan' = [c \in Consumers |-> IF sinceScan[c] >= ReclaimEvery THEN ReclaimEvery
                                       ELSE sinceScan[c] + 1]
  /\ down' = {}
  /\ UNCHANGED <<submitted, main, processing, pc, stopping, held, target, pool, ledgerVars>>

\* An idle loop renews its heartbeat every few seconds, so does one whose jobs
\* are short.
Tick == PassTime({}) /\ UNCHANGED <<faults, stops>>

\* A job outlasts the heartbeat of its consumer.
OverrunHeartbeat ==
  /\ Fault("slow")
  /\ \E S \in SUBSET Live \ {{}} : PassTime(S) /\ \A c \in S : pc[c] = "run"

ConsumerStep(c) ==
  \/ Heartbeat(c) \/ PickOrphan(c) \/ MoveOrphan(c) \/ EndScan(c)
  \/ Pop(c) \/ PopNothing(c) \/ Finish(c) \/ Raise(c) \/ Remove(c) \/ Exit(c)

ConsumerFault(c) ==
  \/ LoseConnection(c) \/ FailScan(c) \/ LosePopReply(c)
  \/ FailToRequeue(c) \/ FailToRemove(c) \/ Crash(c)

Next ==
  \/ \E c \in Consumers, j \in Jobs : Submit(c, j)
  \/ \E c \in Consumers :
       \/ RunPooled(c) \/ ConsumerStep(c) \/ ConsumerFault(c)
       \/ Start(c) \/ SignalStop(c)
  \/ Tick \/ OverrunHeartbeat

Spec == Init /\ [][Next]_vars

\* Threads run, time passes and gunicorn keeps its processes up.  Nothing obliges
\* a request to come, a process to be stopped or a fault to happen.
Fairness ==
  /\ WF_vars(Tick)
  /\ \A c \in Consumers :
       /\ WF_vars(ConsumerStep(c)) /\ WF_vars(RunPooled(c))
       /\ WF_vars(Start(c))

LiveSpec == Spec /\ Fairness
-----------------------------------------------------------------------------
(* Properties. *)

TypeOK ==
  /\ submitted \subseteq Jobs /\ queued \subseteq submitted /\ dropped \subseteq Jobs
  /\ main \in [Entries -> Nat]
  /\ processing \in [Consumers -> [Entries -> Nat]]
  /\ alive \in [Consumers -> 0 .. HeartbeatTTL]
  /\ pc \in [Consumers -> {"off", "top", "scan", "pop", "run", "remove"}]
  /\ stopping \subseteq Consumers /\ down \subseteq Consumers
  /\ held \in [Consumers -> Entries \cup {NoEntry}]
  /\ target \in [Consumers -> Consumers \cup {NoConsumer}]
  /\ sinceScan \in [Consumers -> 0 .. ReclaimEvery]
  /\ pool \in [Consumers -> SUBSET Jobs]
  /\ runs \in [Jobs -> Nat] /\ done \in [Jobs -> Nat]
  /\ faults \in 0 .. MaxFaults /\ stops \in 0 .. MaxStops

InRedis(j) ==
  \E e \in Entries : JobOf(e) = j /\ \/ Holds(main, e)
                                     \/ \E c \in Consumers : Holds(processing[c], e)
Settled(j) == done[j] > 0 \/ j \in dropped

\* "Queued jobs are durable in Redis until executed": whatever crashes, fails or
\* is taken back, a job Redis accepted is in one of its lists until an execution
\* has succeeded or the job was given up.
DurableUntilSettled == \A j \in queued : InRedis(j) \/ Settled(j)

\* The job a consumer executes is nowhere else in Redis, but for the entry of an
\* earlier attempt that its consumer is about to remove.
IsAlone(c) ==
  pc[c] = "run" =>
    /\ Holds(processing[c], held[c])
    /\ \A e \in Entries : JobOf(e) = JobOf(held[c]) =>
         /\ ~ Holds(main, e)
         /\ \A d \in Consumers \ {c} :
              Holds(processing[d], e) => pc[d] = "remove" /\ held[d] = e

\* Without a fault (a crash, a lost reply, a job longer than its heartbeat) no two
\* consumers have the same attempt, and a job succeeds at most once and starts at
\* most MaxAttempts times, however consumers pop, scan, retry, stop and start.
OnceWithoutFaults ==
  faults = 0 => /\ \A j \in Jobs : done[j] <= 1 /\ runs[j] <= MaxAttempts
                /\ \A c \in Consumers : IsAlone(c)

\* "A job that raises is retried up to DURABLE_QUEUE_MAX_ATTEMPTS total
\* attempts": it is given up only after that many executions, or in the very
\* step in which putting it back fails.
GivenUpOnlyWhenExhausted ==
  [][\A j \in dropped' \ dropped : runs[j] >= MaxAttempts \/ faults' # faults]_vars

\* The same without the exception for a failed LPUSH.
RetriedToTheEnd == \A j \in dropped : runs[j] >= MaxAttempts

\* "A consumer is dead when its heartbeat key has expired": entries are taken
\* only from the lists of processes that are gone. It does not hold: a job may
\* last longer than the heartbeat of the consumer that executes it.
OnlyDeadAreReclaimed ==
  [][\A d \in Consumers :
       main' # main /\ (\E e \in Entries : processing'[d][e] < processing[d][e])
         => pc[d] = "off"]_vars

\* A job Redis accepted ends: it is executed again and again (the model counts
\* up to MaxRuns) until an execution succeeds or the job is given up.
EventuallySettled == \A j \in Jobs : j \in queued ~> Settled(j) \/ runs[j] >= MaxRuns
=============================================================================
