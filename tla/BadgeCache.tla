---------------------------------- MODULE BadgeCache ----------------------------------
(***************************************************************************)
(* The badge count of one user in the caches of the worker processes       *)
(* (utils/badge_cache.py): requests that take a cached value or load one,  *)
(* the user's own reads, which drop it, and other people's acts, which do  *)
(* not. The count itself is what a query of the database would give.       *)
(***************************************************************************)
EXTENDS Integers

CONSTANTS Workers,       \* processes; each has a store of its own
          Requests,      \* requests of the user, threads of any worker
          TTL,           \* ticks; DEFAULT_TTL, MOBILE_BADGE_CACHE_TTL_SECONDS
          MaxCount, MaxTime

VARIABLES
  count,    \* what is unread
  clock,    \* monotonic time
  store,    \* the entry of each process: value and the time it expires
  req,      \* requests: where, and what they hold
  truth     \* history: the counts that held during each tick

vars == <<count, clock, store, req, truth>>

NoEntry == [value |-> 0, expires |-> 0]       \* expired from the beginning
NoReq == [pc |-> "idle", worker |-> CHOOSE w \in Workers : TRUE, now |-> 0, value |-> 0]

Init ==
  /\ count = 0 /\ clock = 0
  /\ store = [w \in Workers |-> NoEntry]
  /\ req = [r \in Requests |-> NoReq]
  /\ truth = [t \in 0 .. MaxTime |-> IF t = 0 THEN {0} ELSE {}]

Sees(n) == truth' = [truth EXCEPT ![clock] = @ \cup {n}]

Tick ==
  /\ clock < MaxTime
  /\ clock' = clock + 1
  /\ truth' = [truth EXCEPT ![clock + 1] = {count}]
  /\ UNCHANGED <<count, store, req>>

\* A message, an announcement, a change of status by somebody else.
Arrive ==
  /\ count < MaxCount
  /\ count' = count + 1 /\ Sees(count + 1)
  /\ UNCHANGED <<clock, store, req>>

\* get_or_set: an entry that has expired is as good as none.
Hit(w) == store[w].expires > clock

Miss(r, w) ==
  /\ req[r].pc = "idle" /\ ~ Hit(w)
  /\ req' = [req EXCEPT ![r] = [NoReq EXCEPT !.pc = "loading", !.worker = w, !.now = clock]]
  /\ UNCHANGED <<count, clock, store, truth>>

\* The loader runs outside the lock.
Load(r) ==
  /\ req[r].pc = "loading"
  /\ req' = [req EXCEPT ![r].pc = "loaded", ![r].value = count]
  /\ UNCHANGED <<count, clock, store, truth>>

\* Mutant: the time is taken when the value is stored.
StoreFromNow(r) ==
  /\ req[r].pc = "loaded"
  /\ store' = [store EXCEPT ![req[r].worker] = [value |-> req[r].value, expires |-> clock + TTL]]
  /\ req' = [req EXCEPT ![r] = NoReq]
  /\ UNCHANGED <<count, clock, truth>>

Store(r) ==
  /\ req[r].pc = "loaded"
  /\ store' = [store EXCEPT ![req[r].worker] = [value |-> req[r].value, expires |-> req[r].now + TTL]]
  /\ req' = [req EXCEPT ![r] = NoReq]
  /\ UNCHANGED <<count, clock, truth>>

\* The loader raises: nothing is cached.
LoadFails(r) ==
  /\ req[r].pc \in {"loading", "loaded"}
  /\ req' = [req EXCEPT ![r] = NoReq]
  /\ UNCHANGED <<count, clock, store, truth>>

\* The user reads: the receipts are committed, then the entry of this process is dropped.
Read(r, w) ==
  /\ req[r].pc = "idle" /\ count > 0
  /\ count' = 0 /\ Sees(0)
  /\ req' = [req EXCEPT ![r] = [NoReq EXCEPT !.pc = "read", !.worker = w]]
  /\ UNCHANGED <<clock, store>>

Invalidate(r) ==
  /\ req[r].pc = "read"
  /\ store' = [store EXCEPT ![req[r].worker] = NoEntry]
  /\ req' = [req EXCEPT ![r] = NoReq]
  /\ UNCHANGED <<count, clock, truth>>

Next ==
  \/ Tick \/ Arrive
  \/ \E r \in Requests :
       \/ \E w \in Workers : Miss(r, w) \/ Read(r, w)
       \/ Load(r) \/ Store(r) \/ LoadFails(r) \/ Invalidate(r)

Spec == Init /\ [][Next]_vars
-----------------------------------------------------------------------------
TypeOK ==
  /\ count \in 0 .. MaxCount /\ clock \in 0 .. MaxTime
  /\ store \in [Workers -> [value : 0 .. MaxCount, expires : 0 .. MaxTime + TTL]]
  /\ req \in [Requests -> [pc : {"idle", "loading", "loaded", "read"}, worker : Workers,
                           now : 0 .. MaxTime, value : 0 .. MaxCount]]

\* "a badge may lag reality by up to that long" (badge_cache.py): whatever a cache
\* still serves was the count at some moment less than TTL ago, however slow the loader.
LagIsBounded ==
  \A w \in Workers : Hit(w) =>
    \E t \in 0 .. clock : clock < t + TTL /\ store[w].value \in truth[t]
=============================================================================
