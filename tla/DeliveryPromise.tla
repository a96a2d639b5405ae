----------------------------- MODULE DeliveryPromise -----------------------------
(***************************************************************************)
(* What the notification outbox promises for each push job, with no word   *)
(* about tables, workers, leases or retries: a job that is queued is       *)
(* delivered or visibly fails, it is delivered only if Firebase accepted   *)
(* it, and its fate never changes once decided                             *)
(* (models.NotificationOutbox: "durable at-least-once delivery").          *)
(***************************************************************************)
CONSTANT Jobs

VARIABLES fate,      \* what is known of each job
          acceptedBy \* the jobs Firebase accepted at least once

vars == <<fate, acceptedBy>>

Init == fate = [k \in Jobs |-> "unknown"] /\ acceptedBy = {}

Fates == {"unknown", "queued", "delivered", "failed"}

\* A business change enqueues its jobs together.
Enqueue ==
  /\ fate' \in [Jobs -> Fates]
  /\ \A k \in Jobs : \/ fate'[k] = fate[k]
                     \/ fate[k] = "unknown" /\ fate'[k] = "queued"
  /\ UNCHANGED acceptedBy

Accept == \E k \in Jobs : acceptedBy' = acceptedBy \cup {k} /\ UNCHANGED fate

Decide(verdict) ==
  \E k \in Jobs :
    /\ fate[k] = "queued"
    /\ verdict = "delivered" => k \in acceptedBy
    /\ fate' = [fate EXCEPT ![k] = verdict]
    /\ UNCHANGED acceptedBy

\* Retention forgets delivered jobs; deleting a registration, any of its jobs.
Forget ==
  /\ fate' \in [Jobs -> Fates]
  /\ \A k \in Jobs : fate'[k] \in {fate[k], "unknown"}
  /\ UNCHANGED acceptedBy

Next == Enqueue \/ Accept \/ Decide("delivered") \/ Decide("failed") \/ Forget

Spec == Init /\ [][Next]_vars
=============================================================================
