---------------------------- MODULE MCDurableQueue ----------------------------
(* TLC instances of DurableQueue. *)
EXTENDS DurableQueue, TLC

Interchangeable == Permutations(Consumers) \cup Permutations(Jobs)
=============================================================================
