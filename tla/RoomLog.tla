------------------------------------ MODULE RoomLog ------------------------------------
(***************************************************************************)
(* What a chat room promises to a reader that follows it with a cursor: the *)
(* messages form one growing log, and what the reader has received is at   *)
(* every moment a prefix of it. Nothing is skipped, repeated or reordered. *)
(***************************************************************************)
EXTENDS Sequences, Naturals

CONSTANTS Messages, Readers

VARIABLES log, got
vars == <<log, got>>

Init == log = <<>> /\ got = [r \in Readers |-> <<>>]

Write ==
  \E m \in Messages :
    /\ \A i \in DOMAIN log : log[i] # m
    /\ log' = Append(log, m) /\ UNCHANGED got

Read(r) ==
  \E n \in Len(got[r]) + 1 .. Len(log) :
    got' = [got EXCEPT ![r] = SubSeq(log, 1, n)] /\ UNCHANGED log

Next == Write \/ \E r \in Readers : Read(r)

Spec == Init /\ [][Next]_vars
=============================================================================
