------------------------------------- MODULE MCChat -------------------------------------
(* A room with two people, one of whom has a page and a phone. *)
EXTENDS Chat

CONSTANTS wanda, ann, tab, phone

OwnerOf == [d \in Tabs \cup Phones |-> wanda]
=============================================================================
