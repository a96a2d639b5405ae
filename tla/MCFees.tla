---- MODULE MCFees ----
(* Small instances of Fees for TLC. *)
EXTENDS Fees
====
