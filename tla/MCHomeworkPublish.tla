--------------------------- MODULE MCHomeworkPublish ---------------------------
(* Small instances of HomeworkPublish for TLC. *)
EXTENDS HomeworkPublish

CONSTANTS teacher, w1, operator

TwoHomeworks == {1, 2}
=============================================================================
