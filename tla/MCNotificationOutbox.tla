-------------------------- MODULE MCNotificationOutbox --------------------------
(* Small instances of NotificationOutbox for TLC. *)
EXTENDS NotificationOutbox

CONSTANTS e1, e2, mother, stranger, phone, tablet, here, elsewhere, w1, w2

MCSchoolOf == [u \in {mother, stranger} |-> IF u = mother THEN here ELSE elsewhere]
MCSchoolOfEvent == [e \in {e1, e2} |-> IF e = e1 THEN here ELSE elsewhere]
Of(u) == [owner |-> u, active |-> TRUE]
MCInitialDevices == {[t \in {phone, tablet} |-> IF t = phone THEN Of(mother) ELSE d] :
                       d \in {Of(mother), Of(stranger)}}
\* A parent who moved to another school is still linked to the pupil of e1, and
\* alone linked to the one of e2.
MCParents == [e \in {e1, e2} |-> IF e = e1 THEN {mother, stranger} ELSE {stranger}]
\* One parent with one phone, for the runs in which workers overrun their lease.
OnlySchoolOf == [u \in {mother} |-> here]
OnlyHere == [e \in {e1} |-> here]
OneParent == [e \in {e1} |-> {mother}]
OnePhone == {[t \in {phone} |-> Of(mother)]}
=============================================================================
