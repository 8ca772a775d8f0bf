--------------------------- MODULE MCPermission ---------------------------
(* Permission on a small instance: two requests of one Session, about two *)
(* actions.  Only the first can be saved, so only a ruling about read can  *)
(* stand against an approval; edit can be let go by a ruling alone.        *)
EXTENDS Permission

CONSTANTS q1, q2, s1, read, edit, p1, p2

MCSessionOf == [q \in Request |-> s1]
MCActions   == [q \in Request |-> IF q = q2 THEN {read, edit} ELSE {read}]
MCEdits     == [a \in Action |-> IF a = read THEN {"deny", "insist"} ELSE {"allow"}]
=============================================================================
