----------------------------- MODULE MCBackups -----------------------------
(* Backups for TLC: one hosting, one thread of each kind unless a cfg       *)
(* leaves a kind out.                                                       *)
EXTENDS Backups

CONSTANTS h1, sched, req1, janitor, admin, client, e1, e2, m1, r1, r2

LimitOne == [h \in Hostings |-> 1]

\* The bodies of pause, resume, and of a change of another field.
Body(field, v) == [f \in {"paused", "automatic"} |-> IF f = field THEN {v} ELSE {}]
Bodies == {Body("paused", TRUE), Body("paused", FALSE), Body("automatic", FALSE)}
=============================================================================
