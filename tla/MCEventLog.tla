------------------------------ MODULE MCEventLog ------------------------------
(* Instances of EventLog for TLC. *)
EXTENDS EventLog

CONSTANTS p1, p2

Pair == {p1, p2}
\* One process with subscribers, one that only writes.
OneListens == [p \in Pair |-> IF p = p1 THEN 2 ELSE 0]
=============================================================================
