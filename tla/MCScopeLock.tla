---------------------------- MODULE MCScopeLock ----------------------------
(* Instances of ScopeLock for TLC. *)
EXTENDS ScopeLock

CONSTANTS p1, p2, p3

ThreePids == {p1, p2, p3}
=============================================================================
