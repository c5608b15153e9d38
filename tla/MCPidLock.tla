----------------------------- MODULE MCPidLock -----------------------------
(* Instances of PidLock for TLC. *)
EXTENDS PidLock, TLC

CONSTANTS p1, p2, p3

Pids == {p1, p2, p3}
PidSymmetry == Permutations(Pids)
=============================================================================
