SPECIFICATION Spec
CONSTANTS
  p1 = p1
  p2 = p2
  p3 = p3
  Absent = Absent
  Empty = Empty
  Procs <- Pids
  MaxAttempts = 4
  MaxCrashes = 2
SYMMETRY PidSymmetry
INVARIANTS ExclusiveInSequence
PROPERTIES RefusedByHolder
CHECK_DEADLOCK FALSE
