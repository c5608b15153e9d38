SPECIFICATION FairSpec
CONSTANTS
  p1 = p1
  p2 = p2
  p3 = p3
  Absent = Absent
  Empty = Empty
  Procs <- ThreePids
  MaxLoads = 4
  MaxCrashes = 1
  MaxLapses = 1
  MaxOverlaps = 2
INVARIANTS OneEngineInSequence
PROPERTIES DoubleDispatchEnds
CHECK_DEADLOCK FALSE
