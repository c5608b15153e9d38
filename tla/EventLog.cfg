SPECIFICATION Spec
CONSTANTS
  p1 = p1
  p2 = p2
  Procs <- Pair
  Keys = {1}
  NoKey = NoKey
  None = None
  MaxEvents = 3
  MaxSubs <- OneListens
  MaxTries = 1
  MaxFaults = 1
INVARIANTS
  ToldOnce
  NeverCollides
PROPERTIES
  IsAppendOnlyLog
CHECK_DEADLOCK FALSE
