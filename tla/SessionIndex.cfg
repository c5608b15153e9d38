SPECIFICATION Spec
CONSTANTS
  Procs = {p1}
  MaxSessions = 4
  MaxThreads = 3
  MaxLog = 5
  MaxCrashes = 1
  Nobody = Nobody
INVARIANTS
  ReloadIsProjection
  LiveIsProjection
  MessageKeepsItsSession
  ChatNotHijacked
CHECK_DEADLOCK FALSE
