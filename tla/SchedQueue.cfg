SPECIFICATION FairSpec
CONSTANTS
  a = a
  b = b
  c = c
  s1 = s1
  s2 = s2
  New = New
  None = None
  Tasks = {a, b, c}
  Sessions = {s1}
  NewSession = New
  InitFiles <- TwoPolicies
  HasTimeout = {a}
  MaxRuns <- ACapped
  EndAt <- BEndsEarly
  MaxTime = 3
  Budgets <- Timeouts
INVARIANTS SessionExclusive CapRespected AbortsOwnTurn
PROPERTY QueueServed
CHECK_DEADLOCK FALSE
