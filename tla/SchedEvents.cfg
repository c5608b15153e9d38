SPECIFICATION Spec
CONSTANTS
  a = a
  b = b
  c = c
  s1 = s1
  s2 = s2
  New = New
  None = None
  Tasks = {a, b}
  Sessions = {s1, s2}
  NewSession = New
  InitFiles <- SomePolicies
  HasTimeout = {a}
  MaxRuns <- ACapped
  EndAt <- BEndsEarly
  MaxTime = 3
  Budgets <- Scenarios
INVARIANTS OncePerOccurrence LockHeldOnlyForRun EnabledHasFuture RecordedOnce NoTaskLost
CHECK_DEADLOCK FALSE
