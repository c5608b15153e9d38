SPECIFICATION Spec
CONSTANTS
  NumFacades = 1
  MaxCalls = 2
  MaxLog = 5
  MaxCrashes = 2
  MaxCuts = 2
  Budgets = {0, 1, 2, 3}
  None = None
INVARIANTS
  ContextWellFormed
  CallsArePaired
  NothingForgotten
CHECK_DEADLOCK FALSE
