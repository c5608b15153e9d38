SPECIFICATION Spec
CONSTANTS
  NumFacades = 2
  MaxCalls = 1
  MaxLog = 5
  MaxCrashes = 0
  MaxCuts = 2
  Budgets = {}
  None = None
INVARIANTS
  ContextWellFormed
CHECK_DEADLOCK FALSE
