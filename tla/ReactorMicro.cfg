SPECIFICATION Spec
CONSTANTS
  t1 = t1
  t2 = t2
  Tools <- TwoTools
  Sigs <- TwoSigs
  LoopLimit = 2
  MaxAttempts = 1
  BeforeAgentStart = TRUE
  ApprovalHandler = TRUE
  AutoCompaction = TRUE
  CompactWhen = {"idle","busy"}
  MicroInputs = TRUE
  MaxMsgs = 2
  MaxAborts = 1
  MaxCompacts = 1
  MaxEdits = 1
INVARIANTS
  RetryNeverStranded
  LoopDetectedForOwnRounds
CHECK_DEADLOCK FALSE
