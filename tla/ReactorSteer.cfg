SPECIFICATION FairSpec
CONSTANTS
  t1 = t1
  t2 = t2
  Tools <- OneTool
  Sigs <- OneSig
  LoopLimit = 2
  MaxAttempts = 1
  BeforeAgentStart = TRUE
  ApprovalHandler = TRUE
  AutoCompaction = FALSE
  CompactWhen = {}
  MicroInputs = FALSE
  MaxMsgs = 3
  MaxAborts = 1
  MaxCompacts = 0
  MaxEdits = 1
INVARIANTS
  OneTurnAtATime
  AnsweredAtMostOnce
  NoStrandedFollowUp
  NoMessageLost
PROPERTIES
  DroppedStaysDropped
  PromptSettles
CHECK_DEADLOCK FALSE
