SPECIFICATION FairSpec
CONSTANTS
  r1 = r1
  r2 = r2
  r3 = r3
  Requests = {r1, r2, r3}
  Agents <- TwoAgents
  None = None
  User = User
  InitKinds <- Mixes
  Budgets <- Scenarios
INVARIANTS
  OneServingAgent
  DeliveredOnce
  AckMeansTaken
  
PROPERTIES
  TellAnswered
CHECK_DEADLOCK FALSE
