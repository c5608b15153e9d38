SPECIFICATION FairSpec
CONSTANTS
  Daemons = {1, 2}
  Channels = {"ch"}
  RespawnMax = 1
  MaxAlive = 3
  Bounds <- Few
  Clients = {"tool", "channel"}
  Version <- Versions
  Asks = {"tool"}
  Nobody = 0
  CloseUnlinks = TRUE
  MaxEnsures = 1
INVARIANTS
  KnownOrTold
  OnlyTheKilledLeak
PROPERTIES
  OneGatewayRemains
  CrashedComesBack
CHECK_DEADLOCK FALSE
