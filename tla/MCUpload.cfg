SPECIFICATION ProtocolSpec
CONSTANTS
  Devices = {"d1"}
  DevRank <- MCRank
  Ops <- MCMixedOps
  Produced <- MCLocalOps
  NoOp = NoOp
  RequireEncryption = TRUE
  Quota = 9
  MaxBatch = 2
  PageLimit = 1
  MinNewOps = 1
  ChunkSize = 1
  MaxPruned = 2
  Lapsable = {}
  MaxOpen = 1
  MaxAttempts = 2
  MaxProducers = 1
  Callers = {"cycle", "import"}
  MaxFaults = 1
CHECK_DEADLOCK FALSE
INVARIANTS
  LossExplained
  InFlightOwned
PROPERTIES
  QueueDrains
