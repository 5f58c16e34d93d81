SPECIFICATION ProtocolSpec
CONSTANTS
  Devices = {"d1"}
  DevRank <- MCRank
  Ops <- MCRetryOps
  Produced <- MCRetryOps
  NoOp = NoOp
  RequireEncryption = TRUE
  Quota = 9
  MaxBatch = 2
  PageLimit = 1
  MinNewOps = 1
  ChunkSize = 1
  MaxPruned = 2
  Lapsable = {}
  MaxOpen = 1
  MaxAttempts = 2
  MaxProducers = 1
  Callers = {"cycle"}
  MaxFaults = 0
CHECK_DEADLOCK FALSE
INVARIANTS
  NoLostOperation
