SPECIFICATION Spec
CONSTANTS
  Devices = {"d1", "d2"}
  DevRank <- MCRank
  Ops <- MCOps
  NoOp = NoOp
  RequireEncryption = TRUE
  Quota = 1
  MaxBatch = 1
  PageLimit = 1
  MinNewOps = 1
  ChunkSize = 1
  MaxPruned = 2
  Lapsable = {"d2"}
  MaxOpen = 2
INVARIANTS
  BulkCountedOnce
  LedgerComplete
  PruningSafe
  BytesMatchLog
  NeverDeletedSurvives
  DeviceOrder
  QuotaOvershootBounded
PROPERTY
  ImplementsDurableLog
