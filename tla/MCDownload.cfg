SPECIFICATION DownloadSpec
CONSTANTS
  Devices = {"r"}
  DevRank <- MCRank
  Ops <- MCOps
  NoOp = NoOp
  RequireEncryption = TRUE
  Quota = 9
  MaxBatch = 1
  PageLimit = 4
  MinNewOps = 3
  ChunkSize = 4
  MaxPruned = 4
  Lapsable = {"r"}
  MaxOpen = 4
  Reader = "r"
  Unreadable <- MCUnreadable
  Newer <- MCNewer
  MarkChunk = 2
  MaxPages = 2
  LeftOver = 0
  MaxFaults = 1
INVARIANTS
  NothingSkipped
  ReapplyWindow
PROPERTY CatchesUp
