SPECIFICATION Spec
CONSTANTS
  Objects = {f, b}
  Folders = {f}
  Root = Root
  Stray = Stray
  NoState = NoState
  Slice = 1
  Chunk = 2
  MaxFeed = 3
  MaxDisturb = 1
CHECK_DEADLOCK FALSE
PROPERTY
  EveryBatchCompletes
INVARIANTS
  LossBoundedBySlice
  NoTwins
