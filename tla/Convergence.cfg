SPECIFICATION Spec
CONSTANTS
  Devices = {1, 2}
  Kinds = {"update", "move", "delete"}
  NoOp = NoOp
  NoState = NoState
  MaxChanges = 2
  MaxRestores = 1
  MaxFolds = 1
CHECK_DEADLOCK FALSE
INVARIANTS
  Converges
  SnapshotHonoursDelete
