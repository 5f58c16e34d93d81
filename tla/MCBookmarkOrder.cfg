CONSTANTS
  NoState = NoState
  Base = 3
  Devices = {1, 2}
  Objects = {1, 2, 3}
  Own <- MCOwnBoth
  Keepers = {1}
  MaxChanges = 2
  MaxRestores = 1
SPECIFICATION Spec
INVARIANTS
  KeyIsBetween
  PointKeysAscend
PROPERTIES
  ImportKeepsOrder
  OneMoveKeepsOrder
CHECK_DEADLOCK FALSE
