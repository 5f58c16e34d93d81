SPECIFICATION Spec
CONSTANTS
  Folders = {1, 2}
  Bookmarks = {3, 4}
  Managed = {4}
  Titles = {"t"}
  Urls = {"web", "js"}
  Unsyncable = {"js"}
  Starts <- MCStarts
  MaxPerAccount = 2
  MaxPinned = 2
  MaxAttempts = 2
  MassDelete = 2
  NoNodes = NoNodes
  ChunkSize = 1
  Modes = {"merge", "exact"}
  Scopes = {0, 2}
CHECK_DEADLOCK FALSE
INVARIANTS
  RestoreReached
  NeverRefused
  Undoable
  PointsValid
PROPERTIES
  JobSettles
  OutboxDrains
