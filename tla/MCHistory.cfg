SPECIFICATION Spec
CONSTANTS
  a = a
  b = b
  Urls <- MCUrls
  Theirs <- MCTheirs
  Installed <- MCInstalled
  MaxTime = 4
  PageSize = 1
  ChunkVisits = 2
  Cutoffs = {1, 2}
  MaxFaults = 1
CHECK_DEADLOCK FALSE
INVARIANTS
  ImportsExactlyOnce
  ReplayHarmless
PROPERTY
  ImportCompletes
