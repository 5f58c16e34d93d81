SPECIFICATION Spec
CONSTANTS
  MaxTabs = 3
  MaxSteps = 2
  MaxRearms = 1
  MaxCrashes = 1
  Theirs <- MCTheirs
  TheirGroup <- MCTheirGroup
CHECK_DEADLOCK FALSE
INVARIANTS
  TabsMirrored
  CreatedBeforeUpdated
  NotTakenForNew
  OneLocalGroup
