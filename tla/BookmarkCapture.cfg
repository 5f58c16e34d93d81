SPECIFICATION Spec
CONSTANTS
  Before = 1
  MaxNodes = 2
  MaxUser = 2
  MaxDisturb = 1
CHECK_DEADLOCK FALSE
INVARIANTS
  
  NoEcho
