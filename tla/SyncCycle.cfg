SPECIFICATION Spec
CONSTANTS
  Calls = {c1, c2}
  MaxChained = 2
  PageLimit = 1
  MaxChanges = 2
  MaxFaults = 2
INVARIANTS
  SlotNeverLost
PROPERTIES
  ChangesArrive
