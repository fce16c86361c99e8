SPECIFICATION Spec
CONSTANTS
  Start = 4
  GrowBy = 2
  MaxBlocks = 10
  MaxNeed = 4
INVARIANT GrownIsStored
CHECK_DEADLOCK FALSE
