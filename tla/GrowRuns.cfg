SPECIFICATION FairSpec
CONSTANTS
  Start = 4
  GrowBy = 2
  MaxBlocks = 10
  MaxNeed = 4
INVARIANT BlocksBacked
PROPERTY CallsEnd
CHECK_DEADLOCK FALSE
