CONSTANTS
  InitCount = 4
  Window = 3
  BitmapBits = 6
  GrowBy = 2
  MaxCount = 6
SPECIFICATION FairSpec
INVARIANTS TypeOK FoundIsFree NospcJustified
PROPERTY AllocReturns
