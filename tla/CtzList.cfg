CONSTANTS
  BlockSize = 8
  PtrSize = 1
  Bits = 5
  Blocks <- MCBlocks
  NullBlock = 0
  MaxSize = 30
  Chunks = {5, 8}
  Marks = {0, 12, 15}
  MaxTaken = 7
  Faults = {"corrupt", "io"}
  AtStart = FALSE
SPECIFICATION Spec
INVARIANTS FindLocates TraverseIsComplete WritesApart WriterAtPosition IndexIsPosition
PROPERTY OnlyFreshBlocks
