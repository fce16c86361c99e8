CONSTANTS
  BlockSize = 8
  PtrSize = 1
  Bits = 5
  FileSize = 31
  CacheSize = 8
  Sought <- Everywhere
  Chunks = {1, 4, 8}
  Truncations = {5, 8, 12, 21, 28}
SPECIFICATION Spec
INVARIANTS ContinuesAtPosition
