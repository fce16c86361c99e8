CONSTANTS
  Blocks = {b1, b2, b3}
  NullBlock = null
  Value = {v1, v2}
  Absent = absent
  Sizes = {1, 2}
  Cap = 2
  RevModulus = 7
  BlockCycles = 1
  Super = FALSE
  Kept = {"nospc"}
SPECIFICATION MCSpec
SYMMETRY Symmetry
VIEW MCView
INVARIANTS TypeOK AlwaysReadable AckIsDurable RamAgrees
PROPERTIES ImplementsAtomicDir CommitDescends
