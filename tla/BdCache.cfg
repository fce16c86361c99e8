CONSTANTS
  Blocks = {b1, b2}
  NoBlock = NoBlock
  BlockSize = 4
  EraseSize = 4
  ReadSize = 1
  WriteSize = 2
  CacheSize = 2
  CmpSize = 1
  Values = {v1, v2}
  Erased = Erased
  Sizes = {1, 3}
  Hints = {1, 4}
  Faults = {"corrupt", "silent"}
  ReadFaults = {"corrupt"}
SPECIFICATION Spec
INVARIANTS ReadsSeeWrites StableOnDevice ProgramsOnce AssertionsHold
SYMMETRY Symmetry
VIEW MCView
