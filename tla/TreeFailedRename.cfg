SPECIFICATION Spec
CONSTANTS
  pr = pr
  ps = ps
  pt = pt
  pu = pu
  pv = pv
  f1 = f1
  Directory = Directory
  Names = {1, 2}
  Files <- MCFiles
  Pairs <- MCPairs
  Root = pr
  NoPair = NoPair
  Cap = 2
  MaxCalls = 6
  MaxRelocs = 0
  Relocating = {}
  MaxFails = 1
SYMMETRY MCSymmetry
VIEW MCView
PROPERTY ImplementsAtomicTree
