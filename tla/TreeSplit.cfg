SPECIFICATION Spec
CONSTANTS
  pr = pr
  ps = ps
  pt = pt
  pu = pu
  pv = pv
  f1 = f1
  Directory = Directory
  Names = {1, 2, 3}
  Files <- MCFiles
  Pairs <- MCPairs5
  Root = pr
  NoPair = NoPair
  Cap = 1
  MaxCalls = 4
  MaxRelocs = 2
  Relocating = {"heads"}
  MaxFails = 0
SYMMETRY MCSymmetry
VIEW MCView
INVARIANT MountFindsGstate
INVARIANT OrphansAnnounced
INVARIANT ListIsComplete
INVARIANT RepairIsComplete
PROPERTY ImplementsAtomicTree
PROPERTY RepairDescends
