CONSTANTS
  Names = {1, 2, 3}
  Contents = {empty, written}
  Empty = empty
  SomeAttr = some
  Files = {f1}
  Dirs = {d1}
  Pairs = {1, 2, 3}
  First = 1
  Start <- StartNames
  Nobody = nobody
  Room = 8
  MaxOpen = 1
  Commits = 3
  Careful = {"last", "attr"}
SPECIFICATION Spec
INVARIANTS HandlesFollow ListingComplete TellIsPlace EntriesAsAsked
CHECK_DEADLOCK FALSE
