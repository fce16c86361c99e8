CONSTANTS
  Handles = {h1}
  Access = {"read", "write"}
  PageSize = 2
  MaxSize = 4
  Values = {1}
  Zero = 0
  Garbage = 99
  Sizes = {1, 3}
  Truncations = {0, 2}
  Gaps = TRUE
  Failing = {}
  Threads = {t1, t2}
  Closers = {t1}
  NoThread = NoThread
SPECIFICATION Spec
INVARIANTS ReadsAsWritten DurableAsFlushed Exclusive
PROPERTIES MutexReturned
CHECK_DEADLOCK FALSE
