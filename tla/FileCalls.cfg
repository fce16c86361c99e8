CONSTANTS
  BlockSize = 3
  OutlineAbove = 1
  InlineUpTo = 2
  Appending = FALSE
  Values = {1}
  Zero = 0
  MaxSize = 4
  Sizes = {1, 3}
  Rooms = {0, 1, 2}
  Careful = TRUE
SPECIFICATION Spec
VIEW MCView
INVARIANT InlineFits
PROPERTY ImplementsAtomicFile
