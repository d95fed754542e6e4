SPECIFICATION NandSpec
CONSTANTS
  Layers = {"backing"}
  Saved = {p1, p2}
  Interval = 2
  MaxWrites = 3
  NumPages = 1
  RawStride = 1
  PageSize = 1
  PagesPerBlock = 1
  Sizes = {1}
  ColumnBytes = {0}
  RowBytes = {0}
  FailProgramBlock = 1
  FailEraseBlock = 1
  MaxOps = 0
  Images <- MCImages
INVARIANTS
  FlushedIsDurable
  NeverStranded
  FlushWithinInterval
  QuietAfterUnrealize
PROPERTIES
  EventuallyFlushed
CHECK_DEADLOCK FALSE
