SPECIFICATION NandSpec
CONSTANTS
  Layers = {"device"}
  NumPages = 4
  RawStride = 3
  PageSize = 2
  PagesPerBlock = 2
  Sizes = {11, 8, 5}
  ColumnBytes = {0, 2}
  RowBytes = {0, 3}
  FailProgramBlock = 0
  FailEraseBlock = 0
  MaxOps = 2
  Images <- MCImages
  Saved = {}
  Interval = 1
  MaxWrites = 0
PROPERTIES
  FlashRefined
  AcknowledgedIsProgrammed
  FailedKeepsData
  CompletionSignalled
CHECK_DEADLOCK FALSE
