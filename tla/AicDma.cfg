SPECIFICATION FairSpec
CONSTANTS
  Depth = 4
  Threshold = 2
  Commands <- MCCommands
  Blocks = {1, 3}
  MaxSamples = 9
  MaxDebt = 6
  ArmMasked = TRUE
INVARIANTS
  TypeOK
  NoUnservedRequest
PROPERTIES
  NoUnderrunAfterBlock
  CallbacksReturn
  StreamRefined
