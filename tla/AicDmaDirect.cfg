SPECIFICATION Spec
CONSTANTS
  Depth = 4
  Threshold = 2
  Commands <- MCCommands
  Blocks = {1, 3}
  MaxSamples = 5
  MaxDebt = 3
  ArmMasked = FALSE
INVARIANTS
  RealSamples
