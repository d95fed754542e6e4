SPECIFICATION Spec
CONSTANTS
  Emulators = {e1, e2}
  Images = {i1, i2}
  None = None
INVARIANTS Exclusive
