SPECIFICATION Spec
CONSTANTS
  Emulators = {e1}
  Images = {i1}
  None = None
INVARIANTS StoppedWhileChanged
