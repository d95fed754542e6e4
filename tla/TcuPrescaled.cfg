SPECIFICATION Spec
CONSTANTS
  Channels = {c0, c1}
  Masks = {{c0}, {c1}}
  Fulls = {}
  Halves = {1}
  Counts = {}
  Divisors = {2}
  Wrap = 3
  Default = 2
  Icount = TRUE
  MaxTime = 4
PROPERTIES NoMatchLost
CHECK_DEADLOCK FALSE
