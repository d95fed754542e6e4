SPECIFICATION FairSpec
CONSTANTS
  Positions = {p, q}
  Home = p
  Cpu = {PBAT}
  Masks = {{}, {"TCH"}}
  Conversions = 5
  Pressure = z
  NoSample = none
INVARIANTS TypeOK TimerServes OnlyClearStalls
PROPERTIES OnlyEnableOverruns HeldPositionRead
