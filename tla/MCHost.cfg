SPECIFICATION HostSpec
CONSTANTS
  Emulators = {"p", "r"}
  Images = {i1, i2}
  None = None
  Power <- MCPower
  Presses <- MCPresses
  MaxFrames = 2
  MaxProcesses = 2
  Depth = 4
  Batch = 2
  MaxPackets = 6
  Values = {"a", "b"}
  Kinds = {"read", "write", "call", "watch", "watches", "trace"}
  MaxPipe = 1
  MaxSlow = 2
INVARIANTS
  SessionTypes
  ServiceExclusive
  OverwritesAlone
  LocksAreLeases
  SessionsAgree
PROPERTIES
  TradesStopped
  SessionSteps
  Delivered
