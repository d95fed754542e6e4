SPECIFICATION Spec
CONSTANTS
  NChannels = 2
  DmaDescriptors <- MCDmaDescriptors
  DmaAddresses <- MCAddresses
  RamSize = 3
  BulkLimit = 2
  ResponseBytes = 1
  RegWrites <- MCRegWrites
  Doorbells = {{}, {0}}
  MaxNow = 4
  SecondValues = {1}
  AlarmValues = {2}
  ControlValues <- MCControlValues
  Keys = {"menu"}
  Pen = "pen"
  Cable = "usb"
  ReadyPin = "C30"
  PinOf <- MCPinOf
  PortOf <- MCPortOf
  PinMasks = {{"B18", "C27"}}
  LineBytes = 3
  WireLimit = 1
  FifoSize = 2
  MaxByte = 2
  FifoModes <- MCFifoModes
  UartEnables <- MCUartEnables
  Buffers = {"a"}
  Bad = "bad"
  Pictures = {"p", "q"}
  RefreshPeriod = 1
  LcdDescriptors <- MCLcdDescriptors
  LcdEnables = {{"EOF", "SOF"}}
  LcdArms <- MCLcdArms
  LcdMoves <- MCLcdMoves
  StreamDescriptors <- MCStreamDescriptors
  StreamArms <- MCStreamArms
  StreamMoves <- MCStreamMoves
  Clients = {"web"}
  Endpoints = {0, 1}
  UdcLanes <- MCLanes
  UdcAccesses <- MCUdcAccesses
  CimControls <- MCCimControls
  CimKeeps = {{}, {"VDD"}, {"DMA_EOF"}}
  PowerRegisters = {"CPPCR", "CLKGR", "SCR", "LCR"}
  PowerValues <- MCPowerValues
  PowerAccesses <- MCPowerAccesses
  StageSize = 2
  Backup = 2
  ChipPages <- MCChipPages
  Firmwares = {"zero", "default"}
  Images <- MCImages
  RsEncoded <- MCRsEncode
  RsDecoded <- MCRsDecode
  HammingCode <- MCParity
  BlockBytes = 5
  EmcByteBits = 1
  Sizes = {4}
  EmcValues = {{}, {0}}
  EmcControls <- MCEmcControls
  Parities <- MCParities
  Parts <- MCParts
  EmcEnables = {{}, {"ENCF", "UNCOR"}}
  EmcKeeps = {{}}
  TcuChannels = {0}
  TcuMasks = {{0}}
  Fulls = {0, 2}
  Halves = {0, 3}
  Counts = {4}
  Divisors = {0, 1, 2}
  Wrap = 5
  Default = 4
  Icount = TRUE
  MaxTime = 4
  Pages = {0, 1, 6}
  Asids = {0, 1}
  NbTlb = 2
  Wired = 0
  MaxTlb = 3
  Spans = {1, 4}
  TlbLows <- MCLows
  Code <- MCProgram
  Patches <- MCPatches
  PageSize = 4
  Budgets = {2, 4}
  Refill = 8
  General = 10
  JumpTargets = {0}
  Features = {"R1", "preR6"}
  CpuMasks <- MCMasks
  CpuIcount = FALSE
  Layout <- MCLayout
  Inputs = 2
  LineLimit = 1
  TracePeriod = TRUE
  AtStart <- MCAtStart
  Switches = {"storage", "graphics"}
  MaxRecords = 4
INVARIANTS
  TypeOK
  LinesAgree
  NothingStrands
  CpuSound
PROPERTIES
  OrderKept
  ComputesRight
  OddStates
  Progress
