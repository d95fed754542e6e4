------------------------------- MODULE Board -------------------------------
(***************************************************************************)
(* The devices of the board that meet only through the interrupt tree and  *)
(* the guest (InterruptTree), each an instance of its own, and the core.   *)
(* A behaviour is one of one unit: the others keep their initial state,    *)
(* since none of them reads what another one holds.  The two units of      *)
(* Display differ in what they make large: the channels of the controller, *)
(* or the client of the stream.                                            *)
(***************************************************************************)
EXTENDS Integers, Sequences, FiniteSets

CONSTANTS
  NChannels, DmaDescriptors, DmaAddresses, RamSize, BulkLimit, ResponseBytes, RegWrites,
  Doorbells,                                                            \* Dma
  MaxNow, ControlValues, SecondValues, AlarmValues,                     \* Rtc
  Keys, Pen, Cable, PinOf, PortOf, ReadyPin, PinMasks, LineBytes, WireLimit, \* Input
  FifoSize, FifoModes, UartEnables, MaxByte,                            \* Uart
  Buffers, Bad, Pictures, RefreshPeriod, LcdDescriptors, LcdEnables, LcdArms, LcdMoves,
  StreamDescriptors, StreamArms, StreamMoves, Clients,                  \* Display
  Endpoints, UdcLanes, UdcAccesses,                                     \* Udc
  CimControls, CimKeeps,                                                \* Cim
  PowerRegisters, PowerValues, PowerAccesses,                           \* Cpm
  StageSize, Backup, ChipPages, Images, Firmwares,                      \* BootRom
  RsEncoded(_), RsDecoded(_, _), HammingCode(_), BlockBytes, EmcByteBits, EmcControls,
  Parities, Parts, EmcEnables, EmcKeeps, Sizes, EmcValues,              \* Emc
  TcuChannels, TcuMasks, Fulls, Halves, Counts, Divisors, Wrap, Default, Icount,
  MaxTime,                                                              \* Tcu
  Pages, Asids, NbTlb, Wired, MaxTlb, Spans, TlbLows,                   \* Tlb
  Code, Patches, PageSize, Budgets, Refill, General, JumpTargets,       \* Core
  Features, CpuMasks, CpuIcount,                                        \* Cp0
  Layout, Inputs, LineLimit, TracePeriod, AtStart, Switches, MaxRecords \* Diag

VARIABLES
  unit,
  dmac, valid, msc,                                  \* Dma
  rtc, now, timer, machine,                          \* Rtc
  wire, line, gpio, held, recorded,                  \* Input
  uart, rx, sent, got,                               \* Uart
  lcd, panelDone, source, pixels, host, client,      \* Display
  udc, cim, emc,                                     \* Udc, Cim, Emc
  regs, told,                                        \* Cpm
  nand, image, board, ram, touched,                  \* BootRom
  tcuNow, base, anchor, divisor, full, half, enabled, stopped, flags, deadline,
  tcuTimer,                                          \* Tcu
  tlb, absent,                                       \* Tlb
  code, blocks, cpu, run, due, resume, edited,       \* Core
  status, cause, ip2, request, kick, at, stale, swallowed,  \* Cp0
  diag, queue, mem, probing                          \* Diag

(* The clock: the values of its counters.                                         *)
ASSUME RtcAssumption ==
  MaxNow \in Nat /\ SecondValues \subseteq Nat /\ AlarmValues \subseteq Nat

(* The pins: each source has one of them, and two pieces of a line have room.     *)
ASSUME InputAssumption ==
  /\ PinOf \in [Keys \cup {Pen, Cable} -> DOMAIN PortOf] /\ ReadyPin \in DOMAIN PortOf
  /\ PinMasks \subseteq SUBSET DOMAIN PortOf /\ LineBytes \in Nat /\ LineBytes > 2

(* The serial port: what the guest writes to FCR and IER.                         *)
ASSUME UartAssumption ==
  /\ FifoSize \in Nat \ {0} /\ MaxByte \in Nat
  /\ FifoModes \subseteq [fifo : BOOLEAN, unit : BOOLEAN, trigger : Nat,
                          clear : SUBSET {"rx", "tx"}]
  /\ UartEnables \subseteq SUBSET {"RDRIE", "TDRIE", "RLSIE", "RTOIE", "MSIE"}

(* The DMA controller: the guest writes values that a register can have.          *)
DmaCommands ==
  [sai : BOOLEAN, dai : BOOLEAN, size : Nat, link : BOOLEAN, vm : BOOLEAN, vie : BOOLEAN,
   tie : BOOLEAN]

DmaValues(reg) ==
  CASE reg = "dcs" -> [ndes : BOOLEAN, cte : BOOLEAN, flags : SUBSET {"INV", "AR", "TT", "CT"}]
    [] reg = "drt" -> {"auto", "aic", "ext"}
    [] reg = "dcm" -> DmaCommands
    [] reg = "dda" -> DmaAddresses
    [] OTHER -> Nat

ASSUME DmaAssumption ==
  /\ {NChannels, RamSize, BulkLimit, ResponseBytes} \subseteq Nat /\ 0 \in DmaAddresses
  /\ \A d \in DOMAIN DmaDescriptors :
       DmaDescriptors[d] \in
         [dcm : DmaCommands, dsa : Nat, dta : Nat, dtc : Nat, link : DmaAddresses]
  /\ \A w \in RegWrites :
       /\ w[1] \in 0 .. NChannels - 1
       /\ w[2] \in {"dcs", "dsa", "dta", "dtc", "drt", "dcm", "dda"}
       /\ w[3] \in DmaValues(w[2])
  /\ Doorbells \subseteq SUBSET (0 .. NChannels - 1)

(* The display: a chain of descriptors ends, or goes on with one of its own.      *)
ScreenAssumption(descriptors, arms, enables) ==
  /\ \A d \in DOMAIN descriptors :
       /\ descriptors[d].next \in DOMAIN descriptors \cup {0}
       /\ {descriptors[d].sof, descriptors[d].eof} \subseteq BOOLEAN
  /\ arms \subseteq {0, 1} \X (DOMAIN descriptors \cup {0})
  /\ enables \subseteq SUBSET {"EOF", "SOF", "LDD", "QD"}

ASSUME DisplayAssumption ==
  /\ ScreenAssumption(LcdDescriptors, LcdArms, LcdEnables)
  /\ ScreenAssumption(StreamDescriptors, StreamArms, {{}})
  /\ RefreshPeriod \in Nat \ {0}

(* The power manager has the registers that it masks.                            *)
ASSUME CpmAssumption ==
  PowerRegisters \subseteq {"CPCCR", "LCR", "CPPCR", "CLKGR", "SCR", "I2SCDR", "LPCDR",
                           "MSCCDR", "UHCCDR", "SSICDR"}

(* The boot ROM: an image is no longer than the chip.                             *)
ASSUME BootAssumption ==
  /\ StageSize \in Nat /\ Backup \in Nat /\ ChipPages \subseteq Nat
  /\ Images \subseteq [present : BOOLEAN, spare : BOOLEAN, pages : Nat]
  /\ \A i \in Images : 0 .. i.pages - 1 \subseteq ChipPages

(* The control endpoint, which INDEX names after a reset.                         *)
ASSUME UdcAssumption == 0 \in Endpoints

(* The memory controller: a block is a number of bytes, and the guest moves bits. *)
ASSUME EmcAssumption ==
  /\ {BlockBytes, EmcByteBits} \subseteq Nat /\ Sizes \subseteq Nat
  /\ EmcValues \subseteq SUBSET Nat

(* The timer unit: what a register of 16 bits can hold.                            *)
ASSUME TcuAssumption ==
  /\ Wrap \in Nat \ {0} /\ MaxTime \in Nat /\ TcuMasks \subseteq SUBSET TcuChannels
  /\ {Default} \cup Fulls \cup Halves \cup Counts \subseteq 0 .. Wrap - 1
  /\ Divisors \subseteq 0 .. Wrap

(* The TLB: there is room for the guest's entries, and a pair that no page is of.  *)
ASSUME TlbAssumption ==
  /\ Pages \subseteq 0 .. 1999 /\ Asids \subseteq Nat /\ 0 \in Asids
  /\ NbTlb \in Nat \ {0} /\ Wired \in Nat /\ MaxTlb \in Nat /\ NbTlb <= MaxTlb
  /\ Spans \subseteq Nat \ {0}
  /\ TlbLows \subseteq [1 .. 2 -> [v : BOOLEAN, d : BOOLEAN, g : BOOLEAN, pfn : Nat]]

(* The core: memory is a number of pages, with the vectors in it.                 *)
ASSUME CoreAssumption ==
  /\ DOMAIN Code \subseteq Nat /\ {Refill, General} \subseteq DOMAIN Code
  /\ \A a \in DOMAIN Code : a + 1 \in DOMAIN Code \/ (a + 1) % PageSize = 0
  /\ Budgets \subseteq Nat \ {0}

(* The system coprocessor: IM has one bit for each line.                          *)
ASSUME Cp0Assumption == CpuMasks \subseteq SUBSET {"soft", "ip2", "timer"}

(* The recorder: rings with a header; the board and the translator have theirs,    *)
(* the translator's above all of the board's.                                     *)
ASSUME DiagAssumption ==
  /\ {"storage", "target", "dmac", "touch", "msc", "progress", "probe"} \subseteq DOMAIN Layout
  /\ \A r \in DOMAIN Layout :
       /\ {Layout[r].base, Layout[r].words} \subseteq Nat
       /\ {Layout[r].header, Layout[r].slots} \subseteq Nat \ {0}
  /\ \A r \in DOMAIN Layout \ {"probe"} :
       Layout[r].base + Layout[r].header + Layout[r].slots * Layout[r].words
         <= Layout["probe"].base
  /\ Inputs \in Nat \ {0} /\ LineLimit \in Nat
  /\ AtStart \cup {Switches} \subseteq SUBSET {"storage", "progress", "touch", "graphics"}

Dmac == INSTANCE Dma WITH Descriptor <- DmaDescriptors, Addresses <- DmaAddresses
Clock == INSTANCE Rtc
Pins == INSTANCE Input WITH Masks <- PinMasks, LineLimit <- LineBytes
Serial == INSTANCE Uart WITH Enables <- UartEnables

Lcd == INSTANCE Display WITH
  Descriptor <- LcdDescriptors, Period <- RefreshPeriod, Clients <- {},
  EnableSets <- LcdEnables, Arms <- LcdArms, Moves <- LcdMoves

Stream == INSTANCE Display WITH
  Descriptor <- StreamDescriptors, Period <- RefreshPeriod, EnableSets <- {{}},
  Arms <- StreamArms, Moves <- StreamMoves

Usb == INSTANCE Udc WITH Accesses <- UdcAccesses, Lanes <- UdcLanes
Camera == INSTANCE Cim WITH Controls <- CimControls, Keeps <- CimKeeps
Power == INSTANCE Cpm WITH
  Registers <- PowerRegisters, Values <- PowerValues, Accesses <- PowerAccesses
Boot == INSTANCE BootRom WITH Pages <- ChipPages, Size <- StageSize
Chip == INSTANCE Emc WITH
  Controls <- EmcControls, Enables <- EmcEnables, Keeps <- EmcKeeps, Values <- EmcValues,
  ByteBits <- EmcByteBits, RsEncode <- RsEncoded, RsDecode <- RsDecoded,
  Hamming <- HammingCode
Counters == INSTANCE Tcu WITH
  Channels <- TcuChannels, Masks <- TcuMasks, now <- tcuNow, timer <- tcuTimer
Mmu == INSTANCE Tlb WITH Lows <- TlbLows
Cpu == INSTANCE Core WITH Registers <- JumpTargets
Control == INSTANCE Cp0 WITH Masks <- CpuMasks, Icount <- CpuIcount
Recorder == INSTANCE Diag WITH Period <- TracePeriod

----------------------------------------------------------------------------
Units == {"dma", "rtc", "input", "uart", "lcd", "stream", "udc", "cim", "cpm",
          "boot", "emc", "tcu", "tlb", "core", "cp0", "diag"}

dmaVars == <<dmac, valid, msc>>
rtcVars == <<rtc, now, timer, machine>>
inputVars == <<wire, line, gpio, held, recorded>>
uartVars == <<uart, rx, sent, got>>
displayVars == <<lcd, panelDone, source, pixels, host, client>>
cpmVars == <<regs, told>>
bootVars == <<nand, image, board, ram, touched>>
tcuVars == <<tcuNow, base, anchor, divisor, full, half, enabled, stopped, flags, deadline,
             tcuTimer>>
tlbVars == <<tlb, absent>>
coreVars == <<code, blocks, cpu, run, due, resume, edited>>
cp0Vars == <<status, cause, ip2, request, kick, at, stale, swallowed>>
diagVars == <<diag, queue, mem, probing>>
vars == <<unit, dmaVars, rtcVars, inputVars, uartVars, displayVars, udc, cim, emc,
          cpmVars, bootVars, tcuVars, tlbVars, coreVars, cp0Vars,
          diagVars>>

(* A unit that takes no steps is off; but for the clock and the display, of      *)
(* which Progress speaks.                                                       *)
Off == <<>>

Init ==
  /\ unit \in Units
  /\ IF unit = "dma" THEN Dmac!Init ELSE dmac = Off /\ valid = Off /\ msc = Off
  /\ Clock!Init /\ (unit # "rtc" => "PIN" \in rtc.wake)
  /\ IF unit = "input" THEN Pins!Init
     ELSE wire = Off /\ line = Off /\ gpio = Off /\ held = Off /\ recorded = Off
  /\ IF unit = "uart" THEN Serial!Init
     ELSE uart = Off /\ rx = Off /\ sent = Off /\ got = Off
  /\ IF unit = "udc" THEN Usb!Init ELSE udc = Off
  /\ IF unit = "cim" THEN Camera!Init ELSE cim = Off
  /\ IF unit = "emc" THEN Chip!Init ELSE emc = Off
  /\ IF unit = "cpm" THEN Power!Init ELSE regs = Off /\ told = Off
  /\ IF unit = "boot" THEN Boot!Init
     ELSE nand = Off /\ image = Off /\ board = Off /\ ram = Off /\ touched = Off
  /\ IF unit = "tcu" THEN Counters!Init
     ELSE /\ tcuNow = Off /\ base = Off /\ anchor = Off /\ divisor = Off /\ full = Off
          /\ half = Off /\ enabled = Off /\ stopped = Off /\ flags = Off
          /\ deadline = Off /\ tcuTimer = Off
  /\ IF unit = "tlb" THEN Mmu!Init ELSE tlb = Off /\ absent = Off
  /\ IF unit = "core" THEN Cpu!Init
     ELSE /\ code = Off /\ blocks = Off /\ cpu = Off /\ run = Off /\ due = Off
          /\ resume = Off /\ edited = Off
  /\ IF unit = "cp0" THEN Control!Init
     ELSE /\ status = Off /\ cause = Off /\ ip2 = Off /\ request = Off /\ kick = Off
          /\ at = Off /\ stale = Off /\ swallowed = Off
  /\ IF unit = "diag" THEN Recorder!Init
     ELSE diag = Off /\ queue = Off /\ mem = Off /\ probing = Off
  /\ IF unit = "stream" THEN Stream!Init ELSE Lcd!Init
  /\ unit \notin {"lcd", "stream"} => pixels["a"] = "p"

Only(u) ==
  /\ unit = u /\ UNCHANGED unit
  /\ IF u = "dma" THEN TRUE ELSE UNCHANGED dmaVars
  /\ IF u = "rtc" THEN TRUE ELSE UNCHANGED rtcVars
  /\ IF u = "input" THEN TRUE ELSE UNCHANGED inputVars
  /\ IF u = "uart" THEN TRUE ELSE UNCHANGED uartVars
  /\ IF u \in {"lcd", "stream"} THEN TRUE ELSE UNCHANGED displayVars
  /\ IF u = "udc" THEN TRUE ELSE UNCHANGED udc
  /\ IF u = "cim" THEN TRUE ELSE UNCHANGED cim
  /\ IF u = "emc" THEN TRUE ELSE UNCHANGED emc
  /\ IF u = "cpm" THEN TRUE ELSE UNCHANGED cpmVars
  /\ IF u = "boot" THEN TRUE ELSE UNCHANGED bootVars
  /\ IF u = "tcu" THEN TRUE ELSE UNCHANGED tcuVars
  /\ IF u = "tlb" THEN TRUE ELSE UNCHANGED tlbVars
  /\ IF u = "core" THEN TRUE ELSE UNCHANGED coreVars
  /\ IF u = "cp0" THEN TRUE ELSE UNCHANGED cp0Vars
  /\ IF u = "diag" THEN TRUE ELSE UNCHANGED diagVars

Next ==
  \/ Only("dma") /\ Dmac!Next
  \/ Only("rtc") /\ Clock!Next
  \/ Only("input") /\ Pins!Next
  \/ Only("uart") /\ Serial!Next
  \/ Only("lcd") /\ Lcd!Next
  \/ Only("stream") /\ Stream!Next
  \/ Only("udc") /\ Usb!Next
  \/ Only("cim") /\ Camera!Next
  \/ Only("emc") /\ Chip!Next
  \/ Only("cpm") /\ Power!Next
  \/ Only("boot") /\ Boot!Next
  \/ Only("tcu") /\ Counters!Next
  \/ Only("tlb") /\ Mmu!Next
  \/ Only("core") /\ Cpu!Next
  \/ Only("cp0") /\ Control!Next
  \/ Only("diag") /\ Recorder!Next

(* QEMU's main loop serves the timers that expired, and time goes on. *)
Fairness ==
  /\ WF_rtcVars(unit = "rtc" /\ Clock!Served)
  /\ WF_rtcVars(unit = "rtc" /\ Clock!Tick)
  /\ WF_displayVars(unit = "stream" /\ Stream!Refresh)
  /\ WF_displayVars(unit = "stream" /\ Stream!Tick)

Spec == Init /\ [][Next]_vars /\ Fairness

----------------------------------------------------------------------------
(* Every device keeps its types; among them that the PLL shows itself locked    *)
(* exactly while it is on.                                                     *)
TypeOK ==
  CASE unit = "dma"    -> Dmac!TypeOK
    [] unit = "rtc"    -> Clock!TypeOK
    [] unit = "input"  -> Pins!TypeOK
    [] unit = "uart"   -> Serial!TypeOK
    [] unit = "lcd"    -> Lcd!TypeOK
    [] unit = "stream" -> Stream!TypeOK
    [] unit = "udc"    -> Usb!TypeOK
    [] unit = "cim"    -> Camera!TypeOK
    [] unit = "emc"    -> Chip!TypeOK
    [] unit = "cpm"    -> Power!TypeOK
    [] unit = "boot"   -> Boot!TypeOK
    [] unit = "tcu"    -> Counters!TypeOK
    [] unit = "tlb"    -> Mmu!TypeOK
    [] unit = "core"   -> Cpu!TypeOK
    [] unit = "cp0"    -> Control!TypeOK
    [] unit = "diag"   -> Recorder!TypeOK

(* The output of each device is what its flags and enables ask for, and the     *)
(* board has been told of the wake bits in the power manager, whichever        *)
(* handler ran last.                                                           *)
LinesAgree ==
  /\ unit = "rtc" => Clock!LineAgrees
  /\ unit = "input" => Pins!LineAgrees
  /\ unit = "uart" => Serial!LineAgrees
  /\ unit \in {"lcd", "stream"} => Lcd!LineAgrees
  /\ unit = "udc" => Usb!LineAgrees
  /\ unit = "cim" => Camera!LineAgrees
  /\ unit = "emc" => Chip!LineAgrees
  /\ unit = "cpm" => Power!BoardKnows

(* Nothing that could go on is left behind: a block of memory that could be     *)
(* copied, a deadline the guest waits for, room in the line buffer; the boot    *)
(* ROM hands over corrected pages only, and the recorder keeps what is newest.  *)
NothingStrands ==
  /\ unit = "dma" => Dmac!NothingWaits
  /\ unit = "rtc" => Clock!DeadlineSet
  /\ unit = "input" => Pins!LineFlows
  /\ unit = "boot" => Boot!StageSound
  /\ unit = "tcu" => Counters!DeadlineExact
  /\ unit = "diag" => Recorder!QueueKept /\ Recorder!NewestWhole

(* The CPU runs the program it was given: QEMU's softmmu never knows more than    *)
(* the guest's TLB and its shadow entries, control comes where the architecture   *)
(* says whatever faults and wherever blocks end, and an interrupt that the guest  *)
(* lets in is not kept waiting by blocks that chain to each other.              *)
CpuSound ==
  /\ unit = "tlb" => Mmu!Coherent /\ Mmu!Unseen /\ Mmu!OneMatch
  /\ unit = "core" => Cpu!Follows /\ Cpu!FlagsAgree
  /\ unit = "cp0" => Control!Prompt /\ Control!AssumptionsHold /\ Control!ReadsBack

(* What comes in order stays in order and is lost to a clear only: the bytes    *)
(* of the serial port, the frame that an interrupt names, the picture a client  *)
(* shows, the counters and matches of the timer unit.  A machine that hibernates *)
(* wakes by its alarm or by a reset, its clock frozen.                         *)
OrderKept ==
  [][/\ unit = "uart" => Serial!InOrder' /\ Serial!OnlyClearLoses
     /\ unit = "lcd" => Lcd!IidHeld
     /\ unit = "stream" => Stream!OnlyLateClientsMiss
     /\ unit = "rtc" => Clock!SleepHolds
     /\ unit = "tcu" => Counters!CounterKept /\ Counters!NoUndividedMatchLost]_vars

(* Each device comes into its odd states by the one step that is known for it.  *)
OddStates ==
  [][/\ unit = "dma" => /\ Dmac!DoorbellStrands /\ Dmac!LoadDesyncs
                       /\ Dmac!EndsByCard /\ Dmac!PendingKept
     /\ unit = "input" => Pins!OnlyResetOrSharing /\ Pins!RecordsChanges
     /\ unit = "udc" => Usb!OneEndpoint
     /\ unit = "cim" => Camera!DisableAnswered
     /\ unit = "cpm" => Power!OnlyItsLanes
     /\ unit = "diag" => Recorder!OnlyOverlapMixes
     /\ unit = "boot" => Boot!OnlyStartLoads /\ Boot!StartsWell]_vars

(* An alarm that was armed wakes the machine; a picture reaches the client.     *)
Progress == Clock!AlarmWakes /\ Stream!FramesArrive
=============================================================================
