---------------------------- MODULE InterruptTree ----------------------------
(***************************************************************************)
(* The interrupt path of the board, from a device line to MIPS WAIT: the   *)
(* flag of a GPIO port (hw/gpio), the TCU flags and masks (hw/timer), the  *)
(* controller (hw/intc), the board's IP2 wiring and its resample timer     *)
(* (hw/mips/bbk9588.c), the CPU's interrupt input (hw/mips/mips_int.c) and *)
(* the WAIT helper and interrupt entry of the patched CPU (target/mips).   *)
(*                                                                         *)
(* Two threads act: the main loop (timers, host input, QMP) and the vCPU.  *)
(* Both hold the big QEMU lock for device work, so a device call is one    *)
(* step; helper_wait runs without the lock, so its tests and stores are    *)
(* separate steps and the main loop acts between them.  Register widths    *)
(* and the other IP bits of Cause, which the board does not drive, are     *)
(* left out; Config7.WII is set, as the board's reset leaves it.           *)
(***************************************************************************)
EXTENDS Naturals

CONSTANTS
  Devices,  \* INTC sources wired straight to an INTC input: SADC, MSC, UART, ...
  Handled,  \* sources with a board handler: DMAC, AIC
  Timers,   \* the parent outputs of the TCU, one channel behind each
  Keys      \* the INTC source of the GPIO port with the keys

ASSUME SourcesAssumption ==
  /\ Keys \notin Devices \cup Handled \cup Timers
  /\ Devices \cap Handled = {}
  /\ Devices \cap Timers = {}
  /\ Handled \cap Timers = {}

Sources == Devices \cup Handled \cup Timers \cup {Keys}

VARIABLES
  lines,     \* the devices of Devices and Handled that raise their line
  keyFlag,   \* GPIO_FLG of the key's pin
  tcuFlag, tcuMask,   \* pending_mask and irq_mask, by parent
  tcuOut,    \* output_level
  wire,      \* INTC, board wiring and the CPU's interrupt input, below
  im, ie,    \* Status.IM2; Status.IE with EXL, ERL clear
  pc,        \* where the vCPU thread is
  halted,    \* cs->halted
  vector     \* the last interrupt entry of the CPU

vars == <<lines, keyFlag, tcuFlag, tcuMask, tcuOut, wire, im, ie, pc, halted,
          vector>>
cpuVars == <<im, ie, pc, halted, vector>>
deviceVars == <<lines, keyFlag, tcuFlag, tcuMask, tcuOut>>

Wires ==
  [pending : SUBSET Sources,  \* INTC
   mask    : SUBSET Sources,
   out     : BOOLEAN,         \* its output_level
   level   : BOOLEAN,         \* the board's intc_output_level
   enabled : BOOLEAN,         \* cpu-irq-output
   resample : BOOLEAN,        \* intc_resample_timer is armed
   ip2     : BOOLEAN,         \* env->bbk9588_irq_ip2_level
   cause   : BOOLEAN,         \* Cause.IP2
   hard    : BOOLEAN,         \* CPU_INTERRUPT_HARD and _WAKE of interrupt_request
   wake    : BOOLEAN,
   kick    : BOOLEAN]         \* halt_cond has been signalled

(* vCPU thread: running guest code, in helper_wait, in the halt loop, idle.  *)
PCs == {"run", "latch", "test", "halt", "clear", "loop", "idle", "asleep"}

TypeOK ==
  /\ lines \subseteq Devices \cup Handled
  /\ keyFlag \in BOOLEAN
  /\ tcuFlag \subseteq Timers /\ tcuMask \subseteq Timers /\ tcuOut \subseteq Timers
  /\ wire \in Wires
  /\ im \in BOOLEAN /\ ie \in BOOLEAN /\ halted \in BOOLEAN
  /\ pc \in PCs
  /\ vector \in {"none", "general", "special"}

(* jz4740_intc_reset_hold *)
ResetWire(enabled) ==
  [pending |-> {}, mask |-> Sources, out |-> FALSE, level |-> FALSE,
   enabled |-> enabled, resample |-> FALSE, ip2 |-> FALSE, cause |-> FALSE,
   hard |-> FALSE, wake |-> FALSE, kick |-> FALSE]

Init ==
  /\ lines = {} /\ keyFlag = FALSE
  /\ tcuFlag = {} /\ tcuMask = {} /\ tcuOut = {}
  /\ wire = ResetWire(TRUE)
  /\ im = FALSE /\ ie = FALSE /\ pc = "run" /\ halted = FALSE
  /\ vector = "none"

-----------------------------------------------------------------------------
(* The wiring, each operator the wires after the call.                       *)

(* cpu_interrupt, accelerator code: the request is set and the thread kicked. *)
Interrupt(w) == [w EXCEPT !.hard = TRUE, !.kick = TRUE]

(* cpu_mips_irq_request for IP2.  Fault: a falling line keeps Cause.          *)
IrqRequestSticky(w) ==
  IF w.ip2 THEN Interrupt([w EXCEPT !.cause = TRUE]) ELSE w
(* Fault: the halted thread is not signalled. *)
IrqRequestQuiet(w) ==
  IF w.ip2 THEN [w EXCEPT !.cause = TRUE, !.hard = TRUE]
  ELSE [w EXCEPT !.cause = FALSE, !.hard = FALSE]
IrqRequest(w) ==
  IF w.ip2 THEN Interrupt([w EXCEPT !.cause = TRUE])
  ELSE [w EXCEPT !.cause = FALSE, !.hard = FALSE]

(* bbk9588_drive_cpu_irq *)
DriveCpu(w) ==
  LET level == w.level /\ w.enabled
  IN IrqRequest([w EXCEPT !.ip2 = level, !.resample = level])

(* bbk9588_intc_output_handler *)
OutputHandler(w, level) == DriveCpu([w EXCEPT !.level = level])

(* jz4740_intc_update *)
IntcUpdate(w) ==
  LET level == w.pending \ w.mask # {}
  IN IF level = w.out THEN w
     ELSE OutputHandler([w EXCEPT !.out = level], level)

(* Fault: a mask write only takes effect with the next source. *)
SetMaskOnly(w, mask) == [w EXCEPT !.mask = mask]
SetMask(w, mask) == IntcUpdate([w EXCEPT !.mask = mask])

(* jz4740_intc_set_irq *)
SetIrq(w, i, level) ==
  IntcUpdate([w EXCEPT !.pending = IF level THEN @ \cup {i} ELSE @ \ {i}])

(* bbk9588_sync_tcu_irq_sources: the outputs of the TCU become INTC sources. *)
SyncTcuNew(w, outs) == IntcUpdate([w EXCEPT !.pending = @ \cup outs])
SyncTcu(w, outs) == IntcUpdate([w EXCEPT !.pending = (@ \ Timers) \cup outs])

(* bbk9588_update_irq *)
UpdateIrq(w, outs) ==
  LET s == SyncTcu(w, outs) IN DriveCpu([s EXCEPT !.level = s.out])

(* tcu_sync_irq: the board's handler runs when an output changes. *)
TcuOutputs(w, flags, masked) ==
  IF flags \ masked = tcuOut THEN w ELSE UpdateIrq(w, flags \ masked)

-----------------------------------------------------------------------------
(* Devices.  The lines of Devices and Handled are inputs of this module: MSC, *)
(* SADC, UART, DMAC, AIC and the others raise and lower them.                 *)

DeviceLine(d, level) ==
  /\ d \in Devices
  /\ lines' = IF level THEN lines \cup {d} ELSE lines \ {d}
  /\ wire' = SetIrq(wire, d, level)
  /\ UNCHANGED <<keyFlag, tcuFlag, tcuMask, tcuOut, cpuVars>>

(* bbk9588_dmac_irq_handler, bbk9588_aic_irq_handler *)
HandledLine(d, level) ==
  /\ d \in Handled
  /\ lines' = IF level THEN lines \cup {d} ELSE lines \ {d}
  /\ wire' = UpdateIrq(SetIrq(wire, d, level), tcuOut)
  /\ UNCHANGED <<keyFlag, tcuFlag, tcuMask, tcuOut, cpuVars>>

(* A host key goes down or up: the edge latches the pin's flag. *)
KeyEdge ==
  /\ keyFlag' = TRUE
  /\ wire' = SetIrq(wire, Keys, TRUE)
  /\ UNCHANGED <<lines, tcuFlag, tcuMask, tcuOut, cpuVars>>

(* The guest clears the flag: the port register at FLGC's offset. *)
KeyAck ==
  /\ pc = "run" /\ keyFlag
  /\ keyFlag' = FALSE
  /\ wire' = SetIrq(wire, Keys, FALSE)
  /\ UNCHANGED <<lines, tcuFlag, tcuMask, tcuOut, cpuVars>>

(* tcu_timer_cb: a match sets flags, pulses the event output, which wakes the *)
(* CPU unless the board's output is disabled, and drives the parents.         *)
TcuMatch(t) ==
  /\ t \in Timers \ tcuFlag
  /\ tcuFlag' = tcuFlag \cup {t}
  /\ halted' = (halted /\ ~wire.enabled)
  /\ tcuOut' = tcuFlag' \ tcuMask
  /\ wire' = TcuOutputs(IF wire.enabled THEN [wire EXCEPT !.wake = TRUE, !.kick = TRUE]
                        ELSE wire, tcuFlag', tcuMask)
  /\ UNCHANGED <<lines, keyFlag, tcuMask, im, ie, pc, vector>>

(* TFSR, TFCR, TMSR and TMCR writes of the guest. *)
TcuWrite(flags, masked) ==
  /\ pc = "run"
  /\ tcuFlag' = flags /\ tcuMask' = masked
  /\ tcuOut' = flags \ masked
  /\ wire' = TcuOutputs(wire, flags, masked)
  /\ UNCHANGED <<lines, keyFlag, cpuVars>>

(* ICMR, ICMSR and ICMCR writes of the guest. *)
IntcWrite(mask) ==
  /\ pc = "run"
  /\ wire' = SetMask(wire, mask)
  /\ UNCHANGED <<deviceVars, cpuVars>>

(* Any INTC read resynchronises the TCU sources first. *)
IntcRead ==
  /\ pc = "run"
  /\ wire' = IntcUpdate(SyncTcu(wire, tcuOut))
  /\ UNCHANGED <<deviceVars, cpuVars>>

(* bbk9588_intc_resample_timer_cb *)
Resample ==
  /\ wire.resample
  /\ wire' = UpdateIrq(wire, tcuOut)
  /\ UNCHANGED <<deviceVars, cpuVars>>

(* The cpu-irq-output property *)
SetOutput(on) == DriveCpu([wire EXCEPT !.enabled = on])

CpuIrqOutput(on) ==
  /\ on # wire.enabled
  /\ wire' = SetOutput(on)
  /\ UNCHANGED <<deviceVars, cpuVars>>

(* System reset, with the vCPU thread stopped between two blocks. *)
Reset ==
  /\ pc \in {"run", "loop", "asleep"}
  /\ lines' = {} /\ keyFlag' = FALSE
  /\ tcuFlag' = {} /\ tcuMask' = {} /\ tcuOut' = {}
  /\ wire' = ResetWire(wire.enabled)
  /\ im' = FALSE /\ ie' = FALSE /\ pc' = "run" /\ halted' = FALSE
  /\ UNCHANGED vector

-----------------------------------------------------------------------------
(* The vCPU thread. *)

(* Stale Cause.IP2 with the line low is cleared by the next falling edge. *)
Pending(w) == (w.cause \/ w.ip2) /\ im

(* mips_cpu_has_work.  Fault: only an enabled interrupt ends WAIT.  *)
HasWorkEnabled(w) == w.hard /\ Pending(w) /\ ie
HasWork(w) == w.hard /\ Pending(w)

(* The guest writes Status, or returns from the handler. *)
WriteStatus(m, e) ==
  /\ pc = "run"
  /\ <<m, e>> # <<im, ie>>
  /\ im' = m /\ ie' = e
  /\ UNCHANGED <<deviceVars, wire, pc, halted, vector>>

(* mips_cpu_exec_interrupt and the vector of mips_cpu_do_interrupt, Cause.IV  *)
(* set by the firmware.  Entry sets EXL.                                      *)
TakeInterrupt ==
  /\ pc = "run"
  /\ wire.hard \/ wire.wake
  /\ wire.hard \/ wire.ip2
  /\ wire' = IF wire.ip2 THEN [wire EXCEPT !.cause = TRUE] ELSE wire
  /\ ie /\ Pending(wire)
  /\ ie' = FALSE
  /\ vector' = IF wire.ip2 THEN "general" ELSE "special"
  /\ UNCHANGED <<deviceVars, im, pc, halted>>

(* helper_wait reads the level without the lock. *)
Wait ==
  /\ pc = "run"
  /\ pc' = IF wire.ip2 THEN "latch" ELSE "test"
  /\ UNCHANGED <<deviceVars, wire, im, ie, halted, vector>>

(* It takes the lock and latches what it read. *)
WaitLatch ==
  /\ pc = "latch"
  /\ pc' = "run"
  /\ wire' = Interrupt([wire EXCEPT !.cause = TRUE])
  /\ UNCHANGED <<deviceVars, im, ie, halted, vector>>

WaitTest ==
  /\ pc = "test"
  /\ pc' = IF HasWork(wire) THEN "run" ELSE "halt"
  /\ UNCHANGED <<deviceVars, wire, im, ie, halted, vector>>

WaitHalt ==
  /\ pc = "halt"
  /\ pc' = "clear"
  /\ halted' = TRUE
  /\ UNCHANGED <<deviceVars, wire, im, ie, vector>>

WaitClear ==
  /\ pc = "clear"
  /\ pc' = "loop"
  /\ wire' = [wire EXCEPT !.wake = FALSE]
  /\ UNCHANGED <<deviceVars, im, ie, halted, vector>>

(* cpu_handle_halt: the execution loop leaves the halt when there is work. *)
HaltLoop ==
  /\ pc = "loop"
  /\ IF halted /\ ~HasWork(wire) THEN pc' = "idle" /\ UNCHANGED halted
     ELSE pc' = "run" /\ halted' = FALSE
  /\ UNCHANGED <<deviceVars, wire, im, ie, vector>>

(* The idle test and the wait on halt_cond, under the lock. *)
Idle ==
  /\ pc = "idle"
  /\ IF halted /\ ~HasWork(wire)
     THEN pc' = "asleep" /\ wire' = [wire EXCEPT !.kick = FALSE]
     ELSE pc' = "loop" /\ UNCHANGED wire
  /\ UNCHANGED <<deviceVars, im, ie, halted, vector>>

Wake ==
  /\ pc = "asleep"
  /\ wire.kick
  /\ pc' = "idle"
  /\ UNCHANGED <<deviceVars, wire, im, ie, halted, vector>>

-----------------------------------------------------------------------------
MainLoop ==
  \/ \E d \in Devices, l \in BOOLEAN : DeviceLine(d, l)
  \/ \E d \in Handled, l \in BOOLEAN : HandledLine(d, l)
  \/ KeyEdge
  \/ \E t \in Timers : TcuMatch(t)
  \/ Resample
  \/ \E on \in BOOLEAN : CpuIrqOutput(on)
  \/ Reset

Guest ==
  \/ KeyAck
  \/ \E f, m \in SUBSET Timers : TcuWrite(f, m)
  \/ \E m \in SUBSET Sources : IntcWrite(m)
  \/ IntcRead
  \/ \E m, e \in BOOLEAN : WriteStatus(m, e)
  \/ Wait

Thread ==
  \/ WaitLatch \/ WaitTest \/ WaitHalt \/ WaitClear
  \/ HaltLoop \/ Idle \/ Wake
  \/ TakeInterrupt

Next == MainLoop \/ Guest \/ Thread

(* Guest instructions and devices owe nothing; the vCPU thread runs.         *)
Spec == Init /\ [][Next]_vars /\ WF_vars(Thread)

-----------------------------------------------------------------------------
(* The INTC knows exactly the sources that are active: no path through the   *)
(* board's handlers loses one or leaves one behind.                          *)
SourcesAgree ==
  /\ tcuOut = tcuFlag \ tcuMask
  /\ wire.pending = lines \cup tcuOut \cup (IF keyFlag THEN {Keys} ELSE {})

Agree(w) ==
  /\ w.out = (w.pending \ w.mask # {})
  /\ w.level = w.out
  /\ w.ip2 = (w.level /\ w.enabled)
  /\ w.resample = w.ip2
  /\ w.ip2 => w.cause /\ w.hard

(* Between two calls the controller's output, the board's copy of it, the    *)
(* level the CPU sees and the resample timer say the same, and a high level  *)
(* is latched in Cause with the CPU's interrupt request set.                 *)
WiresAgree == Agree(wire)

(* Cause.IP2 stays set with the line low in one case only: the line fell     *)
(* between the two halves of a WAIT.                                         *)
Latched(w) == w.cause /\ ~w.ip2
OnlyWaitLeavesCause == [][Latched(wire') => Latched(wire) \/ WaitLatch]_vars

(* No wakeup is lost between the unlocked tests of WAIT and the wait on      *)
(* halt_cond: a sleeping thread with work to do has been signalled.          *)
NoLostWakeup == pc = "asleep" /\ HasWork(wire) => wire.kick

(* The 1 ms resample never finds anything to repair.                         *)
ResampleFindsNothing == [][Resample => wire' = [wire EXCEPT !.kick = TRUE]]_vars

(* "A key wakes the machine only through the GPIO flag, the GPIO parent,     *)
(* INTC and CPU IP2", docs/jz4740-qemu-remodel-plan.md: with its source      *)
(* unmasked and IM2 set the key ends WAIT, whatever IE is.                   *)
KeyWakes ==
  (pc # "run" /\ keyFlag /\ Keys \notin wire.mask /\ wire.enabled /\ im)
    ~> (pc = "run" \/ ~wire.enabled)

(* "This core/board combination does not use the MIPS32 special interrupt    *)
(* vector at 0x200", target/mips/tcg/system/tlb_helper.c.                    *)
GeneralVectorOnly == vector # "special"
=============================================================================
