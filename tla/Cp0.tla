-------------------------------- MODULE Cp0 --------------------------------
(***************************************************************************)
(* The system control coprocessor as the translator sees it                *)
(* (target/mips/tcg/translate.c: gen_cp0, gen_mfc0, gen_mtc0): which       *)
(* registers the core has, and which accesses leave the translated block,  *)
(* so that the main loop looks for interrupts and the next block is        *)
(* translated under what holds now.  An instruction in a delay slot is     *)
(* followed by the branch, and the branch chains to the next block.        *)
(***************************************************************************)
EXTENDS Naturals, FiniteSets

CONSTANTS
  Features,      \* what the core has of the options below
  Masks,         \* what the guest writes to Status.IM
  Icount         \* QEMU counts instructions

VARIABLES
  status,        \* [ie, exl, user, im]: IE; EXL or ERL; KSU; the lines of IM
  cause,         \* Cause.IP
  ip2,           \* bbk9588_irq_ip2_level
  request,       \* CPU_INTERRUPT_HARD
  kick,          \* cpu_interrupt asked the running block to stop
  at,            \* the thread is in the main loop, in a block, or in a delay slot
  stale,         \* the block was translated under something that has changed
  swallowed      \* a slot was to leave for the main loop, and the branch chained on

cp0Vars == <<status, cause, ip2, request, kick, at, stale, swallowed>>
linesVars == <<cause, ip2, request, kick>>

Lines == {"soft", "ip2", "timer"}

----------------------------------------------------------------------------
(* gen_mfc0: the registers that can be read, and the options they belong to.   *)
R(reg, sels, needs) == [reg |-> reg, sels |-> sels, needs |-> needs]

IndexReads ==
  {R(0, {0}, {}), R(0, 1 .. 3, {"MT"}), R(0, {4}, {"VP"}),
   R(1, {0}, {"preR6"}), R(1, 1 .. 7, {"MT"}), R(2, {0}, {}), R(2, 1 .. 7, {"MT"})}

PagingReads ==
  {R(3, {0}, {}), R(3, {1}, {"VP"}), R(4, {0}, {}), R(4, {2}, {"ULRI"}), R(4, {5}, {"MI"}),
   R(5, {0}, {}), R(5, {1}, {"R2"}), R(5, 2 .. 4, {"SC"}), R(5, 5 .. 7, {"PW"}),
   R(6, {0}, {}), R(6, 1 .. 5, {"R2"}), R(6, {6}, {"PW"}), R(7, {0}, {"R2"})}

EventReads ==
  {R(8, {0}, {}), R(8, {1, 3}, {"BI"}), R(8, {2}, {"BP"}), R(12, 1 .. 3, {"R2"})}
    \cup {R(reg, {0}, {}) : reg \in 9 .. 14}

ConfigReads ==
  {R(15, {0}, {}), R(15, {1}, {"R2"}), R(15, {3}, {"R2", "CMGCR"}), R(16, 0 .. 7, {}),
   R(17, {0}, {}), R(17, {1, 2}, {"MRP"}), R(18, 0 .. 7, {"WR"}), R(19, 0 .. 7, {"WR"})}

DebugReads ==
  {R(21, {0}, {"preR6"}), R(22, 0 .. 7, {}), R(23, {0}, {}), R(24, {0}, {}), R(25, {0}, {})}

CacheReads ==
  {R(26, {0}, {}), R(27, {0}, {}), R(28, 0 .. 7, {}), R(29, 0 .. 7, {}), R(30, {0}, {}),
   R(31, {0}, {}), R(31, 2 .. 7, {"KScratch"})}

Reads == IndexReads \cup PagingReads \cup EventReads \cup ConfigReads \cup DebugReads
           \cup CacheReads

----------------------------------------------------------------------------
(* gen_mtc0: what a write does, and how the block goes on after it: it may    *)
(* end and chain to the next one (DISAS_STOP), or leave (DISAS_EXIT).         *)
W(reg, sels, needs, does, ends) ==
  [reg |-> reg, sels |-> sels, needs |-> needs, does |-> does, ends |-> ends]
Set(reg, sels, needs) == W(reg, sels, needs, "set", "next")
Ignored(reg, sels, needs) == W(reg, sels, needs, "ignored", "next")

IndexWrites ==
  {Set(0, {0}, {}), Set(0, {1}, {"MT"}), Ignored(0, {2, 3}, {"MT"}), Ignored(0, {4}, {"VP"}),
   Ignored(1, {0}, {}), Set(1, 1 .. 7, {"MT"}), Set(2, {0}, {}), Set(2, 1 .. 7, {"MT"})}

PagingWrites ==
  {Set(3, {0}, {}), Ignored(3, {1}, {"VP"}), Set(4, {0}, {}), Set(4, {2}, {"ULRI"}),
   Set(4, {5}, {"MI"}), Set(5, {0}, {}), W(5, {1}, {"R2"}, "set", "stop"),
   Set(5, 2 .. 4, {"SC"}), Set(5, 5 .. 7, {"PW"}), Set(6, {0}, {}), Set(6, 1 .. 5, {"R2"}),
   Set(6, {6}, {"PW"})}

(* Fault: a write of Status that ends the block, but does not leave.           *)
EventWritesStop ==
  {W(7, {0}, {"R2"}, "set", "stop"), Ignored(8, 0 .. 3, {}),
   W(12, {0}, {}, "set", "stop"), W(12, 1 .. 3, {"R2"}, "set", "stop"),
   W(13, {0}, {}, "set", "exit")}
    \cup {Set(reg, {0}, {}) : reg \in {9, 10, 11, 14}}

EventWrites ==
  {W(7, {0}, {"R2"}, "set", "stop"), Ignored(8, 0 .. 3, {}),
   W(12, {0}, {}, "set", "exit"), W(12, 1 .. 3, {"R2"}, "set", "stop"),
   W(13, {0}, {}, "set", "exit")}
    \cup {Set(reg, {0}, {}) : reg \in {9, 10, 11, 14}}

ConfigWrites ==
  {Ignored(15, {0}, {}), Set(15, {1}, {"R2"}), W(16, {0, 2, 3, 4, 5}, {}, "set", "stop"),
   Ignored(16, {1, 6, 7}, {}), Set(17, {0}, {}), Set(17, {1, 2}, {"MRP"}),
   Set(18, 0 .. 7, {"WR"}), Set(19, 0 .. 7, {"WR"})}

DebugWrites ==
  {Set(21, {0}, {"preR6"}), Ignored(22, 0 .. 7, {}), W(23, {0}, {}, "set", "exit"),
   W(23, 1 .. 5, {}, "none", "stop"), Set(24, {0}, {}), Set(25, {0}, {})}

CacheWrites ==
  {W(26, {0}, {}, "set", "stop"), Ignored(27, {0}, {}), Set(28, 0 .. 7, {}),
   Set(29, 0 .. 7, {}), Set(30, {0}, {}), Set(31, {0}, {}), Set(31, 2 .. 7, {"KScratch"})}

Writes == IndexWrites \cup PagingWrites \cup EventWrites \cup ConfigWrites
            \cup DebugWrites \cup CacheWrites

----------------------------------------------------------------------------
(* check_insn, check_pw: without the release or the walker the instruction is  *)
(* reserved.  CP0_CHECK: without any other option a read gives all ones, and a *)
(* write does nothing; so do registers that are not listed.                    *)
Lacks(row) == row.needs \ Features

IsReserved(row, sel) ==
  \/ sel # 0 /\ "R1" \notin Features
  \/ Lacks(row) \cap {"R2", "PW"} # {}

Read(row, sel) == IF IsReserved(row, sel) THEN "reserved"
                  ELSE IF Lacks(row) = {} THEN "value" ELSE "ones"

(* With icount, every write that is known to the translator may interrupt.     *)
Write(row, sel) ==
  IF IsReserved(row, sel) THEN [does |-> "reserved", ends |-> "exit"]
  ELSE IF Lacks(row) # {} THEN [does |-> "none", ends |-> "next"]
  ELSE [does |-> row.does,
        ends |-> IF Icount /\ row.does # "none" THEN "exit" ELSE row.ends]

(* mips_tr_init_disas_context, compute_hflags: a block is translated for the   *)
(* Config registers, the mode, and the debug mode.                             *)
Assumed == ({16} \X (0 .. 5)) \cup {<<5, 1>>, <<12, 0>>, <<23, 0>>}

(* The accesses, told apart by what they do to the lines and to the block.       *)
Known(r) == IF r \in Assumed \cup {<<11, 0>>, <<13, 0>>} THEN r ELSE <<>>

ReadKinds ==
  UNION {{[gives |-> Read(row, sel), time |-> row.reg = 9] : sel \in row.sels} :
         row \in Reads}

WriteKinds ==
  UNION {{[how |-> Write(row, sel), reg |-> Known(<<row.reg, sel>>)] : sel \in row.sels} :
         row \in Writes}

----------------------------------------------------------------------------
Init ==
  /\ status = [ie |-> FALSE, exl |-> TRUE, user |-> FALSE, im |-> {}]
  /\ cause = {} /\ ip2 = FALSE /\ request = FALSE /\ kick = FALSE
  /\ at = "main" /\ stale = FALSE /\ swallowed = FALSE

Kernel == status.exl \/ ~status.user

(* cpu_mips_hw_interrupts_enabled, cpu_mips_hw_interrupts_pending              *)
Pending(st) == (cause \cup (IF ip2 THEN {"ip2"} ELSE {})) \cap st.im # {}
Deliverable == request /\ status.ie /\ ~status.exl /\ Pending(status)

(* cpu_mips_irq_request: Cause follows the line, but never misses IP2.          *)
Irq(line, level, wire) ==
  /\ cause' = (IF level THEN cause \cup {line} ELSE cause \ {line})
                \cup (IF wire THEN {"ip2"} ELSE {})
  /\ request' = (cause' # {} \/ wire)
  /\ kick' = (kick \/ request')

(* The board drives IP2, and the timer of the core expires, in the main loop.   *)
Drive(level) ==
  /\ ip2' = level /\ Irq("ip2", level, level)
  /\ UNCHANGED <<status, at, stale, swallowed>>

Expire == Irq("timer", TRUE, ip2) /\ UNCHANGED <<ip2, status, at, stale, swallowed>>

(* cpu_handle_interrupt and mips_cpu_exec_interrupt, then the next block.       *)
Enter ==
  /\ at = "main"
  /\ kick' = FALSE
  /\ cause' = IF ip2 THEN cause \cup {"ip2"} ELSE cause
  /\ status' = [status EXCEPT !.exl = @ \/ Deliverable]
  /\ at' = "code" /\ stale' = FALSE /\ swallowed' = FALSE
  /\ UNCHANGED <<ip2, request>>

(* What follows an instruction that changed what a block is translated for or   *)
(* not.  A block looks for a kick as it starts.                                *)
Chain == IF kick' THEN "main" ELSE "code"

(* mips_tr_tb_stop; a block may also end of its own accord.                     *)
GoesOn(changes, ends) ==
  /\ at = "code"
  /\ \/ ends = "next" /\ at' = "code" /\ stale' = (stale \/ changes)
     \/ ends = "next" /\ at' = Chain /\ stale' = (at' = "code" /\ (stale \/ changes))
     \/ ends = "stop" /\ at' = Chain /\ stale' = FALSE
     \/ ends = "exit" /\ at' = "main" /\ stale' = FALSE
  /\ swallowed' = (swallowed /\ at' # "main")

(* gen_branch: the branch of the slot chains by a lookup, or by a link to a      *)
(* block that was right when the link was made: then by way of the main loop.   *)
Branches(changes, ends) ==
  /\ at = "slot"
  /\ \/ at' = Chain /\ stale' \in {FALSE, at' = "code" /\ (changes \/ stale)}
     \/ at' = "main" /\ stale' = FALSE
  /\ swallowed' = (at' # "main" /\ (swallowed \/ ends # "next"))

Follow(changes, ends) == GoesOn(changes, ends) \/ Branches(changes, ends)

(* An exception leaves for the main loop, wherever it is raised.                *)
Raise ==
  /\ status' = [status EXCEPT !.exl = TRUE]
  /\ at' = "main" /\ stale' = FALSE /\ swallowed' = FALSE
  /\ UNCHANGED linesVars

InBlock == at \in {"code", "slot"}

(* Branches and other instructions.                                            *)
Branch == at = "code" /\ at' = "slot" /\ UNCHANGED <<status, linesVars, stale, swallowed>>
Plain == UNCHANGED <<status, linesVars>> /\ Follow(FALSE, "next")

(* gen_cp0: the coprocessor is not for user mode.                               *)
Unusable == InBlock /\ ~Kernel /\ Raise

(* A read of Count tells the time: the timer may have expired.                  *)
Mfc0(read) ==
  /\ InBlock /\ Kernel
  /\ IF read.gives = "reserved" THEN Raise
     ELSE /\ \/ read.time /\ Irq("timer", TRUE, ip2)
             \/ UNCHANGED <<cause, request, kick>>
          /\ Follow(FALSE, IF read.time THEN "exit" ELSE "next")
          /\ UNCHANGED <<ip2, status>>

(* The helpers of Status, Cause and Compare; other registers touch no line.      *)
Effect(r) ==
  CASE r = <<12, 0>> ->
         /\ \E ie, exl, user \in BOOLEAN, im \in Masks :
              status' = [ie |-> ie, exl |-> exl, user |-> user, im |-> im]
         /\ UNCHANGED <<cause, request, kick>>
    [] r = <<13, 0>> ->
         /\ \/ \E level \in BOOLEAN : level # ("soft" \in cause) /\ Irq("soft", level, ip2)
            \/ UNCHANGED <<cause, request, kick>>
         /\ UNCHANGED status
    [] r = <<11, 0>> -> Irq("timer", FALSE, ip2) /\ UNCHANGED status
    [] OTHER -> UNCHANGED <<status, cause, request, kick>>

Mtc0(write) ==
  /\ InBlock /\ Kernel
  /\ IF write.how.does = "reserved" THEN Raise
     ELSE /\ IF write.how.does = "set" THEN Effect(write.reg)
             ELSE UNCHANGED <<status, cause, request, kick>>
          /\ Follow(write.how.does = "set" /\ write.reg \in Assumed, write.how.ends)
          /\ UNCHANGED ip2

(* The rest of gen_cp0: ERET and WAIT, which Release 6 keeps out of a slot; DI and *)
(* EI (decode_opc); the instructions of the TLB are plain ones here.             *)
NotInSlot == at = "slot" /\ "preR6" \notin Features

Eret ==
  /\ InBlock /\ Kernel
  /\ IF NotInSlot THEN Raise
     ELSE /\ status' = [status EXCEPT !.exl = FALSE]
          /\ UNCHANGED linesVars /\ Follow(TRUE, "exit")

Wait ==
  /\ InBlock /\ Kernel
  /\ IF NotInSlot THEN Raise
     ELSE UNCHANGED <<status, linesVars>> /\ Follow(FALSE, "exit")

Enable(on) ==
  /\ InBlock /\ Kernel
  /\ IF "R2" \notin Features THEN Raise
     ELSE /\ status' = [status EXCEPT !.ie = on]
          /\ UNCHANGED linesVars /\ Follow(FALSE, IF on THEN "exit" ELSE "stop")

Next ==
  \/ \E level \in BOOLEAN : Drive(level) \/ Enable(level)
  \/ Expire \/ Enter \/ Branch \/ Plain \/ Unusable \/ Eret \/ Wait
  \/ \E read \in ReadKinds : Mfc0(read)
  \/ \E write \in WriteKinds : Mtc0(write)

Spec == Init /\ [][Next]_cp0Vars

----------------------------------------------------------------------------
TypeOK ==
  /\ status \in [ie : BOOLEAN, exl : BOOLEAN, user : BOOLEAN, im : SUBSET Lines]
  /\ cause \subseteq Lines /\ at \in {"main", "code", "slot"}
  /\ {ip2, request, kick, stale, swallowed} \subseteq BOOLEAN

(* An interrupt that can be delivered is on its way: the guest is not executing *)
(* blocks that chain to each other while nothing tells them to stop.  Only a     *)
(* slot that should have left makes the guest go on until something else does.  *)
Prompt == InBlock /\ Deliverable => kick \/ swallowed

(* A block runs under what it was translated for, but for the same slots.         *)
AssumptionsHold == InBlock /\ stale => swallowed

(* What a write can set, a read gives back.                                      *)
ReadsBack ==
  \A write \in Writes : \A sel \in write.sels :
    Write(write, sel).does = "set" =>
      \E read \in Reads : /\ read.reg = write.reg /\ sel \in read.sels
                          /\ Read(read, sel) = "value"
=============================================================================
