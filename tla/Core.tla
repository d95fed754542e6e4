-------------------------------- MODULE Core --------------------------------
(***************************************************************************)
(* How the guest's code runs: the translator's blocks, branches and their  *)
(* delay slots (target/mips/tcg/translate.c), and the exceptions that may  *)
(* strike anywhere in them (tcg/system/tlb_helper.c, tcg/exception.c).     *)
(* While a block runs, the CPU's PC and branch flags are behind; they are  *)
(* written when it ends, and restored when an instruction in it faults.    *)
(* Addresses count instructions.  due follows what the architecture says   *)
(* is next: a branch takes effect after the instruction in its slot, and   *)
(* an exception in a slot comes back to the branch.                        *)
(***************************************************************************)
EXTENDS Integers, SequencesExt

CONSTANTS
  Code,          \* address -> [op, to]: the program that is loaded first
  Patches,       \* <<address, instruction>>: what a device may write over it
  PageSize,      \* instructions of a page
  Budgets,       \* max_insns: how many instructions a block may have
  Refill, General,  \* the exception vectors
  Registers      \* what a register that JR reads may hold

VARIABLES
  code,          \* memory
  blocks,        \* translated blocks by where and how they start: those that start
                 \* in a slot.  Another block is what it would be if translated again
  cpu,           \* [pc, branch, btarget, bcond, exl, epc, user, kernel]
  run,           \* [key, block, at]: what runs, and its current instruction
  due,           \* [pc, then]: what the architecture executes next, and after it
                 \* what, when that is a delay slot
  resume,        \* where the interrupted program goes on
  edited         \* blocks of a slot whose branch was replaced after translation

flowVars == <<due, resume>>
coreVars == <<code, blocks, cpu, run, flowVars, edited>>

Idle == [key |-> <<0, "none", 0>>, block |-> [insns |-> <<>>, btarget |-> 0], at |-> 0]
Branches == {"B", "BC", "BL", "BR"}     \* MIPS_HFLAG_BMASK_BASE
Immediate == Branches \ {"BR"}
Sequential == -1                        \* due.then: no branch is pending

Page(a) == a \div PageSize

----------------------------------------------------------------------------
(* mips_tr_translate_insn, mips_tr_tb_stop: a block takes in instructions until  *)
(* one leaves it, a slot completes its branch, the page or the budget ends.      *)
Leaves(insn) == insn.op \in {"status", "eret"}

Ends(start, branch, n, k) ==
  LET a == start + k - 1
  IN  \/ k = n \/ (a + 1) % PageSize = 0
      \/ Leaves(code[a])
      \/ k = 1 /\ branch # "none"
      \/ k > 1 /\ code[a - 1].op \in Branches

BlockLength(start, branch, n) ==
  CHOOSE k \in 1 .. n : /\ Ends(start, branch, n, k)
                        /\ \A j \in 1 .. k - 1 : ~Ends(start, branch, n, j)

(* mips_tr_init_disas_context, restore_cpu_state: the flags come with the block's *)
(* key, the target of a pending branch from the CPU as it translates.            *)
Compiled(key) ==
  [insns |-> [k \in 1 .. BlockLength(key[1], key[2], key[3]) |-> code[key[1] + k - 1]],
   btarget |-> IF key[2] \in Immediate THEN cpu.btarget ELSE 0]

Running == run.at > 0
Here == run.key[1] + run.at - 1
Insn == run.block.insns[run.at]

(* What the translator knew of branches at the current instruction.              *)
Branch == IF run.at = 1 THEN run.key[2]
          ELSE LET prior == run.block.insns[run.at - 1].op
               IN  IF prior \in Branches THEN prior ELSE "none"

Target == IF Branch = "BR" THEN cpu.btarget
          ELSE IF run.at = 1 THEN run.block.btarget ELSE run.block.insns[run.at - 1].to

(* hflags_mmu_index, check_cp0_enabled: compute_hflags says what these must be.   *)
Kernel(c) == c.exl \/ ~c.user

----------------------------------------------------------------------------
Init ==
  /\ code = Code /\ blocks = <<>> /\ run = Idle /\ edited = {}
  /\ cpu = [pc |-> 0, branch |-> "none", btarget |-> 0, bcond |-> FALSE,
            exl |-> FALSE, epc |-> 0, user |-> FALSE, kernel |-> TRUE]
  /\ due = [pc |-> 0, then |-> Sequential] /\ resume = 0

(* The end of one block is the start of the next; main loop and interrupts come  *)
(* in between.  Where there is no memory, a fetch can only fault.                *)
Leave(pc, branch, btarget) ==
  /\ run' = Idle
  /\ cpu' = [cpu EXCEPT !.pc = pc, !.branch = branch, !.btarget = btarget]
  /\ UNCHANGED <<code, blocks, edited>>

Enter(n) ==
  LET key == <<cpu.pc, cpu.branch, n>>
  IN  /\ ~Running /\ cpu.pc \in DOMAIN code
      /\ IF key \in DOMAIN blocks
         THEN run' = [key |-> key, block |-> blocks[key], at |-> 1] /\ UNCHANGED <<blocks, edited>>
         ELSE /\ run' = [key |-> key, block |-> Compiled(key), at |-> 1]
              /\ IF cpu.branch \notin Immediate THEN UNCHANGED <<blocks, edited>>
                 ELSE /\ blocks' = [k \in DOMAIN blocks \cup {key} |->
                                     IF k = key THEN Compiled(k) ELSE blocks[k]]
                      /\ edited' = IF code[cpu.pc - 1] = [op |-> key[2], to |-> cpu.btarget]
                                   THEN edited \ {key} ELSE edited \cup {key}
      /\ UNCHANGED <<code, cpu, flowVars>>

(* mips_cpu_do_interrupt, exception_resume_pc.  A second exception keeps EPC.    *)
Vector(c, refill) == IF refill /\ ~c.exl THEN Refill ELSE General

(* A fault: the slot itself is where the program would go on.                    *)
SlotPc(c) == c.pc

ResumePc(c) == IF c.branch # "none" THEN c.pc - 1 ELSE c.pc

Interrupted(c, refill) ==
  [c EXCEPT !.pc = Vector(c, refill), !.branch = "none", !.exl = TRUE,
            !.epc = IF c.exl THEN @ ELSE ResumePc(c),
            !.kernel = IF c.exl THEN @ ELSE TRUE]

Raise(c, refill) ==
  /\ cpu' = Interrupted(c, refill)
  /\ run' = Idle
  /\ due' = [pc |-> Vector(c, refill), then |-> Sequential]
  /\ resume' = IF c.exl THEN resume
               ELSE IF due.then # Sequential THEN due.pc - 1 ELSE due.pc
  /\ UNCHANGED <<code, blocks, edited>>

(* An external interrupt, or no mapping for the next block's page.               *)
Interrupt == ~Running /\ ~cpu.exl /\ Raise(cpu, FALSE)
FetchFault == ~Running /\ cpu.pc \notin {Refill, General} /\ Raise(cpu, TRUE)

(* generate_exception_err and mips_restore_state_to_opc: the CPU as it was when   *)
(* the instruction started.                                                     *)
Restored ==
  [cpu EXCEPT !.pc = Here, !.branch = Branch,
              !.btarget = IF Branch \in {"B", "BC", "BL"} THEN Target ELSE @]

Nullified == Branch = "BL" /\ ~cpu.bcond

Fault(refill) ==
  /\ Running /\ ~Nullified /\ Insn.op = "load"
  /\ Raise(Restored, refill)

(* A branch in a slot, or CP0 in user mode.                                      *)
Reserved ==
  /\ Running /\ ~Nullified
  /\ \/ Insn.op \in Branches /\ Branch # "none"
     \/ Insn.op \in {"status", "eret"} /\ ~cpu.kernel
  /\ Raise(Restored, FALSE)

(* decode_opc: a likely branch that is not taken skips its slot.                 *)
Skip ==
  /\ Running /\ Nullified
  /\ Leave(Here + 1, "none", cpu.btarget)
  /\ due' = [pc |-> due.then, then |-> Sequential]
  /\ UNCHANGED resume

(* gen_compute_branch; what it decides is left to the flags and registers.       *)
Ended == run.at = Len(run.block.insns)

TakeBranch(taken, to) ==
  /\ Running /\ Insn.op \in Branches /\ Branch = "none"
  /\ Insn.op \in {"B", "BR"} => taken
  /\ to \in IF Insn.op = "BR" THEN Registers ELSE {Insn.to}
  /\ due' = [pc |-> Here + 1, then |-> IF taken THEN to ELSE Here + 2]
  /\ IF Ended
     THEN /\ run' = Idle
          /\ cpu' = [cpu EXCEPT !.bcond = taken, !.pc = Here + 1, !.branch = Insn.op,
                                !.btarget = to]
     ELSE /\ run' = [run EXCEPT !.at = @ + 1]
          /\ cpu' = [cpu EXCEPT !.bcond = taken,
                                !.btarget = IF Insn.op = "BR" THEN to ELSE @]
  /\ UNCHANGED <<code, blocks, edited, resume>>

(* Any other instruction: gen_branch completes the branch whose slot it was in.  *)
Completed == IF Branch = "BC" /\ ~cpu.bcond THEN Here + 1 ELSE Target

Execute ==
  /\ Running /\ ~Nullified /\ Insn.op \in {"op", "load", "status"}
  /\ Insn.op = "status" => cpu.kernel
  /\ UNCHANGED <<code, blocks, edited, resume>>
  /\ \E user \in IF Insn.op = "status" THEN BOOLEAN ELSE {cpu.user} :
       LET c == [cpu EXCEPT !.user = user, !.kernel = Kernel([cpu EXCEPT !.user = user])]
       IN  IF Branch # "none"
           THEN /\ run' = Idle
                /\ cpu' = [c EXCEPT !.pc = Completed, !.branch = "none"]
                /\ due' = [pc |-> IF run.key \in edited THEN Completed ELSE due.then,
                           then |-> Sequential]
           ELSE /\ due' = [pc |-> Here + 1, then |-> Sequential]
                /\ IF Ended THEN run' = Idle /\ cpu' = [c EXCEPT !.pc = Here + 1]
                            ELSE run' = [run EXCEPT !.at = @ + 1] /\ cpu' = c

(* ERET ends the block; the exception is over.                                   *)
Eret ==
  /\ Running /\ Insn.op = "eret" /\ cpu.kernel /\ Branch = "none"
  /\ run' = Idle
  /\ cpu' = [cpu EXCEPT !.pc = cpu.epc, !.exl = FALSE, !.kernel = ~cpu.user]
  /\ due' = [pc |-> resume, then |-> Sequential]
  /\ UNCHANGED <<code, blocks, edited, resume>>

(* A device writes over code: the blocks of that page go.  A block that starts   *)
(* with the slot is of the next page when the branch is the last of its own.     *)
Patch(a, insn) ==
  /\ ~Running /\ code[a] # insn
  /\ code' = [code EXCEPT ![a] = insn]
  /\ LET kept == {k \in DOMAIN blocks : Page(k[1]) # Page(a)}
     IN  /\ blocks' = Restrict(blocks, kept)
         /\ edited' = (edited \cap kept) \cup {k \in kept : k[1] = a + 1}
  /\ UNCHANGED <<cpu, run, flowVars>>

Next ==
  \/ \E n \in Budgets : Enter(n)
  \/ Interrupt \/ FetchFault \/ Reserved \/ Skip \/ Execute \/ Eret
  \/ \E refill \in BOOLEAN : Fault(refill)
  \/ \E taken \in BOOLEAN, to \in DOMAIN Code : TakeBranch(taken, to)
  \/ \E p \in Patches : Patch(p[1], p[2])

Spec == Init /\ [][Next]_coreVars

----------------------------------------------------------------------------
TypeOK ==
  /\ cpu.branch \in Branches \cup {"none"} /\ cpu.pc \in Nat
  /\ run.at <= Len(run.block.insns)

(* The program runs as the architecture has it, however it is cut into blocks    *)
(* and wherever exceptions strike; and it comes back to the branch of a slot.    *)
(* Only a block that was translated behind another branch may go astray.         *)
Follows == due.pc = IF Running THEN Here ELSE cpu.pc

(* The flags that do_interrupt adjusts on its own are those that compute_hflags  *)
(* would find, and EPC is where the program goes on.                             *)
FlagsAgree ==
  /\ cpu.kernel = Kernel(cpu)
  /\ cpu.exl => cpu.epc = resume
=============================================================================
