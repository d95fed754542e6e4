-------------------------------- MODULE Cpm --------------------------------
(***************************************************************************)
(* The JZ4740 clock and power manager (hw/misc/jz4740_cpm.c).  No clock is *)
(* gated by it: it stores masked registers, locks the PLL at once and      *)
(* tells the board when the wake bits may have changed.                    *)
(*                                                                         *)
(* A register is the set of its bits, numbered as in the manual.           *)
(***************************************************************************)
EXTENDS Naturals, FiniteSets

CONSTANTS
  Registers,     \* the ones the guest writes here
  Values,        \* sets of bits
  Accesses       \* <<first byte, number of bytes>> within the word

VARIABLES
  regs,
  told           \* the wake bits when the board was last told

vars == <<regs, told>>

PLLEN == 8
PLLS == 10

WordOnly == {"CPCCR", "CPPCR", "I2SCDR", "LPCDR", "MSCCDR", "UHCCDR", "SSICDR"}

(* jz4740_cpm_mask_write *)
RwMask ==
  [CPCCR |-> 0 .. 31, LCR |-> 0 .. 7, CPPCR |-> 0 .. 9 \cup 16 .. 31,
   CLKGR |-> 0 .. 15, SCR |-> {4} \cup 6 .. 15, I2SCDR |-> 0 .. 8,
   LPCDR |-> 0 .. 10 \cup {31}, MSCCDR |-> 0 .. 4, UHCCDR |-> 0 .. 3,
   SSICDR |-> 0 .. 3 \cup {31}]

(* A fault: the lock bit is left to the guest. *)
NoLock(r, v) == v \cap RwMask[r]

Masked(r, v) ==
  LET m == v \cap RwMask[r]
  IN  IF r = "CPPCR" /\ PLLEN \in m THEN m \cup {PLLS} ELSE m

(* jz4740_cpm_reset_hold *)
ResetValue ==
  [CPCCR |-> {3}, LCR |-> 3 .. 7, CPPCR |-> {0, 4, 19, 27, 29}, CLKGR |-> {},
   SCR |-> {8, 10, 12}, I2SCDR |-> {2}, LPCDR |-> {2}, MSCCDR |-> {2},
   UHCCDR |-> {2}, SSICDR |-> {2}]

(* jz4740_cpm_clkgr_wake_mask, jz4740_cpm_scr_wake_mask *)
WakeBits(g) ==
  [clkgr |-> g.CLKGR \cap {7, 9, 11, 14}, scr |-> g.SCR \cap {7}]

(* jz4740_cpm_notify: the board samples its interrupts again.                  *)
Notify == told' = WakeBits(regs')

Init == regs = ResetValue /\ told = WakeBits(ResetValue)

(* jz4740_cpm_write *)
Lanes(a) == 8 * a[1] .. 8 * (a[1] + a[2]) - 1

Write(r, a, v) ==
  /\ r \in WordOnly => a = <<0, 4>>
  /\ regs' = [regs EXCEPT ![r] = Masked(r, (@ \ Lanes(a)) \cup (v \cap Lanes(a)))]
  /\ IF r \in {"CLKGR", "SCR"} THEN Notify ELSE UNCHANGED told

Ignored(r, a) == r \in WordOnly /\ a # <<0, 4>> /\ UNCHANGED vars

(* The holds of all devices, then jz4740_cpm_reset_exit *)
Reset == regs' = ResetValue /\ Notify

(* jz4740_cpm_post_load *)
Restore == UNCHANGED regs /\ Notify

Next ==
  \/ \E r \in Registers, a \in Accesses :
       Ignored(r, a) \/ \E v \in Values : Write(r, a, v)
  \/ Reset \/ Restore

Spec == Init /\ [][Next]_vars

----------------------------------------------------------------------------
(* Every register keeps within its mask, and the PLL is locked while it is on. *)
TypeOK ==
  /\ DOMAIN regs = DOMAIN RwMask
  /\ \A r \in DOMAIN regs : regs[r] \subseteq RwMask[r] \cup {PLLS}
  /\ PLLS \in regs.CPPCR <=> PLLEN \in regs.CPPCR

(* The board has been told of the wake bits that are now in the registers.     *)
BoardKnows == told = WakeBits(regs)

(* A narrow write changes its own bytes and no others.                         *)
OnlyItsLanes ==
  \A r \in Registers : regs'[r] # regs[r] /\ regs' # ResetValue =>
    \E a \in Accesses :
      /\ (regs'[r] \ Lanes(a)) \ {PLLS} = (regs[r] \ Lanes(a)) \ {PLLS}
      /\ r \in WordOnly => a = <<0, 4>>
=============================================================================
