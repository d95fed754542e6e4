------------------------------ MODULE FlashArray ------------------------------
(***************************************************************************)
(* What a raw NAND promises about its cells: a program only clears bits,   *)
(* in one page; only an erase sets them, in one whole block.               *)
(***************************************************************************)
EXTENDS Naturals

CONSTANTS Pages, Columns, PagesPerBlock

VARIABLE cells  \* cells[p][c]: 1 when erased, 0 when programmed

Erased == [c \in Columns |-> 1]
And(a, b) == [c \in Columns |-> IF a[c] = 0 \/ b[c] = 0 THEN 0 ELSE 1]
Block(p) == p \div PagesPerBlock

ArrayInit == cells \in [Pages -> [Columns -> {0, 1}]]

ProgramPage(p) ==
  \E d \in [Columns -> {0, 1}] : cells' = [cells EXCEPT ![p] = And(@, d)]

EraseBlock(b) ==
  cells' = [p \in Pages |-> IF Block(p) = b THEN Erased ELSE cells[p]]

ArrayNext ==
  \/ \E p \in Pages : ProgramPage(p)
  \/ \E b \in {Block(p) : p \in Pages} : EraseBlock(b)

ArraySpec == ArrayInit /\ [][ArrayNext]_cells
=============================================================================
