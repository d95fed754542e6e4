------------------------------ MODULE NandDevice ------------------------------
(***************************************************************************)
(* The command interface of the raw NAND, hw/block/bbk9588_nand.c: the     *)
(* command, address and data windows of the chip select, the page program  *)
(* buffer with random data input, copy-back and block erase, the fault     *)
(* injection properties, and the GPIO flag by which the board reports the  *)
(* end of an operation (bbk9588_nand_event).                               *)
(*                                                                         *)
(* The guest may write the windows in any order.  A column holds one bit:  *)
(* 1 erased, 0 programmed.  Geometry is small, so the high bytes of a      *)
(* column or row are zero; addresses may lie outside the device.  The      *)
(* image may be raw (pages with spare bytes), page-only (without) or end   *)
(* inside a page or a block: cells it does not have are stuck at 1.  The   *)
(* read buffer only selects what a data read returns, and busy_reads what  *)
(* the next sample of port C does; both are left out.                      *)
(***************************************************************************)
EXTENDS Naturals, Sequences

CONSTANTS
  NumPages,          \* pages the largest image has
  RawStride,         \* BBK9588_NAND_RAW_STRIDE, the size of program_buffer
  PageSize,          \* BBK9588_NAND_PAGE_SIZE, a page without its spare bytes
  PagesPerBlock,     \* BBK9588_NAND_PAGES_PER_BLOCK
  Sizes,             \* lengths of the image file
  ColumnBytes,       \* values of the first address byte: a column, or an erase row
  RowBytes,          \* values of the third: a page
  FailProgramBlock,  \* fail-program-block, fail-erase-block
  FailEraseBlock,
  Images,            \* what the image file may hold
  MaxOps             \* bound: programs and erases begun

Pages == 0 .. NumPages - 1
Columns == 0 .. RawStride - 1

(* nand_detect_geometry *)
StrideOf(n) ==
  IF n % RawStride # 0 /\ n % PageSize = 0 THEN PageSize ELSE RawStride

ASSUME DeviceAssumption ==
  /\ NumPages \in Nat \ {0}
  /\ PageSize \in Nat \ {0} /\ RawStride \in Nat /\ PageSize <= RawStride
  /\ PagesPerBlock \in Nat \ {0}
  /\ \A n \in Sizes : n \in Nat \ {0} /\ n <= NumPages * StrideOf(n)
  /\ ColumnBytes \subseteq Nat /\ RowBytes \subseteq Nat
  /\ FailProgramBlock \in Nat
  /\ FailEraseBlock \in Nat
  /\ MaxOps \in Nat
  /\ Images \subseteq [Pages -> [Columns -> {0, 1}]]

VARIABLES
  size,       \* of the image, read once
  data,       \* the cells
  command,    \* the last command: "program1", "random" or another
  addr,       \* address[0 .. address_count - 1]
  fail,       \* status has NAND_STATUS_FAIL; NAND_STATUS_READY is always set
  buffer, start, len, column, page, hasData, pageValid,  \* the program_* fields
  ready,      \* the flag of GPIO C30
  \* what the guest did, kept for the properties:
  asked,      \* the page it put together: written since 0x80, or copied and written over
  first,      \* column of the first byte it wrote into an empty buffer, or RawStride
  tracked,    \* it began the page with 0x80 or with a copy, not with 0x85
  ops

progVars == <<buffer, start, len, column, page, hasData, pageValid>>
askVars == <<asked, first, tracked>>
vars == <<size, data, command, addr, fail, progVars, ready, askVars, ops>>

Stride == StrideOf(size)

(* Cells the image has.                                                      *)
Exists(p, c) == c < Stride /\ p * Stride + c < size

Commands ==
  {"read1",    \* 0x00
   "read2",    \* 0x30
   "copy",     \* 0x35
   "erase1",   \* 0x60
   "erase2",   \* 0xd0
   "program1", \* 0x80
   "random",   \* 0x85
   "program2", \* 0x10
   "status",   \* 0x70
   "id",       \* 0x90
   "reset"}    \* 0xff

CellsOK ==
  /\ data \in [Pages -> [Columns -> {0, 1}]]
  /\ buffer \in [Columns -> {0, 1}]
  /\ asked \in [Columns -> {0, 1}]

FlagsOK ==
  /\ fail \in BOOLEAN /\ ready \in BOOLEAN /\ tracked \in BOOLEAN
  /\ hasData \in BOOLEAN /\ pageValid \in BOOLEAN

NumbersOK ==
  /\ addr \in Seq(Nat) /\ Len(addr) <= 5
  /\ start \in 0 .. RawStride /\ len \in 0 .. RawStride /\ first \in 0 .. RawStride
  /\ column \in Nat /\ page \in Nat
  /\ ops \in 0 .. MaxOps

TypeOK ==
  /\ command \in {"program1", "random", "other"}
  /\ size \in Sizes
  /\ CellsOK
  /\ FlagsOK
  /\ NumbersOK

Blank == [c \in Columns |-> 1]

(* nand_begin_program *)
BeginProgram ==
  /\ buffer' = Blank
  /\ start' = RawStride /\ len' = 0
  /\ column' = 0 /\ page' = 0
  /\ hasData' = FALSE /\ pageValid' = FALSE

(* nand_load_backing and nand_reset_hold: the cells are those of the image. *)
Loaded(image) ==
  [p \in Pages |-> [c \in Columns |-> IF Exists(p, c) THEN image[p][c] ELSE 1]]

Init ==
  /\ size \in Sizes
  /\ \E image \in Images : data = Loaded(image)
  /\ command = "other" /\ addr = <<>> /\ fail = FALSE
  /\ buffer = Blank /\ start = RawStride /\ len = 0 /\ column = 0 /\ page = 0
  /\ hasData = FALSE /\ pageValid = FALSE
  /\ ready = FALSE
  /\ asked = Blank /\ first = RawStride /\ tracked = FALSE /\ ops = 0

-----------------------------------------------------------------------------
(* nand_column_from_address, nand_page_from_address, nand_row_from_address   *)
ColumnFrom(a) == IF Len(a) < 2 THEN 0 ELSE a[1]
PageFrom(a) == IF Len(a) < 5 THEN 0 ELSE a[3]
RowFrom(a) == IF a = <<>> THEN 0 ELSE a[1]

(* What nand_prepare_page_read finds from column c of page p on: the copy    *)
(* runs on into the pages that follow, and reads erased past the end.        *)
PageRead(p, c) ==
  [i \in Columns |->
     LET at == p * Stride + c + i
     IN IF c < Stride /\ at < size THEN data[at \div Stride][at % Stride] ELSE 1]

Min(a, b) == IF a <= b THEN a ELSE b

(* The columns a program changes, cut off at the end of the page and of the  *)
(* image.  Past the end of an image that ends inside a page the subtraction  *)
(* of the code wraps; what it then touches is no cell.                       *)
Window == {c \in Columns : Min(start, len) <= c /\ c < len /\ Exists(page, c)}

(* The page after the program: cells are cleared, never set.  Fault: the     *)
(* cells are overwritten.                                                    *)
ProgrammedOver(d) ==
  [c \in Columns |-> IF c \in Window THEN buffer[c] ELSE d[c]]
Programmed(d) ==
  [c \in Columns |-> IF c \in Window /\ buffer[c] = 0 THEN 0 ELSE d[c]]

-----------------------------------------------------------------------------
(* nand_commit_program, its four ways out.  The first has nothing to do and  *)
(* reports success, the next two fail, without an event when the page or the *)
(* column lies outside, with one when the fault was injected.                *)
NothingToCommit == ~pageValid \/ ~hasData
Outside == page * Stride >= size \/ Min(start, len) >= Stride \/ len <= Min(start, len)
InjectedProgramFault ==
  page \div PagesPerBlock = FailProgramBlock

Rejected == Outside \/ InjectedProgramFault

(* Fault: a failure is not an event. *)
ReadyAfterSilentFailure == ready
ReadyAfterFailure == ready \/ ~Outside

CommitNothing ==
  /\ NothingToCommit
  /\ fail' = FALSE
  /\ BeginProgram
  /\ UNCHANGED <<data, ready>>

(* Fault: the injected failure is found after the cells were changed. *)
CommitFailsLate ==
  /\ ~NothingToCommit /\ Rejected
  /\ fail' = TRUE
  /\ ready' = ReadyAfterFailure
  /\ BeginProgram
  /\ data' = IF Outside THEN data ELSE [data EXCEPT ![page] = Programmed(@)]
CommitFails ==
  /\ ~NothingToCommit /\ Rejected
  /\ fail' = TRUE
  /\ ready' = ReadyAfterFailure
  /\ BeginProgram
  /\ UNCHANGED data

(* Fault: the next page starts where this one did. *)
CommitPageKeepsStart ==
  /\ ~NothingToCommit /\ ~Rejected
  /\ data' = [data EXCEPT ![page] = Programmed(@)]
  /\ fail' = FALSE
  /\ ready' = TRUE
  /\ column' = Min(start, len)
  /\ len' = 0 /\ hasData' = FALSE
  /\ UNCHANGED <<start, buffer, page, pageValid>>
CommitPage ==
  /\ ~NothingToCommit /\ ~Rejected
  /\ data' = [data EXCEPT ![page] = Programmed(@)]
  /\ fail' = FALSE
  /\ ready' = TRUE
  /\ column' = Min(start, len)
  /\ start' = RawStride /\ len' = 0 /\ hasData' = FALSE
  /\ UNCHANGED <<buffer, page, pageValid>>

(* nand_commit_erase: the block of the row, as much of it as exists. *)
EraseBlockOf(row) == row \div PagesPerBlock

ErasedPages(row) == {p \in Pages : EraseBlockOf(p) = EraseBlockOf(row)}

CommitErase ==
  IF Len(addr) < 2
  THEN UNCHANGED <<data, fail, ready>>
  ELSE /\ ready' = TRUE
       /\ fail' = (EraseBlockOf(RowFrom(addr)) = FailEraseBlock)
       /\ data' = IF fail' THEN data
                  ELSE [p \in Pages |-> IF p \in ErasedPages(RowFrom(addr))
                                        THEN Blank ELSE data[p]]

-----------------------------------------------------------------------------
(* nand_command: what every command does first. *)
Remembered(c) == IF c \in {"program1", "random"} THEN c ELSE "other"
Restarts == {"read1", "erase1", "program1", "random", "id", "reset"}
Take(c) ==
  /\ command' = Remembered(c)
  /\ addr' = IF c \in Restarts THEN <<>> ELSE addr

(* Commands that only select what the data window returns. *)
Select(c) ==
  /\ c \in {"read1", "erase1", "random", "status", "id"}
  /\ Take(c)
  /\ UNCHANGED <<size, data, fail, progVars, ready, askVars, ops>>

ReadPage ==
  /\ Take("read2")
  /\ ready' = TRUE
  /\ UNCHANGED <<size, data, fail, progVars, askVars, ops>>

(* The page becomes the program buffer; program_start is left alone. *)
CopyPage ==
  /\ Take("copy")
  /\ buffer' = IF Len(addr) < 5 THEN Blank ELSE PageRead(PageFrom(addr), ColumnFrom(addr))
  /\ len' = RawStride /\ column' = 0
  /\ hasData' = TRUE /\ pageValid' = FALSE
  /\ ready' = TRUE
  /\ tracked' = TRUE /\ asked' = buffer'
  /\ UNCHANGED <<size, data, fail, start, page, first, ops>>

(* 0x80.  Fault: the buffer keeps what an earlier program left in it. *)
StartDirty ==
  /\ start' = RawStride /\ len' = 0 /\ column' = 0 /\ page' = 0
  /\ hasData' = FALSE /\ pageValid' = FALSE
  /\ UNCHANGED buffer
StartClean == BeginProgram

StartProgram ==
  /\ Take("program1")
  /\ StartClean
  /\ asked' = Blank /\ first' = RawStride /\ tracked' = TRUE
  /\ UNCHANGED <<size, data, fail, ready, ops>>

CommitProgram ==
  /\ ops < MaxOps
  /\ ops' = ops + 1
  /\ Take("program2")
  /\ CommitNothing \/ CommitFails \/ CommitPage
  /\ tracked' = FALSE /\ asked' = Blank /\ first' = RawStride
  /\ UNCHANGED size

Erase ==
  /\ ops < MaxOps
  /\ ops' = ops + 1
  /\ command' = Remembered("erase2")
  /\ CommitErase
  /\ addr' = <<>>
  /\ UNCHANGED <<size, progVars, askVars>>

ResetChip ==
  /\ Take("reset")
  /\ fail' = FALSE
  /\ UNCHANGED <<size, data, progVars, ready, askVars, ops>>

(* nand_address *)
Address(b) ==
  LET a == IF Len(addr) < 5 THEN Append(addr, b) ELSE addr
  IN /\ b \in CASE addr = <<>> -> ColumnBytes
               [] Len(addr) = 2 -> RowBytes
               [] OTHER -> {0}
     /\ addr' = a
     /\ IF command \in {"program1", "random"} /\ Len(a) >= 5
        THEN column' = ColumnFrom(a) /\ page' = PageFrom(a) /\ pageValid' = TRUE
        ELSE IF command = "random" /\ Len(a) >= 2
             THEN column' = ColumnFrom(a) /\ UNCHANGED <<page, pageValid>>
             ELSE UNCHANGED <<column, page, pageValid>>
     /\ UNCHANGED <<size, data, command, fail, buffer, start, len, hasData, ready,
                    askVars, ops>>

Room == column < RawStride

(* nand_append_program_data, one byte of it. *)
Append1(v) ==
  /\ command \in {"program1", "random"}
  /\ Room
  /\ start' = IF hasData THEN start ELSE column
  /\ buffer' = [buffer EXCEPT ![column] = v]
  /\ column' = column + 1
  /\ hasData' = TRUE
  /\ len' = IF len > column + 1 THEN len ELSE column + 1
  /\ asked' = IF tracked THEN [asked EXCEPT ![column] = v] ELSE Blank
  /\ first' = IF hasData THEN first ELSE column
  /\ UNCHANGED <<size, data, command, addr, fail, page, pageValid, ready, tracked, ops>>

-----------------------------------------------------------------------------
(* GPIO_FLGC *)
ClearFlag ==
  /\ ready
  /\ ready' = FALSE
  /\ UNCHANGED <<size, data, command, addr, fail, progVars, askVars, ops>>

(* nand_reset_hold with the machine; GPIO resets too. *)
SystemReset ==
  /\ command' = Remembered("reset") /\ addr' = <<>> /\ fail' = FALSE
  /\ BeginProgram
  /\ ready' = FALSE
  /\ tracked' = FALSE /\ asked' = Blank /\ first' = RawStride
  /\ UNCHANGED <<size, data, ops>>

Next ==
  \/ \E c \in Commands : Select(c)
  \/ ReadPage \/ CopyPage \/ StartProgram \/ CommitProgram \/ Erase \/ ResetChip
  \/ \E b \in ColumnBytes \cup RowBytes : Address(b)
  \/ \E v \in {0, 1} : Append1(v)
  \/ ClearFlag \/ SystemReset

Spec == Init /\ [][Next]_vars

-----------------------------------------------------------------------------
(* Whatever the guest writes, the cells change as those of a raw NAND do.    *)
Flash == INSTANCE FlashArray WITH cells <- data
FlashRefined == Flash!ArraySpec

(* A page that was begun by 0x80 or by a copy and is acknowledged with       *)
(* success has become the And of what it was and of what the guest put       *)
(* together, from the first column it wrote on, in the columns the image     *)
(* has; nothing else has changed.  So nothing of an earlier, failed or       *)
(* abandoned page gets in, only bytes below the first one and the spare      *)
(* bytes of a page-only image are lost without a word, and a copy without a  *)
(* first column, which would program nothing, is not acknowledged.           *)
Kept(p, d) == [c \in Columns |-> IF first <= c /\ Exists(p, c) THEN d[c] ELSE 1]

AcknowledgedIsProgrammed ==
  [][CommitProgram /\ tracked /\ hasData /\ pageValid /\ ~fail'
       => /\ first < Stride
          /\ data' = [data EXCEPT ![page] = Flash!And(@, Kept(page, asked))]]_vars

(* A failed operation leaves the array as it was: "ready+FAIL 0x41 and the   *)
(* backing unchanged", qemu/README.md.                                       *)
FailedKeepsData == [][(CommitProgram \/ Erase) /\ fail' => data' = data]_vars

(* A block whose programs are made to fail only ever changes by being        *)
(* erased: the injected fault is never silent.                               *)
InjectedFaultHolds ==
  [][\A p \in Pages : p \div PagesPerBlock = FailProgramBlock =>
       data'[p] \in {data[p], Blank}]_vars

(* A guest that waits for the interrupt is answered: a page read, a program  *)
(* that reached a page and an erase with an address raise the ready flag in  *)
(* the step that ends the operation, injected failures included.             *)
CompletionSignalled ==
  [][\/ ReadPage \/ CopyPage
     \/ CommitProgram /\ ~NothingToCommit /\ ~Outside
     \/ Erase /\ Len(addr) >= 2
     => ready']_vars
=============================================================================
