----------------------------- MODULE NandProofs -----------------------------
(***************************************************************************)
(* Theorems about the raw NAND.                                            *)
(*                                                                         *)
(* NandDevice, for every geometry, image, fault injection and number of    *)
(* operations: its type invariant, that it implements the flash array, and *)
(* that an acknowledged program is the one that was asked for.             *)
(*                                                                         *)
(* NandBacking, its write-back layer, for any set of pages, any interval   *)
(* between flushes and any number of writes: that what it counts as        *)
(* flushed is stable, and that nothing dirty is left without a flush.      *)
(***************************************************************************)
EXTENDS Nand, TLAPS

(* The steps of a drive are those of its layers. *)
LEMMA DeviceSteps == NandSpec => Spec
<1>1. NandInit => Init
  BY DEF NandInit
<1>2. [NandNext]_nandVars => [Next]_vars
  BY DEF NandNext, nandVars
<1> QED BY <1>1, <1>2, PTL DEF NandSpec, Spec

LEMMA BackingSteps == NandSpec => Backing!Spec
<1>1. NandInit => Backing!Init
  BY DEF NandInit
<1>2. [NandNext]_nandVars => [Backing!Next]_Backing!vars
  BY DEF NandNext, nandVars, backingVars, Backing!vars
<1> QED BY <1>1, <1>2, PTL DEF NandSpec, Backing!Spec

-----------------------------------------------------------------------------
(* The command interface. *)

USE DeviceAssumption

\* A page is as long as the program buffer or shorter, and holds a byte.
LEMMA StrideType == ASSUME size \in Sizes PROVE Stride \in Nat \ {0} /\ Stride <= RawStride
  BY DEF Stride, StrideOf

\* A position inside the image lies in one of its pages, at a column of it.
LEMMA PageOfPosition ==
  ASSUME size \in Sizes, NEW at \in Nat, at < size
  PROVE  at \div Stride \in Pages /\ at % Stride \in Columns
<1> DEFINE k == Stride
           q == at \div k
           r == at % k
<1>1. k \in Nat \ {0} /\ k <= RawStride
  BY StrideType
<1>2. size \in Nat /\ size <= NumPages * k
  BY DEF Stride
<1> HIDE DEF k
<1>3. q \in Nat /\ r \in Nat /\ r < k /\ at = k * q + r
  BY <1>1
<1>4. r \in Columns
  BY <1>1, <1>3 DEF Columns
<1>5. CASE q >= NumPages
  <2>1. PICK d \in Nat : q = NumPages + d
    <3>1. q - NumPages \in Nat /\ q = NumPages + (q - NumPages)
      BY <1>3, <1>5
    <3> QED BY <3>1
  <2> HIDE DEF q
  <2>2. k * q = k * NumPages + k * d /\ k * d \in Nat /\ k * NumPages = NumPages * k
    BY <1>1, <2>1
  <2> QED BY <1>1, <1>2, <1>3, <2>2
<1>6. CASE q < NumPages
  BY <1>3, <1>4, <1>6 DEF k, Pages
<1> QED BY <1>3, <1>5, <1>6

\* So does a page that begins inside of it.
LEMMA PageInside ==
  ASSUME size \in Sizes, NEW p \in Nat, p * Stride < size
  PROVE  p \in Pages
<1>1. Stride \in Nat \ {0}
  BY StrideType
<1>2. p * Stride \in Nat /\ (p * Stride) \div Stride = p
  BY <1>1
<1> QED BY <1>2, PageOfPosition

\* Programming gives a page again.
LEMMA ProgrammedType ==
  ASSUME NEW d \in [Columns -> {0, 1}]
  PROVE  Programmed(d) \in [Columns -> {0, 1}]
  BY DEF Programmed

\* An erased page is a page.
LEMMA BlankType == Blank \in [Columns -> {0, 1}]
  BY DEF Blank

\* Every step keeps the cells and the page registers pages.
LEMMA CellsStep == TypeOK /\ [Next]_vars => CellsOK'
<1> SUFFICES ASSUME TypeOK, [Next]_vars PROVE CellsOK'
  OBVIOUS
<1> USE BlankType DEF CellsOK, TypeOK
<1>1. CASE CopyPage
  <2>1. PageRead(PageFrom(addr), ColumnFrom(addr)) \in [Columns -> {0, 1}]
    <3>1. PageFrom(addr) \in Nat /\ ColumnFrom(addr) \in Nat
      BY DEF PageFrom, ColumnFrom, NumbersOK
    <3>2. Stride \in Nat /\ \A i \in Columns :
            PageFrom(addr) * Stride + ColumnFrom(addr) + i \in Nat
      <4>1. PageFrom(addr) * Stride \in Nat /\ Stride \in Nat
        BY <3>1, StrideType
      <4> QED BY <3>1, <4>1 DEF Columns
    <3>3. \A at \in Nat : at < size => data[at \div Stride][at % Stride] \in {0, 1}
      BY PageOfPosition
    <3> QED BY <3>2, <3>3 DEF PageRead
  <2> QED BY <1>1, <2>1 DEF CopyPage
<1>2. CASE CommitProgram
  <2>1. CASE CommitPage
    BY <1>2, <2>1, ProgrammedType DEF CommitProgram, CommitPage
  <2> QED BY <1>2, <2>1 DEF CommitProgram, CommitNothing, CommitFails, BeginProgram
<1>3. CASE Erase
  BY <1>3 DEF Erase, CommitErase, progVars, askVars
<1>4. CASE \E v \in {0, 1} : Append1(v)
  BY <1>4 DEF Append1
<1> QED
  BY <1>1, <1>2, <1>3, <1>4 DEF Next, Select, ReadPage, StartProgram, StartClean, BeginProgram,
     ResetChip, Address, ClearFlag, SystemReset, vars, progVars, askVars

\* Every step keeps the flags flags.
LEMMA FlagsStep == TypeOK /\ [Next]_vars => FlagsOK'
<1> SUFFICES ASSUME FlagsOK, [Next]_vars PROVE FlagsOK'
  BY DEF TypeOK
<1> USE DEF FlagsOK
<1>1. CASE CommitProgram
  BY <1>1 DEF CommitProgram, CommitNothing, CommitFails, CommitPage, BeginProgram,
     ReadyAfterFailure, Outside
<1>2. CASE Erase
  BY <1>2 DEF Erase, CommitErase, progVars, askVars
<1>3. CASE \E v \in {0, 1} : Append1(v)
  BY <1>3 DEF Append1
<1>4. CASE \E b \in ColumnBytes \cup RowBytes : Address(b)
  BY <1>4 DEF Address, askVars
<1>5. CASE CopyPage \/ StartProgram \/ SystemReset
  BY <1>5 DEF CopyPage, StartProgram, StartClean, BeginProgram, SystemReset
<1> QED
  BY <1>1, <1>2, <1>3, <1>4, <1>5 DEF Next, Select, ReadPage, ResetChip, ClearFlag, vars, progVars, askVars

\* Taking an address byte keeps at most five.
LEMMA TakeType ==
  ASSUME NumbersOK, NEW c, Take(c)
  PROVE  addr' \in Seq(Nat) /\ Len(addr') <= 5
<1>1. CASE addr' = addr
  BY <1>1 DEF NumbersOK
<1>2. CASE addr' = <<>>
  BY <1>2
<1> QED BY <1>1, <1>2 DEF Take

\* Every step keeps the positions and lengths natural numbers.
LEMMA NumbersStep == TypeOK /\ [Next]_vars => NumbersOK'
<1> SUFFICES ASSUME NumbersOK, [Next]_vars PROVE NumbersOK'
  BY DEF TypeOK
<1> USE DEF NumbersOK
<1>1. CASE CommitProgram
  <2>1. Min(start, len) \in Nat
    BY DEF Min
  <2> QED BY <1>1, <2>1, TakeType DEF CommitProgram, CommitNothing, CommitFails, CommitPage, BeginProgram
<1>2. CASE Erase
  BY <1>2 DEF Erase, progVars, askVars
<1>3. CASE \E v \in {0, 1} : Append1(v)
  BY <1>3 DEF Append1, Room
<1>4. ASSUME NEW b \in ColumnBytes \cup RowBytes, Address(b) PROVE NumbersOK'
  <2> DEFINE a == IF Len(addr) < 5 THEN Append(addr, b) ELSE addr
  <2>1. a \in Seq(Nat) /\ Len(a) <= 5
    OBVIOUS
  <2>2. ColumnFrom(a) \in Nat /\ PageFrom(a) \in Nat
    BY <2>1 DEF ColumnFrom, PageFrom
  <2> HIDE DEF a
  <2>3. addr' = a /\ column' \in Nat /\ page' \in Nat
    BY <1>4, <2>2 DEF Address, a
  <2>4. UNCHANGED <<start, len, first, ops>>
    BY <1>4 DEF Address, askVars
  <2> QED BY <2>1, <2>3, <2>4
<1>5. CASE CopyPage \/ StartProgram \/ SystemReset
  <2>1. addr' \in Seq(Nat) /\ Len(addr') <= 5
    <3>1. CASE CopyPage \/ StartProgram
      BY <3>1, TakeType DEF CopyPage, StartProgram
    <3>2. CASE SystemReset
      <4>1. addr' = <<>>
        BY <3>2 DEF SystemReset
      <4> QED BY <4>1
    <3> QED BY <1>5, <3>1, <3>2
  <2>2. /\ start' \in {start, RawStride} /\ first' \in {first, RawStride} /\ len' \in {0, RawStride}
        /\ column' = 0 /\ page' \in {0, page} /\ ops' = ops
    BY <1>5 DEF CopyPage, StartProgram, StartClean, BeginProgram, SystemReset
  <2> QED BY <2>1, <2>2
<1>6. CASE (\E c \in Commands : Select(c)) \/ ReadPage \/ ResetChip \/ ClearFlag
  BY <1>6, TakeType DEF Select, ReadPage, ResetChip, ClearFlag, progVars, askVars
<1>7. CASE UNCHANGED vars
  BY <1>7 DEF vars, progVars, askVars
<1> QED
  BY <1>1, <1>2, <1>3, <1>4, <1>5, <1>6, <1>7 DEF Next

(* Every variable keeps its type. *)
THEOREM TypeCorrect == NandSpec => []TypeOK
<1>1. Init => TypeOK
  <2> SUFFICES ASSUME Init PROVE TypeOK
    OBVIOUS
  <2>1. CellsOK
    BY BlankType DEF Init, CellsOK, Loaded
  <2>2. FlagsOK
    BY DEF Init, FlagsOK
  <2>3. NumbersOK
    BY DEF Init, NumbersOK
  <2> QED BY <2>1, <2>2, <2>3 DEF Init, TypeOK
<1>2. TypeOK /\ [Next]_vars => TypeOK'
  <2> SUFFICES ASSUME TypeOK, [Next]_vars PROVE TypeOK'
    OBVIOUS
  <2>1. command' \in {"program1", "random", "other"}
    BY DEF TypeOK, Next, Select, ReadPage, CopyPage, StartProgram, CommitProgram, Erase,
       ResetChip, Address, Append1, ClearFlag, SystemReset, vars, Take, Remembered
  <2>2. size' \in Sizes
    BY DEF TypeOK, Next, Select, ReadPage, CopyPage, StartProgram, CommitProgram, Erase,
       ResetChip, Address, Append1, ClearFlag, SystemReset, vars
  <2> QED BY <2>1, <2>2, CellsStep, FlagsStep, NumbersStep DEF TypeOK
<1> QED BY <1>1, <1>2, DeviceSteps, PTL DEF Spec

-----------------------------------------------------------------------------
(* A program is an And of the page with the window of the buffer. *)
LEMMA ProgrammedIsAnd ==
  ASSUME NEW d \in [Columns -> {0, 1}]
  PROVE  LET w == [c \in Columns |-> IF c \in Window /\ buffer[c] = 0 THEN 0 ELSE 1]
         IN  w \in [Columns -> {0, 1}] /\ Programmed(d) = Flash!And(d, w)
  BY DEF Programmed, Flash!And

(* Each step of the device is a step of the array, or leaves the cells.      *)
THEOREM Refinement == NandSpec => FlashRefined
<1>1. Init => Flash!ArrayInit
  BY DEF Init, Loaded, Flash!ArrayInit
<1>2. TypeOK /\ [Next]_vars => [Flash!ArrayNext]_data
  <2> SUFFICES ASSUME TypeOK, [Next]_vars PROVE Flash!ArrayNext \/ UNCHANGED data
    OBVIOUS
  <2>1. CASE CommitProgram
    <3>1. CASE CommitPage
      <4>1. page \in Pages /\ data' = [data EXCEPT ![page] = Programmed(@)]
        <5>1. data' = [data EXCEPT ![page] = Programmed(@)] /\ ~(page * Stride >= size)
          BY <3>1 DEF CommitPage, Rejected, Outside
        <5>2. page * Stride \in Nat /\ size \in Nat /\ page \in Nat /\ size \in Sizes
          BY StrideType DEF TypeOK, NumbersOK
        <5> QED BY <5>1, <5>2, PageInside
      <4>2. data[page] \in [Columns -> {0, 1}]
        BY <4>1 DEF TypeOK, CellsOK
      <4>3. PICK w \in [Columns -> {0, 1}] : Programmed(data[page]) = Flash!And(data[page], w)
        BY <4>2, ProgrammedIsAnd
      <4>4. data' = [data EXCEPT ![page] = Flash!And(@, w)]
        BY <4>1, <4>3
      <4>5. Flash!ProgramPage(page)
        BY <4>4 DEF Flash!ProgramPage
      <4> QED BY <4>1, <4>5 DEF Flash!ArrayNext
    <3> QED BY <2>1, <3>1 DEF CommitProgram, CommitNothing, CommitFails
  <2>2. CASE Erase
    <3> DEFINE row == RowFrom(addr)
    <3>1. CASE UNCHANGED data
      BY <3>1
    <3>2. CASE data' = [p \in Pages |-> IF p \in ErasedPages(row) THEN Blank ELSE data[p]]
      <4>1. CASE \E p \in Pages : p \in ErasedPages(row)
        <5>1. PICK p \in Pages : EraseBlockOf(p) = EraseBlockOf(row)
          BY <4>1 DEF ErasedPages
        <5>2. Flash!EraseBlock(Flash!Block(p))
          BY <3>2, <5>1 DEF Flash!EraseBlock, Flash!Block, Flash!Erased, ErasedPages,
             EraseBlockOf, Blank
        <5> QED BY <5>2 DEF Flash!ArrayNext
      <4>2. CASE ~\E p \in Pages : p \in ErasedPages(row)
        <5>1. data' = [p \in Pages |-> data[p]]
          BY <3>2, <4>2
        <5> QED BY <5>1 DEF TypeOK, CellsOK
      <4> QED BY <4>1, <4>2
    <3> QED BY <2>2, <3>1, <3>2 DEF Erase, CommitErase
  <2>3. CASE UNCHANGED vars
    BY <2>3 DEF vars
  <2> QED
    BY <2>1, <2>2, <2>3 DEF Next, Select, ReadPage, CopyPage, StartProgram, ResetChip,
       Address, Append1, ClearFlag, SystemReset
<1> QED BY <1>1, <1>2, TypeCorrect, DeviceSteps, PTL DEF Spec, FlashRefined, Flash!ArraySpec

-----------------------------------------------------------------------------
(* While a page is tracked, the buffer holds what the guest put together, and *)
(* is still blank from len on; its first column is where the window starts.   *)
Tracking ==
  /\ first = start
  /\ tracked => asked = buffer
  /\ tracked => \A c \in Columns : c >= len => buffer[c] = 1

AckInv == TypeOK /\ Tracking

\* Every step keeps the record of what was put together that of the buffer.
LEMMA TrackingStep == AckInv /\ [Next]_vars => Tracking'
<1> SUFFICES ASSUME AckInv, [Next]_vars PROVE Tracking'
  OBVIOUS
<1> USE DEF AckInv, Tracking
<1>1. CASE \E v \in {0, 1} : Append1(v)
  <2>1. PICK v \in {0, 1} : Append1(v)
    BY <1>1
  <2>2. column \in Columns /\ len \in Nat
    BY <2>1 DEF Append1, Room, Columns, TypeOK, NumbersOK
  <2>3. first' = start'
    BY <2>1 DEF Append1
  <2>4. CASE ~tracked
    BY <2>1, <2>3, <2>4 DEF Append1
  <2>5. CASE tracked
    <3>1. /\ len' = IF len > column + 1 THEN len ELSE column + 1
          /\ buffer' = [buffer EXCEPT ![column] = v]
          /\ asked' = [asked EXCEPT ![column] = v]
      BY <2>1, <2>5 DEF Append1
    <3>2. len' \in Nat /\ len <= len' /\ column < len'
      BY <2>2, <3>1 DEF Columns
    <3>3. \A c \in Columns : c >= len' => buffer'[c] = 1
      BY <2>2, <2>5, <3>1, <3>2 DEF TypeOK, CellsOK, Columns
    <3> QED BY <2>3, <2>5, <3>1, <3>3
  <2> QED BY <2>4, <2>5
<1>2. CASE StartProgram
  BY <1>2 DEF StartProgram, StartClean, BeginProgram, Blank
<1>3. CASE CopyPage
  <2>1. /\ asked' = buffer' /\ first' = first /\ start' = start /\ len' = RawStride
    BY <1>3 DEF CopyPage
  <2>2. ~\E c \in Columns : c >= len'
    BY <2>1 DEF Columns
  <2> QED BY <2>1, <2>2
<1>4. CASE CommitProgram
  BY <1>4 DEF CommitProgram, CommitNothing, CommitFails, CommitPage, BeginProgram
<1>5. CASE SystemReset
  BY <1>5 DEF SystemReset, BeginProgram
<1>6. CASE UNCHANGED <<buffer, start, len, asked, first, tracked>>
  BY <1>6
<1> QED
  BY <1>1, <1>2, <1>3, <1>4, <1>5, <1>6 DEF Next, Select, ReadPage, Erase, ResetChip, Address,
     ClearFlag, vars, progVars, askVars

\* That record is right throughout every behaviour.
LEMMA AckInvariant == NandSpec => []AckInv
<1>1. Init => Tracking
  BY DEF Init, Tracking
<1>2. AckInv /\ [Next]_vars => Tracking'
  BY TrackingStep
<1> QED BY <1>1, <1>2, TypeCorrect, DeviceSteps, PTL DEF Spec, AckInv

(* A successful program of a tracked page changes it to the And of the page  *)
(* and what was put together from the first column on, as far as the image   *)
(* has these columns, and nothing else; a copy without a first column fails. *)
THEOREM Acknowledged == NandSpec => AcknowledgedIsProgrammed
<1> DEFINE Step == CommitProgram /\ tracked /\ hasData /\ pageValid /\ ~fail'
                     => /\ first < Stride
                        /\ data' = [data EXCEPT ![page] = Flash!And(@, Kept(page, asked))]
<1>1. AckInv /\ [Next]_vars => [Step]_vars
  <2> SUFFICES ASSUME AckInv, CommitProgram, tracked, hasData, pageValid, ~fail'
               PROVE  /\ first < Stride
                      /\ data' = [data EXCEPT ![page] = Flash!And(@, Kept(page, asked))]
    OBVIOUS
  <2>1. CommitPage
    BY DEF CommitProgram, CommitNothing, CommitFails, NothingToCommit
  <2>2. /\ data' = [data EXCEPT ![page] = Programmed(@)]
        /\ ~(page * Stride >= size)
        /\ ~(Min(start, len) >= Stride) /\ ~(len <= Min(start, len))
    BY <2>1 DEF CommitPage, Rejected, Outside
  <2>3. /\ page \in Nat /\ size \in Sizes /\ size \in Nat /\ Stride \in Nat
        /\ page * Stride \in Nat /\ start \in Nat /\ len \in Nat
    BY StrideType DEF AckInv, TypeOK, NumbersOK
  <2>4. start < len /\ Min(start, len) = start /\ first = start
    BY <2>2, <2>3 DEF Min, AckInv, Tracking
  <2>5. first < Stride
    BY <2>2, <2>3, <2>4
  <2>6. data[page] \in [Columns -> {0, 1}]
    BY <2>2, <2>3, PageInside DEF AckInv, TypeOK, CellsOK
  <2>7. \A c \in Columns : (c \in Window /\ buffer[c] = 0) <=> Kept(page, asked)[c] = 0
    <3> SUFFICES ASSUME NEW c \in Columns
                 PROVE  (c \in Window /\ buffer[c] = 0) <=> Kept(page, asked)[c] = 0
      OBVIOUS
    <3>1. c \in Window <=> start <= c /\ c < len /\ Exists(page, c)
      BY <2>4 DEF Window
    <3>2. c < len \/ buffer[c] = 1
      BY <2>3 DEF AckInv, Tracking, Columns
    <3>3. Kept(page, asked)[c] = IF start <= c /\ Exists(page, c) THEN buffer[c] ELSE 1
      BY <2>4 DEF Kept, AckInv, Tracking
    <3> QED BY <3>1, <3>2, <3>3
  <2>8. Programmed(data[page]) = Flash!And(data[page], Kept(page, asked))
    BY <2>6, <2>7 DEF Programmed, Flash!And
  <2> QED BY <2>2, <2>5, <2>8
<1> QED BY <1>1, AckInvariant, DeviceSteps, PTL DEF Spec, AcknowledgedIsProgrammed

(* A failed program or erase changes no cell. *)
THEOREM FailureIsHarmless == NandSpec => FailedKeepsData
<1> DEFINE Step == (CommitProgram \/ Erase) /\ fail' => data' = data
<1>1. [Next]_vars => [Step]_vars
  BY DEF CommitProgram, CommitNothing, CommitFails, CommitPage, Erase, CommitErase
<1> QED BY <1>1, DeviceSteps, PTL DEF Spec, FailedKeepsData

(* The end of a page read, of a copy, of a program that reaches a page and of *)
(* an erase with an address raises the ready event, failed or not: a guest   *)
(* that waits for the interrupt of port C does not wait for ever.            *)
THEOREM EndsSignalled == NandSpec => CompletionSignalled
<1> DEFINE Step == \/ ReadPage \/ CopyPage
                   \/ CommitProgram /\ ~NothingToCommit /\ ~Outside
                   \/ Erase /\ Len(addr) >= 2
                   => ready'
<1>1. TypeOK /\ [Next]_vars => [Step]_vars
  <2>1. ReadPage \/ CopyPage => ready'
    BY DEF ReadPage, CopyPage
  <2>2. CommitProgram /\ ~NothingToCommit /\ ~Outside => ready'
    BY DEF CommitProgram, CommitNothing, CommitFails, CommitPage, ReadyAfterFailure
  <2>3. TypeOK /\ Erase /\ Len(addr) >= 2 => ready'
    BY DEF Erase, CommitErase, TypeOK, NumbersOK
  <2> QED BY <2>1, <2>2, <2>3
<1> QED BY <1>1, TypeCorrect, DeviceSteps, PTL DEF Spec, CompletionSignalled

(* The pages of the block whose programs fail change only by being erased.   *)
THEOREM FaultHolds == NandSpec => InjectedFaultHolds
<1> DEFINE Step == \A p \in Pages : p \div PagesPerBlock = FailProgramBlock =>
                     data'[p] \in {data[p], Blank}
<1>1. TypeOK /\ [Next]_vars => [Step]_vars
  <2> SUFFICES ASSUME TypeOK, [Next]_vars, NEW p \in Pages,
                      p \div PagesPerBlock = FailProgramBlock
               PROVE  data'[p] \in {data[p], Blank}
    OBVIOUS
  <2>1. CASE CommitProgram
    BY <2>1 DEF CommitProgram, CommitNothing, CommitFails, CommitPage, Rejected,
       InjectedProgramFault, TypeOK, CellsOK
  <2>2. CASE Erase
    BY <2>2 DEF Erase, CommitErase
  <2> QED
    BY <2>1, <2>2 DEF Next, Select, ReadPage, CopyPage, StartProgram, ResetChip, Address,
       Append1, ClearFlag, SystemReset, vars
<1> QED BY <1>1, TypeCorrect, DeviceSteps, PTL DEF Spec, InjectedFaultHolds

-----------------------------------------------------------------------------
(* The backing file. *)

(* The ordering the durability argument rests on: the file never runs ahead  *)
(* of the generation counter, the stable copy never ahead of the file, and   *)
(* the copy a flush in flight was submitted with holds every page that its   *)
(* generation covers.                                                        *)
Ordered ==
  /\ flushed <= dirty
  /\ \A p \in Saved : file[p] <= dirty /\ disk[p] <= file[p]
  /\ acb => /\ flushed <= flush
            /\ flush <= dirty
            /\ \A p \in Saved : /\ seen[p] <= file[p]
                                /\ file[p] <= flush => seen[p] = file[p]

DurableInv == Backing!TypeOK /\ Ordered /\ Backing!FlushedIsDurable

USE NandAssumption
    DEF Backing!Idle, Backing!Pending, Backing!Covered, Backing!TimerAfterStop,
        Backing!RequestAfterStop

\* Arming the flush timer gives no time or one within the interval.
LEMMA ScheduleFlushType ==
  ASSUME NEW i \in BOOLEAN, NEW d \in Nat, NEW f \in Nat,
         NEW t \in {Backing!Idle} \cup 0 .. Interval
  PROVE  Backing!ScheduleFlush(i, d, f, t) \in {Backing!Idle} \cup 0 .. Interval
BY DEF Backing!ScheduleFlush

(* What a successful flush leaves stable lies between the submitted and the  *)
(* current contents, and is the current contents wherever the two agree.     *)
LEMMA AfterFlushBounds ==
  ASSUME Backing!TypeOK, Ordered, acb, NEW d \in Backing!AfterFlush(seen)
  PROVE  /\ d \in [Saved -> Nat]
         /\ \A p \in Saved : /\ d[p] <= file[p]
                             /\ file[p] <= flush => d[p] = file[p]
                             /\ disk[p] = file[p] => d[p] = file[p]
<1>1. d \in [Saved -> 0 .. dirty]
  BY DEF Backing!AfterFlush
<1>2. \A p \in Saved : d[p] \in {file[p], IF disk[p] < seen[p] THEN seen[p] ELSE disk[p]}
  BY DEF Backing!AfterFlush
<1>3. d \in [Saved -> Nat]
  BY <1>1 DEF Backing!TypeOK
<1>4. \A p \in Saved : file[p] \in Nat /\ disk[p] \in Nat /\ seen[p] \in Nat
  BY DEF Backing!TypeOK
<1>5. QED
  BY <1>2, <1>3, <1>4 DEF Ordered, Backing!TypeOK

(* The same for the two outcomes of a cancelled request.                     *)
LEMMA CancelledBounds ==
  ASSUME DurableInv, NEW c \in Backing!Cancelled
  PROVE  /\ c[1] \in Nat /\ flushed <= c[1] /\ c[1] <= dirty
         /\ c[2] \in [Saved -> Nat]
         /\ \A p \in Saved : /\ c[2][p] <= file[p]
                             /\ file[p] <= c[1] => c[2][p] = file[p]
<1>1. CASE c = <<flushed, disk>>
  BY <1>1 DEF DurableInv, Backing!TypeOK, Ordered, Backing!FlushedIsDurable
<1>2. CASE acb /\ c \in {flush} \X Backing!AfterFlush(seen)
  <2>1. PICK d \in Backing!AfterFlush(seen) : c = <<flush, d>>
    BY <1>2
  <2>2. QED
    BY <1>2, <2>1, AfterFlushBounds DEF DurableInv, Backing!TypeOK, Ordered
<1>3. QED
  BY <1>1, <1>2 DEF Backing!Cancelled

\* The drive starts with nothing written and nothing owed.
LEMMA InitDurable == Backing!Init => DurableInv
<1> SUFFICES ASSUME Backing!Init PROVE DurableInv
  OBVIOUS
<1>1. Backing!TypeOK
  BY DEF Backing!Init, Backing!TypeOK
<1>2. Ordered /\ Backing!FlushedIsDurable
  BY DEF Backing!Init, Ordered, Backing!FlushedIsDurable
<1>3. QED
  BY <1>1, <1>2 DEF DurableInv

\* Every step keeps what is flushed below what is submitted and written.
LEMMA NextDurable == DurableInv /\ [Backing!Next]_Backing!vars => DurableInv'
<1> SUFFICES ASSUME DurableInv, [Backing!Next]_Backing!vars PROVE DurableInv'
  OBVIOUS
<1> USE DEF DurableInv
<1>1. ASSUME NEW p \in Saved, Backing!Write(p) PROVE DurableInv'
  <2>1. Backing!TypeOK'
    BY <1>1, ScheduleFlushType DEF Backing!Write, Backing!TypeOK
  <2>2. Ordered' /\ Backing!FlushedIsDurable'
    BY <1>1 DEF Backing!Write, Backing!TypeOK, Ordered, Backing!FlushedIsDurable
  <2>3. QED
    BY <2>1, <2>2
<1>2. ASSUME NEW p \in Saved, Backing!WriteFails(p) \/ Backing!WriteRamOnly(p) PROVE DurableInv'
  BY <1>2 DEF Backing!WriteFails, Backing!WriteRamOnly, Backing!TypeOK, Ordered,
     Backing!FlushedIsDurable
<1>3. ASSUME NEW p \in Saved, Backing!HostWriteback(p) PROVE DurableInv'
  BY <1>3 DEF Backing!HostWriteback, Backing!TypeOK, Ordered, Backing!FlushedIsDurable
<1>4. CASE Backing!Tick
  <2>1. timer - 1 \in {Backing!Idle} \cup 0 .. Interval
    BY <1>4 DEF Backing!Tick, Backing!TypeOK
  <2>2. wait' \in Nat
    BY <1>4 DEF Backing!Tick, Backing!TypeOK
  <2>3. Backing!TypeOK'
    BY <1>4, <2>1, <2>2 DEF Backing!Tick, Backing!TypeOK
  <2>4. Ordered' /\ Backing!FlushedIsDurable'
    BY <1>4 DEF Backing!Tick, Ordered, Backing!FlushedIsDurable
  <2>5. QED
    BY <2>3, <2>4
<1>5. CASE Backing!FlushTimer
  <2>1. CASE UNCHANGED <<flush, acb, seen>>
    <3>1. Backing!TypeOK'
      BY <1>5, <2>1 DEF Backing!FlushTimer, Backing!TypeOK
    <3>2. Ordered' /\ Backing!FlushedIsDurable'
      BY <1>5, <2>1 DEF Backing!FlushTimer, Ordered, Backing!FlushedIsDurable
    <3>3. QED
      BY <3>1, <3>2
  <2>2. CASE flush' = dirty /\ acb' = TRUE /\ seen' = file
    <3>1. wait' \in Nat /\ timer' \in {Backing!Idle} \cup 0 .. Interval
      BY <1>5 DEF Backing!FlushTimer, Backing!TypeOK
    <3>2. acb' \in BOOLEAN
      BY <2>2
    <3>3. flush' \in Nat /\ seen' \in [Saved -> Nat]
      BY <2>2 DEF Backing!TypeOK
    <3>4. Backing!TypeOK'
      BY <1>5, <3>1, <3>2, <3>3 DEF Backing!FlushTimer, Backing!TypeOK
    <3>5. Ordered' /\ Backing!FlushedIsDurable'
      BY <1>5, <2>2 DEF Backing!FlushTimer, Backing!TypeOK, Ordered, Backing!FlushedIsDurable
    <3>6. QED
      BY <3>4, <3>5
  <2>3. QED
    BY <1>5, <2>1, <2>2 DEF Backing!FlushTimer
<1>6. CASE Backing!FlushDone
  <2>1. Backing!TypeOK'
    BY <1>6, ScheduleFlushType, AfterFlushBounds DEF Backing!FlushDone, Backing!TypeOK
  <2>2. Ordered' /\ Backing!FlushedIsDurable'
    BY <1>6, AfterFlushBounds DEF Backing!FlushDone, Backing!TypeOK, Ordered,
       Backing!FlushedIsDurable
  <2>3. QED
    BY <2>1, <2>2
<1>7. CASE Backing!FlushFailed
  BY <1>7, ScheduleFlushType DEF Backing!FlushFailed, Backing!TypeOK, Ordered,
     Backing!FlushedIsDurable
<1>8. ASSUME NEW to \in {"stopping", "off"}, NEW ok \in BOOLEAN, Backing!FlushNow(to, ok)
      PROVE DurableInv'
  <2>1. PICK c \in Backing!Cancelled :
          IF ~writable \/ dirty = c[1] \/ ~ok
          THEN flushed' = c[1] /\ disk' = c[2]
          ELSE flushed' = dirty /\ disk' = file
    BY <1>8 DEF Backing!FlushNow
  <2>2. Backing!TypeOK'
    BY <1>8, <2>1, CancelledBounds DEF Backing!FlushNow, Backing!TypeOK
  <2>3. Ordered' /\ Backing!FlushedIsDurable'
    BY <1>8, <2>1, CancelledBounds DEF Backing!FlushNow, Backing!TypeOK, Ordered,
       Backing!FlushedIsDurable
  <2>4. QED
    BY <2>2, <2>3
<1>9. CASE UNCHANGED Backing!vars
  BY <1>9 DEF Backing!vars, Backing!TypeOK, Ordered, Backing!FlushedIsDurable
<1>10. QED
  BY <1>1, <1>2, <1>3, <1>4, <1>5, <1>6, <1>7, <1>8, <1>9
  DEF Backing!Next, Backing!Shutdown, Backing!Unrealize

(* Every variable keeps its type, for any number of pages and writes.        *)
THEOREM BackingTypes == NandSpec => []Backing!TypeOK
<1>1. DurableInv => Backing!TypeOK
  BY DEF DurableInv
<1>2. QED
  BY <1>1, InitDurable, NextDurable, BackingSteps, PTL DEF Backing!Spec

(* flushed_generation never claims more than what is stable: whatever the    *)
(* interleaving of writes, asynchronous flushes, failures, cancellation and  *)
(* shutdown, a page last written at or before it survives a power loss.      *)
THEOREM Durability == NandSpec => []FlushedIsDurable
<1>1. DurableInv => FlushedIsDurable
  BY DEF DurableInv, FlushedIsDurable
<1>2. QED
  BY <1>1, InitDurable, NextDurable, BackingSteps, PTL DEF Backing!Spec

(* No completion is late: a step never takes flushed_generation back, not    *)
(* even one that cancels a flush whose callback already ran.                 *)
THEOREM NoRegression == NandSpec => Backing!FlushedNeverRegresses
<1>1. DurableInv /\ [Backing!Next]_Backing!vars => flushed' >= flushed \/ UNCHANGED Backing!vars
  <2> SUFFICES ASSUME DurableInv,
     [Backing!Next]_Backing!vars PROVE flushed' >= flushed \/ UNCHANGED Backing!vars
    OBVIOUS
  <2> USE DEF DurableInv
  <2>1. CASE Backing!FlushDone
    BY <2>1 DEF Backing!FlushDone, Backing!TypeOK, Ordered
  <2>2. ASSUME NEW to \in {"stopping", "off"}, NEW ok \in BOOLEAN, Backing!FlushNow(to, ok)
        PROVE flushed' >= flushed
    <3>1. PICK c \in Backing!Cancelled : flushed' = c[1] \/ flushed' = dirty
      BY <2>2 DEF Backing!FlushNow
    <3>2. QED
      BY <3>1, CancelledBounds DEF Backing!TypeOK, Ordered
  <2>3. CASE UNCHANGED flushed
    BY <2>3 DEF Backing!TypeOK
  <2>4. QED
    BY <2>1, <2>2, <2>3
    DEF Backing!Next, Backing!vars, Backing!Write, Backing!WriteFails, Backing!WriteRamOnly,
       Backing!HostWriteback, Backing!Tick, Backing!FlushTimer,
        Backing!FlushFailed, Backing!Shutdown, Backing!Unrealize
<1>2. QED
  BY <1>1, InitDurable, NextDurable, BackingSteps, PTL DEF Backing!Spec, Backing!FlushedNeverRegresses

-----------------------------------------------------------------------------
(* The timer and the request exclude each other; the timer runs only while   *)
(* there is something to flush, and counts down what is left of the interval.*)
ArmedInv ==
  /\ Backing!TypeOK
  /\ Backing!Pending(timer) => ~acb /\ dirty # flushed /\ wait + timer = Interval
  /\ ~Backing!Pending(timer) => wait = 0
  /\ acb => writable
  /\ dirty # 0 => writable
  /\ flush <= dirty /\ flushed <= dirty
  /\ Backing!NeverStranded
  /\ Backing!QuietAfterUnrealize

\* It starts with no flush wanted and none armed.
LEMMA InitArmed == Backing!Init => ArmedInv
<1> SUFFICES ASSUME Backing!Init PROVE ArmedInv
  OBVIOUS
<1>1. Backing!TypeOK
  BY InitDurable DEF DurableInv
<1>2. QED
  BY <1>1 DEF Backing!Init, ArmedInv, Backing!NeverStranded, Backing!QuietAfterUnrealize

\* Every step leaves each dirty write with a timer or a flush in flight.
LEMMA NextArmed == DurableInv /\ ArmedInv /\ [Backing!Next]_Backing!vars => ArmedInv'
<1> SUFFICES ASSUME DurableInv, ArmedInv, [Backing!Next]_Backing!vars PROVE ArmedInv'
  OBVIOUS
<1> USE DEF ArmedInv, Backing!NeverStranded, Backing!QuietAfterUnrealize
<1>0. Backing!TypeOK' /\ flushed' <= dirty'
  BY NextDurable DEF DurableInv, Ordered
<1>a. Backing!TypeOK /\ (acb => flushed <= flush)
  BY DEF DurableInv, Ordered
<1>1. ASSUME NEW p \in Saved, Backing!Write(p) PROVE ArmedInv'
  BY <1>0, <1>1 DEF Backing!Write, Backing!ScheduleFlush, Backing!TypeOK
<1>2. ASSUME NEW p \in Saved,
   Backing!WriteFails(p) \/ Backing!WriteRamOnly(p) \/ Backing!HostWriteback(p)
      PROVE ArmedInv'
  BY <1>0, <1>2 DEF Backing!WriteFails, Backing!WriteRamOnly, Backing!HostWriteback
<1>3. CASE Backing!Tick
  BY <1>0, <1>3 DEF Backing!Tick, Backing!TypeOK
<1>4. CASE Backing!FlushTimer
  <2>1. ~acb /\ dirty # flushed /\ writable
    BY <1>4, <1>a DEF Backing!FlushTimer, Backing!TypeOK
  <2>2. QED
    BY <1>0, <1>4, <2>1, <1>a DEF Backing!FlushTimer, Backing!TypeOK
<1>5. CASE Backing!FlushDone
  BY <1>0, <1>5, <1>a DEF Backing!FlushDone, Backing!ScheduleFlush, Backing!TypeOK
<1>6. CASE Backing!FlushFailed
  BY <1>0, <1>6, <1>a DEF Backing!FlushFailed, Backing!ScheduleFlush, Backing!TypeOK
<1>7. ASSUME NEW to \in {"stopping", "off"}, NEW ok \in BOOLEAN, Backing!FlushNow(to, ok)
      PROVE ArmedInv'
  BY <1>0, <1>7 DEF Backing!FlushNow
<1>8. CASE UNCHANGED Backing!vars
  BY <1>0, <1>8 DEF Backing!vars
<1>9. QED
  BY <1>1, <1>2, <1>3, <1>4, <1>5, <1>6, <1>7, <1>8 DEF Backing!Next, Backing!Shutdown,
     Backing!Unrealize

\* So a dirty write is never stranded in any behaviour.
LEMMA ArmedAlways == NandSpec => []ArmedInv
BY InitDurable, NextDurable, InitArmed, NextArmed, BackingSteps, PTL DEF Backing!Spec

(* Until the machine stops, dirty data always has a timer or a flush in      *)
(* flight that will cover it.                                                *)
THEOREM Armed == NandSpec => []NeverStranded
<1>1. ArmedInv => NeverStranded
  BY DEF ArmedInv, NeverStranded
<1>2. QED
  BY <1>1, ArmedAlways, PTL

(* A flush starts no later than one interval after the first write that      *)
(* could start it.                                                           *)
THEOREM Deadline == NandSpec => []FlushWithinInterval
<1>1. ArmedInv => FlushWithinInterval
  BY DEF ArmedInv, FlushWithinInterval, Backing!FlushWithinInterval, Backing!TypeOK
<1>2. QED
  BY <1>1, ArmedAlways, PTL

(* Nothing can call back into the device after unrealize.                    *)
THEOREM Quiet == NandSpec => []QuietAfterUnrealize
<1>1. ArmedInv => QuietAfterUnrealize
  BY DEF ArmedInv, QuietAfterUnrealize
<1>2. QED
  BY <1>1, ArmedAlways, PTL
=============================================================================
