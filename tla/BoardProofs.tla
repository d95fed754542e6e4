----------------------------- MODULE BoardProofs -----------------------------
(*****************************************************************************)
(* What is proved of the units of Board, each on its own: its types, that    *)
(* its output is what its flags and enables ask for, that no work is left    *)
(* behind and that what comes in order stays so; for every value that the    *)
(* guest writes, every set of keys, every chain of descriptors, every depth  *)
(* of a FIFO and every ring.  Each device has an inductive invariant, a      *)
(* lemma that it holds at the start and one that every step keeps it; those  *)
(* of the display are in DisplayProofs, for both of its units, those of the  *)
(* timer unit, the DMA controller and the CPU in CpuProofs.                  *)
(*****************************************************************************)
EXTENDS CpuProofs, FiniteSetTheorems, SequenceTheorems

(* A step of the board is one of the unit that runs; the others keep their state. *)
LEMMA Steps ==
  ASSUME [Next]_vars
  PROVE  /\ unit' = unit
         /\ unit = "dma" => Dmac!Next \/ UNCHANGED dmaVars
         /\ unit = "rtc" => Clock!Next \/ UNCHANGED rtcVars
         /\ unit = "input" => Pins!Next \/ UNCHANGED inputVars
         /\ unit = "uart" => Serial!Next \/ UNCHANGED uartVars
         /\ unit = "lcd" => Lcd!Next \/ UNCHANGED displayVars
         /\ unit = "stream" => Stream!Next \/ UNCHANGED displayVars
         /\ unit = "udc" => Usb!Next \/ UNCHANGED udc
         /\ unit = "cim" => Camera!Next \/ UNCHANGED cim
         /\ unit = "emc" => Chip!Next \/ UNCHANGED emc
         /\ unit = "cpm" => Power!Next \/ UNCHANGED cpmVars
         /\ unit = "boot" => Boot!Next \/ UNCHANGED bootVars
         /\ unit = "tcu" => Counters!Next \/ UNCHANGED tcuVars
         /\ unit = "tlb" => Mmu!Next \/ UNCHANGED tlbVars
         /\ unit = "core" => Cpu!Next \/ UNCHANGED coreVars
         /\ unit = "cp0" => Control!Next \/ UNCHANGED cp0Vars
         /\ unit = "diag" => Recorder!Next \/ UNCHANGED diagVars
BY DEF Next, vars, Only

----------------------------------------------------------------------------
Uarts ==
  [ier : SUBSET Serial!Interrupts, unit : BOOLEAN, fifo : BOOLEAN,
   trigger : {m.trigger : m \in FifoModes} \cup {1}, dlab : BOOLEAN, loop : BOOLEAN,
   link : BOOLEAN, cts : BOOLEAN, ctsChanged : BOOLEAN, thr : BOOLEAN,
   errors : SUBSET {"OVER", "FIFOE"}, irq : BOOLEAN]

UartInv ==
  /\ Serial!TypeOK /\ rx \in Seq(0 .. MaxByte) /\ Serial!LineAgrees

LEMMA UartResets ==
  /\ Serial!ResetUart \in Uarts /\ ~Serial!ResetUart.thr
  /\ \A q : Serial!ResetUart.irq = (Serial!Cause(Serial!ResetUart, q) # "none")
BY DEF Uarts, Serial!ResetUart, Serial!Cause, Serial!Interrupts

LEMMA UartStarts == ASSUME Serial!Init PROVE UartInv
<1>1. uart \in Uarts /\ Serial!LineAgrees
  BY UartResets DEF Serial!Init, Serial!LineAgrees
<1>2. rx \in Seq(0 .. MaxByte) /\ Len(rx) <= FifoSize /\ {sent, got} \subseteq 0 .. MaxByte
  BY UartAssumption DEF Serial!Init
<1>3. QED BY <1>1, <1>2 DEF UartInv, Serial!TypeOK, Uarts

LEMMA UartSettled ==
  ASSUME NEW u \in Uarts, NEW q,
         u.thr => u.unit /\ "TDRIE" \in u.ier
  PROVE  LET v == Serial!Settled(u, q)
         IN  /\ v \in Uarts /\ v.irq = (Serial!Cause(v, q) # "none")
             /\ v.thr => v.unit /\ "TDRIE" \in v.ier
<1> DEFINE v == Serial!UpdateLsr(u)
           b == Serial!Cause(v, q) # "none"
<1>1. v \in Uarts /\ v.thr = u.thr /\ v.ier = u.ier /\ v.unit = u.unit
  BY DEF Serial!UpdateLsr, Uarts
<1>2. Serial!Settled(u, q) = [v EXCEPT !.irq = b] /\ b \in BOOLEAN
  BY DEF Serial!Settled
<1>3. b = (Serial!Cause(v, q) # "none")
  OBVIOUS
<1> HIDE DEF v, b
<1> DEFINE w == [v EXCEPT !.irq = b]
<1>4. w \in Uarts /\ w.irq = b /\ w.thr = v.thr /\ w.ier = v.ier /\ w.unit = v.unit
  BY <1>1, <1>2 DEF Uarts
<1>5. Serial!Cause(w, q) = Serial!Cause(v, q)
  BY <1>1, <1>2 DEF Uarts, Serial!Cause, Serial!DataReady
<1> HIDE DEF w
<1>6. Serial!Settled(u, q) = w  BY <1>2 DEF w
<1>7. QED BY <1>1, <1>3, <1>4, <1>5, <1>6

(* A handler that ends in uart_update_irq. *)
LEMMA UartSettles ==
  ASSUME NEW u \in Uarts, NEW q \in Seq(0 .. MaxByte), Len(q) <= FifoSize,
         u.thr => u.unit /\ "TDRIE" \in u.ier,
         Serial!Settle(u, q), {sent', got'} \subseteq 0 .. MaxByte
  PROVE  UartInv'
<1>1. uart' \in Uarts /\ Serial!LineAgrees'
  BY UartSettled DEF Serial!Settle, Serial!LineAgrees
<1>2. rx' = q
  BY DEF Serial!Settle
<1>3. QED BY <1>1, <1>2 DEF UartInv, Serial!TypeOK, Uarts

LEMMA UartPushes ==
  ASSUME NEW u \in Uarts, NEW q \in Seq(0 .. MaxByte), Len(q) <= FifoSize,
         NEW byte \in 0 .. MaxByte
  PROVE  LET p == Serial!Push(u, q, byte)
         IN  /\ p[1] \in Uarts /\ p[2] \in Seq(0 .. MaxByte) /\ Len(p[2]) <= FifoSize
             /\ p[1].thr = u.thr /\ p[1].unit = u.unit /\ p[1].ier = u.ier
<1>1. CASE Len(q) < FifoSize
  <2>1. Append(q, byte) \in Seq(0 .. MaxByte) /\ Len(Append(q, byte)) = Len(q) + 1
    OBVIOUS
  <2>2. Serial!Push(u, q, byte) = <<u, Append(q, byte)>>
    BY <1>1 DEF Serial!Push
  <2>3. QED BY <1>1, <2>1, <2>2, UartAssumption
<1>2. CASE ~(Len(q) < FifoSize)
  <2>1. [u EXCEPT !.errors = @ \cup {"OVER"}] \in Uarts
    BY DEF Uarts
  <2>2. Serial!Push(u, q, byte) = <<[u EXCEPT !.errors = @ \cup {"OVER"}], q>>
    BY <1>2 DEF Serial!Push
  <2>3. QED BY <2>1, <2>2 DEF Uarts
<1>3. QED BY <1>1, <1>2

LEMMA UartLatches ==
  ASSUME NEW u \in Uarts, u.thr => u.unit /\ "TDRIE" \in u.ier
  PROVE  LET v == Serial!LatchTransmit(u)
         IN  v \in Uarts /\ (v.thr => v.unit /\ "TDRIE" \in v.ier)
BY DEF Uarts, Serial!LatchTransmit

LEMMA UartSteps == ASSUME UartInv, Serial!Next \/ UNCHANGED uartVars PROVE UartInv'
<1>1. /\ uart \in Uarts
      /\ uart.thr => uart.unit /\ "TDRIE" \in uart.ier
      /\ rx \in Seq(0 .. MaxByte) /\ Len(rx) <= FifoSize
      /\ sent \in 0 .. MaxByte /\ got \in 0 .. MaxByte
  BY DEF UartInv, Serial!TypeOK, Serial!LineAgrees, Uarts
<1>2. CASE Serial!Receive
  <2>1. sent' = sent + 1 /\ sent' \in 0 .. MaxByte /\ got' = got
    BY <1>1, <1>2, UartAssumption DEF Serial!Receive
  <2> DEFINE p == Serial!Push(uart, rx, sent')
  <2>2. Serial!Settle(p[1], p[2])
    BY <1>2 DEF Serial!Receive
  <2>3. /\ p[1] \in Uarts /\ p[2] \in Seq(0 .. MaxByte) /\ Len(p[2]) <= FifoSize
        /\ p[1].thr = uart.thr /\ p[1].unit = uart.unit /\ p[1].ier = uart.ier
    BY <1>1, <2>1, UartPushes
  <2> HIDE DEF p
  <2>4. QED BY <1>1, <2>1, <2>2, <2>3, UartSettles
<1>3. CASE Serial!Transmit
  <2> DEFINE u == [uart EXCEPT !.thr = FALSE]
             p == Serial!Push(u, rx, Serial!Looped)
  <2>1. u \in Uarts /\ u.thr = FALSE /\ sent' = sent /\ got' = got
    BY <1>1, <1>3 DEF Serial!Transmit, Uarts
  <2>2. Serial!Looped \in 0 .. MaxByte
    BY UartAssumption DEF Serial!Looped
  <2>3. \/ Serial!Settle(uart, rx)
        \/ Serial!Settle(Serial!LatchTransmit(p[1]), p[2])
        \/ Serial!Settle(Serial!LatchTransmit(u), rx)
    <3>1. CASE uart.loop
      BY <1>3, <3>1 DEF Serial!Transmit
    <3>2. CASE ~uart.loop
      BY <1>3, <3>2 DEF Serial!Transmit
    <3>3. QED BY <3>1, <3>2
  <2> HIDE DEF u
  <2>4. p[1] \in Uarts /\ p[2] \in Seq(0 .. MaxByte) /\ Len(p[2]) <= FifoSize
        /\ p[1].thr = FALSE
    BY <1>1, <2>1, <2>2, UartPushes
  <2> HIDE DEF p
  <2>5. CASE Serial!Settle(uart, rx)
    BY <1>1, <2>1, <2>5, UartSettles
  <2>6. ASSUME NEW v \in Uarts, v.thr = FALSE
        PROVE  LET l == Serial!LatchTransmit(v)
               IN  l \in Uarts /\ (l.thr => l.unit /\ "TDRIE" \in l.ier)
    BY <2>6, UartLatches
  <2>7. CASE Serial!Settle(Serial!LatchTransmit(p[1]), p[2])
    BY <1>1, <2>1, <2>4, <2>6, <2>7, UartSettles
  <2>8. CASE Serial!Settle(Serial!LatchTransmit(u), rx)
    BY <1>1, <2>1, <2>6, <2>8, UartSettles
  <2>9. QED BY <2>3, <2>5, <2>7, <2>8
<1>4. CASE Serial!ReadData
  <2> DEFINE q == IF rx = <<>> THEN rx ELSE Tail(rx)
  <2>1. q \in Seq(0 .. MaxByte) /\ Len(q) <= FifoSize /\ got' \in 0 .. MaxByte
    <3>1. CASE rx = <<>>
      BY <1>1, <1>4, <3>1 DEF Serial!ReadData
    <3>2. CASE rx # <<>>
      <4>1. /\ Head(rx) \in 0 .. MaxByte /\ Tail(rx) \in Seq(0 .. MaxByte)
            /\ Len(Tail(rx)) = Len(rx) - 1
        BY <1>1, <3>2, HeadTailProperties
      <4>2. Len(rx) \in Nat /\ FifoSize \in Nat
        BY <1>1, UartAssumption, LenProperties
      <4>3. got' \in {Head(rx), got} /\ q = Tail(rx)
        BY <1>4, <3>2 DEF Serial!ReadData
      <4> HIDE DEF q
      <4>4. Len(q) <= FifoSize
        BY <1>1, <4>1, <4>2, <4>3
      <4>5. QED BY <1>1, <4>1, <4>3, <4>4
    <3>3. QED BY <3>1, <3>2
  <2>3. Serial!Settle(uart, q) /\ sent' = sent
    BY <1>4 DEF Serial!ReadData
  <2> HIDE DEF q
  <2>4. QED BY <1>1, <2>1, <2>3, UartSettles
<1>5. CASE Serial!ReadCause
  <2> DEFINE u == [uart EXCEPT !.thr = FALSE]
             b == Serial!Cause(u, rx) # "none"
  <2>1. CASE Serial!Cause(uart, rx) = "transmit"
    <3>1. uart' = [u EXCEPT !.irq = b] /\ UNCHANGED <<rx, sent, got>>
      BY <1>5, <2>1 DEF Serial!ReadCause
    <3>2. u \in Uarts /\ ~u.thr /\ b \in BOOLEAN
      BY <1>1 DEF Uarts
    <3>3. uart' \in Uarts /\ uart'.irq = b /\ ~uart'.thr
          /\ Serial!Cause(uart', rx) = Serial!Cause(u, rx)
      <4> HIDE DEF b, u
      <4>1. QED BY <3>1, <3>2 DEF Uarts, Serial!Cause, Serial!DataReady
    <3>4. QED BY <1>1, <3>1, <3>3 DEF UartInv, Serial!TypeOK, Uarts, Serial!LineAgrees
  <2>2. CASE Serial!Cause(uart, rx) # "transmit"
    BY <1>5, <2>2 DEF Serial!ReadCause, UartInv, Serial!TypeOK, Serial!LineAgrees,
       Serial!Cause, Serial!DataReady
  <2>3. QED BY <2>1, <2>2
<1>6. CASE Serial!ReadStatus
  <2>1. [uart EXCEPT !.errors = {}] \in Uarts
    BY <1>1 DEF Uarts
  <2>2. QED BY <1>1, <1>6, <2>1, UartSettles DEF Serial!ReadStatus, Uarts
<1>7. ASSUME NEW u \in Uarts
      PROVE  /\ Serial!UpdateModem(u) \in Uarts /\ Serial!UpdateModem(u).thr = u.thr
             /\ Serial!UpdateModem(u).unit = u.unit /\ Serial!UpdateModem(u).ier = u.ier
  BY DEF Serial!UpdateModem, Uarts
<1>8. CASE Serial!ReadModem
  <2> DEFINE u == [Serial!UpdateModem(uart) EXCEPT !.ctsChanged = FALSE]
             b == Serial!Cause(u, rx) # "none"
  <2>1. uart' = [u EXCEPT !.irq = b] /\ UNCHANGED <<rx, sent, got>>
    BY <1>8 DEF Serial!ReadModem
  <2>2. u \in Uarts /\ (u.thr => u.unit /\ "TDRIE" \in u.ier) /\ b \in BOOLEAN
    BY <1>1, <1>7 DEF Uarts
  <2>3. uart' \in Uarts /\ uart'.irq = b /\ (uart'.thr => uart'.unit /\ "TDRIE" \in uart'.ier)
        /\ Serial!Cause(uart', rx) = Serial!Cause(u, rx)
    <3> HIDE DEF b, u
    <3>1. QED BY <2>1, <2>2 DEF Uarts, Serial!Cause, Serial!DataReady
  <2>4. QED BY <1>1, <2>1, <2>3 DEF UartInv, Serial!TypeOK, Uarts, Serial!LineAgrees
<1>9. ASSUME NEW e \in UartEnables, Serial!WriteEnables(e) PROVE UartInv'
  <2> DEFINE u == [uart EXCEPT !.ier = e]
             v == IF uart.dlab THEN uart
                  ELSE IF "TDRIE" \notin e THEN [u EXCEPT !.thr = FALSE]
                  ELSE IF "TDRIE" \in uart.ier THEN u ELSE Serial!LatchTransmit(u)
  <2>1. Serial!Settle(v, rx) /\ UNCHANGED <<sent, got>>
    BY <1>9 DEF Serial!WriteEnables
  <2>2. e \in SUBSET Serial!Interrupts
    BY UartAssumption DEF Serial!Interrupts
  <2>3. u \in Uarts /\ u.unit = uart.unit /\ u.ier = e /\ u.thr = uart.thr
    BY <1>1, <2>2 DEF Uarts
  <2>4. v \in Uarts /\ (v.thr => v.unit /\ "TDRIE" \in v.ier)
    <3> HIDE DEF u
    <3>1. CASE uart.dlab
      BY <1>1, <3>1
    <3>2. CASE ~uart.dlab /\ "TDRIE" \notin e
      <4>1. v = [u EXCEPT !.thr = FALSE]
        BY <3>2
      <4> HIDE DEF v
      <4>2. QED BY <4>1, <2>3 DEF Uarts
    <3>3. CASE ~uart.dlab /\ "TDRIE" \in e /\ "TDRIE" \in uart.ier
      BY <1>1, <2>3, <3>3
    <3>4. CASE ~uart.dlab /\ "TDRIE" \in e /\ "TDRIE" \notin uart.ier
      <4>1. v = Serial!LatchTransmit(u) /\ ~uart.thr
        BY <1>1, <3>4
      <4> HIDE DEF v
      <4>2. QED BY <4>1, <2>3, UartLatches
    <3>5. QED BY <3>1, <3>2, <3>3, <3>4
  <2>5. QED BY <1>1, <2>1, <2>4, UartSettles
<1>10. ASSUME NEW m \in FifoModes, Serial!WriteFifo(m) PROVE UartInv'
  <2> DEFINE clears == "rx" \in m.clear
             c == IF clears THEN Serial!Settled([uart EXCEPT !.errors = {}], <<>>) ELSE uart
             t == IF "tx" \in m.clear THEN [c EXCEPT !.thr = FALSE] ELSE c
             u == [t EXCEPT !.fifo = m.fifo, !.unit = m.unit, !.trigger = m.trigger]
             v == IF m.unit THEN Serial!LatchTransmit(u) ELSE [u EXCEPT !.thr = FALSE]
             q == IF clears THEN <<>> ELSE rx
  <2>1. Serial!Settle(v, q) /\ UNCHANGED <<sent, got>>
    BY <1>10 DEF Serial!WriteFifo
  <2>2. [uart EXCEPT !.errors = {}] \in Uarts
        /\ ([uart EXCEPT !.errors = {}].thr => [uart EXCEPT !.errors = {}].unit
                /\ "TDRIE" \in [uart EXCEPT !.errors = {}].ier)
    BY <1>1 DEF Uarts
  <2>3. c \in Uarts /\ (c.thr => "TDRIE" \in c.ier)
    BY <1>1, <2>2, UartSettled
  <2>4. t \in Uarts /\ (t.thr => "TDRIE" \in t.ier)
    <3> HIDE DEF c
    <3>1. QED BY <2>3 DEF Uarts
  <2>5. u \in Uarts /\ (u.thr => "TDRIE" \in u.ier) /\ u.unit = m.unit
    <3>1. m.fifo \in BOOLEAN /\ m.unit \in BOOLEAN
          /\ m.trigger \in {n.trigger : n \in FifoModes} \cup {1}
      BY UartAssumption
    <3> HIDE DEF t
    <3>2. QED BY <2>4, <3>1 DEF Uarts
  <2>6. v \in Uarts /\ (v.thr => v.unit /\ "TDRIE" \in v.ier)
    <3> HIDE DEF u
    <3>1. QED BY <2>5 DEF Uarts, Serial!LatchTransmit
  <2>7. q \in Seq(0 .. MaxByte) /\ Len(q) <= FifoSize
    <3>1. CASE clears
      <4>1. q = <<>>
        BY <3>1
      <4> HIDE DEF q
      <4>2. QED BY <4>1, UartAssumption
    <3>2. CASE ~clears
      BY <1>1, <3>2
    <3>3. QED BY <3>1, <3>2
  <2> HIDE DEF v, q
  <2>8. QED BY <1>1, <2>1, <2>6, <2>7, UartSettles
<1>11. ASSUME NEW d \in BOOLEAN, Serial!WriteLine(d) PROVE UartInv'
  <2>1. [uart EXCEPT !.dlab = d] \in Uarts
    BY <1>1 DEF Uarts
  <2>2. QED BY <1>1, <1>11, <2>1, UartSettles DEF Serial!WriteLine, Uarts
<1>12. ASSUME NEW l \in BOOLEAN, NEW k \in BOOLEAN, Serial!WriteModem(l, k) PROVE UartInv'
  <2> DEFINE u == [uart EXCEPT !.loop = l, !.link = k]
  <2>1. u \in Uarts /\ u.thr = uart.thr /\ u.unit = uart.unit /\ u.ier = uart.ier
    BY <1>1 DEF Uarts
  <2>2. Serial!Settle(Serial!UpdateModem(u), rx) /\ UNCHANGED <<sent, got>>
    BY <1>12 DEF Serial!WriteModem
  <2> HIDE DEF u
  <2>3. QED BY <1>1, <1>7, <2>1, <2>2, UartSettles
<1>13. CASE Serial!Reset
  BY <1>1, <1>13, UartResets, UartAssumption
  DEF Serial!Reset, UartInv, Serial!TypeOK, Uarts, Serial!LineAgrees
<1>14. CASE Serial!Restore
  BY <1>1, <1>14, UartSettles DEF Serial!Restore
<1>15. CASE UNCHANGED uartVars
  BY <1>15 DEF uartVars, UartInv, Serial!TypeOK, Serial!LineAgrees, Serial!Cause,
     Serial!DataReady
<1>16. QED
  BY <1>2, <1>3, <1>4, <1>5, <1>6, <1>8, <1>9, <1>10, <1>11, <1>12, <1>13, <1>14, <1>15
  DEF Serial!Next

----------------------------------------------------------------------------
Cims ==
  [control : SUBSET UNION CimControls, irq : BOOLEAN,
   status : SUBSET (Camera!Masks \cup {"RF_EMPTY"})]

CimInv ==
  /\ Camera!TypeOK /\ cim \in Cims /\ Camera!LineAgrees
  /\ cim.status \cap Camera!Masks \subseteq {"VDD"}
  /\ "VDD" \in cim.status => "ENA" \notin cim.control

LEMMA CimUpdated ==
  ASSUME NEW c \in Cims, c.control \in CimControls \cup {{}}, "RF_EMPTY" \in c.status,
         c.status \cap Camera!Masks \subseteq {"VDD"},
         "VDD" \in c.status => "ENA" \notin c.control,
         cim' = Camera!Update(c)
  PROVE  CimInv'
<1> DEFINE b == Camera!Pending(c)
<1>1. b \in BOOLEAN /\ cim' = [c EXCEPT !.irq = b]
  BY DEF Camera!Update, Camera!Pending
<1>2. b => c.status \cap Camera!Masks = {"VDD"}
  BY DEF Camera!Pending
<1>3. cim' \in Cims /\ cim'.irq = b /\ cim'.status = c.status /\ cim'.control = c.control
  <2> HIDE DEF b
  <2>1. QED BY <1>1 DEF Cims
<1>4. Camera!Pending(cim)' = b
  BY <1>3 DEF Camera!Pending
<1>5. QED
  <2> HIDE DEF b
  <2>1. QED BY <1>2, <1>3, <1>4 DEF CimInv, Camera!TypeOK, Camera!LineAgrees, Cims, Camera!Masks

LEMMA CimStarts == ASSUME cim = Camera!ResetCim PROVE CimInv
BY DEF Camera!ResetCim, CimInv, Cims, Camera!TypeOK, Camera!LineAgrees, Camera!Pending,
   Camera!Masks

LEMMA CimSteps == ASSUME CimInv, Camera!Next \/ UNCHANGED cim PROVE CimInv'
<1>1. /\ cim \in Cims /\ cim.control \in CimControls \cup {{}} /\ "RF_EMPTY" \in cim.status
      /\ cim.status \cap Camera!Masks \subseteq {"VDD"}
      /\ ("VDD" \in cim.status => "ENA" \notin cim.control)
  BY DEF CimInv, Camera!TypeOK
<1>2. ASSUME NEW v \in CimControls, Camera!WriteControl(v) PROVE CimInv'
  <2> DEFINE c == [cim EXCEPT !.control = v]
             a == Camera!Answered(cim.control, c)
  <2>1. /\ c.control = v /\ c.status = cim.status /\ c \in Cims
        /\ c.irq = cim.irq
    BY <1>1 DEF Cims
  <2> HIDE DEF c
  <2>2. /\ a \in Cims /\ a.control = v /\ "RF_EMPTY" \in a.status
        /\ a.status \subseteq cim.status \cup {"RF_EMPTY", "VDD"}
        /\ ("ENA" \in v => "VDD" \notin a.status)
    BY <1>1, <2>1 DEF Camera!Answered, Camera!Transfer, Cims, Camera!Masks
  <2>3. cim' = Camera!Update(a)
    BY <1>2 DEF Camera!WriteControl, c
  <2> HIDE DEF a
  <2>4. a.status \cap Camera!Masks \subseteq {"VDD"}
    BY <1>1, <2>2 DEF Camera!Masks
  <2>5. QED BY <1>1, <2>2, <2>3, <2>4, CimUpdated
<1>3. ASSUME NEW s \in SUBSET cim.status, cim' = Camera!Update([cim EXCEPT !.status = s \cup {"RF_EMPTY"}])
      PROVE  CimInv'
  <2> DEFINE c == [cim EXCEPT !.status = s \cup {"RF_EMPTY"}]
  <2>1. c \in Cims /\ c.control = cim.control /\ c.status = s \cup {"RF_EMPTY"}
    BY <1>1, <1>3 DEF Cims
  <2> HIDE DEF c
  <2>2. c.status \cap Camera!Masks \subseteq {"VDD"}
    BY <1>1, <1>3, <2>1 DEF Camera!Masks
  <2>3. QED BY <1>1, <1>3, <2>1, <2>2, CimUpdated DEF c
<1>4. ASSUME NEW k \in CimKeeps, Camera!WriteStatus(k) PROVE CimInv'
  BY <1>3, <1>4 DEF Camera!WriteStatus
<1>5. CASE Camera!WriteOther
  BY <1>1, <1>5, CimUpdated DEF Camera!WriteOther
<1>6. CASE Camera!Restore
  BY <1>3, <1>6 DEF Camera!Restore
<1>7. CASE Camera!Reset
  <2>1. CimInv' <=> CimInv'
    OBVIOUS
  <2>2. QED BY <1>7 DEF Camera!Reset, Camera!ResetCim, CimInv, Cims, Camera!TypeOK,
   Camera!LineAgrees, Camera!Pending, Camera!Masks
<1>8. CASE UNCHANGED cim
  BY <1>8 DEF CimInv, Camera!TypeOK, Camera!LineAgrees, Camera!Pending
<1>9. QED BY <1>2, <1>4, <1>5, <1>6, <1>7, <1>8 DEF Camera!Next

----------------------------------------------------------------------------
Cpms == [DOMAIN Power!RwMask -> SUBSET (0 .. 31)]

CpmInv == Power!TypeOK /\ regs \in Cpms /\ Power!BoardKnows

LEMMA CpmMasks ==
  ASSUME NEW r \in DOMAIN Power!RwMask
  PROVE  /\ Power!RwMask[r] \subseteq 0 .. 31 /\ Power!ResetValue[r] \subseteq Power!RwMask[r]
         /\ Power!PLLS \notin Power!RwMask["CPPCR"] 
BY DEF Power!RwMask, Power!ResetValue, Power!PLLS

LEMMA CpmReset ==
  /\ Power!ResetValue \in Cpms
  /\ \A r \in DOMAIN Power!ResetValue : Power!ResetValue[r] \subseteq Power!RwMask[r] \cup {Power!PLLS}
  /\ Power!PLLS \notin Power!ResetValue.CPPCR /\ Power!PLLEN \notin Power!ResetValue.CPPCR
<1>1. DOMAIN Power!ResetValue = DOMAIN Power!RwMask
  BY DEF Power!RwMask, Power!ResetValue
<1>2. Power!ResetValue \in Cpms
  BY <1>1, CpmMasks DEF Cpms, Power!ResetValue, Power!RwMask
<1>3. QED BY <1>1, <1>2, CpmMasks DEF Power!ResetValue, Power!PLLS, Power!PLLEN

LEMMA CpmSteps == ASSUME CpmInv, Power!Next \/ UNCHANGED cpmVars PROVE CpmInv'
<1>1. /\ regs \in Cpms /\ DOMAIN regs = DOMAIN Power!RwMask
      /\ \A r \in DOMAIN regs : regs[r] \subseteq Power!RwMask[r] \cup {Power!PLLS}
      /\ (Power!PLLS \in regs.CPPCR <=> Power!PLLEN \in regs.CPPCR)
      /\ told = Power!WakeBits(regs)
  BY DEF CpmInv, Power!TypeOK, Power!BoardKnows
<1>2. ASSUME NEW r \in PowerRegisters, NEW a \in PowerAccesses, NEW v \in PowerValues,
             Power!Write(r, a, v)
      PROVE  CpmInv'
  <2> DEFINE w == (regs[r] \ Power!Lanes(a)) \cup (v \cap Power!Lanes(a))
             m == Power!Masked(r, w)
  <2>1. r \in DOMAIN Power!RwMask
    BY CpmAssumption DEF Power!RwMask
  <2>2. /\ m \subseteq Power!RwMask[r] \cup {Power!PLLS}
        /\ (r = "CPPCR" => (Power!PLLS \in m <=> Power!PLLEN \in m))
    <3> HIDE DEF w
    <3>1. QED BY <2>1, CpmMasks DEF Power!Masked, Power!PLLS, Power!PLLEN
  <2>3. regs' = [regs EXCEPT ![r] = m]
    BY <1>2 DEF Power!Write
  <2> HIDE DEF m
  <2>4. m \subseteq 0 .. 31
    BY <2>1, <2>2, CpmMasks DEF Power!PLLS
  <2>5. regs' \in Cpms
    BY <1>1, <2>1, <2>3, <2>4 DEF Cpms
  <2>6. \A q \in DOMAIN regs' : regs'[q] \subseteq Power!RwMask[q] \cup {Power!PLLS}
    BY <1>1, <2>1, <2>2, <2>3 DEF Cpms
  <2>7. Power!PLLS \in regs'.CPPCR <=> Power!PLLEN \in regs'.CPPCR
    <3>1. "CPPCR" \in DOMAIN Power!RwMask
      BY DEF Power!RwMask
    <3>2. QED BY <1>1, <2>1, <2>2, <2>3, <3>1
  <2>8. told' = Power!WakeBits(regs')
    <3>1. CASE r \in {"CLKGR", "SCR"}
      BY <1>2, <3>1 DEF Power!Write, Power!Notify
    <3>2. CASE r \notin {"CLKGR", "SCR"}
      <4>1. told' = told
        BY <1>2, <3>2 DEF Power!Write
      <4>2. regs'.CLKGR = regs.CLKGR /\ regs'.SCR = regs.SCR
        <5>1. {"CLKGR", "SCR"} \subseteq DOMAIN Power!RwMask
          BY DEF Power!RwMask
        <5>2. QED BY <1>1, <2>3, <3>2, <5>1
      <4>3. QED BY <1>1, <4>1, <4>2 DEF Power!WakeBits
    <3>3. QED BY <3>1, <3>2
  <2>9. QED BY <2>5, <2>6, <2>7, <2>8 DEF CpmInv, Power!TypeOK, Power!BoardKnows, Cpms
<1>3. ASSUME UNCHANGED cpmVars PROVE CpmInv'
  BY <1>3 DEF cpmVars, CpmInv, Power!TypeOK, Power!BoardKnows
<1>4. ASSUME NEW r \in PowerRegisters, NEW a \in PowerAccesses, Power!Ignored(r, a)
      PROVE  CpmInv'
  BY <1>3, <1>4 DEF Power!Ignored, Power!vars, cpmVars
<1>5. CASE Power!Reset
  <2>1. regs' = Power!ResetValue /\ told' = Power!WakeBits(regs')
    BY <1>5 DEF Power!Reset, Power!Notify
  <2>2. QED BY <2>1, CpmReset DEF CpmInv, Power!TypeOK, Power!BoardKnows, Cpms
<1>6. CASE Power!Restore
  BY <1>1, <1>6 DEF Power!Restore, Power!Notify, CpmInv, Power!TypeOK, Power!BoardKnows
<1>7. QED BY <1>2, <1>3, <1>4, <1>5, <1>6 DEF Power!Next

LEMMA CpmStarts == ASSUME Power!Init PROVE CpmInv
BY CpmReset DEF Power!Init, CpmInv, Power!TypeOK, Power!BoardKnows, Cpms

----------------------------------------------------------------------------
UdcBanks == {b \in [DOMAIN Usb!BankMask -> SUBSET (0 .. 15)] :
               \A r \in DOMAIN b : b[r] \subseteq Usb!BankMask[r]}
UdcBank(e) == {b \in UdcBanks : \A r \in DOMAIN b : e \notin Usb!BankEndpoints[r] => b[r] = {}}

Udcs ==
  [pending : [Usb!Kinds -> {{}}], enable : [Usb!Kinds -> SUBSET (0 .. 3)],
   index : Endpoints, ep : [Endpoints -> UdcBanks], irq : BOOLEAN]

UdcTyped(u) ==
  /\ u \in Udcs
  /\ \A k \in Usb!Kinds : u.enable[k] \subseteq Usb!Exists[k]
  /\ \A e \in Endpoints : u.ep[e] \in UdcBank(e)

UdcInv == Usb!TypeOK /\ UdcTyped(udc) /\ Usb!LineAgrees

LEMMA UdcKinds == Usb!Kinds = {"in", "out", "usb"}
BY DEF Usb!Kinds, Usb!Exists

LEMMA UdcUpdated ==
  ASSUME NEW u, UdcTyped(u), udc' = Usb!Update(u)
  PROVE  UdcInv'
<1>1. u \in Udcs /\ u.pending \in [Usb!Kinds -> {{}}]
  BY DEF UdcTyped, Udcs
<1>2. Usb!Pending(u) = FALSE
  BY <1>1 DEF Usb!Pending
<1>3. udc' = [u EXCEPT !.irq = FALSE]
  BY <1>2 DEF Usb!Update
<1>4. /\ udc' \in Udcs /\ udc'.irq = FALSE /\ udc'.pending = u.pending
      /\ udc'.enable = u.enable /\ udc'.ep = u.ep
  BY <1>1, <1>3 DEF Udcs
<1>5. Usb!LineAgrees'
  BY <1>1, <1>4 DEF Usb!LineAgrees, Usb!Pending
<1>6. UdcTyped(udc)'
  BY <1>4 DEF UdcTyped
<1>7. Usb!TypeOK'
  BY <1>1, <1>4, <1>6 DEF Usb!TypeOK, UdcTyped, Udcs, UdcBank, UdcBanks
<1>8. QED BY <1>5, <1>6, <1>7 DEF UdcInv

LEMMA UdcReset == UdcTyped(Usb!ResetUdc) /\ Usb!Update(Usb!ResetUdc) = Usb!ResetUdc
<1> DEFINE enable == [in |-> Usb!InEndpoints, out |-> Usb!OutEndpoints, usb |-> {1, 2}]
           bank == [r \in DOMAIN Usb!BankMask |-> {}]
<1>1. bank \in UdcBanks /\ \A e \in Endpoints : bank \in UdcBank(e)
  BY DEF UdcBank, UdcBanks
<1>2. enable \in [Usb!Kinds -> SUBSET (0 .. 3)]
      /\ \A k \in Usb!Kinds : enable[k] \subseteq Usb!Exists[k]
  BY UdcKinds DEF Usb!Exists, Usb!InEndpoints, Usb!OutEndpoints
<1>3. Usb!ResetUdc = [pending |-> [k \in Usb!Kinds |-> {}], enable |-> enable, index |-> 0,
                      ep |-> [e \in Endpoints |-> bank], irq |-> FALSE]
  BY DEF Usb!ResetUdc
<1> HIDE DEF enable, bank
<1>4. Usb!ResetUdc \in Udcs
  BY <1>1, <1>2, <1>3, UdcAssumption DEF Udcs
<1>5. UdcTyped(Usb!ResetUdc)
  BY <1>1, <1>2, <1>3, <1>4 DEF UdcTyped
<1>6. Usb!Pending(Usb!ResetUdc) = FALSE
  BY <1>3 DEF Usb!Pending
<1>7. [Usb!ResetUdc EXCEPT !.irq = FALSE] = Usb!ResetUdc
  BY <1>3, <1>4 DEF Udcs
<1>8. QED BY <1>5, <1>6, <1>7 DEF Usb!Update

LEMMA UdcStarts == ASSUME Usb!Init PROVE UdcInv
<1>1. udc = Usb!ResetUdc /\ UdcTyped(udc)
  BY UdcReset DEF Usb!Init
<1>2. udc.pending = [k \in Usb!Kinds |-> {}] /\ udc.irq = FALSE
  BY <1>1 DEF Usb!ResetUdc
<1>3. Usb!LineAgrees
  BY <1>2 DEF Usb!LineAgrees, Usb!Pending
<1>4. QED BY <1>1, <1>2, <1>3 DEF UdcInv, Usb!TypeOK, UdcTyped, Udcs, UdcBank, UdcBanks

(* A byte that is written reaches the bits of its register that exist.          *)
LEMMA UdcMerges ==
  ASSUME NEW old, NEW reg, NEW bytes, NEW values, NEW mask
  PROVE  Usb!Merge(old, reg, bytes, values, mask) \subseteq mask
BY DEF Usb!Merge

LEMMA UdcSteps == ASSUME UdcInv, Usb!Next \/ UNCHANGED udc PROVE UdcInv'
<1>1. UdcTyped(udc) /\ udc \in Udcs
  BY DEF UdcInv, UdcTyped
<1>2. ASSUME NEW a, NEW v, Usb!Write(a, v) PROVE UdcInv'
  <2> DEFINE enable == [k \in Usb!Kinds |-> Usb!Merge(udc.enable[k], k, a, v, Usb!Exists[k])]
             bank == [r \in DOMAIN Usb!BankMask |->
                        IF udc.index \in Usb!BankEndpoints[r]
                        THEN Usb!Merge(udc.ep[udc.index][r], r, a, v, Usb!BankMask[r])
                        ELSE udc.ep[udc.index][r]]
             u == [udc EXCEPT !.enable = enable, !.ep[udc.index] = bank]
  <2>1. Usb!WriteByte(udc, a, v) = u
    BY <1>1 DEF Usb!WriteByte, Udcs
  <2>2. enable \in [Usb!Kinds -> SUBSET (0 .. 3)]
        /\ \A k \in Usb!Kinds : enable[k] \subseteq Usb!Exists[k]
    <3>1. \A k \in Usb!Kinds : Usb!Exists[k] \subseteq 0 .. 3
      BY UdcKinds DEF Usb!Exists, Usb!InEndpoints, Usb!OutEndpoints
    <3>2. QED BY <3>1, UdcMerges
  <2>3. udc.index \in Endpoints /\ udc.ep[udc.index] \in UdcBank(udc.index)
    BY <1>1 DEF UdcTyped, Udcs
  <2>4. bank \in UdcBank(udc.index)
    <3>1. \A r \in DOMAIN Usb!BankMask : Usb!BankMask[r] \subseteq 0 .. 15
      BY DEF Usb!BankMask
    <3>2. \A r \in DOMAIN Usb!BankMask :
            /\ bank[r] \subseteq Usb!BankMask[r]
            /\ udc.index \notin Usb!BankEndpoints[r] => bank[r] = {}
      BY <2>3, UdcMerges DEF UdcBank, UdcBanks
    <3>3. DOMAIN bank = DOMAIN Usb!BankMask
      OBVIOUS
    <3>4. bank \in [DOMAIN Usb!BankMask -> SUBSET (0 .. 15)]
      BY <3>1, <3>2
    <3> HIDE DEF bank
    <3>5. QED BY <3>2, <3>3, <3>4 DEF UdcBank, UdcBanks
  <2> HIDE DEF enable, bank
  <2>5. /\ u.pending = udc.pending /\ u.enable = enable /\ u.index = udc.index
        /\ u.irq = udc.irq /\ u.ep = [udc.ep EXCEPT ![udc.index] = bank] /\ u \in Udcs
    BY <1>1, <2>2, <2>3, <2>4 DEF Udcs, UdcBank
  <2> HIDE DEF u
  <2>6. UdcTyped(u)
    BY <1>1, <2>2, <2>3, <2>4, <2>5 DEF UdcTyped, Udcs
  <2>7. QED BY <1>2, <2>1, <2>6, UdcUpdated DEF Usb!Write
<1>3. ASSUME NEW e \in Endpoints, Usb!WriteIndex(e) PROVE UdcInv'
  <2> DEFINE u == [udc EXCEPT !.index = e]
  <2>1. u \in Udcs /\ u.enable = udc.enable /\ u.ep = udc.ep
    BY <1>1 DEF Udcs
  <2>2. udc' = Usb!Update(u)
    BY <1>3 DEF Usb!WriteIndex
  <2> HIDE DEF u
  <2>3. QED BY <1>1, <2>1, <2>2, UdcUpdated DEF UdcTyped
<1>4. ASSUME NEW kinds, Usb!Read(kinds) PROVE UdcInv'
  <2> DEFINE p == [k \in Usb!Kinds |-> IF k \in kinds THEN {} ELSE udc.pending[k]]
             u == [udc EXCEPT !.pending = p]
  <2>1. p \in [Usb!Kinds -> {{}}]
    BY <1>1 DEF Udcs
  <2>2. udc' = Usb!Update(u)
    BY <1>1, <1>4 DEF Usb!Read, Udcs
  <2> HIDE DEF p
  <2>3. u \in Udcs /\ u.enable = udc.enable /\ u.ep = udc.ep
    BY <1>1, <2>1 DEF Udcs
  <2> HIDE DEF u
  <2>4. QED BY <1>1, <2>2, <2>3, UdcUpdated DEF UdcTyped
<1>5. CASE Usb!Restore
  BY <1>1, <1>5, UdcUpdated DEF Usb!Restore
<1>6. CASE Usb!Reset
  BY <1>6, UdcReset, UdcUpdated DEF Usb!Reset
<1>7. CASE UNCHANGED udc
  BY <1>7 DEF UdcInv, UdcTyped, Usb!TypeOK, Usb!LineAgrees, Usb!Pending
<1>8. QED BY <1>2, <1>3, <1>4, <1>5, <1>6, <1>7 DEF Usb!Next

----------------------------------------------------------------------------
EmcFields(e) ==
  e \in [control : {e.control}, data : {e.data}, count : {e.count}, parity : {e.parity},
         hamming : {e.hamming}, status : {e.status}, errors : {e.errors},
         enable : {e.enable}, irq : {e.irq}]

EmcTyped(e) ==
  /\ EmcFields(e)
  /\ e.control \subseteq {"ECCE", "RSE", "ENCE"} /\ e.status \subseteq Chip!Status
  /\ e.count \in 0 .. BlockBytes /\ e.irq \in BOOLEAN
  /\ e.data \subseteq Nat /\ \A d \in e.data : d < EmcByteBits * e.count

EmcSound(e) == EmcTyped(e) /\ e.irq = Chip!Raises(e)

EmcInv == Chip!TypeOK /\ EmcSound(emc) /\ Chip!LineAgrees

LEMMA EmcSettles == ASSUME EmcSound(emc)' PROVE EmcInv'
BY DEF EmcInv, EmcSound, EmcTyped, Chip!TypeOK, Chip!LineAgrees

LEMMA EmcUpdated ==
  ASSUME NEW e, EmcTyped(e)
  PROVE  EmcSound(Chip!Update(e)) /\ Chip!Update(e).control = e.control
<1> DEFINE b == Chip!Raises(e)
           u == [e EXCEPT !.irq = b]
<1>1. b \in BOOLEAN
  BY DEF Chip!Raises
<1>2. /\ EmcFields(u) /\ u.control = e.control /\ u.data = e.data
      /\ u.count = e.count /\ u.status = e.status /\ u.enable = e.enable
      /\ u.irq = b
  <2> HIDE DEF b
  <2>1. QED BY DEF EmcTyped, EmcFields
<1>3. u.status = e.status /\ u.enable = e.enable /\ u.irq = b
  <2> HIDE DEF b, u
  <2>1. QED BY <1>2
<1>4. Chip!Raises(u) = b
  BY <1>3 DEF Chip!Raises
<1>5. EmcTyped(u)
  <2> HIDE DEF b, u
  <2>1. QED BY <1>1, <1>2 DEF EmcTyped
<1>6. Chip!Update(e) = u
  BY DEF Chip!Update
<1>7. u.control = e.control
  <2> HIDE DEF b, u
  <2>1. QED BY <1>2
<1> HIDE DEF b, u
<1>8. QED BY <1>3, <1>4, <1>5, <1>6, <1>7 DEF EmcSound

(* A change that leaves status, enables and output alone.                       *)
LEMMA EmcBegins ==
  ASSUME NEW e, EmcSound(e)
  PROVE  EmcSound(Chip!Begin(e)) /\ Chip!Begin(e).control = e.control
<1>1. /\ EmcFields(Chip!Begin(e)) /\ Chip!Begin(e).control = e.control
      /\ Chip!Begin(e).data = {} /\ Chip!Begin(e).count = 0
      /\ Chip!Begin(e).status = e.status /\ Chip!Begin(e).enable = e.enable
      /\ Chip!Begin(e).irq = e.irq
  BY DEF EmcSound, EmcTyped, EmcFields, Chip!Begin
<1>2. QED BY <1>1, EmcAssumption DEF EmcSound, EmcTyped, Chip!Raises

LEMMA EmcDecodes == ASSUME NEW e, EmcSound(e) PROVE EmcSound(Chip!Decode(e))
<1> DEFINE d == RsDecoded(e.data, e.parity)
           found == IF ~d.ok THEN {"UNCOR", "ERR"} ELSE IF d.at # {} THEN {"ERR"} ELSE {}
           s == (e.status \ {"UNCOR", "ERR"}) \cup {"DECF"} \cup found
           u == [e EXCEPT !.status = s, !.errors = d.at]
<1>1. s \subseteq Chip!Status
  BY DEF EmcSound, EmcTyped, Chip!Status
<1>2. Chip!Decode(e) = Chip!Update(u)
  BY DEF Chip!Decode
<1> HIDE DEF d, s
<1>3. /\ EmcFields(u) /\ u.control = e.control /\ u.data = e.data /\ u.count = e.count
      /\ u.status = s /\ u.enable = e.enable /\ u.irq = e.irq
  BY DEF EmcSound, EmcTyped, EmcFields
<1> HIDE DEF u
<1>4. EmcTyped(u)
  BY <1>1, <1>3 DEF EmcSound, EmcTyped
<1>5. QED BY <1>2, <1>4, EmcUpdated

LEMMA EmcCompletes == ASSUME NEW e, EmcSound(e) PROVE EmcSound(Chip!Complete(e))
<1>1. CASE "RSE" \notin e.control
  <2> DEFINE h == HammingCode(e.data)
  <2>1. Chip!Complete(e) = [e EXCEPT !.hamming = h]
    BY <1>1 DEF Chip!Complete
  <2> HIDE DEF h
  <2>2. /\ EmcFields(Chip!Complete(e)) /\ Chip!Complete(e).control = e.control
        /\ Chip!Complete(e).data = e.data /\ Chip!Complete(e).count = e.count
        /\ Chip!Complete(e).status = e.status /\ Chip!Complete(e).enable = e.enable
        /\ Chip!Complete(e).irq = e.irq
    BY <2>1 DEF EmcSound, EmcTyped, EmcFields
  <2>3. QED BY <2>2 DEF EmcSound, EmcTyped, Chip!Raises
<1>2. CASE "RSE" \in e.control /\ "ENCE" \in e.control
  <2> DEFINE p == RsEncoded(e.data)
             s == e.status \cup {"ENCF"}
             u == [e EXCEPT !.parity = p, !.status = s]
  <2>1. Chip!Complete(e) = Chip!Update(u)
    BY <1>2 DEF Chip!Complete
  <2>2. s \subseteq Chip!Status
    BY DEF EmcSound, EmcTyped, Chip!Status
  <2> HIDE DEF p, s
  <2>3. /\ EmcFields(u) /\ u.control = e.control /\ u.data = e.data
        /\ u.count = e.count /\ u.status = s /\ u.enable = e.enable /\ u.irq = e.irq
    BY DEF EmcSound, EmcTyped, EmcFields
  <2> HIDE DEF u
  <2>4. EmcTyped(u)
    BY <2>2, <2>3 DEF EmcSound, EmcTyped
  <2>5. QED BY <2>1, <2>4, EmcUpdated
<1>3. CASE "RSE" \in e.control /\ "ENCE" \notin e.control
  <2> DEFINE s == e.status \cup {"PADF"}
             u == [e EXCEPT !.status = s]
  <2>1. Chip!Complete(e) = Chip!Update(u)
    BY <1>3 DEF Chip!Complete
  <2>2. s \subseteq Chip!Status
    BY DEF EmcSound, EmcTyped, Chip!Status
  <2> HIDE DEF s
  <2>3. /\ EmcFields(u) /\ u.control = e.control /\ u.data = e.data
        /\ u.count = e.count /\ u.status = s /\ u.enable = e.enable /\ u.irq = e.irq
    BY DEF EmcSound, EmcTyped, EmcFields
  <2> HIDE DEF u
  <2>4. EmcTyped(u)
    BY <2>2, <2>3 DEF EmcSound, EmcTyped
  <2>5. QED BY <2>1, <2>4, EmcUpdated
<1>4. QED BY <1>1, <1>2, <1>3

(* The bits of n more bytes are beyond those of the bytes before, and below the  *)
(* end of the new ones.                                                         *)
LEMMA ByteBitsBelow ==
  ASSUME NEW c \in Nat, NEW n \in Nat, NEW b \in Nat, b < EmcByteBits * n
  PROVE  /\ EmcByteBits * c + b \in Nat /\ EmcByteBits * c + b < EmcByteBits * (c + n)
         /\ EmcByteBits * c <= EmcByteBits * (c + n)
<1>1. EmcByteBits * (c + n) = EmcByteBits * c + EmcByteBits * n
  BY EmcAssumption, SMT
<1>2. EmcByteBits * c \in Nat /\ EmcByteBits * n \in Nat
  BY EmcAssumption, SMT
<1>3. QED BY <1>1, <1>2

LEMMA ByteBitsGrow ==
  ASSUME NEW c \in Nat, NEW n \in Nat
  PROVE  /\ EmcByteBits * c \in Nat /\ EmcByteBits * (c + n) \in Nat
         /\ EmcByteBits * c <= EmcByteBits * (c + n)
<1>1. EmcByteBits * (c + n) = EmcByteBits * c + EmcByteBits * n
  BY EmcAssumption, SMT
<1>2. EmcByteBits * c \in Nat /\ EmcByteBits * n \in Nat
  BY EmcAssumption, SMT
<1>3. QED BY <1>1, <1>2

LEMMA EmcSteps == ASSUME EmcInv, Chip!Next \/ UNCHANGED emc PROVE EmcInv'
<1>1. EmcSound(emc) /\ EmcTyped(emc)
  BY DEF EmcInv, EmcSound
<1>2. ASSUME NEW v \in EmcValues, NEW s \in Sizes, NEW w \in BOOLEAN, Chip!NandData(v, s, w)
      PROVE  EmcInv'
  <2> DEFINE room == BlockBytes - emc.count
             n == IF s < room THEN s ELSE room
             new == {EmcByteBits * emc.count + b : b \in {x \in v : x < EmcByteBits * n}}
             d == emc.data \cup new
             e == [emc EXCEPT !.data = d, !.count = emc.count + n]
  <2>1. /\ emc.count \in Nat /\ n \in Nat /\ emc.count + n \in 0 .. BlockBytes
        /\ v \subseteq Nat
    BY <1>1, EmcAssumption DEF EmcTyped
  <2> HIDE DEF n
  <2>2. new \subseteq Nat /\ \A x \in new : x < EmcByteBits * (emc.count + n)
    BY <2>1, ByteBitsBelow
  <2> HIDE DEF new
  <2>3. d \subseteq Nat /\ \A x \in d : x < EmcByteBits * (emc.count + n)
    <3>1. \A x \in emc.data : x \in Nat /\ x < EmcByteBits * emc.count
      BY <1>1 DEF EmcTyped
    <3>2. \A x \in emc.data : x < EmcByteBits * (emc.count + n)
      BY <2>1, <3>1, ByteBitsGrow
    <3>3. QED BY <2>2, <3>1, <3>2
  <2> HIDE DEF d
  <2>4. /\ EmcFields(e) /\ e.control = emc.control /\ e.data = d
        /\ e.count = emc.count + n /\ e.status = emc.status /\ e.enable = emc.enable
        /\ e.irq = emc.irq
    BY <1>1 DEF EmcTyped, EmcFields
  <2>5. \/ UNCHANGED emc
        \/ emc' = e
        \/ emc' = Chip!Complete(e)
    BY <1>2 DEF Chip!NandData, n, d, new
  <2> HIDE DEF e
  <2>6. EmcSound(e)
    BY <1>1, <2>1, <2>3, <2>4 DEF EmcSound, EmcTyped, Chip!Raises
  <2>7. QED BY <1>1, <2>5, <2>6, EmcCompletes, EmcSettles
<1>3. ASSUME NEW v \in EmcControls, Chip!WriteControl(v) PROVE EmcInv'
  <2> DEFINE c == IF "ERST" \in v THEN Chip!Clear(emc) ELSE emc
             k == [c EXCEPT !.control = v \cap {"ECCE", "RSE", "ENCE"}]
             b == IF "ECCE" \in v /\ "ECCE" \notin emc.control /\ "ERST" \notin v
                  THEN Chip!Begin(k) ELSE k
  <2>1. EmcSound(c)
    <3> DEFINE z == [Chip!Begin(emc) EXCEPT !.hamming = {}, !.parity = {}, !.status = {},
                                            !.errors = {}]
    <3>1. Chip!Clear(emc) = Chip!Update(z)
      BY DEF Chip!Clear
    <3>2. EmcTyped(Chip!Begin(emc))
      BY <1>1, EmcBegins DEF EmcSound
    <3> DEFINE g == Chip!Begin(emc)
    <3>3. /\ EmcFields(z) /\ z.control = g.control /\ z.data = g.data
          /\ z.count = g.count /\ z.status = {} /\ z.enable = g.enable
          /\ z.irq = g.irq
      <4> HIDE DEF g
      <4>1. QED BY <3>2 DEF EmcTyped, EmcFields, g
    <3> HIDE DEF g, z
    <3>4. EmcTyped(z)
      BY <3>2, <3>3 DEF EmcTyped, g
    <3>5. QED BY <1>1, <3>1, <3>4, EmcUpdated
  <2> HIDE DEF c
  <2>2. /\ EmcFields(k) /\ k.control = v \cap {"ECCE", "RSE", "ENCE"}
        /\ k.data = c.data /\ k.count = c.count /\ k.status = c.status
        /\ k.enable = c.enable /\ k.irq = c.irq
    BY <2>1 DEF EmcSound, EmcTyped, EmcFields
  <2>3. emc' = b \/ emc' = Chip!Decode(b)
    BY <1>3 DEF Chip!WriteControl, c
  <2> HIDE DEF k
  <2>4. EmcSound(k)
    BY <2>1, <2>2 DEF EmcSound, EmcTyped, Chip!Raises
  <2>5. EmcSound(b)
    BY <2>4, EmcBegins
  <2> HIDE DEF b
  <2>6. QED BY <2>3, <2>5, EmcDecodes, EmcSettles
<1>4. ASSUME NEW part, NEW p, Chip!WriteParity(part, p) PROVE EmcInv'
  <2> DEFINE q == (emc.parity \ part) \cup (p \cap part)
  <2>1. emc' = [emc EXCEPT !.parity = q]
    BY <1>4 DEF Chip!WriteParity
  <2> HIDE DEF q
  <2>2. /\ EmcFields(emc') /\ emc'.control = emc.control /\ emc'.data = emc.data
        /\ emc'.count = emc.count /\ emc'.status = emc.status
        /\ emc'.enable = emc.enable /\ emc'.irq = emc.irq
    BY <1>1, <2>1 DEF EmcTyped, EmcFields
  <2>3. QED BY <1>1, <2>2, EmcSettles DEF EmcSound, EmcTyped, Chip!Raises
<1>5. ASSUME NEW keep, Chip!WriteStatus(keep) PROVE EmcInv'
  <2> DEFINE s == emc.status \cap keep
             u == [emc EXCEPT !.status = s]
  <2>1. emc' = Chip!Update(u)
    BY <1>5 DEF Chip!WriteStatus
  <2>2. s \subseteq Chip!Status
    BY <1>1 DEF EmcTyped
  <2> HIDE DEF s
  <2>3. /\ EmcFields(u) /\ u.control = emc.control /\ u.data = emc.data
        /\ u.count = emc.count /\ u.status = s /\ u.enable = emc.enable
        /\ u.irq = emc.irq
    BY <1>1 DEF EmcTyped, EmcFields
  <2> HIDE DEF u
  <2>4. EmcTyped(u)
    BY <1>1, <2>2, <2>3 DEF EmcTyped
  <2>5. QED BY <2>1, <2>4, EmcUpdated, EmcSettles
<1>6. ASSUME NEW v, Chip!WriteEnable(v) PROVE EmcInv'
  <2> DEFINE u == [emc EXCEPT !.enable = v]
  <2>1. emc' = Chip!Update(u)
    BY <1>6 DEF Chip!WriteEnable
  <2>2. /\ EmcFields(u) /\ u.control = emc.control /\ u.data = emc.data
        /\ u.count = emc.count /\ u.status = emc.status /\ u.enable = v
        /\ u.irq = emc.irq
    BY <1>1 DEF EmcTyped, EmcFields
  <2> HIDE DEF u
  <2>3. EmcTyped(u)
    BY <1>1, <2>2 DEF EmcTyped
  <2>4. QED BY <2>1, <2>3, EmcUpdated, EmcSettles
<1>7. CASE Chip!ReadEcc
  <2> DEFINE h == HammingCode({d \in emc.data : d < EmcByteBits * emc.count})
  <2>1. emc' = [emc EXCEPT !.hamming = h]
    BY <1>7 DEF Chip!ReadEcc
  <2> HIDE DEF h
  <2>2. /\ EmcFields(emc') /\ emc'.control = emc.control /\ emc'.data = emc.data
        /\ emc'.count = emc.count /\ emc'.status = emc.status
        /\ emc'.enable = emc.enable /\ emc'.irq = emc.irq
    BY <1>1, <2>1 DEF EmcTyped, EmcFields
  <2>3. QED BY <1>1, <2>2, EmcSettles DEF EmcSound, EmcTyped, Chip!Raises
<1>8. EmcSound(Chip!ResetEmc)
  BY EmcAssumption DEF EmcSound, EmcTyped, EmcFields, Chip!ResetEmc, Chip!Raises
<1>9. CASE Chip!Reset
  BY <1>8, <1>9, EmcSettles DEF Chip!Reset
<1>10. CASE Chip!Restore
  BY <1>1, <1>10, EmcUpdated, EmcSettles DEF Chip!Restore
<1>11. CASE UNCHANGED emc
  BY <1>1, <1>11, EmcSettles
<1>12. QED
  BY <1>2, <1>3, <1>4, <1>5, <1>6, <1>7, <1>9, <1>10, <1>11 DEF Chip!Next

LEMMA EmcStarts == ASSUME Chip!Init PROVE EmcInv
BY EmcAssumption DEF Chip!Init, EmcInv, EmcSound, EmcTyped, EmcFields, Chip!ResetEmc, Chip!Raises,
   Chip!TypeOK, Chip!LineAgrees

----------------------------------------------------------------------------
RtcRecords ==
  [control : SUBSET Clock!Control, base : Nat, baseTime : 0 .. MaxNow,
   alarm : AlarmValues \cup {Clock!Never}, secondSeen : Nat, alarmSeen : BOOLEAN,
   pd : BOOLEAN, ealm : BOOLEAN, wake : SUBSET Clock!Causes, irq : BOOLEAN]

RtcInv ==
  /\ Clock!TypeOK /\ rtc.baseTime <= now /\ Clock!LineAgrees /\ Clock!DeadlineSet

RtcConstants == MaxNow \in Nat /\ Clock!Never \in Nat /\ Clock!NoTimer \in Nat
                /\ AlarmValues \cup {Clock!Never} \subseteq Nat /\ Clock!Second = 2

LEMMA RtcConstant == RtcConstants
BY RtcAssumption DEF RtcConstants, Clock!Never, Clock!NoTimer, Clock!Second

(* The seconds, and the half second that they leave out.                         *)
LEMMA RtcSeconds ==
  ASSUME NEW r \in RtcRecords, NEW t \in 0 .. MaxNow, r.baseTime <= t
  PROVE  /\ Clock!Seconds(r, t) \in Nat /\ Clock!Seconds(r, t) >= r.base
         /\ "RTCE" \in r.control =>
              /\ Clock!NextSecond(r, t)
                   = r.baseTime + Clock!Second * (Clock!Seconds(r, t) - r.base + 1)
              /\ r.baseTime + 2 * (Clock!Seconds(r, t) - r.base) \in {t - 1, t}
         /\ Clock!NextSecond(r, t) \in Nat
<1> DEFINE q == (t - r.baseTime) \div 2
<1>1. r.base \in Nat /\ r.baseTime \in Nat /\ t \in Nat
  BY RtcConstant DEF RtcRecords, RtcConstants
<1>2. t - r.baseTime \in Nat
  BY <1>1
<1>3. q \in Nat /\ (t - r.baseTime = 2 * q \/ t - r.baseTime = 2 * q + 1)
  BY <1>2
<1>4. Clock!Seconds(r, t) = (IF "RTCE" \in r.control THEN r.base + q ELSE r.base)
      /\ Clock!NextSecond(r, t) = r.baseTime + 2 * (q + 1)
  BY DEF Clock!Seconds, Clock!NextSecond, Clock!Second
<1> HIDE DEF q
<1>5. QED BY <1>1, <1>3, <1>4 DEF Clock!Second

LEMMA RtcLatches ==
  ASSUME NEW r \in RtcRecords, NEW t \in 0 .. MaxNow, r.baseTime <= t
  PROVE  LET l == Clock!Latched(r, t)
         IN  /\ l \in RtcRecords
             /\ l.base = r.base /\ l.baseTime = r.baseTime /\ l.alarm = r.alarm
             /\ "RTCE" \in l.control <=> "RTCE" \in r.control
             /\ Clock!Seconds(l, t) = Clock!Seconds(r, t)
             /\ "RTCE" \in l.control /\ "1HZ" \notin l.control =>
                  Clock!Seconds(l, t) = l.secondSeen
             /\ {"RTCE", "AE"} \subseteq l.control /\ ~l.alarmSeen =>
                  ~(Clock!Seconds(l, t) >= l.alarm)
<1> DEFINE s == Clock!LatchSecond(r, t)
           n == Clock!Seconds(r, t)
           a == [s EXCEPT !.control = @ \cup {"AF"}, !.alarmSeen = TRUE]
           w == [a EXCEPT !.wake = @ \cup {"ALM"}, !.pd = FALSE]
           l == Clock!Latched(r, t)
<1>1. n \in Nat
  BY RtcSeconds
<1>2. /\ s \in RtcRecords /\ s.base = r.base /\ s.baseTime = r.baseTime
      /\ s.alarm = r.alarm /\ s.alarmSeen = r.alarmSeen
      /\ s.control \in {r.control, r.control \cup {"1HZ"}}
      /\ ("RTCE" \in r.control /\ "1HZ" \notin s.control => n = s.secondSeen)
  <2> HIDE DEF n
  <2>1. s = IF "RTCE" \in r.control /\ n # r.secondSeen
            THEN [r EXCEPT !.control = @ \cup {"1HZ"}, !.secondSeen = n] ELSE r
    BY DEF n, Clock!LatchSecond
  <2> HIDE DEF s
  <2>2. QED BY <1>1, <2>1 DEF RtcRecords, Clock!Control
<1> HIDE DEF s
<1>3. Clock!Seconds(s, t) = n
  BY <1>2 DEF Clock!Seconds
<1>4. a \in RtcRecords /\ a.base = r.base /\ a.baseTime = r.baseTime /\ a.alarm = r.alarm
      /\ a.alarmSeen = TRUE /\ a.control = s.control \cup {"AF"} /\ a.secondSeen = s.secondSeen
  BY <1>2 DEF RtcRecords, Clock!Control
<1> HIDE DEF a
<1>5. w \in RtcRecords /\ w.base = r.base /\ w.baseTime = r.baseTime /\ w.alarm = r.alarm
      /\ w.alarmSeen = TRUE /\ w.control = s.control \cup {"AF"} /\ w.secondSeen = s.secondSeen
  BY <1>4 DEF RtcRecords, Clock!Causes
<1> HIDE DEF w, n
<1>6. (l = s /\ ~Clock!AlarmDue(s, t)) \/ l \in {a, w}
  BY DEF Clock!Latched, Clock!LatchAlarm, s, a, w
<1> HIDE DEF l
<1>7. /\ l \in RtcRecords /\ l.base = r.base /\ l.baseTime = r.baseTime
      /\ l.alarm = r.alarm /\ l.secondSeen = s.secondSeen
      /\ l.control \in {s.control, s.control \cup {"AF"}}
  BY <1>2, <1>4, <1>5, <1>6
<1>8. "RTCE" \in l.control <=> "RTCE" \in r.control
  BY <1>2, <1>7
<1>9. Clock!Seconds(l, t) = n
  BY <1>7, <1>8 DEF Clock!Seconds, n
<1>10. "1HZ" \in l.control <=> "1HZ" \in s.control
  BY <1>7
<1>11. ASSUME {"RTCE", "AE"} \subseteq l.control, ~l.alarmSeen
       PROVE  ~(Clock!Seconds(l, t) >= l.alarm)
  <2>1. l = s /\ ~Clock!AlarmDue(s, t)
    BY <1>4, <1>5, <1>6, <1>11
  <2>2. QED BY <1>11, <2>1 DEF Clock!AlarmDue
<1>12. QED
  BY <1>2, <1>7, <1>8, <1>9, <1>10, <1>11 DEF l, n

LEMMA RtcUpdates ==
  ASSUME NEW r \in RtcRecords, NEW t \in 0 .. MaxNow, r.baseTime <= t
  PROVE  LET l == Clock!UpdateIrq(r, t)
         IN  /\ l \in RtcRecords
             /\ l.base = r.base /\ l.baseTime = r.baseTime /\ l.alarm = r.alarm
             /\ l.irq = Clock!Raises(l)
             /\ "RTCE" \in l.control /\ "1HZ" \notin l.control =>
                  Clock!Seconds(l, t) = l.secondSeen
             /\ {"RTCE", "AE"} \subseteq l.control /\ ~l.alarmSeen =>
                  ~(Clock!Seconds(l, t) >= l.alarm)
<1> DEFINE k == Clock!Latched(r, t)
           b == Clock!Raises(k)
           l == Clock!UpdateIrq(r, t)
<1>1. l = [k EXCEPT !.irq = b] /\ b \in BOOLEAN
  BY DEF Clock!UpdateIrq, Clock!Raises
<1>2. /\ k \in RtcRecords
      /\ k.base = r.base /\ k.baseTime = r.baseTime /\ k.alarm = r.alarm
      /\ ("RTCE" \in k.control /\ "1HZ" \notin k.control =>
            Clock!Seconds(k, t) = k.secondSeen)
      /\ ({"RTCE", "AE"} \subseteq k.control /\ ~k.alarmSeen =>
            ~(Clock!Seconds(k, t) >= k.alarm))
  BY RtcLatches
<1> HIDE DEF k, b, l
<1>3. /\ l \in RtcRecords /\ l.irq = b /\ l.control = k.control /\ l.base = k.base
      /\ l.baseTime = k.baseTime /\ l.alarm = k.alarm /\ l.secondSeen = k.secondSeen
      /\ l.alarmSeen = k.alarmSeen
  BY <1>1, <1>2 DEF RtcRecords
<1>4. Clock!Seconds(l, t) = Clock!Seconds(k, t)
  BY <1>3 DEF Clock!Seconds
<1>5. Clock!Raises(l) = b
  BY <1>3 DEF Clock!Raises, b
<1>6. QED BY <1>2, <1>3, <1>4, <1>5 DEF l

(* The timer is set to the nearest of what is wanted.                            *)
LEMMA RtcSchedules ==
  ASSUME NEW r \in RtcRecords, NEW t \in 0 .. MaxNow, r.baseTime <= t
  PROVE  /\ Clock!Schedule(r, t) \in Nat
         /\ "RTCE" \in r.control =>
              \A d \in Clock!Wanted(r, t) : Clock!Schedule(r, t) <= d
<1> DEFINE W == Clock!Wanted(r, t)
           s == Clock!NextSecond(r, t)
           a == Clock!NextAlarm(r, t)
           n == Clock!Seconds(r, t)
<1>1. s \in Nat /\ n \in Nat
  BY RtcSeconds
<1>2. a \in Nat
  <2>1. r.alarm \in Nat /\ t \in Nat
    BY RtcConstant DEF RtcRecords, RtcConstants
  <2>2. a = IF n < r.alarm THEN t + 2 * (r.alarm - n) ELSE t
    BY DEF Clock!NextAlarm, Clock!Second
  <2> HIDE DEF a, n
  <2>3. QED BY <1>1, <2>1, <2>2
<1>3. W \subseteq {s, a}
  BY DEF Clock!Wanted
<1>4. CASE "RTCE" \notin r.control \/ W = {}
  BY <1>4, RtcConstant DEF Clock!Schedule, RtcConstants
<1>5. CASE "RTCE" \in r.control /\ W # {}
  <2>1. Clock!Schedule(r, t) = CHOOSE d \in W : \A e \in W : d <= e
    BY <1>5 DEF Clock!Schedule
  <2> HIDE DEF W, s, a
  <2>2. \E d \in W : \A e \in W : d <= e
    <3>1. s <= a \/ a <= s
      BY <1>1, <1>2
    <3>2. s <= s /\ a <= a
      BY <1>1, <1>2
    <3>3. CASE s \in W /\ (s <= a \/ a \notin W)
      BY <1>3, <3>2, <3>3, Zenon
    <3>4. CASE a \in W /\ (a <= s \/ s \notin W)
      BY <1>3, <3>2, <3>4, Zenon
    <3>5. QED BY <1>3, <1>5, <3>1, <3>3, <3>4
  <2>3. Clock!Schedule(r, t) \in W /\ \A e \in W : Clock!Schedule(r, t) <= e
    BY <2>1, <2>2
  <2>4. QED BY <1>1, <1>2, <1>3, <2>3 DEF W
<1>6. QED BY <1>4, <1>5

LEMMA RtcSettles ==
  ASSUME NEW r \in RtcRecords, now \in 0 .. MaxNow, r.baseTime <= now,
         machine' \in Clock!Machine, Clock!Settle(r)
  PROVE  RtcInv'
<1> DEFINE n == Clock!Seconds(rtc', now)
<1>1. rtc' = Clock!UpdateIrq(r, now) /\ timer' = Clock!Schedule(rtc', now) /\ now' = now
  BY DEF Clock!Settle
<1>2. /\ rtc' \in RtcRecords /\ rtc'.baseTime <= now /\ rtc'.irq = Clock!Raises(rtc')
      /\ ("RTCE" \in rtc'.control /\ "1HZ" \notin rtc'.control => n = rtc'.secondSeen)
      /\ ({"RTCE", "AE"} \subseteq rtc'.control /\ ~rtc'.alarmSeen => ~(n >= rtc'.alarm))
  BY <1>1, RtcUpdates
<1>3. /\ timer' \in Nat
      /\ ("RTCE" \in rtc'.control => \A d \in Clock!Wanted(rtc', now) : timer' <= d)
  BY <1>1, <1>2, RtcSchedules
<1>4. /\ n \in Nat /\ n >= rtc'.base
      /\ ("RTCE" \in rtc'.control =>
           /\ Clock!NextSecond(rtc', now) = rtc'.baseTime + 2 * (n - rtc'.base + 1)
           /\ rtc'.baseTime + 2 * (n - rtc'.base) \in {now - 1, now})
  BY <1>2, RtcSeconds, RtcConstant DEF RtcConstants
<1>5. /\ rtc'.base \in Nat /\ rtc'.baseTime \in Nat /\ rtc'.alarm \in Nat /\ now \in Nat
      /\ rtc'.alarmSeen \in BOOLEAN
  BY <1>2, RtcConstant DEF RtcRecords, RtcConstants
<1>6. ASSUME {"RTCE", "1HZIE"} \subseteq rtc'.control, "1HZ" \notin rtc'.control
      PROVE  timer' <= rtc'.baseTime + Clock!Second * (rtc'.secondSeen - rtc'.base + 1)
  <2>1. Clock!NextSecond(rtc', now) \in Clock!Wanted(rtc', now)
    BY <1>6 DEF Clock!Wanted
  <2>2. timer' <= rtc'.baseTime + 2 * (n - rtc'.base + 1) /\ n = rtc'.secondSeen
    BY <1>2, <1>3, <1>4, <1>6, <2>1
  <2> HIDE DEF n
  <2>3. QED BY <2>2 DEF Clock!Second
<1>7. ASSUME Clock!AlarmArmed'
      PROVE  Clock!AlarmTime' >= now /\ timer' < Clock!AlarmTime' + 2
  <2>1. {"RTCE", "AE"} \subseteq rtc'.control /\ ~rtc'.alarmSeen
    BY <1>7 DEF Clock!AlarmArmed
  <2>2. n < rtc'.alarm
    <3>1. ~(n >= rtc'.alarm)
      BY <1>2, <2>1
    <3> HIDE DEF n
    <3>2. QED BY <1>4, <1>5, <3>1
  <2>3. Clock!NextAlarm(rtc', now) \in Clock!Wanted(rtc', now)
    BY <2>1 DEF Clock!Wanted
  <2>4. timer' <= now + 2 * (rtc'.alarm - n)
    BY <1>3, <2>1, <2>2, <2>3 DEF Clock!NextAlarm, Clock!Second
  <2>5. Clock!AlarmTime' = rtc'.baseTime + 2 * (rtc'.alarm - rtc'.base)
    <3>1. ~(rtc'.alarm <= rtc'.base)
      <4> HIDE DEF n
      <4>1. QED BY <1>4, <1>5, <2>2
    <3>2. QED BY <3>1 DEF Clock!AlarmTime, Clock!Second
  <2> HIDE DEF n
  <2>6. rtc'.baseTime + 2 * (n - rtc'.base) \in {now - 1, now}
    BY <1>4, <2>1
  <2>7. QED BY <1>3, <1>4, <1>5, <2>2, <2>4, <2>5, <2>6
<1>8. Clock!DeadlineSet'
  <2>1. Clock!AlarmArmed' => Clock!AlarmTime' \in Int
    BY <1>5 DEF Clock!AlarmTime, Clock!Second
  <2>2. Clock!Second = 2
    BY DEF Clock!Second
  <2>3. QED BY <1>1, <1>5, <1>6, <1>7, <2>1, <2>2 DEF Clock!DeadlineSet
<1>9. QED BY <1>1, <1>2, <1>3, <1>8 DEF RtcInv, Clock!TypeOK, Clock!LineAgrees, RtcRecords

LEMMA RtcResets ==
  ASSUME NEW wakeup \in BOOLEAN, NEW t \in 0 .. MaxNow
  PROVE  LET r == Clock!ResetRegisters(wakeup, t)
         IN  r \in RtcRecords /\ r.baseTime = t /\ r.control = {"RTCE"}
             /\ r.irq = Clock!Raises(r)
<1>1. t \div 2 \in Nat
  BY RtcConstant DEF RtcConstants
<1>2. QED
  BY <1>1 DEF Clock!ResetRegisters, RtcRecords, Clock!HostSeconds, Clock!Second,
     Clock!Control, Clock!Causes, Clock!Raises

LEMMA RtcStarts == ASSUME Clock!Init PROVE RtcInv
<1>1. PICK wakeup \in BOOLEAN : rtc = Clock!ResetRegisters(wakeup, 0)
  BY DEF Clock!Init
<1>2. rtc \in RtcRecords /\ rtc.baseTime = 0 /\ rtc.control = {"RTCE"}
      /\ rtc.irq = Clock!Raises(rtc)
  BY <1>1, RtcResets, RtcConstant DEF RtcConstants
<1>3. QED BY <1>2, RtcConstant DEF Clock!Init, RtcInv, Clock!TypeOK, Clock!Machine,
     Clock!LineAgrees, Clock!DeadlineSet, Clock!AlarmArmed, RtcRecords, RtcConstants

LEMMA RtcSteps == ASSUME RtcInv, Clock!Next \/ UNCHANGED rtcVars PROVE RtcInv'
<1>1. /\ rtc \in RtcRecords /\ rtc.baseTime <= now /\ now \in 0 .. MaxNow
      /\ machine \in Clock!Machine /\ timer \in Nat
  BY DEF RtcInv, Clock!TypeOK, RtcRecords
<1>2. ASSUME NEW r \in RtcRecords, r.baseTime <= now, Clock!Write(r) PROVE RtcInv'
  <2>1. Clock!Settle(rtc) \/ Clock!Settle(r)
    BY <1>2 DEF Clock!Write
  <2>2. machine' = machine
    BY <1>2 DEF Clock!Write
  <2>3. QED BY <1>1, <1>2, <2>1, <2>2, RtcSettles
<1>3. ASSUME NEW v \in ControlValues, Clock!WriteControl(v) PROVE RtcInv'
  <2> DEFINE r == Clock!Latched(rtc, now)
             asleep == Clock!ControlledAsleep(r, v)
             awake == Clock!Controlled(r, v, now)
  <2>1. r \in RtcRecords /\ r.baseTime <= now
    BY <1>1, RtcLatches
  <2>2. Clock!Settle(asleep) \/ Clock!Settle(awake)
    BY <1>3 DEF Clock!WriteControl
  <2> HIDE DEF r
  <2>3. asleep \in RtcRecords /\ asleep.baseTime <= now
    BY <2>1 DEF Clock!ControlledAsleep, RtcRecords, Clock!Control
  <2>4. awake \in RtcRecords /\ awake.baseTime <= now
    <3> DEFINE c == (r.control \cap {"1HZ", "AF"} \cap v) \cup (v \cap Clock!Enables)
    <3>1. c \subseteq Clock!Control
      BY DEF Clock!Enables, Clock!Control
    <3>2. awake = IF "RTCE" \notin r.control /\ "RTCE" \in c
                  THEN [r EXCEPT !.control = c, !.baseTime = now, !.secondSeen = r.base]
                  ELSE [r EXCEPT !.control = c]
      BY DEF Clock!Controlled
    <3> HIDE DEF c, awake
    <3>3. now <= now
      BY <1>1, RtcConstant DEF RtcConstants
    <3>4. QED BY <1>1, <2>1, <3>1, <3>2, <3>3 DEF RtcRecords
  <2> HIDE DEF asleep, awake
  <2>5. machine' = machine
    BY <1>3 DEF Clock!WriteControl
  <2>6. QED BY <1>1, <2>2, <2>3, <2>4, <2>5, RtcSettles
<1>4. ASSUME NEW v \in SecondValues, Clock!WriteSeconds(v) PROVE RtcInv'
  <2> DEFINE r == [rtc EXCEPT !.base = v, !.baseTime = now, !.secondSeen = v,
                              !.alarmSeen = rtc.alarmSeen /\ v >= rtc.alarm,
                              !.control = rtc.control \ {"1HZ"}]
  <2>1. v \in Nat /\ now <= now
    BY <1>1, RtcAssumption
  <2>2. r \in RtcRecords /\ r.baseTime <= now
    <3> DEFINE b == rtc.alarmSeen /\ v >= rtc.alarm
    <3>1. b \in BOOLEAN
      OBVIOUS
    <3> HIDE DEF b
    <3>2. QED BY <1>1, <2>1, <3>1 DEF RtcRecords, b
  <2>3. Clock!Write(r)
    BY <1>4 DEF Clock!WriteSeconds
  <2> HIDE DEF r
  <2>4. QED BY <1>2, <2>2, <2>3
<1>5. ASSUME NEW v \in AlarmValues, Clock!WriteAlarm(v) PROVE RtcInv'
  <2> DEFINE r == [rtc EXCEPT !.alarm = v, !.alarmSeen = FALSE, !.control = rtc.control \ {"AF"}]
  <2>1. r \in RtcRecords /\ r.baseTime <= now
    BY <1>1 DEF RtcRecords
  <2>2. Clock!Write(r)
    BY <1>5 DEF Clock!WriteAlarm
  <2> HIDE DEF r
  <2>3. QED BY <1>2, <2>1, <2>2
<1>6. ASSUME NEW b \in BOOLEAN, Clock!WriteWakeEnable(b) PROVE RtcInv'
  <2>1. [rtc EXCEPT !.ealm = b] \in RtcRecords /\ [rtc EXCEPT !.ealm = b].baseTime <= now
    BY <1>1 DEF RtcRecords
  <2>2. QED BY <1>2, <1>6, <2>1 DEF Clock!WriteWakeEnable
<1>7. ASSUME NEW b \in BOOLEAN, NEW poweroff \in BOOLEAN, Clock!WriteHibernate(b, poweroff)
      PROVE  RtcInv'
  <2> DEFINE r == [rtc EXCEPT !.pd = TRUE, !.wake = rtc.wake \ {"ALM", "PIN"}]
  <2>1. r \in RtcRecords /\ r.baseTime <= now
    BY <1>1 DEF RtcRecords
  <2>2. \/ Clock!Settle(r) /\ machine' \in {"ending", machine}
        \/ Clock!Write(rtc)
    BY <1>7 DEF Clock!WriteHibernate
  <2> HIDE DEF r
  <2>3. QED BY <1>1, <1>2, <2>1, <2>2, RtcSettles DEF Clock!Machine
<1>8. CASE Clock!WriteWakeStatus({})
  <2>1. [rtc EXCEPT !.wake = rtc.wake \cap {}] \in RtcRecords
        /\ [rtc EXCEPT !.wake = rtc.wake \cap {}].baseTime <= now
    BY <1>1 DEF RtcRecords
  <2>2. QED BY <1>2, <1>8, <2>1 DEF Clock!WriteWakeStatus
<1>9. CASE Clock!Read \/ Clock!Timer
  BY <1>1, <1>9, RtcSettles DEF Clock!Read, Clock!Timer
<1>10. CASE Clock!Tick
  <2>1. now' = now + 1 /\ rtc' = rtc /\ timer' = timer /\ machine' = machine
        /\ now' \in 0 .. MaxNow /\ now \in Nat /\ rtc.baseTime \in Nat
    BY <1>1, <1>10, RtcConstant DEF Clock!Tick, RtcConstants, RtcRecords
  <2>2. rtc.alarm \in Nat /\ rtc.base \in Nat /\ timer \in Nat
    BY <1>1, RtcConstant DEF RtcConstants, RtcRecords
  <2>3. Clock!AlarmTime \in Int
    BY <2>1, <2>2 DEF Clock!AlarmTime, Clock!Second
  <2>4. Clock!AlarmTime' = Clock!AlarmTime /\ Clock!AlarmArmed' = Clock!AlarmArmed
    BY <2>1 DEF Clock!AlarmTime, Clock!AlarmArmed
  <2>5. Clock!AlarmArmed /\ Clock!AlarmTime >= now => timer < Clock!AlarmTime + 2
    BY DEF RtcInv, Clock!DeadlineSet, Clock!Second
  <2>6. Clock!AlarmArmed /\ Clock!AlarmTime < now => timer < now + 2
    BY DEF RtcInv, Clock!DeadlineSet, Clock!Second
  <2>7. Clock!AlarmArmed /\ Clock!AlarmTime >= now' => timer < Clock!AlarmTime + 2
    BY <2>1, <2>2, <2>3, <2>5
  <2>8. Clock!AlarmArmed /\ Clock!AlarmTime < now' => timer < now' + 2
    BY <2>1, <2>2, <2>3, <2>5, <2>6
  <2>9. Clock!DeadlineSet'
    BY <2>1, <2>4, <2>7, <2>8 DEF RtcInv, Clock!DeadlineSet, Clock!Second
  <2>10. rtc.baseTime <= now'
    BY <1>1, <2>1
  <2>11. QED BY <2>1, <2>9, <2>10 DEF RtcInv, Clock!TypeOK, Clock!LineAgrees
<1>11. ASSUME NEW wakeup \in BOOLEAN, Clock!Reset(wakeup) PROVE RtcInv'
  <2>1. rtc' = Clock!ResetRegisters(wakeup, now) /\ timer' = Clock!Schedule(rtc', now)
        /\ machine' \in Clock!Machine /\ now' = now
    BY <1>11 DEF Clock!Reset, Clock!Machine
  <2>2. rtc' \in RtcRecords /\ rtc'.baseTime = now /\ rtc'.control = {"RTCE"}
        /\ rtc'.irq = Clock!Raises(rtc')
    BY <1>1, <2>1, RtcResets
  <2>3. rtc'.baseTime <= now' /\ now \in Nat
    BY <1>1, <2>1, <2>2, RtcConstant DEF RtcConstants
  <2>4. timer' \in Nat
    BY <1>1, <2>1, <2>2, <2>3, RtcSchedules
  <2>5. QED BY <1>1, <2>1, <2>2, <2>3, <2>4 DEF RtcInv, Clock!TypeOK, Clock!LineAgrees,
     Clock!DeadlineSet, Clock!AlarmArmed, RtcRecords
<1>12. CASE UNCHANGED rtcVars
  BY <1>12 DEF rtcVars, RtcInv, Clock!TypeOK, Clock!LineAgrees, Clock!DeadlineSet,
     Clock!AlarmArmed, Clock!AlarmTime
<1>13. CASE Clock!Exit
  BY <1>1, <1>13 DEF Clock!Exit, Clock!Machine, RtcInv, Clock!TypeOK, Clock!LineAgrees,
     Clock!DeadlineSet, Clock!AlarmArmed, Clock!AlarmTime
<1>14. QED
  BY <1>3, <1>4, <1>5, <1>6, <1>7, <1>8, <1>9, <1>10, <1>11, <1>12, <1>13
  DEF Clock!Next, Clock!Guest

----------------------------------------------------------------------------
Gpios ==
  [high : SUBSET Pins!InputPins, flag : SUBSET Pins!Pins, irq : [Pins!Ports -> BOOLEAN],
   out : SUBSET Pins!Pins, masked : SUBSET Pins!Pins, resetHigh : SUBSET Pins!InputPins]

Flagged(g, port) == \E p \in g.flag : PortOf[p] = port

GpioSound(g) == g \in Gpios /\ \A port \in Pins!Ports : g.irq[port] = Flagged(g, port)

(* A line comes in two pieces, and the second one empties the buffer.            *)
Piece(i) == IF (i + Len(line)) % 2 = 1 THEN "head" ELSE "end"

WireInv ==
  /\ wire \in Seq({"head", "end"} \X Pins!Messages) /\ line \in Seq({"head"} \X Pins!Messages)
  /\ Len(line) <= 1 /\ (Len(wire) + Len(line)) % 2 = 0
  /\ \A i \in 1 .. Len(wire) : wire[i][1] = Piece(i)

InputInv ==
  /\ Pins!TypeOK /\ Pins!LineAgrees /\ Pins!LineFlows
  /\ WireInv /\ GpioSound(gpio)

LEMMA InputPinTypes ==
  /\ \A s \in Pins!Sources : PinOf[s] \in Pins!Pins /\ PinOf[s] \in Pins!InputPins
  /\ \A p \in Pins!Pins : PortOf[p] \in Pins!Ports
  /\ Pins!InputPins \subseteq Pins!Pins
BY InputAssumption DEF Pins!Sources, Pins!Pins, Pins!InputPins, Pins!Ports

LEMMA GpioUpdates ==
  ASSUME NEW g \in Gpios, NEW p \in Pins!Pins,
         \A port \in Pins!Ports \ {PortOf[p]} : g.irq[port] = Flagged(g, port)
  PROVE  GpioSound(Pins!UpdateIrq(g, PortOf[p]))
<1> DEFINE b == Flagged(g, PortOf[p])
           u == [g EXCEPT !.irq[PortOf[p]] = b]
<1>1. b \in BOOLEAN /\ PortOf[p] \in Pins!Ports
  BY InputPinTypes DEF Flagged
<1>2. Pins!UpdateIrq(g, PortOf[p]) = u
  BY DEF Pins!UpdateIrq, Flagged
<1> HIDE DEF b
<1>3. u \in Gpios /\ u.flag = g.flag /\ u.irq = [g.irq EXCEPT ![PortOf[p]] = b]
      /\ g.irq \in [Pins!Ports -> BOOLEAN]
  BY <1>1 DEF Gpios
<1> HIDE DEF u
<1>4. ASSUME NEW port \in Pins!Ports PROVE u.irq[port] = Flagged(g, port)
  <2>1. CASE port = PortOf[p]
    BY <1>1, <1>3, <2>1 DEF b
  <2>2. CASE port # PortOf[p]
    BY <1>1, <1>3, <2>2
  <2>3. QED BY <2>1, <2>2
<1>5. QED BY <1>2, <1>3, <1>4 DEF GpioSound, Flagged

LEMMA GpioLevels ==
  ASSUME NEW g, GpioSound(g), NEW s \in Pins!Sources, NEW high \in BOOLEAN, NEW latch
  PROVE  GpioSound(Pins!SetLevel(g, PinOf[s], high, latch))
<1> DEFINE pin == PinOf[s]
           h == IF high THEN g.high \cup {pin} ELSE g.high \ {pin}
           r == [g EXCEPT !.high = h]
           f == [r EXCEPT !.flag = r.flag \cup {pin}]
<1>1. pin \in Pins!Pins /\ h \subseteq Pins!InputPins
  BY InputPinTypes DEF GpioSound, Gpios
<1>2. \/ Pins!SetLevel(g, pin, high, latch) = r
      \/ Pins!SetLevel(g, pin, high, latch) = Pins!UpdateIrq(f, PortOf[pin])
  BY DEF Pins!SetLevel
<1> HIDE DEF h, pin
<1>3. r \in Gpios /\ r.flag = g.flag /\ r.irq = g.irq
  BY <1>1 DEF GpioSound, Gpios
<1> HIDE DEF r
<1>4. f \in Gpios /\ f.flag = g.flag \cup {pin} /\ f.irq = g.irq
  BY <1>1, <1>3 DEF Gpios
<1> HIDE DEF f
<1>5. \A port \in Pins!Ports \ {PortOf[pin]} : f.irq[port] = Flagged(f, port)
  BY <1>4 DEF GpioSound, Flagged
<1>6. GpioSound(r)
  BY <1>3 DEF GpioSound, Flagged
<1>7. QED BY <1>1, <1>2, <1>4, <1>5, <1>6, GpioUpdates DEF pin

LEMMA GpioResets ==
  ASSUME NEW high \in SUBSET Pins!InputPins PROVE GpioSound(Pins!ResetGpio(high))
BY DEF GpioSound, Gpios, Pins!ResetGpio, Flagged

(* What a handler leaves behind that changes neither the wire nor the buffer.    *)
LEMMA InputSettles ==
  ASSUME InputInv, GpioSound(gpio)', UNCHANGED <<wire, line>>,
         held' \subseteq Pins!Sources, recorded' \in Pins!Messages \cup {Pins!NoEvent}
  PROVE  InputInv'
BY DEF InputInv, WireInv, Piece, Pins!TypeOK, Pins!LineAgrees, Pins!LineFlows, Pins!CanRead,
   GpioSound, Gpios, Flagged

LEMMA InputStarts == ASSUME Pins!Init PROVE InputInv
<1>1. PICK cable \in BOOLEAN :
        /\ gpio = Pins!ResetGpio(Pins!InputPins \ {p \in {PinOf[Cable]} : cable})
        /\ held = {s \in {Cable} : cable}
        /\ wire = <<>> /\ line = <<>> /\ recorded = Pins!NoEvent
  BY DEF Pins!Init
<1>2. GpioSound(gpio)
  BY <1>1, GpioResets
<1>3. WireInv /\ Pins!LineFlows
  BY <1>1, InputAssumption DEF WireInv, Pins!LineFlows, Pins!CanRead
<1>4. held \subseteq Pins!Sources
  BY <1>1 DEF Pins!Sources
<1>5. QED BY <1>1, <1>2, <1>3, <1>4
  DEF InputInv, WireInv, Pins!TypeOK, Pins!LineAgrees, GpioSound, Gpios, Flagged

LEMMA InputDelivers ==
  ASSUME InputInv, Pins!Deliver
  PROVE  WireInv' /\ GpioSound(gpio)' /\ held' \subseteq Pins!Sources
         /\ recorded' \in Pins!Messages \cup {Pins!NoEvent}
<1>1. /\ wire \in Seq({"head", "end"} \X Pins!Messages)
      /\ line \in Seq({"head"} \X Pins!Messages)
      /\ wire # <<>> /\ wire' = Tail(wire) /\ Len(line) <= 1
      /\ (Len(wire) + Len(line)) % 2 = 0
      /\ \A i \in 1 .. Len(wire) : wire[i][1] = Piece(i)
  BY DEF InputInv, WireInv, Pins!Deliver
<1>2. /\ Head(wire) = wire[1] /\ Head(wire) \in {"head", "end"} \X Pins!Messages
      /\ Tail(wire) \in Seq({"head", "end"} \X Pins!Messages)
      /\ Len(Tail(wire)) = Len(wire) - 1 /\ Len(wire) \in Nat \ {0}
      /\ \A i \in 1 .. Len(Tail(wire)) : Tail(wire)[i] = wire[i + 1]
  BY <1>1, HeadTailProperties, LenProperties
<1>3. Len(line) \in {0, 1}
  <2>1. Len(line) \in Nat
    BY <1>1, LenProperties
  <2>2. Len(line) <= 1
    BY DEF InputInv, WireInv
  <2>3. QED BY <2>1, <2>2
<1>4. Head(wire)[1] = Piece(1) /\ Head(wire)[2] \in Pins!Messages
      /\ Head(wire)[1] \in {"head", "end"}
  BY <1>1, <1>2
<1>5. \A i \in 1 .. Len(wire') : wire'[i][1] = Piece(i + 1)
  BY <1>1, <1>2
<1>6. CASE Head(wire)[1] = "end"
  <2>1. Len(line) = 1
    BY <1>3, <1>4, <1>6 DEF Piece
  <2>2. line' = <<>> /\ Pins!Handle(line, Head(wire)[2])
    BY <1>6 DEF Pins!Deliver
  <2>3. WireInv'
    <3>1. Len(line') = 0 /\ line' \in Seq({"head"} \X Pins!Messages)
      BY <2>2
    <3>2. (Len(wire') + Len(line')) % 2 = 0
      BY <1>1, <1>2, <2>1, <3>1
    <3>3. ASSUME NEW i \in 1 .. Len(wire') PROVE Piece(i + 1) = Piece(i)'
      BY <1>1, <1>2, <2>1, <3>1 DEF Piece
    <3>4. QED BY <1>1, <1>2, <1>5, <3>1, <3>2, <3>3 DEF WireInv
  <2> DEFINE m == Head(wire)[2]
  <2>4. m \in Pins!Messages /\ m.source \in Pins!Sources /\ m.down \in BOOLEAN
    BY <1>4 DEF Pins!Messages, Pins!Sources
  <2>5. Pen \in Pins!Sources
    BY DEF Pins!Sources
  <2>6. GpioSound(gpio) /\ held \subseteq Pins!Sources
        /\ recorded \in Pins!Messages \cup {Pins!NoEvent}
    BY DEF InputInv, Pins!TypeOK
  <2> HIDE DEF m
  <2>7. \/ UNCHANGED <<gpio, recorded, held>>
        \/ Pins!Touch(m.down) /\ held' \in {held \cup {m.source}, held \ {m.source}}
        \/ Pins!Key(m) /\ held' \in {held \cup {m.source}, held \ {m.source}}
    BY <2>2 DEF Pins!Handle, m
  <2>8. GpioSound(gpio')
    <3>1. \/ gpio' = gpio
          \/ gpio' = Pins!SetLevel(gpio, PinOf[Pen], ~m.down, FALSE)
          \/ gpio' = Pins!SetLevel(gpio, PinOf[m.source], ~m.down, TRUE)
      BY <2>7 DEF Pins!Touch, Pins!Key
    <3>2. (~m.down) \in BOOLEAN
      OBVIOUS
    <3>3. QED BY <2>4, <2>5, <2>6, <3>1, <3>2, GpioLevels
  <2>9. recorded' \in {recorded, m}
    BY <2>7 DEF Pins!Touch, Pins!Key
  <2>10. held' \subseteq Pins!Sources
    BY <2>4, <2>6, <2>7
  <2>11. QED BY <2>3, <2>4, <2>6, <2>8, <2>9, <2>10
<1>7. CASE Head(wire)[1] = "head"
  <2>1. Len(line) = 0
    <3>1. Len(line) = 1 => Piece(1) = "end"
      BY DEF Piece
    <3>2. QED BY <1>3, <1>4, <1>7, <3>1
  <2>2. line' = Append(line, Head(wire)) /\ UNCHANGED <<gpio, recorded, held>>
    BY <1>7 DEF Pins!Deliver
  <2>3. Len(line') = 1 /\ line' \in Seq({"head"} \X Pins!Messages)
    <3>1. Head(wire) \in {"head"} \X Pins!Messages
      BY <1>2, <1>7
    <3>2. QED BY <1>1, <2>1, <2>2, <3>1, AppendProperties
  <2>4. (Len(wire') + Len(line')) % 2 = 0
    BY <1>1, <1>2, <2>1, <2>3
  <2>5. ASSUME NEW i \in 1 .. Len(wire') PROVE Piece(i + 1) = Piece(i)'
    BY <1>1, <1>2, <2>1, <2>3 DEF Piece
  <2>6. WireInv'
    BY <1>1, <1>2, <1>5, <2>3, <2>4, <2>5 DEF WireInv
  <2>7. QED BY <2>2, <2>6 DEF InputInv, Pins!TypeOK
<1>8. QED BY <1>4, <1>6, <1>7

LEMMA InputSteps == ASSUME InputInv, Pins!Next \/ UNCHANGED inputVars PROVE InputInv'
<1>1. /\ GpioSound(gpio) /\ held \subseteq Pins!Sources /\ gpio \in Gpios
      /\ recorded \in Pins!Messages \cup {Pins!NoEvent}
  BY DEF InputInv, Pins!TypeOK, GpioSound
<1>2. ASSUME NEW m \in Pins!Messages, Pins!Send(m) PROVE InputInv'
  <2> DEFINE s == << <<"head", m>>, <<"end", m>> >>
  <2>1. wire' = wire \o s /\ UNCHANGED <<line, gpio, held, recorded>>
    BY <1>2 DEF Pins!Send
  <2>2. wire \in Seq({"head", "end"} \X Pins!Messages) /\ Len(wire) \in Nat /\ Len(line) \in Nat
    BY LenProperties DEF InputInv, WireInv
  <2>3. /\ s \in Seq({"head", "end"} \X Pins!Messages) /\ Len(s) = 2
        /\ s[1][1] = "head" /\ s[2][1] = "end"
    OBVIOUS
  <2> HIDE DEF s
  <2>4. /\ wire' \in Seq({"head", "end"} \X Pins!Messages) /\ Len(wire') = Len(wire) + 2
        /\ \A i \in 1 .. Len(wire') :
             wire'[i] = IF i <= Len(wire) THEN wire[i] ELSE s[i - Len(wire)]
    <3> DEFINE S == {"head", "end"} \X Pins!Messages
    <3>1. wire \in Seq(S) /\ s \in Seq(S)
      BY <2>2, <2>3
    <3> HIDE DEF S
    <3>2. /\ wire \o s \in Seq(S) /\ Len(wire \o s) = Len(wire) + Len(s)
          /\ \A i \in 1 .. Len(wire) + Len(s) :
               (wire \o s)[i] = IF i <= Len(wire) THEN wire[i] ELSE s[i - Len(wire)]
      BY <3>1, ConcatProperties
    <3>3. QED BY <2>1, <2>2, <2>3, <3>2 DEF S
  <2>5. (Len(wire) + Len(line)) % 2 = 0 /\ \A i \in 1 .. Len(wire) : wire[i][1] = Piece(i)
    BY DEF InputInv, WireInv
  <2>6. ASSUME NEW i \in 1 .. Len(wire') PROVE wire'[i][1] = Piece(i)
    <3>1. CASE i <= Len(wire)
      BY <2>2, <2>4, <2>5, <3>1
    <3>2. CASE i = Len(wire) + 1
      <4>1. i - Len(wire) = 1 /\ ~(i <= Len(wire)) /\ (i + Len(line)) % 2 = 1
        BY <2>2, <2>5, <3>2
      <4>2. QED BY <2>3, <2>4, <4>1 DEF Piece
    <3>3. CASE i = Len(wire) + 2
      <4>1. i - Len(wire) = 2 /\ ~(i <= Len(wire)) /\ (i + Len(line)) % 2 = 0
        BY <2>2, <2>5, <3>3
      <4>2. QED BY <2>3, <2>4, <4>1 DEF Piece
    <3>4. QED BY <2>2, <2>4, <3>1, <3>2, <3>3
  <2>7. (Len(wire') + Len(line)) % 2 = 0
    BY <2>2, <2>4, <2>5
  <2>8. WireInv'
    BY <2>1, <2>4, <2>6, <2>7 DEF InputInv, WireInv, Piece
  <2>9. QED BY <2>1, <2>8 DEF InputInv, WireInv, Pins!TypeOK, Pins!LineAgrees,
     Pins!LineFlows, Pins!CanRead, GpioSound, Flagged
<1>3. ASSUME NEW b \in BOOLEAN, Pins!SetCable(b) PROVE InputInv'
  <2>1. Cable \in Pins!Sources /\ (~b) \in BOOLEAN
    BY DEF Pins!Sources
  <2>2. gpio' = Pins!SetLevel(gpio, PinOf[Cable], ~b, TRUE)
        /\ held' \in {held \cup {Cable}, held \ {Cable}} /\ UNCHANGED <<wire, line, recorded>>
    BY <1>3 DEF Pins!SetCable
  <2>3. GpioSound(gpio')
    BY <1>1, <2>1, <2>2, GpioLevels
  <2>4. QED BY <1>1, <2>1, <2>2, <2>3, InputSettles
<1>4. ASSUME NEW mask \in PinMasks, Pins!Ack(mask) PROVE InputInv'
  <2> DEFINE f == gpio.flag \ mask
             o == gpio.out \cup mask
             g == [gpio EXCEPT !.out = o, !.flag = f]
             i == [port \in Pins!Ports |->
                    IF \E p \in mask : PortOf[p] = port
                    THEN \E p \in g.flag : PortOf[p] = port ELSE g.irq[port]]
  <2>1. f \subseteq Pins!Pins /\ o \subseteq Pins!Pins
    BY <1>1, InputAssumption DEF Gpios, Pins!Pins
  <2>2. gpio' = [g EXCEPT !.irq = i] /\ UNCHANGED <<wire, line, held, recorded>>
    BY <1>4 DEF Pins!Ack
  <2> HIDE DEF f, o
  <2>3. g \in Gpios /\ g.flag = f /\ g.irq = gpio.irq
    BY <1>1, <2>1 DEF Gpios
  <2> HIDE DEF g
  <2>4. i \in [Pins!Ports -> BOOLEAN]
    BY <2>3 DEF Gpios
  <2>5. \A port \in Pins!Ports : i[port] = \E p \in f : PortOf[p] = port
    BY <1>1, <2>3 DEF GpioSound, Flagged, f
  <2> HIDE DEF i
  <2>6. gpio' \in Gpios /\ gpio'.irq = i /\ gpio'.flag = f
    BY <2>2, <2>3, <2>4 DEF Gpios
  <2>7. GpioSound(gpio')
    BY <2>5, <2>6 DEF GpioSound, Flagged
  <2>8. QED BY <1>1, <2>2, <2>7, InputSettles
<1>5. ASSUME NEW mask \in PinMasks, Pins!ClearOut(mask) PROVE InputInv'
  <2>1. gpio' = [gpio EXCEPT !.out = gpio.out \ mask]
        /\ UNCHANGED <<wire, line, held, recorded>>
    BY <1>5 DEF Pins!ClearOut
  <2>2. gpio' \in Gpios /\ gpio'.flag = gpio.flag /\ gpio'.irq = gpio.irq
    BY <1>1, <2>1 DEF Gpios
  <2>3. QED BY <1>1, <2>1, <2>2, InputSettles DEF GpioSound, Flagged
<1>6. ASSUME NEW mask \in PinMasks, NEW b \in BOOLEAN, Pins!SetMask(mask, b) PROVE InputInv'
  <2> DEFINE k == IF b THEN gpio.masked \cup mask ELSE gpio.masked \ mask
  <2>1. gpio' = [gpio EXCEPT !.masked = k] /\ UNCHANGED <<wire, line, held, recorded>>
    BY <1>6 DEF Pins!SetMask
  <2>2. k \subseteq Pins!Pins
    BY <1>1, InputAssumption DEF Gpios, Pins!Pins
  <2> HIDE DEF k
  <2>3. gpio' \in Gpios /\ gpio'.flag = gpio.flag /\ gpio'.irq = gpio.irq
    BY <1>1, <2>1, <2>2 DEF Gpios
  <2>4. QED BY <1>1, <2>1, <2>3, InputSettles DEF GpioSound, Flagged
<1>7. CASE Pins!Deliver
  <2>1. WireInv' /\ GpioSound(gpio)' /\ held' \subseteq Pins!Sources
        /\ recorded' \in Pins!Messages \cup {Pins!NoEvent}
    BY <1>7, InputDelivers
  <2>2. Pins!LineFlows'
    <3>1. Len(line') <= 1 /\ Len(line') \in Nat
      BY <2>1, LenProperties DEF WireInv
    <3>2. QED BY <3>1, InputAssumption DEF Pins!LineFlows, Pins!CanRead
  <2>3. QED BY <2>1, <2>2 DEF InputInv, WireInv, Pins!TypeOK, Pins!LineAgrees,
     GpioSound, Gpios, Flagged
<1>8. CASE Pins!NandReady
  <2> DEFINE g == [gpio EXCEPT !.flag = gpio.flag \cup {ReadyPin}]
  <2>1. ReadyPin \in Pins!Pins
    BY InputAssumption DEF Pins!Pins
  <2>2. gpio' = Pins!UpdateIrq(g, PortOf[ReadyPin]) /\ UNCHANGED <<wire, line, held, recorded>>
    BY <1>8 DEF Pins!NandReady
  <2>3. g \in Gpios /\ g.flag = gpio.flag \cup {ReadyPin} /\ g.irq = gpio.irq
    BY <1>1, <2>1 DEF Gpios
  <2> HIDE DEF g
  <2>4. \A port \in Pins!Ports \ {PortOf[ReadyPin]} : g.irq[port] = Flagged(g, port)
    BY <1>1, <2>3 DEF GpioSound, Flagged
  <2>5. QED BY <1>1, <2>1, <2>2, <2>3, <2>4, GpioUpdates, InputSettles
<1>9. CASE Pins!Reset
  <2>1. GpioSound(gpio')
    BY <1>1, <1>9, GpioResets DEF Pins!Reset, Gpios
  <2>2. QED BY <1>1, <1>9, <2>1, InputSettles DEF Pins!Reset
<1>10. CASE Pins!Restore
  <2> DEFINE i == [port \in Pins!Ports |-> \E p \in gpio.flag : PortOf[p] = port]
  <2>1. gpio' = [gpio EXCEPT !.irq = i] /\ UNCHANGED <<wire, line, held, recorded>>
    BY <1>10 DEF Pins!Restore
  <2>2. i \in [Pins!Ports -> BOOLEAN] /\ \A port \in Pins!Ports : i[port] = Flagged(gpio, port)
    BY DEF Flagged
  <2> HIDE DEF i
  <2>3. gpio' \in Gpios /\ gpio'.irq = i /\ gpio'.flag = gpio.flag
    BY <1>1, <2>1, <2>2 DEF Gpios
  <2>4. GpioSound(gpio')
    BY <2>2, <2>3 DEF GpioSound, Flagged
  <2>5. QED BY <1>1, <2>1, <2>4, InputSettles
<1>11. CASE UNCHANGED inputVars
  BY <1>1, <1>11, InputSettles DEF inputVars
<1>12. QED
  BY <1>2, <1>3, <1>4, <1>5, <1>6, <1>7, <1>8, <1>9, <1>10, <1>11 DEF Pins!Next

----------------------------------------------------------------------------
LcdLemmas == INSTANCE DisplayProofs WITH
  Descriptor <- LcdDescriptors, Period <- RefreshPeriod, Clients <- {},
  EnableSets <- LcdEnables, Arms <- LcdArms, Moves <- LcdMoves

LEMMA LcdSame ==
  /\ Lcd!Next => LcdLemmas!Next
  /\ \A e, d \in BOOLEAN, m \in LcdEnables :
       LcdLemmas!WriteControl(e, d, m) <=> Lcd!WriteControl(e, d, m)
<1>1. \A l : LcdLemmas!UpdateIrq(l) = Lcd!UpdateIrq(l)
  BY DEF LcdLemmas!UpdateIrq, Lcd!UpdateIrq, LcdLemmas!Pending, Lcd!Pending
<1>2. \A l, e, f : LcdLemmas!Latch(l, e, f) = Lcd!Latch(l, e, f)
  BY DEF LcdLemmas!Latch, Lcd!Latch, LcdLemmas!Pending, Lcd!Pending
<1>3. ASSUME NEW l, NEW c PROVE LcdLemmas!Fetch(l, c) = Lcd!Fetch(l, c)
  BY <1>2 DEF
     LcdLemmas!Fetch, Lcd!Fetch, LcdLemmas!Loaded, Lcd!Loaded, LcdLemmas!InRam,
     Lcd!InRam
<1>4. ASSUME NEW l, NEW c PROVE LcdLemmas!Finish(l, c) = Lcd!Finish(l, c)
  BY <1>2, <1>3 DEF LcdLemmas!Finish, Lcd!Finish, LcdLemmas!NoCommand, Lcd!NoCommand
<1>5. ASSUME NEW l PROVE LcdLemmas!FrameDone(l) = Lcd!FrameDone(l)
  BY <1>1, <1>4 DEF
     LcdLemmas!FrameDone, Lcd!FrameDone, LcdLemmas!NoCommand, Lcd!NoCommand
<1>6. ASSUME NEW l, NEW b PROVE LcdLemmas!Written(l, b) <=> Lcd!Written(l, b)
  BY <1>1 DEF LcdLemmas!Written, Lcd!Written, LcdLemmas!SourceChanged, Lcd!SourceChanged
<1>7. ASSUME NEW s, NEW u PROVE LcdLemmas!Update(s, u) <=> Lcd!Update(s, u)
  <2>1. \A l : LcdLemmas!FrameDone(l) = Lcd!FrameDone(l)
    BY <1>5
  <2>2. QED
    BY <2>1 DEF
       LcdLemmas!Update, Lcd!Update, LcdLemmas!Refreshed, Lcd!Refreshed,
       LcdLemmas!Copied, Lcd!Copied, LcdLemmas!Connected, Lcd!Connected,
       LcdLemmas!None, Lcd!None
<1>8. ASSUME NEW l, NEW c PROVE LcdLemmas!FindsFrame(l, c) <=> Lcd!FindsFrame(l, c)
  BY DEF LcdLemmas!FindsFrame, Lcd!FindsFrame, LcdLemmas!InRam, Lcd!InRam
<1>9. ASSUME NEW e \in BOOLEAN, NEW d \in BOOLEAN, NEW m \in LcdEnables
      PROVE  LcdLemmas!WriteControl(e, d, m) <=> Lcd!WriteControl(e, d, m)
  BY <1>3, <1>6, <1>8 DEF LcdLemmas!WriteControl, Lcd!WriteControl
<1>10. ASSUME NEW c, NEW d, Lcd!WriteDescriptor(c, d) PROVE LcdLemmas!WriteDescriptor(c, d)
  BY <1>3, <1>6, <1>8, <1>10 DEF LcdLemmas!WriteDescriptor, Lcd!WriteDescriptor
<1>11. ASSUME NEW s, Lcd!WriteState(s) PROVE LcdLemmas!WriteState(s)
  BY <1>6, <1>11 DEF LcdLemmas!WriteState, Lcd!WriteState
<1>12. Lcd!Refresh \/ Lcd!ConsoleUpdate => LcdLemmas!Refresh \/ LcdLemmas!ConsoleUpdate
  BY <1>7 DEF LcdLemmas!Refresh, Lcd!Refresh, LcdLemmas!ConsoleUpdate, Lcd!ConsoleUpdate
<1>13. Lcd!Restore \/ Lcd!Reset => LcdLemmas!Restore \/ LcdLemmas!Reset
  BY <1>1 DEF
     LcdLemmas!Restore, Lcd!Restore, LcdLemmas!Reset, Lcd!Reset, LcdLemmas!ResetLcd,
     Lcd!ResetLcd, LcdLemmas!Channels, Lcd!Channels, LcdLemmas!None, Lcd!None,
     LcdLemmas!NoCommand, Lcd!NoCommand
<1>14. QED
  BY <1>9, <1>10, <1>11, <1>12, <1>13 DEF
     LcdLemmas!Next, Lcd!Next, LcdLemmas!Draw, Lcd!Draw, LcdLemmas!Repoint,
     Lcd!Repoint, LcdLemmas!AckPanel, Lcd!AckPanel, LcdLemmas!Tick, Lcd!Tick,
     LcdLemmas!Connect, Lcd!Connect, LcdLemmas!Disconnect, Lcd!Disconnect,
     LcdLemmas!Connected, Lcd!Connected, LcdLemmas!None, Lcd!None

LEMMA LcdStarts == ASSUME Lcd!Init PROVE LcdLemmas!DisplayInv
<1>1. LcdLemmas!Configured
  BY DisplayAssumption DEF LcdLemmas!Configured, LcdLemmas!Addresses, LcdLemmas!Channels, LcdLemmas!Events,
     ScreenAssumption
<1>2. LcdLemmas!Init
  BY DEF
     LcdLemmas!Init, Lcd!Init, LcdLemmas!ResetLcd, Lcd!ResetLcd, LcdLemmas!Channels,
     Lcd!Channels, LcdLemmas!None, Lcd!None, LcdLemmas!NoCommand, Lcd!NoCommand
<1>3. QED BY <1>1, <1>2, LcdLemmas!Starts

LEMMA LcdSteps ==
  ASSUME LcdLemmas!DisplayInv, Lcd!Next \/ UNCHANGED displayVars
  PROVE  LcdLemmas!DisplayInv' /\ Lcd!IidHeld
<1>1. LcdLemmas!Configured
  BY DisplayAssumption DEF LcdLemmas!Configured, LcdLemmas!Addresses, LcdLemmas!Channels, LcdLemmas!Events,
     ScreenAssumption
<1>2. LcdLemmas!Next \/ UNCHANGED LcdLemmas!vars
  BY LcdSame DEF LcdLemmas!vars, displayVars
<1>3. LcdLemmas!DisplayInv' /\ LcdLemmas!IidHeld
  BY <1>1, <1>2, LcdLemmas!Steps
<1>4. ASSUME NEW e \in BOOLEAN, NEW d \in BOOLEAN, NEW m \in LcdEnables,
             LcdLemmas!WriteControl(e, d, m)
      PROVE  Lcd!WriteControl(e, d, m)
  BY <1>4, LcdSame
<1>5. QED
  BY <1>3, <1>4 DEF LcdLemmas!IidHeld, Lcd!IidHeld

LEMMA LcdTyped == ASSUME LcdLemmas!DisplayInv PROVE Lcd!TypeOK
BY DEF LcdLemmas!DisplayInv, LcdLemmas!TypeOK, Lcd!TypeOK, LcdLemmas!Channels, Lcd!Channels,
       LcdLemmas!None, Lcd!None

StreamLemmas == INSTANCE DisplayProofs WITH
  Descriptor <- StreamDescriptors, Period <- RefreshPeriod, EnableSets <- {{}},
  Arms <- StreamArms, Moves <- StreamMoves

LEMMA StreamSame == Stream!Next => StreamLemmas!Next
<1>1. \A l : StreamLemmas!UpdateIrq(l) = Stream!UpdateIrq(l)
  BY DEF StreamLemmas!UpdateIrq, Stream!UpdateIrq, StreamLemmas!Pending, Stream!Pending
<1>2. \A l, e, f : StreamLemmas!Latch(l, e, f) = Stream!Latch(l, e, f)
  BY DEF StreamLemmas!Latch, Stream!Latch, StreamLemmas!Pending, Stream!Pending
<1>3. ASSUME NEW l, NEW c PROVE StreamLemmas!Fetch(l, c) = Stream!Fetch(l, c)
  BY <1>2 DEF
     StreamLemmas!Fetch, Stream!Fetch, StreamLemmas!Loaded, Stream!Loaded,
     StreamLemmas!InRam, Stream!InRam
<1>4. ASSUME NEW l, NEW c PROVE StreamLemmas!Finish(l, c) = Stream!Finish(l, c)
  BY <1>2, <1>3 DEF
     StreamLemmas!Finish, Stream!Finish, StreamLemmas!NoCommand, Stream!NoCommand
<1>5. ASSUME NEW l PROVE StreamLemmas!FrameDone(l) = Stream!FrameDone(l)
  BY <1>1, <1>4 DEF
     StreamLemmas!FrameDone, Stream!FrameDone, StreamLemmas!NoCommand,
     Stream!NoCommand
<1>6. ASSUME NEW l, NEW b PROVE StreamLemmas!Written(l, b) <=> Stream!Written(l, b)
  BY <1>1 DEF
     StreamLemmas!Written, Stream!Written, StreamLemmas!SourceChanged,
     Stream!SourceChanged
<1>7. ASSUME NEW s, NEW u PROVE StreamLemmas!Update(s, u) <=> Stream!Update(s, u)
  <2>1. \A l : StreamLemmas!FrameDone(l) = Stream!FrameDone(l)
    BY <1>5
  <2>2. QED
    BY <2>1 DEF
       StreamLemmas!Update, Stream!Update, StreamLemmas!Refreshed, Stream!Refreshed,
       StreamLemmas!Copied, Stream!Copied, StreamLemmas!Connected, Stream!Connected,
       StreamLemmas!None, Stream!None
<1>8. ASSUME NEW l, NEW c PROVE StreamLemmas!FindsFrame(l, c) <=> Stream!FindsFrame(l, c)
  BY DEF StreamLemmas!FindsFrame, Stream!FindsFrame, StreamLemmas!InRam, Stream!InRam
<1>9. ASSUME NEW e \in BOOLEAN, NEW d \in BOOLEAN, NEW m \in {{}},
             Stream!WriteControl(e, d, m)
      PROVE  StreamLemmas!WriteControl(e, d, m)
  BY <1>3, <1>6, <1>8, <1>9 DEF StreamLemmas!WriteControl, Stream!WriteControl
<1>10. ASSUME NEW c, NEW d, Stream!WriteDescriptor(c, d) PROVE StreamLemmas!WriteDescriptor(c, d)
  BY <1>3, <1>6, <1>8, <1>10 DEF StreamLemmas!WriteDescriptor, Stream!WriteDescriptor
<1>11. ASSUME NEW s, Stream!WriteState(s) PROVE StreamLemmas!WriteState(s)
  BY <1>6, <1>11 DEF StreamLemmas!WriteState, Stream!WriteState
<1>12. Stream!Refresh \/ Stream!ConsoleUpdate => StreamLemmas!Refresh \/ StreamLemmas!ConsoleUpdate
  BY <1>7 DEF
     StreamLemmas!Refresh, Stream!Refresh, StreamLemmas!ConsoleUpdate,
     Stream!ConsoleUpdate
<1>13. Stream!Restore \/ Stream!Reset => StreamLemmas!Restore \/ StreamLemmas!Reset
  BY <1>1 DEF
     StreamLemmas!Restore, Stream!Restore, StreamLemmas!Reset, Stream!Reset,
     StreamLemmas!ResetLcd, Stream!ResetLcd, StreamLemmas!Channels, Stream!Channels,
     StreamLemmas!None, Stream!None, StreamLemmas!NoCommand, Stream!NoCommand
<1>14. QED
  BY <1>9, <1>10, <1>11, <1>12, <1>13 DEF
     StreamLemmas!Next, Stream!Next, StreamLemmas!Draw, Stream!Draw,
     StreamLemmas!Repoint, Stream!Repoint, StreamLemmas!AckPanel, Stream!AckPanel,
     StreamLemmas!Tick, Stream!Tick, StreamLemmas!Connect, Stream!Connect,
     StreamLemmas!Disconnect, Stream!Disconnect, StreamLemmas!Connected,
     Stream!Connected, StreamLemmas!None, Stream!None

LEMMA StreamStarts == ASSUME Stream!Init PROVE StreamLemmas!DisplayInv
<1>1. StreamLemmas!Configured
  BY DisplayAssumption DEF StreamLemmas!Configured, StreamLemmas!Addresses, StreamLemmas!Channels, StreamLemmas!Events,
     ScreenAssumption
<1>2. StreamLemmas!Init
  BY DEF
     StreamLemmas!Init, Stream!Init, StreamLemmas!ResetLcd, Stream!ResetLcd,
     StreamLemmas!Channels, Stream!Channels, StreamLemmas!None, Stream!None,
     StreamLemmas!NoCommand, Stream!NoCommand
<1>3. QED BY <1>1, <1>2, StreamLemmas!Starts

LEMMA StreamSteps ==
  ASSUME StreamLemmas!DisplayInv, Stream!Next \/ UNCHANGED displayVars
  PROVE  StreamLemmas!DisplayInv' /\ Stream!OnlyLateClientsMiss
<1>1. StreamLemmas!Configured
  BY DisplayAssumption DEF StreamLemmas!Configured, StreamLemmas!Addresses, StreamLemmas!Channels, StreamLemmas!Events,
     ScreenAssumption
<1>2. StreamLemmas!Next \/ UNCHANGED StreamLemmas!vars
  BY StreamSame DEF StreamLemmas!vars, displayVars
<1>3. StreamLemmas!DisplayInv' /\ StreamLemmas!OnlyLateClientsMiss
  BY <1>1, <1>2, StreamLemmas!Steps
<1>4. QED
  BY <1>3 DEF
     StreamLemmas!OnlyLateClientsMiss, Stream!OnlyLateClientsMiss,
     StreamLemmas!Behind, Stream!Behind, StreamLemmas!Connected, Stream!Connected,
     StreamLemmas!Connect, Stream!Connect, StreamLemmas!None, Stream!None

LEMMA StreamTyped == ASSUME StreamLemmas!DisplayInv PROVE Stream!TypeOK
BY DEF StreamLemmas!DisplayInv, StreamLemmas!TypeOK, Stream!TypeOK, StreamLemmas!Channels,
       Stream!Channels, StreamLemmas!None, Stream!None

----------------------------------------------------------------------------
(* The bytes in the FIFO are in their order, none of them read or not yet sent.   *)
UartOrder ==
  /\ Serial!InOrder /\ got <= sent
  /\ \A i \in 1 .. Len(rx) : rx[i] <= sent

LEMMA OrderStarts == ASSUME Serial!Init PROVE UartOrder
BY DEF Serial!Init, UartOrder, Serial!InOrder

(* What happens to the bytes in the FIFO and to the guest's and the host's count.  *)
UartFlows ==
  \/ rx' = rx /\ sent' = sent /\ got' = got
  \/ rx' = <<>> /\ sent' = sent /\ got' = got
  \/ rx' = Append(rx, sent + 1) /\ sent' = sent + 1 /\ got' = got
  \/ rx' = Append(rx, 0) /\ sent' = sent /\ got' = got
  \/ /\ rx # <<>> /\ rx' = Tail(rx) /\ sent' = sent
     /\ got' = IF Head(rx) # 0 THEN Head(rx) ELSE got

UartOver == "OVER" \in uart'.errors => "OVER" \in uart.errors \/ uart.loop

LEMMA SettlesErrors ==
  ASSUME NEW u \in Uarts, NEW q, Serial!Settle(u, q),
         "OVER" \in u.errors => "OVER" \in uart.errors \/ uart.loop
  PROVE  rx' = q /\ UartOver
<1> DEFINE v == Serial!UpdateLsr(u)
           b == Serial!Cause(v, q) # "none"
<1>1. v \in Uarts /\ ("OVER" \in v.errors => "OVER" \in u.errors)
  BY DEF Serial!UpdateLsr, Uarts
<1>2. uart' = [v EXCEPT !.irq = b] /\ rx' = q
  BY DEF Serial!Settle, Serial!Settled
<1> HIDE DEF v, b
<1>3. uart'.errors = v.errors  BY <1>1, <1>2 DEF Uarts
<1> QED BY <1>1, <1>2, <1>3 DEF UartOver

LEMMA KeepsErrors ==
  ASSUME NEW u \in Uarts
  PROVE  /\ Serial!LatchTransmit(u) \in Uarts /\ Serial!LatchTransmit(u).errors = u.errors
         /\ Serial!UpdateModem(u) \in Uarts /\ Serial!UpdateModem(u).errors = u.errors
         /\ [u EXCEPT !.thr = FALSE] \in Uarts /\ [u EXCEPT !.thr = FALSE].errors = u.errors
<1>1. Serial!LatchTransmit(u) \in Uarts /\ Serial!LatchTransmit(u).errors = u.errors
  BY DEF Serial!LatchTransmit, Uarts
<1>2. Serial!UpdateModem(u) \in Uarts /\ Serial!UpdateModem(u).errors = u.errors
  BY DEF Serial!UpdateModem, Uarts
<1>3. [u EXCEPT !.thr = FALSE] \in Uarts /\ [u EXCEPT !.thr = FALSE].errors = u.errors
  BY DEF Uarts
<1> QED BY <1>1, <1>2, <1>3

LEMMA UartFlow ==
  ASSUME UartInv, Serial!Next \/ UNCHANGED uartVars PROVE UartFlows /\ UartOver
<1>1. uart \in Uarts /\ Len(rx) \in Nat /\ sent \in Nat
  BY LenProperties DEF UartInv, Serial!TypeOK, Uarts
<1>2. CASE Serial!Receive
  <2>1. LET p == Serial!Push(uart, rx, sent')
        IN  p[1] = uart /\ p[2] = Append(rx, sent')
    BY <1>2 DEF Serial!Receive, Serial!Push
  <2>2. Serial!Settle(uart, Append(rx, sent')) /\ sent' = sent + 1 /\ got' = got
    BY <1>2, <2>1 DEF Serial!Receive, Serial!Settle
  <2>3. rx' = Append(rx, sent') /\ UartOver  BY <1>1, <2>2, SettlesErrors
  <2> QED BY <2>2, <2>3 DEF UartFlows
<1>3. CASE Serial!Transmit
  <2> DEFINE u == [uart EXCEPT !.thr = FALSE]
             o == [u EXCEPT !.errors = @ \cup {"OVER"}]
             L(v) == Serial!LatchTransmit(v)
  <2>1. u \in Uarts /\ u.errors = uart.errors  BY <1>1, KeepsErrors
  <2>2. o \in Uarts
    <3> HIDE DEF u
    <3> QED BY <2>1 DEF Uarts
  <2>3. L(u) \in Uarts /\ L(u).errors = uart.errors /\ L(o) \in Uarts
    <3> HIDE DEF u, o
    <3> QED BY <2>1, <2>2, KeepsErrors
  <2>4. sent' = sent /\ got' = got
    BY <1>3 DEF Serial!Transmit
  <2>5. CASE uart.dlab
    <3>1. Serial!Settle(uart, rx)  BY <1>3, <2>5 DEF Serial!Transmit
    <3> QED BY <1>1, <2>4, <3>1, SettlesErrors DEF UartFlows
  <2>6. CASE ~uart.dlab /\ uart.loop
    <3>1. \/ Serial!Settle(L(u), Append(rx, 0))
          \/ Serial!Settle(L(o), rx)
      <4> DEFINE p == Serial!Push(u, rx, 0)
      <4>1. Serial!Settle(L(p[1]), p[2])
        BY <1>3, <2>6 DEF Serial!Transmit, Serial!Looped
      <4>2. \/ p[1] = u /\ p[2] = Append(rx, 0)
            \/ p[1] = o /\ p[2] = rx
        <5> HIDE DEF u
        <5> QED BY DEF Serial!Push
      <4> HIDE DEF u, o, p
      <4> QED BY <4>1, <4>2 DEF Serial!Settle
    <3> HIDE DEF L, u, o
    <3>2. (rx' = Append(rx, 0) \/ rx' = rx) /\ UartOver
      BY <2>3, <2>6, <3>1, SettlesErrors
    <3> QED BY <2>4, <3>2 DEF UartFlows
  <2>7. CASE ~uart.dlab /\ ~uart.loop
    <3>1. Serial!Settle(L(u), rx)  BY <1>3, <2>7 DEF Serial!Transmit
    <3> HIDE DEF L, u
    <3>2. rx' = rx /\ UartOver  BY <2>3, <3>1, SettlesErrors
    <3> QED BY <2>4, <3>2 DEF UartFlows
  <2> QED BY <2>5, <2>6, <2>7
<1>4. CASE Serial!ReadData
  <2>1. CASE rx = <<>>
    <3>1. Serial!Settle(uart, rx) /\ sent' = sent /\ got' = got
      BY <1>4, <2>1 DEF Serial!ReadData
    <3> QED BY <1>1, <3>1, SettlesErrors DEF UartFlows
  <2>2. CASE rx # <<>>
    <3>1. Serial!Settle(uart, Tail(rx)) /\ sent' = sent
          /\ got' = (IF Head(rx) # 0 THEN Head(rx) ELSE got)
      BY <1>4, <2>2 DEF Serial!ReadData, Serial!Looped
    <3> QED BY <1>1, <2>2, <3>1, SettlesErrors DEF UartFlows
  <2> QED BY <2>1, <2>2
<1>5. ASSUME NEW u \in Uarts, NEW b \in BOOLEAN, uart' = [u EXCEPT !.irq = b],
             u.errors = uart.errors, UNCHANGED <<rx, sent, got>>
      PROVE  UartFlows /\ UartOver
  <2>1. uart'.errors = u.errors  BY <1>5 DEF Uarts
  <2> QED BY <1>5, <2>1 DEF UartFlows, UartOver
<1>6. CASE Serial!ReadCause
  <2> DEFINE u == [uart EXCEPT !.thr = FALSE]
             b == Serial!Cause(u, rx) # "none"
  <2>1. \/ uart' = [u EXCEPT !.irq = b] /\ rx' = rx
        \/ UNCHANGED <<uart, rx>>
    BY <1>6 DEF Serial!ReadCause
  <2>2. sent' = sent /\ got' = got  BY <1>6 DEF Serial!ReadCause
  <2>3. u \in Uarts /\ u.errors = uart.errors /\ b \in BOOLEAN  BY <1>1, KeepsErrors
  <2> HIDE DEF u, b
  <2>4. CASE UNCHANGED <<uart, rx>>
    BY <2>2, <2>4 DEF UartFlows, UartOver
  <2> QED BY <1>5, <2>1, <2>2, <2>3, <2>4
<1>7. CASE Serial!ReadStatus
  <2> DEFINE u == [uart EXCEPT !.errors = {}]
  <2>1. u \in Uarts /\ u.errors = {}  BY <1>1 DEF Uarts
  <2>2. Serial!Settle(u, rx) /\ sent' = sent /\ got' = got  BY <1>7 DEF Serial!ReadStatus
  <2> HIDE DEF u
  <2>3. rx' = rx /\ UartOver  BY <2>1, <2>2, SettlesErrors
  <2> QED BY <2>2, <2>3 DEF UartFlows
<1>8. CASE Serial!ReadModem
  <2> DEFINE m == Serial!UpdateModem(uart)
             u == [m EXCEPT !.ctsChanged = FALSE]
             b == Serial!Cause(u, rx) # "none"
  <2>1. uart' = [u EXCEPT !.irq = b] /\ UNCHANGED <<rx, sent, got>>
    BY <1>8 DEF Serial!ReadModem
  <2>2. m \in Uarts /\ m.errors = uart.errors  BY <1>1, KeepsErrors
  <2> HIDE DEF m
  <2>3. u \in Uarts /\ u.errors = uart.errors  BY <2>2 DEF Uarts
  <2>4. b \in BOOLEAN  OBVIOUS
  <2> HIDE DEF u, b
  <2> QED BY <1>5, <2>1, <2>3, <2>4
<1>9. ASSUME NEW u \in Uarts, u.errors = uart.errors, Serial!Settle(u, rx),
             sent' = sent, got' = got
      PROVE  UartFlows /\ UartOver
  <2>1. rx' = rx /\ UartOver  BY <1>9, SettlesErrors
  <2> QED BY <1>9, <2>1 DEF UartFlows
<1>10. ASSUME NEW e \in UartEnables, Serial!WriteEnables(e) PROVE UartFlows /\ UartOver
  <2> DEFINE u == [uart EXCEPT !.ier = e]
             v == IF uart.dlab THEN uart
                  ELSE IF "TDRIE" \notin e THEN [u EXCEPT !.thr = FALSE]
                  ELSE IF "TDRIE" \in uart.ier THEN u ELSE Serial!LatchTransmit(u)
  <2>1. Serial!Settle(v, rx) /\ sent' = sent /\ got' = got
    BY <1>10 DEF Serial!WriteEnables
  <2>2. u \in Uarts /\ u.errors = uart.errors
    BY <1>1, UartAssumption DEF Uarts, Serial!Interrupts
  <2> HIDE DEF u
  <2>3. v \in Uarts /\ v.errors = uart.errors
    BY <1>1, <2>2, KeepsErrors
  <2> HIDE DEF v
  <2> QED BY <1>9, <2>1, <2>3
<1>11. ASSUME NEW m \in FifoModes, Serial!WriteFifo(m) PROVE UartFlows /\ UartOver
  <2> DEFINE z == [uart EXCEPT !.errors = {}]
             c == IF "rx" \in m.clear THEN Serial!Settled(z, <<>>) ELSE uart
             t == IF "tx" \in m.clear THEN [c EXCEPT !.thr = FALSE] ELSE c
             u == [t EXCEPT !.fifo = m.fifo, !.unit = m.unit, !.trigger = m.trigger]
             v == IF m.unit THEN Serial!LatchTransmit(u) ELSE [u EXCEPT !.thr = FALSE]
             q == IF "rx" \in m.clear THEN <<>> ELSE rx
  <2>1. Serial!Settle(v, q) /\ sent' = sent /\ got' = got
    BY <1>11 DEF Serial!WriteFifo
  <2>2. c \in Uarts /\ ("OVER" \in c.errors => "OVER" \in uart.errors)
    <3>1. CASE "rx" \in m.clear
      <4> DEFINE l == Serial!UpdateLsr(z)
                 b == Serial!Cause(l, <<>>) # "none"
      <4>1. z \in Uarts /\ z.errors = {}  BY <1>1 DEF Uarts
      <4>2. c = [l EXCEPT !.irq = b] /\ b \in BOOLEAN  BY <3>1 DEF Serial!Settled
      <4> HIDE DEF c, z
      <4>3. l = z  BY <4>1 DEF Serial!UpdateLsr
      <4> HIDE DEF l, b
      <4> QED BY <4>1, <4>2, <4>3 DEF Uarts
    <3>2. CASE "rx" \notin m.clear
      BY <1>1, <3>2
    <3> QED BY <3>1, <3>2
  <2> HIDE DEF c
  <2>3. t \in Uarts /\ t.errors = c.errors  BY <2>2, KeepsErrors
  <2> HIDE DEF t
  <2>4. u \in Uarts /\ u.errors = c.errors
    <3>1. /\ m.fifo \in BOOLEAN /\ m.unit \in BOOLEAN
          /\ m.trigger \in {n.trigger : n \in FifoModes} \cup {1}
      BY UartAssumption
    <3> QED BY <2>3, <3>1 DEF Uarts
  <2> HIDE DEF u
  <2>5. v \in Uarts /\ v.errors = c.errors  BY <2>4, KeepsErrors
  <2> HIDE DEF v
  <2>6. rx' = q /\ UartOver  BY <2>1, <2>2, <2>5, SettlesErrors
  <2> QED BY <2>1, <2>6 DEF UartFlows
<1>12. ASSUME NEW d \in BOOLEAN, Serial!WriteLine(d) PROVE UartFlows /\ UartOver
  <2> DEFINE u == [uart EXCEPT !.dlab = d]
  <2>1. u \in Uarts /\ u.errors = uart.errors  BY <1>1 DEF Uarts
  <2>2. Serial!Settle(u, rx) /\ sent' = sent /\ got' = got  BY <1>12 DEF Serial!WriteLine
  <2> HIDE DEF u
  <2> QED BY <1>9, <2>1, <2>2
<1>13. ASSUME NEW l \in BOOLEAN, NEW k \in BOOLEAN, Serial!WriteModem(l, k)
       PROVE  UartFlows /\ UartOver
  <2> DEFINE u == [uart EXCEPT !.loop = l, !.link = k]
             v == Serial!UpdateModem(u)
  <2>1. u \in Uarts /\ u.errors = uart.errors  BY <1>1 DEF Uarts
  <2>2. Serial!Settle(v, rx) /\ sent' = sent /\ got' = got  BY <1>13 DEF Serial!WriteModem
  <2> HIDE DEF u
  <2>3. v \in Uarts /\ v.errors = uart.errors  BY <2>1, KeepsErrors
  <2> HIDE DEF v
  <2> QED BY <1>9, <2>2, <2>3
<1>14. CASE Serial!Reset
  BY <1>14 DEF Serial!Reset, Serial!ResetUart, UartFlows, UartOver
<1>15. CASE Serial!Restore
  BY <1>1, <1>9, <1>15 DEF Serial!Restore
<1>16. CASE UNCHANGED uartVars
  BY <1>16 DEF uartVars, UartFlows, UartOver
<1>17. QED
  BY <1>2, <1>3, <1>4, <1>6, <1>7, <1>8, <1>10, <1>11, <1>12, <1>13, <1>14, <1>15, <1>16
  DEF Serial!Next

LEMMA TailAt ==
  ASSUME NEW S, NEW s \in Seq(S), s # <<>>
  PROVE  /\ Len(Tail(s)) = Len(s) - 1 /\ Len(s) \in Nat \ {0} /\ Head(s) = s[1]
         /\ \A i \in 1 .. Len(s) - 1 : Tail(s)[i] = s[i + 1]
BY HeadTailProperties, LenProperties

LEMMA AppendAt ==
  ASSUME NEW S, NEW s \in Seq(S), NEW v \in S
  PROVE  /\ Len(Append(s, v)) = Len(s) + 1 /\ Len(s) \in Nat
         /\ \A i \in 1 .. Len(s) : Append(s, v)[i] = s[i]
         /\ Append(s, v)[Len(s) + 1] = v
BY AppendProperties, LenProperties

(* What the host sent stays in order and only a clear loses it.                   *)
LEMMA UartOrdered ==
  ASSUME UartInv, UartOrder, UartFlows, UartOver
  PROVE  UartOrder' /\ Serial!OnlyClearLoses
<1>1. rx \in Seq(Nat) /\ Len(rx) \in Nat /\ sent \in Nat /\ got \in Nat
      /\ \A i \in 1 .. Len(rx) : rx[i] \in Nat
  <2>1. 0 .. MaxByte \subseteq Nat  BY UartAssumption
  <2>2. rx \in Seq(0 .. MaxByte) /\ sent \in 0 .. MaxByte /\ got \in 0 .. MaxByte
    BY DEF UartInv, Serial!TypeOK
  <2>3. Len(rx) \in Nat /\ rx \in [1 .. Len(rx) -> 0 .. MaxByte]  BY <2>2, LenProperties
  <2>4. rx \in [1 .. Len(rx) -> Nat]  BY <2>1, <2>3
  <2>5. rx \in Seq(Nat)  BY <2>3, <2>4, IsASeq
  <2> QED BY <2>1, <2>2, <2>3, <2>4, <2>5
<1>2. /\ got <= sent /\ \A i \in 1 .. Len(rx) : rx[i] <= sent
      /\ \A j \in 1 .. Len(rx) :
           rx[j] # 0 => got < rx[j] /\ \A i \in 1 .. j - 1 : rx[i] < rx[j]
  BY DEF UartOrder, Serial!InOrder, Serial!Looped
<1>3. "OVER" \in uart'.errors /\ "OVER" \notin uart.errors => uart.loop
  BY DEF UartOver
<1> DEFINE Ordered(q, g, s) ==
             /\ g <= s /\ \A i \in 1 .. Len(q) : q[i] <= s
             /\ \A j \in 1 .. Len(q) :
                  q[j] # 0 => g < q[j] /\ \A i \in 1 .. j - 1 : q[i] < q[j]
           Has(q, x) == \E i \in 1 .. Len(q) : q[i] = x
           Missing(q, g, s) == \E x \in g + 1 .. s : ~Has(q, x)
<1>4. Serial!Lost <=> Missing(rx, got, sent)
  BY DEF Serial!Lost
<1>5. Serial!Lost' <=> Missing(rx', got', sent')
  BY DEF Serial!Lost
<1>6. ASSUME Ordered(rx', got', sent') PROVE UartOrder'
  BY <1>6 DEF UartOrder, Serial!InOrder, Serial!Looped
<1>7. Ordered(rx, got, sent)  BY <1>2
<1>8. CASE rx' = rx /\ sent' = sent /\ got' = got
  BY <1>3, <1>4, <1>5, <1>6, <1>7, <1>8 DEF Serial!OnlyClearLoses
<1>9. CASE rx' = <<>> /\ sent' = sent /\ got' = got
  <2>1. Ordered(rx', got', sent')  BY <1>2, <1>9
  <2>2. rx = <<>> => rx' = rx  BY <1>9
  <2> QED BY <1>3, <1>4, <1>5, <1>6, <1>9, <2>1, <2>2 DEF Serial!OnlyClearLoses
<1>10. ASSUME NEW v \in {0, sent + 1}, rx' = Append(rx, v), sent' = (IF v = 0 THEN sent ELSE v),
              got' = got
       PROVE  UartOrder' /\ Serial!OnlyClearLoses
  <2>1. /\ Len(rx') = Len(rx) + 1 /\ \A i \in 1 .. Len(rx) : rx'[i] = rx[i]
        /\ rx'[Len(rx) + 1] = v
    BY <1>1, <1>10, AppendAt
  <2>2. Ordered(rx', got', sent')
    BY <1>1, <1>2, <1>10, <2>1
  <2>3. ~Missing(rx, got, sent) => ~Missing(rx', got', sent')
    <3> SUFFICES ASSUME NEW x \in got' + 1 .. sent', \A y \in got + 1 .. sent : Has(rx, y)
                 PROVE  Has(rx', x)
      OBVIOUS
    <3>1. CASE x \in got + 1 .. sent
      <4>1. PICK i \in 1 .. Len(rx) : rx[i] = x  BY <3>1
      <4> QED BY <4>1, <2>1, <1>1
    <3>2. CASE x \notin got + 1 .. sent
      <4>1. x = v /\ v # 0  BY <1>1, <1>10, <3>2
      <4> QED BY <4>1, <2>1, <1>1
    <3> QED BY <3>1, <3>2
  <2> QED BY <1>3, <1>4, <1>5, <1>6, <2>2, <2>3 DEF Serial!OnlyClearLoses
<1>11. CASE /\ rx # <<>> /\ rx' = Tail(rx) /\ sent' = sent
            /\ got' = IF Head(rx) # 0 THEN Head(rx) ELSE got
  <2>1. /\ Len(rx') = Len(rx) - 1 /\ Len(rx) \in Nat \ {0}
        /\ \A i \in 1 .. Len(rx) - 1 : rx'[i] = rx[i + 1]
        /\ got' = IF rx[1] # 0 THEN rx[1] ELSE got
    BY <1>1, <1>11, TailAt
  <2>2. Ordered(rx', got', sent')
    <3>1. got' <= sent'  BY <1>1, <1>2, <1>11, <2>1
    <3>2. \A i \in 1 .. Len(rx') : rx'[i] <= sent'  BY <1>1, <1>2, <1>11, <2>1
    <3>3. ASSUME NEW j \in 1 .. Len(rx'), rx'[j] # 0
          PROVE  got' < rx'[j] /\ \A i \in 1 .. j - 1 : rx'[i] < rx'[j]
      <4>1. j + 1 \in 1 .. Len(rx) /\ rx'[j] = rx[j + 1] /\ 1 \in 1 .. (j + 1) - 1  BY <2>1
      <4>2. got < rx[j + 1] /\ \A i \in 1 .. (j + 1) - 1 : rx[i] < rx[j + 1]
        BY <1>2, <3>3, <4>1
      <4>3. got' < rx'[j]  BY <2>1, <4>1, <4>2
      <4>4. ASSUME NEW i \in 1 .. j - 1 PROVE rx'[i] < rx'[j]
        <5>1. i + 1 \in 1 .. (j + 1) - 1 /\ rx'[i] = rx[i + 1]  BY <2>1
        <5> QED BY <4>1, <4>2, <5>1
      <4> QED BY <4>3, <4>4
    <3> QED BY <3>1, <3>2, <3>3
  <2>3. ~Missing(rx, got, sent) => ~Missing(rx', got', sent')
    <3> SUFFICES ASSUME NEW x \in got' + 1 .. sent', \A y \in got + 1 .. sent : Has(rx, y)
                 PROVE  Has(rx', x)
      OBVIOUS
    <3>1. 1 \in 1 .. Len(rx) /\ rx[1] \in Nat /\ (rx[1] # 0 => got < rx[1])
      BY <1>1, <1>2, <2>1
    <3>2. got' \in Nat /\ got <= got'  BY <1>1, <2>1, <3>1
    <3>3. x \in got + 1 .. sent /\ x # rx[1] /\ x \in Nat
      BY <1>1, <1>11, <2>1, <3>1, <3>2
    <3>4. PICK i \in 1 .. Len(rx) : rx[i] = x  BY <3>3
    <3>5. i - 1 \in 1 .. Len(rx) - 1 /\ (i - 1) + 1 = i  BY <2>1, <3>3, <3>4
    <3>6. rx'[i - 1] = x  BY <2>1, <3>4, <3>5
    <3> QED BY <2>1, <3>5, <3>6
  <2> QED BY <1>3, <1>4, <1>5, <1>6, <2>2, <2>3 DEF Serial!OnlyClearLoses
<1>12. QED
  <2>1. CASE rx' = Append(rx, sent + 1) /\ sent' = sent + 1 /\ got' = got
    BY <1>1, <1>10, <2>1
  <2>2. CASE rx' = Append(rx, 0) /\ sent' = sent /\ got' = got
    BY <1>10, <2>2
  <2> QED BY <1>8, <1>9, <1>11, <2>1, <2>2 DEF UartFlows

----------------------------------------------------------------------------
(* What a latch of the flags does to a record; the guest's values stay.           *)
LatchesAs(r, l, t) ==
  /\ l \in RtcRecords /\ l.base = r.base /\ l.baseTime = r.baseTime /\ l.alarm = r.alarm
  /\ l.ealm = r.ealm
  /\ l.control \ {"1HZ", "AF"} = r.control \ {"1HZ", "AF"}
  /\ l.alarmSeen = (r.alarmSeen \/ Clock!AlarmDue(r, t))
  /\ IF Clock!AlarmDue(r, t) /\ r.pd /\ r.ealm
     THEN ~l.pd /\ l.wake = r.wake \cup {"ALM"} ELSE l.pd = r.pd /\ l.wake = r.wake

LEMMA RtcLatchesAs ==
  ASSUME NEW r \in RtcRecords, NEW t \in 0 .. MaxNow, r.baseTime <= t
  PROVE  LatchesAs(r, Clock!Latched(r, t), t)
<1> DEFINE s == Clock!LatchSecond(r, t)
           n == Clock!Seconds(r, t)
           a == [s EXCEPT !.control = @ \cup {"AF"}, !.alarmSeen = TRUE]
           w == [a EXCEPT !.wake = @ \cup {"ALM"}, !.pd = FALSE]
           l == Clock!Latched(r, t)
<1>1. n \in Nat
  BY RtcSeconds
<1>2. /\ s \in RtcRecords /\ s.base = r.base /\ s.baseTime = r.baseTime
      /\ s.alarm = r.alarm /\ s.alarmSeen = r.alarmSeen /\ s.pd = r.pd /\ s.ealm = r.ealm
      /\ s.wake = r.wake /\ s.control \in {r.control, r.control \cup {"1HZ"}}
  <2> HIDE DEF n
  <2>1. s = IF "RTCE" \in r.control /\ n # r.secondSeen
            THEN [r EXCEPT !.control = @ \cup {"1HZ"}, !.secondSeen = n] ELSE r
    BY DEF n, Clock!LatchSecond
  <2> HIDE DEF s
  <2>2. QED BY <1>1, <2>1 DEF RtcRecords, Clock!Control
<1> HIDE DEF s, n
<1>3. Clock!AlarmDue(s, t) <=> Clock!AlarmDue(r, t)
  BY <1>2 DEF Clock!AlarmDue, Clock!Seconds
<1>4. a \in RtcRecords /\ a.base = r.base /\ a.baseTime = r.baseTime /\ a.alarm = r.alarm
      /\ a.alarmSeen = TRUE /\ a.control = s.control \cup {"AF"} /\ a.pd = r.pd
      /\ a.ealm = r.ealm /\ a.wake = r.wake
  BY <1>2 DEF RtcRecords, Clock!Control
<1> HIDE DEF a
<1>5. w \in RtcRecords /\ w.base = r.base /\ w.baseTime = r.baseTime /\ w.alarm = r.alarm
      /\ w.alarmSeen = TRUE /\ w.control = s.control \cup {"AF"} /\ w.pd = FALSE
      /\ w.ealm = r.ealm /\ w.wake = r.wake \cup {"ALM"}
  BY <1>4 DEF RtcRecords, Clock!Causes
<1> HIDE DEF w
<1>6. l = IF ~Clock!AlarmDue(s, t) THEN s ELSE IF s.pd /\ s.ealm THEN w ELSE a
  BY DEF Clock!Latched, Clock!LatchAlarm, s, a, w
<1> HIDE DEF l
<1>7. r.alarmSeen \in BOOLEAN  BY DEF RtcRecords
<1>8. CASE ~Clock!AlarmDue(r, t)
  <2>1. l = s  BY <1>3, <1>6, <1>8
  <2> QED BY <1>2, <1>7, <1>8, <2>1 DEF LatchesAs, l
<1>9. CASE Clock!AlarmDue(r, t) /\ r.pd /\ r.ealm
  <2>1. l = w  BY <1>2, <1>3, <1>6, <1>9
  <2> QED BY <1>2, <1>5, <1>9, <2>1 DEF LatchesAs, l
<1>10. CASE Clock!AlarmDue(r, t) /\ ~(r.pd /\ r.ealm)
  <2>1. l = a  BY <1>2, <1>3, <1>6, <1>10
  <2> QED BY <1>2, <1>4, <1>10, <2>1 DEF LatchesAs, l
<1> QED BY <1>8, <1>9, <1>10

LEMMA RtcUpdatesAs ==
  ASSUME NEW r \in RtcRecords, now \in 0 .. MaxNow, r.baseTime <= now, Clock!Settle(r)
  PROVE  LatchesAs(r, rtc', now)
<1> DEFINE k == Clock!Latched(r, now)
           b == Clock!Raises(k)
<1>1. rtc' = [k EXCEPT !.irq = b] /\ b \in BOOLEAN
  BY DEF Clock!Settle, Clock!UpdateIrq, Clock!Raises
<1>2. LatchesAs(r, k, now)
  BY RtcLatchesAs
<1> HIDE DEF k, b
<1>3. k \in RtcRecords  BY <1>2 DEF LatchesAs
<1>4. /\ rtc' \in RtcRecords /\ rtc'.base = k.base /\ rtc'.baseTime = k.baseTime
      /\ rtc'.alarm = k.alarm /\ rtc'.ealm = k.ealm /\ rtc'.control = k.control
      /\ rtc'.alarmSeen = k.alarmSeen /\ rtc'.pd = k.pd /\ rtc'.wake = k.wake
  BY <1>1, <1>3 DEF RtcRecords
<1> QED BY <1>2, <1>4 DEF LatchesAs

(* A sleeping clock wakes by its alarm or a reset, and stays as it was.            *)
LEMMA RtcSleeps ==
  ASSUME RtcInv, Clock!Next \/ UNCHANGED rtcVars PROVE Clock!SleepHolds
<1>1. /\ rtc \in RtcRecords /\ rtc.baseTime <= now /\ now \in 0 .. MaxNow
      /\ rtc.pd \in BOOLEAN
  BY DEF RtcInv, Clock!TypeOK, RtcRecords
<1>2. ASSUME Clock!Settle(rtc), machine' = machine PROVE Clock!SleepHolds
  <2>1. LatchesAs(rtc, rtc', now)  BY <1>1, <1>2, RtcUpdatesAs
  <2> QED BY <1>2, <2>1 DEF LatchesAs, Clock!SleepHolds, Clock!Sleeping
<1>3. ASSUME ~rtc.pd, machine' = machine PROVE Clock!SleepHolds
  BY <1>3 DEF Clock!SleepHolds, Clock!Sleeping
<1>4. ASSUME NEW r, Clock!Write(r) PROVE Clock!SleepHolds
  BY <1>2, <1>3, <1>4 DEF Clock!Write
<1>5. ASSUME NEW v, Clock!WriteControl(v) PROVE Clock!SleepHolds
  <2> DEFINE r == Clock!Latched(rtc, now)
             asleep == Clock!ControlledAsleep(r, v)
             awake == Clock!Controlled(r, v, now)
  <2>1. LatchesAs(rtc, r, now)  BY <1>1, RtcLatchesAs
  <2>2. /\ Clock!Settle(IF r.pd THEN asleep ELSE awake)
        /\ machine' = machine
    BY <1>5 DEF Clock!WriteControl
  <2> HIDE DEF r
  <2>3. r \in RtcRecords /\ r.baseTime <= now /\ r.pd \in BOOLEAN
    BY <1>1, <2>1 DEF LatchesAs, RtcRecords
  <2>4. CASE rtc.pd /\ r.pd
    <3>1. /\ asleep \in RtcRecords /\ asleep.base = r.base /\ asleep.baseTime = r.baseTime
          /\ asleep.alarm = r.alarm /\ asleep.ealm = r.ealm /\ asleep.pd = r.pd
          /\ asleep.alarmSeen = r.alarmSeen
          /\ asleep.control \ {"1HZ", "1HZIE"} = r.control \ {"1HZ", "1HZIE"}
      BY <2>3 DEF Clock!ControlledAsleep, RtcRecords, Clock!Control
    <3> HIDE DEF asleep
    <3>2. Clock!Settle(asleep)  BY <2>2, <2>4 DEF Clock!Settle
    <3>3. LatchesAs(asleep, rtc', now)
      BY <1>1, <2>3, <3>1, <3>2, RtcUpdatesAs
    <3>4. ~Clock!AlarmDue(asleep, now) \/ ~asleep.ealm
      <4>1. /\ "RTCE" \in asleep.control <=> "RTCE" \in rtc.control
            /\ "AE" \in asleep.control <=> "AE" \in rtc.control
        BY <2>1, <3>1 DEF LatchesAs
      <4>2. Clock!Seconds(asleep, now) = Clock!Seconds(rtc, now)
        BY <2>1, <3>1, <4>1 DEF LatchesAs, Clock!Seconds
      <4>3. asleep.alarm = rtc.alarm /\ asleep.alarmSeen = (rtc.alarmSeen \/ Clock!AlarmDue(rtc, now))
        BY <2>1, <3>1 DEF LatchesAs
      <4> QED BY <4>1, <4>2, <4>3 DEF Clock!AlarmDue
    <3>5. rtc'.pd /\ rtc'.base = rtc.base /\ rtc'.alarm = rtc.alarm
      BY <2>1, <2>4, <3>1, <3>3, <3>4 DEF LatchesAs
    <3>6. rtc'.control \ {"1HZ", "1HZIE", "AF"} = rtc.control \ {"1HZ", "1HZIE", "AF"}
      BY <2>1, <3>1, <3>3 DEF LatchesAs
    <3> QED BY <2>2, <3>5, <3>6 DEF Clock!SleepHolds, Clock!Sleeping
  <2>5. CASE rtc.pd /\ ~r.pd
    <3> DEFINE c == (r.control \cap {"1HZ", "AF"} \cap v) \cup (v \cap Clock!Enables)
    <3>1. c \subseteq Clock!Control
      BY DEF Clock!Enables, Clock!Control
    <3>2. awake = IF "RTCE" \notin r.control /\ "RTCE" \in c
                  THEN [r EXCEPT !.control = c, !.baseTime = now, !.secondSeen = r.base]
                  ELSE [r EXCEPT !.control = c]
      BY DEF Clock!Controlled
    <3>3. Clock!Settle(awake)  BY <2>2, <2>5 DEF Clock!Settle
    <3>4. now <= now  BY <1>1, RtcConstant DEF RtcConstants
    <3> HIDE DEF c, awake
    <3>5. awake \in RtcRecords /\ awake.baseTime <= now /\ awake.pd = r.pd /\ awake.wake = r.wake
      BY <1>1, <2>3, <3>1, <3>2, <3>4 DEF RtcRecords
    <3>6. LatchesAs(awake, rtc', now)  BY <1>1, <3>3, <3>5, RtcUpdatesAs
    <3>7. ~rtc'.pd /\ rtc'.wake = r.wake  BY <2>5, <3>5, <3>6 DEF LatchesAs
    <3>8. rtc.ealm /\ Clock!AlarmDue(rtc, now) /\ "ALM" \in r.wake
      BY <2>1, <2>5 DEF LatchesAs
    <3> QED BY <2>2, <3>7, <3>8 DEF Clock!SleepHolds, Clock!Sleeping
  <2> QED BY <1>1, <1>3, <2>2, <2>3, <2>4, <2>5
<1>6. ASSUME NEW b \in BOOLEAN, NEW poweroff \in BOOLEAN, Clock!WriteHibernate(b, poweroff)
      PROVE  Clock!SleepHolds
  <2> DEFINE r == [rtc EXCEPT !.pd = TRUE, !.wake = @ \ {"ALM", "PIN"}]
  <2>1. CASE b /\ ~rtc.pd
    <3>1. Clock!Settle(r)  BY <1>6, <2>1 DEF Clock!WriteHibernate
    <3>2. /\ r \in RtcRecords /\ r.baseTime <= now /\ r.pd = TRUE /\ r.ealm = rtc.ealm
          /\ r.control = rtc.control /\ r.base = rtc.base /\ r.baseTime = rtc.baseTime
          /\ r.alarm = rtc.alarm /\ r.alarmSeen = rtc.alarmSeen
      BY <1>1 DEF RtcRecords
    <3> HIDE DEF r
    <3>3. Clock!AlarmDue(r, now) <=> Clock!AlarmDue(rtc, now)
      BY <3>2 DEF Clock!AlarmDue, Clock!Seconds
    <3>4. LatchesAs(r, rtc', now)  BY <1>1, <3>1, <3>2, RtcUpdatesAs
    <3>5. rtc'.pd \/ (rtc.ealm /\ Clock!AlarmDue(rtc, now))
      BY <3>2, <3>3, <3>4 DEF LatchesAs
    <3> QED BY <2>1, <3>5 DEF Clock!SleepHolds, Clock!Sleeping
  <2>2. CASE ~(b /\ ~rtc.pd)
    BY <1>4, <1>6, <2>2 DEF Clock!WriteHibernate
  <2> QED BY <2>1, <2>2
<1>7. CASE Clock!Tick \/ UNCHANGED rtcVars
  <2>1. rtc' = rtc /\ machine' = machine
    BY <1>7 DEF Clock!Tick, rtcVars
  <2> QED BY <2>1 DEF Clock!SleepHolds, Clock!Sleeping
<1>8. ASSUME NEW wakeup \in BOOLEAN, Clock!Reset(wakeup) PROVE Clock!SleepHolds
  <2>1. /\ rtc'.pd = FALSE /\ machine' = "on"
        /\ rtc'.wake \in {{"PPR"}, {"HR", "PIN"}}
    BY <1>8 DEF Clock!Reset, Clock!ResetRegisters
  <2> QED BY <2>1 DEF Clock!SleepHolds, Clock!Sleeping
<1>9. ASSUME Clock!Read \/ Clock!Timer PROVE Clock!SleepHolds
  BY <1>2, <1>9 DEF Clock!Read, Clock!Timer
<1>10. CASE Clock!Exit
  <2>1. rtc' = rtc /\ machine = "ending"  BY <1>10 DEF Clock!Exit
  <2> QED BY <2>1 DEF Clock!SleepHolds, Clock!Sleeping
<1>11. QED
  BY <1>4, <1>5, <1>6, <1>7, <1>8, <1>9, <1>10
  DEF Clock!Next, Clock!Guest, Clock!WriteSeconds, Clock!WriteAlarm, Clock!WriteWakeEnable,
      Clock!WriteWakeStatus

----------------------------------------------------------------------------
(* The boot ROM.  A stage is as long as the set of pages that are marked, which    *)
(* lie in the image if they could be corrected.                                  *)
BootInv ==
  /\ Boot!TypeOK /\ Boot!StageSound /\ image \in Images
  /\ board = Boot!Down \/ board.up

LEMMA BootStarts == ASSUME Boot!Init PROVE BootInv
<1>1. ram \in Seq(ChipPages \X Boot!Conditions)
  BY DEF Boot!Init, Boot!Empty
<1> QED BY <1>1 DEF Boot!Init, Boot!Down, BootInv, Boot!TypeOK, Boot!StageSound, Boot!PageStates

LEMMA MarkedPages ==
  ASSUME image \in Images, NEW first \in Nat, ~Boot!CopyFails(first)
  PROVE  /\ Cardinality(Boot!Marked(first)) \in 1 .. StageSize
         /\ \A i \in 1 .. Cardinality(Boot!Marked(first)) :
              first + i - 1 \in ChipPages /\ first + i - 1 < image.pages
<1> DEFINE M == Boot!Marked(first)
           last == IF first + StageSize <= image.pages THEN first + StageSize - 1 ELSE image.pages - 1
<1>1. M # {} /\ \A p \in M : p \in Nat /\ p >= first /\ p <= first + StageSize - 1
  BY BootAssumption DEF Boot!CopyFails, Boot!Marked, Boot!Area
<1>2. image.pages \in Nat /\ \A p \in 0 .. image.pages - 1 : p \in ChipPages
  BY BootAssumption
<1>3. \A p \in M : p < image.pages
  BY DEF Boot!CopyFails, Boot!Corrects
<1> HIDE DEF M
<1>4. StageSize \in Nat  BY BootAssumption
<1>5. M \subseteq first .. last /\ last \in Int /\ first <= last
  BY <1>1, <1>2, <1>3, <1>4
<1>6. last - first + 1 <= StageSize /\ last < image.pages
  BY <1>2, <1>4
<1> HIDE DEF last
<1>7. IsFiniteSet(first .. last) /\ Cardinality(first .. last) = last - first + 1
  BY <1>5, FS_Interval
<1>8. IsFiniteSet(M) /\ Cardinality(M) <= last - first + 1
  BY <1>5, <1>7, FS_Subset
<1>9. Cardinality(M) \in Nat /\ Cardinality(M) # 0
  BY <1>1, <1>8, FS_CardinalityType, FS_EmptySet
<1>10. Cardinality(M) \in 1 .. StageSize
  BY <1>4, <1>5, <1>6, <1>8, <1>9
<1>11. ASSUME NEW i \in 1 .. Cardinality(M)
       PROVE  first + i - 1 \in ChipPages /\ first + i - 1 < image.pages
  <2>1. first + i - 1 <= last  BY <1>5, <1>8, <1>9
  <2> QED BY <2>1, <1>2, <1>5, <1>6, <1>9
<1> QED BY <1>10, <1>11 DEF M

LEMMA CopiedPages ==
  ASSUME image \in Images, NEW first \in Nat, ~Boot!CopyFails(first)
  PROVE  /\ Boot!Copied(first) \in Seq(ChipPages \X Boot!Conditions)
         /\ Len(Boot!Copied(first)) = Cardinality(Boot!Marked(first))
         /\ Len(Boot!Copied(first)) \in 1 .. StageSize
         /\ \A i \in 1 .. Len(Boot!Copied(first)) :
              Boot!Copied(first)[i] = <<first + i - 1, "right">>
<1> DEFINE n == Cardinality(Boot!Marked(first))
           c == [i \in 1 .. n |-> <<first + i - 1, "right">>]
<1>1. n \in 1 .. StageSize /\ \A i \in 1 .. n : first + i - 1 \in ChipPages
  BY MarkedPages
<1>2. n \in Nat  BY <1>1, BootAssumption
<1>3. Boot!Copied(first) = c  BY DEF Boot!Copied, Boot!Cardinality, Cardinality, Boot!IsFiniteSet, IsFiniteSet
<1> HIDE DEF n
<1>4. \A i \in 1 .. n : c[i] \in ChipPages \X Boot!Conditions
  BY <1>1 DEF Boot!Conditions
<1>5. c \in [1 .. n -> ChipPages \X Boot!Conditions]  BY <1>4
<1>6. c \in Seq(ChipPages \X Boot!Conditions) /\ Len(c) = n
  BY <1>2, <1>5
<1> QED BY <1>1, <1>3, <1>6 DEF n

LEMMA DownKeeps ==
  ASSUME board' = Boot!Down, UNCHANGED <<nand, image>>, touched' \in BOOLEAN,
         ram' \in Seq(ChipPages \X Boot!Conditions), Boot!TypeOK, image \in Images
  PROVE  BootInv'
<1>1. board'.area = "none" /\ board'.pc = "default" /\ board'.up = FALSE
  BY DEF Boot!Down
<1>2. Boot!TypeOK'  BY <1>1 DEF Boot!TypeOK
<1>3. Boot!StageSound'  BY <1>1 DEF Boot!StageSound
<1>4. Boot!Down' = Boot!Down  BY DEF Boot!Down
<1> QED BY <1>2, <1>3, <1>4 DEF BootInv

LEMMA BootSteps == ASSUME BootInv, Boot!Next \/ UNCHANGED bootVars PROVE BootInv'
<1>0. image \in Images /\ Boot!TypeOK /\ Boot!StageSound /\ (board = Boot!Down \/ board.up)
  BY DEF BootInv
<1>1. ASSUME NEW f \in Firmwares, Boot!StartBootRom(f)  PROVE BootInv'
  <2>1. ASSUME NEW first \in {0, Backup}, NEW area \in {"normal", "backup"},
               first = (IF area = "normal" THEN 0 ELSE Backup),
               Boot!LoadFirstStage(first, area, f), UNCHANGED <<nand, image>>, touched' = FALSE
        PROVE  BootInv'
    <3>1. first \in Nat  BY <2>1, BootAssumption
    <3>2. ram' = Boot!Copied(first) /\ ~Boot!CopyFails(first)
      BY <2>1 DEF Boot!LoadFirstStage, Boot!Loads
    <3>3. /\ ram' \in Seq(ChipPages \X Boot!Conditions) /\ Len(ram') \in 1 .. StageSize
          /\ \A i \in 1 .. Len(ram') : ram'[i] = <<first + i - 1, "right">>
      BY <1>0, <3>1, <3>2, CopiedPages
    <3>4. board' = [up |-> TRUE, area |-> area, pc |-> Boot!EntryPc(f)]
      BY <2>1 DEF Boot!LoadFirstStage
    <3>5. Boot!EntryPc(f) \in {"default", "entry"}  BY DEF Boot!EntryPc
    <3>6. board'.area = area /\ board'.up = TRUE /\ board'.pc \in {"default", "entry"}
      BY <3>4, <3>5
    <3>7. first = IF area = "normal" THEN 0 ELSE Backup  BY <2>1
    <3>8. Boot!StageSound'
      BY <3>3, <3>6, <3>7 DEF Boot!StageSound
    <3>9. Boot!TypeOK'
      BY <1>0, <2>1, <3>3, <3>6 DEF Boot!TypeOK
    <3> QED BY <1>0, <2>1, <3>6, <3>8, <3>9 DEF BootInv
  <2>2. CASE board' = Boot!Down /\ ram' = Boot!Empty
    <3>1. ram' \in Seq(ChipPages \X Boot!Conditions)  BY <2>2 DEF Boot!Empty
    <3>2. UNCHANGED <<nand, image>> /\ touched' = FALSE  BY <1>1 DEF Boot!StartBootRom
    <3> QED BY <1>0, <2>2, <3>1, <3>2, DownKeeps
  <2>3. CASE Boot!LoadFirstStage(0, "normal", f)
    <3>1. UNCHANGED <<nand, image>> /\ touched' = FALSE  BY <1>1 DEF Boot!StartBootRom
    <3> QED BY <2>1, <2>3, <3>1
  <2>4. CASE Boot!LoadFirstStage(Backup, "backup", f)
    <3>1. UNCHANGED <<nand, image>> /\ touched' = FALSE  BY <1>1 DEF Boot!StartBootRom
    <3> QED BY <2>1, <2>4, <3>1
  <2> QED BY <1>1, <2>2, <2>3, <2>4 DEF Boot!StartBootRom
<1>2. ASSUME NEW p \in ChipPages, NEW n \in 1 .. StageSize + 1, Boot!StartRaw(p, n)
      PROVE  BootInv'
  <2>1. p \in Nat /\ n \in Nat /\ image.pages \in Nat
    BY <1>0, BootAssumption
  <2>2. CASE p + n > image.pages
    <3>1. board' = Boot!Down /\ UNCHANGED <<ram, nand, image>> /\ touched' = FALSE
      BY <1>2, <2>2 DEF Boot!StartRaw, Boot!LoadRaw
    <3>2. ram' \in Seq(ChipPages \X Boot!Conditions)  BY <1>0, <3>1 DEF Boot!TypeOK
    <3> QED BY <1>0, <3>1, <3>2, DownKeeps
  <2>3. CASE p + n <= image.pages
    <3> DEFINE c == [i \in 1 .. n |-> <<p + i - 1, nand[p + i - 1].data>>]
    <3>1. /\ ram' = c /\ board' = [up |-> TRUE, area |-> "raw", pc |-> "default"]
          /\ touched' = FALSE /\ UNCHANGED <<nand, image>>
      BY <1>2, <2>1, <2>3 DEF Boot!StartRaw, Boot!LoadRaw
    <3>2. ASSUME NEW i \in 1 .. n PROVE c[i] \in ChipPages \X Boot!Conditions
      <4>1. p + i - 1 \in 0 .. image.pages - 1  BY <2>1, <2>3
      <4>2. p + i - 1 \in ChipPages  BY <1>0, <4>1, BootAssumption
      <4>3. nand[p + i - 1].data \in Boot!Conditions
        BY <1>0, <4>2 DEF Boot!TypeOK, Boot!PageStates
      <4> QED BY <4>2, <4>3
    <3>3. c \in [1 .. n -> ChipPages \X Boot!Conditions]  BY <3>2
    <3>4. c \in Seq(ChipPages \X Boot!Conditions)  BY <2>1, <3>3
    <3> HIDE DEF c
    <3> QED BY <1>0, <3>1, <3>4 DEF BootInv, Boot!TypeOK, Boot!StageSound
  <2> QED BY <2>1, <2>2, <2>3
<1>3. CASE Boot!StartKernel \/ Boot!WriteRam \/ Boot!Quit
  <2>1. ram' = <<>> /\ UNCHANGED <<nand, image>> /\ touched' \in BOOLEAN
    BY <1>0, <1>3 DEF Boot!StartKernel, Boot!WriteRam, Boot!Quit, Boot!Empty, Boot!TypeOK
  <2>2. ram' \in Seq(ChipPages \X Boot!Conditions)  BY <2>1
  <2>3. CASE Boot!StartKernel
    BY <1>0, <2>1, <2>2, <2>3 DEF Boot!StartKernel, BootInv, Boot!TypeOK, Boot!StageSound
  <2>4. CASE Boot!WriteRam
    BY <1>0, <2>1, <2>2, <2>4 DEF Boot!WriteRam, BootInv, Boot!TypeOK, Boot!StageSound
  <2>5. CASE Boot!Quit
    BY <1>0, <2>1, <2>2, <2>5, DownKeeps DEF Boot!Quit
  <2> QED BY <1>3, <2>3, <2>4, <2>5
<1>4. ASSUME NEW p \in ChipPages, NEW s \in Boot!PageStates, Boot!WritePage(p, s)
      PROVE  BootInv'
  BY <1>0, <1>4 DEF Boot!WritePage, BootInv, Boot!TypeOK, Boot!StageSound
<1>5. CASE Boot!Reset \/ UNCHANGED bootVars
  BY <1>0, <1>5 DEF Boot!Reset, Boot!vars, bootVars, BootInv, Boot!TypeOK, Boot!StageSound
<1>6. {[mark |-> TRUE, data |-> "right"], [mark |-> FALSE, data |-> "erased"]}
        \subseteq Boot!PageStates
  BY DEF Boot!PageStates, Boot!Conditions
<1> QED BY <1>1, <1>2, <1>3, <1>4, <1>5, <1>6 DEF Boot!Next

----------------------------------------------------------------------------
(* The recorder.  The input queue first: a position is a remainder.               *)
QueueInv ==
  /\ queue = [read |-> queue.read, write |-> queue.write, count |-> queue.count,
              events |-> queue.events, total |-> queue.total]
  /\ queue.read \in 0 .. Inputs - 1 /\ queue.count \in 0 .. Inputs /\ queue.total \in Nat
  /\ queue.events = [i \in 0 .. Inputs - 1 |-> queue.events[i]]
  /\ Recorder!QueueKept

LEMMA RemainderOf ==
  ASSUME NEW n \in Nat \ {0}, NEW x \in Nat, x < n + n
  PROVE  x % n = IF x < n THEN x ELSE x - n
<1>1. CASE x < n
  <2>1. x \in 0 .. n - 1  BY <1>1
  <2> QED BY <2>1, SMTT(30)
<1>2. CASE x >= n
  <2>1. x - n \in 0 .. n - 1 /\ x = n * 1 + (x - n)  BY <1>2
  <2>2. x % n = x - n  BY <2>1, SMTT(30)
  <2> QED BY <1>2, <2>2
<1> QED BY <1>1, <1>2

LEMMA SmallerOf ==
  ASSUME NEW a \in Nat, NEW b \in Nat
  PROVE  Recorder!Min({a, b}) = IF a <= b THEN a ELSE b
BY DEF Recorder!Min

LEMMA QueueStarts == ASSUME queue = Recorder!EmptyQueue PROVE QueueInv
<1>1. Inputs \in Nat \ {0}  BY DiagAssumption
<1>2. Recorder!Min({0, Inputs}) = 0  BY <1>1, SmallerOf
<1>3. 0 % Inputs = 0  BY <1>1, RemainderOf
<1> QED BY <1>1, <1>2, <1>3 DEF Recorder!EmptyQueue, QueueInv, Recorder!QueueKept

(* A full ring gives up its oldest place, another fills the next.                 *)
RingMoves(n, first, count, next, first1, count1) ==
  /\ next \in 0 .. n - 1 /\ first1 \in 0 .. n - 1 /\ count1 \in 1 .. n
  /\ (next + 1) % n = (first1 + count1) % n
  /\ \A i \in 0 .. count1 - 1 :
       IF i = count1 - 1 THEN (first1 + i) % n = next
       ELSE LET j == IF count = n THEN i + 1 ELSE i
            IN  /\ j \in 0 .. count - 1 /\ (first1 + i) % n = (first + j) % n
                /\ (first + j) % n # next /\ (first + j) % n \in 0 .. n - 1

LEMMA RingTakes ==
  ASSUME NEW n \in Nat \ {0}, NEW first \in 0 .. n - 1, NEW count \in 0 .. n
  PROVE  RingMoves(n, first, count, (first + count) % n,
                   IF count = n THEN (first + 1) % n ELSE first,
                   IF count = n THEN n ELSE count + 1)
<1> DEFINE next == (first + count) % n
           first1 == IF count = n THEN (first + 1) % n ELSE first
           count1 == IF count = n THEN n ELSE count + 1
<1> DEFINE Fold(x) == IF x < n THEN x ELSE x - n
<1>1. first \in Nat /\ first < n /\ count \in Nat /\ count <= n /\ n > 0
  OBVIOUS
<1>2. first + count \in Nat /\ first + count < n + n
  BY <1>1
<1>3. next = Fold(first + count)
  BY <1>2, RemainderOf
<1>4. next \in Nat /\ next < n
  BY <1>1, <1>3
<1>5. (next + 1) % n = Fold(next + 1)
  <2>1. next + 1 \in Nat /\ next + 1 < n + n  BY <1>1, <1>4
  <2> QED BY <2>1, RemainderOf
<1>6. first1 = IF count = n THEN Fold(first + 1) ELSE first
  <2>1. first + 1 \in Nat /\ first + 1 < n + n  BY <1>1
  <2>2. (first + 1) % n = Fold(first + 1)  BY <2>1, RemainderOf
  <2> QED BY <2>2
<1>7. first1 \in Nat /\ first1 < n
  BY <1>1, <1>6
<1>8. count1 \in Nat /\ count1 <= n /\ count1 > 0 /\ count1 = IF count = n THEN n ELSE count + 1
  BY <1>1
<1> HIDE DEF next, first1, count1
<1>9. (first1 + count1) % n = Fold(first1 + count1)
  <2>1. first1 + count1 \in Nat /\ first1 + count1 < n + n  BY <1>1, <1>7, <1>8
  <2> QED BY <2>1, RemainderOf
<1>10. Fold(next + 1) = Fold(first1 + count1)
  BY <1>1, <1>3, <1>4, <1>6, <1>7, <1>8
<1>11. ASSUME NEW i \in 0 .. count1 - 1
       PROVE  IF i = count1 - 1 THEN (first1 + i) % n = next
              ELSE LET j == IF count = n THEN i + 1 ELSE i
                   IN  /\ j \in 0 .. count - 1 /\ (first1 + i) % n = (first + j) % n
                       /\ (first + j) % n # next /\ (first + j) % n \in 0 .. n - 1
  <2>1. i \in Nat /\ i < count1 /\ first1 + i \in Nat /\ first1 + i < n + n
    BY <1>7, <1>8
  <2>2. (first1 + i) % n = Fold(first1 + i)  BY <2>1, RemainderOf
  <2>3. CASE i = count1 - 1
    <3>1. Fold(first1 + i) = next  BY <1>1, <1>3, <1>6, <1>7, <1>8, <2>1, <2>3
    <3> QED BY <2>2, <2>3, <3>1
  <2>4. CASE i # count1 - 1
    <3> DEFINE j == IF count = n THEN i + 1 ELSE i
    <3>1. j \in Nat /\ j < count /\ first + j \in Nat /\ first + j < n + n
      BY <1>1, <1>8, <2>1, <2>4
    <3>2. (first + j) % n = Fold(first + j)  BY <3>1, RemainderOf
    <3>3. Fold(first1 + i) = Fold(first + j)
      BY <1>1, <1>6, <1>8, <2>1, <2>4
    <3>4. Fold(first + j) # next /\ Fold(first + j) \in 0 .. n - 1
      BY <1>1, <1>3, <3>1
    <3> HIDE DEF j
    <3>5. j \in 0 .. count - 1  BY <1>1, <3>1
    <3>6. /\ (first1 + i) % n = (first + j) % n
          /\ (first + j) % n # next /\ (first + j) % n \in 0 .. n - 1
      BY <2>2, <3>2, <3>3, <3>4
    <3> QED BY <2>4, <3>5, <3>6 DEF j
  <2> QED BY <2>3, <2>4
<1>12. /\ next \in 0 .. n - 1 /\ first1 \in 0 .. n - 1 /\ count1 \in 1 .. n
       /\ (next + 1) % n = (first1 + count1) % n
  BY <1>1, <1>4, <1>5, <1>7, <1>8, <1>9, <1>10
<1>13. RingMoves(n, first, count, next, first1, count1)
  BY <1>11, <1>12 DEF RingMoves
<1> QED BY <1>13 DEF next, first1, count1

LEMMA QueueTakes == ASSUME QueueInv, queue' = Recorder!Queued(queue) PROVE QueueInv'
<1> DEFINE n == Inputs
           first == queue.read
           count == queue.count
           next == queue.write
           total == queue.total
           first1 == queue'.read
           count1 == queue'.count
<1>1. n \in Nat \ {0}  BY DiagAssumption
<1>2. /\ first \in 0 .. n - 1 /\ count \in 0 .. n /\ total \in Nat
      /\ count = (IF total <= n THEN total ELSE n)
      /\ queue.events = [i \in 0 .. n - 1 |-> queue.events[i]]
  BY <1>1, SmallerOf DEF QueueInv, Recorder!QueueKept
<1>3. next = (first + count) % n
  BY DEF QueueInv, Recorder!QueueKept
<1>4. ASSUME NEW i \in 0 .. count - 1
      PROVE  queue.events[(first + i) % n] = total - count + 1 + i
  BY DEF QueueInv, Recorder!QueueKept
<1>5. /\ first1 = (IF count = n THEN (first + 1) % n ELSE first)
      /\ count1 = (IF count = n THEN n ELSE count + 1)
  BY DEF QueueInv, Recorder!Queued
<1>6. /\ queue'.write = (next + 1) % n /\ queue'.total = total + 1
      /\ queue'.events = [queue.events EXCEPT ![next] = total + 1]
      /\ queue' = [read |-> queue'.read, write |-> queue'.write, count |-> queue'.count,
                   events |-> queue'.events, total |-> queue'.total]
  BY DEF QueueInv, Recorder!Queued
<1> HIDE DEF n, first, count, next, first1, count1
<1>r. RingMoves(n, first, count, next, first1, count1)
  BY <1>1, <1>2, <1>3, <1>5, RingTakes
<1>7. /\ next \in 0 .. n - 1 /\ first1 \in 0 .. n - 1 /\ count1 \in 1 .. n
      /\ (next + 1) % n = (first1 + count1) % n
  BY <1>r DEF RingMoves
<1>8. /\ queue'.events = [i \in 0 .. n - 1 |-> queue'.events[i]]
      /\ \A i \in 0 .. n - 1 : queue'.events[i] = IF i = next THEN total + 1 ELSE queue.events[i]
  BY <1>2, <1>6, <1>7
<1> HIDE DEF total
<1>9. count1 = IF total + 1 <= n THEN total + 1 ELSE n
  BY <1>1, <1>2, <1>5
<1>10. ASSUME NEW i \in 0 .. count1 - 1
       PROVE  queue'.events[(first1 + i) % n] = (total + 1) - count1 + 1 + i
  <2>1. CASE i = count1 - 1
    <3>1. (first1 + i) % n = next  BY <1>r, <2>1 DEF RingMoves
    <3>2. queue'.events[next] = total + 1  BY <1>7, <1>8
    <3>3. total + 1 = (total + 1) - count1 + 1 + i  BY <1>1, <1>2, <1>7, <2>1
    <3> QED BY <3>1, <3>2, <3>3
  <2>2. CASE i # count1 - 1
    <3> DEFINE j == IF count = n THEN i + 1 ELSE i
    <3>1. /\ j \in 0 .. count - 1 /\ (first1 + i) % n = (first + j) % n
          /\ (first + j) % n # next /\ (first + j) % n \in 0 .. n - 1
      BY <1>r, <2>2 DEF RingMoves
    <3>2. total - count + 1 + j = (total + 1) - count1 + 1 + i
      <4>1. count1 = IF count = n THEN n ELSE count + 1  BY <1>5
      <4>2. total \in Nat /\ count \in Nat /\ n \in Nat /\ i \in Nat  BY <1>1, <1>2, <1>7
      <4> QED BY <4>1, <4>2
    <3> HIDE DEF j
    <3>3. queue.events[(first + j) % n] = total - count + 1 + j
      BY <1>4, <3>1
    <3> DEFINE p == (first + j) % n
    <3>4. queue'.events[p] = queue.events[p]  BY <1>8, <3>1
    <3> QED BY <3>1, <3>2, <3>3, <3>4
  <2> QED BY <2>1, <2>2
<1>11. Recorder!Min({total + 1, n}) = count1
  BY <1>1, <1>2, <1>9, SmallerOf
<1>12. /\ queue'.read = first1 /\ queue'.count = count1 /\ queue'.total = total + 1
       /\ queue'.write = (first1 + count1) % n
  BY <1>6, <1>7 DEF first1, count1, total
<1>13. /\ first1 \in 0 .. n - 1 /\ count1 \in 0 .. n /\ total + 1 \in Nat
  BY <1>1, <1>2, <1>7
<1>14. Recorder!QueueKept'
  BY <1>10, <1>11, <1>12 DEF Recorder!QueueKept, n
<1> QED BY <1>6, <1>8, <1>12, <1>13, <1>14 DEF QueueInv, n

----------------------------------------------------------------------------
(* The rings.  Slots do not meet, nor the header and a slot; the newest records     *)
(* of a ring have a slot each.                                                    *)
LEMMA Multiples ==
  ASSUME NEW a \in Nat, NEW b \in Nat, NEW w \in Nat, a < b
  PROVE  a * w + w <= b * w
<1> DEFINE d == b - a - 1
<1>1. d \in Nat /\ b = a + 1 + d  BY SMT
<1> HIDE DEF d
<1>2. b * w = a * w + w + d * w  BY <1>1, SMTT(30)
<1>3. d * w >= 0 /\ a * w \in Nat /\ d * w \in Nat  BY <1>1, SMTT(30)
<1> QED BY <1>2, <1>3

LEMMA SlotIn ==
  ASSUME NEW r \in Recorder!Rings, NEW n \in Nat \ {0}
  PROVE  Recorder!Slot(r, n) \in 0 .. Layout[r].slots - 1
<1>1. Layout[r].slots \in Nat \ {0} /\ n - 1 \in Nat  BY DiagAssumption DEF Recorder!Rings
<1> QED BY <1>1 DEF Recorder!Slot

LEMMA Divided ==
  ASSUME NEW x \in Nat, NEW n \in Nat \ {0}
  PROVE  x \div n \in Nat /\ x = n * (x \div n) + (x % n)
BY SMTT(30)

LEMMA SlotsApart ==
  ASSUME NEW r \in Recorder!Rings, NEW n \in Nat \ {0}, NEW k \in Nat, n < k,
         n + Layout[r].slots > k
  PROVE  Recorder!Slot(r, n) # Recorder!Slot(r, k)
<1> DEFINE s == Layout[r].slots
           a == (n - 1) \div s
           b == (k - 1) \div s
<1>1. s \in Nat \ {0} /\ n - 1 \in Nat /\ k - 1 \in Nat  BY DiagAssumption DEF Recorder!Rings
<1>2. SUFFICES ASSUME (n - 1) % s = (k - 1) % s PROVE FALSE
  BY DEF Recorder!Slot
<1>3. /\ a \in Nat /\ n - 1 = s * a + ((n - 1) % s)
      /\ b \in Nat /\ k - 1 = s * b + ((k - 1) % s)
  BY <1>1, Divided
<1>4. (n - 1) % s \in Int  BY <1>1, SMTT(30)
<1> HIDE DEF a, b, s
<1>5. s * a \in Int /\ s * b \in Int  BY <1>1, <1>3
<1>6. s * b - s * a = k - n  BY <1>2, <1>3, <1>4, <1>5
<1>7. k - n > 0 /\ k - n < s  BY <1>1 DEF s
<1>8. CASE b <= a
  <2>1. s * b <= s * a  BY <1>1, <1>3, <1>8, SMTT(30)
  <2> QED BY <1>5, <1>6, <1>7, <2>1
<1>9. CASE a < b
  <2>1. a * s + s <= b * s  BY <1>1, <1>3, <1>9, Multiples
  <2>2. a * s = s * a /\ b * s = s * b  BY <1>1, <1>3, SMTT(30)
  <2> QED BY <1>1, <1>5, <1>6, <1>7, <2>1, <2>2
<1> QED BY <1>3, <1>8, <1>9

LEMMA EntryIn ==
  ASSUME NEW r \in Recorder!Rings, NEW s \in 0 .. Layout[r].slots - 1
  PROVE  /\ Recorder!EntryWords(r, s) \subseteq Recorder!Area(r)
         /\ Recorder!EntryWords(r, s) \cap Recorder!Header(r) = {}
         /\ Recorder!Header(r) \subseteq Recorder!Area(r)
         /\ Layout[r].base \in Recorder!Header(r)
         /\ \A a \in Recorder!Area(r) : a \in Nat
<1> DEFINE w == Layout[r].words
           h == Layout[r].header
           b == Layout[r].base
           n == Layout[r].slots
<1>1. w \in Nat /\ b \in Nat /\ h \in Nat \ {0} /\ n \in Nat \ {0} /\ s \in Nat /\ s < n
  BY DiagAssumption DEF Recorder!Rings
<1> DEFINE x == Recorder!Entry(r, s)
           y == Recorder!Entry(r, n)
<1>2. /\ Recorder!EntryWords(r, s) = x .. x + w - 1
      /\ Recorder!Area(r) = b .. y - 1
      /\ Recorder!Header(r) = b .. b + h - 1
  BY DEF Recorder!EntryWords, Recorder!Area, Recorder!Header
<1>3. x = b + h + s * w /\ y = b + h + n * w
  BY DEF Recorder!Entry
<1> HIDE DEF w, h, b, n, x, y
<1>4. s * w + w <= n * w  BY <1>1, Multiples
<1>5. s * w \in Nat /\ n * w \in Nat  BY <1>1, SMTT(30)
<1>6. x \in Nat /\ y \in Nat /\ x >= b + h /\ x + w <= y
  BY <1>1, <1>3, <1>4, <1>5
<1> QED BY <1>1, <1>2, <1>6 DEF b

LEMMA EntriesApart ==
  ASSUME NEW r \in Recorder!Rings, NEW s \in 0 .. Layout[r].slots - 1,
         NEW t \in 0 .. Layout[r].slots - 1, s # t
  PROVE  Recorder!EntryWords(r, s) \cap Recorder!EntryWords(r, t) = {}
<1> DEFINE w == Layout[r].words
           e == Layout[r].base + Layout[r].header
<1>1. w \in Nat /\ e \in Nat /\ s \in Nat /\ t \in Nat
  BY DiagAssumption DEF Recorder!Rings
<1> DEFINE x == s * w
           y == t * w
<1>2. /\ Recorder!EntryWords(r, s) = e + x .. e + x + w - 1
      /\ Recorder!EntryWords(r, t) = e + y .. e + y + w - 1
  BY DEF Recorder!EntryWords, Recorder!Entry
<1>3. x \in Nat /\ y \in Nat  BY <1>1, SMTT(30)
<1>4. x + w <= y \/ y + w <= x
  <2>1. s < t => s * w + w <= t * w  BY <1>1, Multiples
  <2>2. t < s => t * w + w <= s * w  BY <1>1, Multiples
  <2>3. s < t \/ t < s  BY <1>1
  <2> QED BY <2>1, <2>2, <2>3
<1> HIDE DEF w, e, x, y
<1> QED BY <1>1, <1>2, <1>3, <1>4

(* What a ring of its own holds: the number, and the newest records but for the    *)
(* words of the last one that are still to come.                                  *)
Sound(r, k, m, torn) ==
  /\ m[Layout[r].base].n = k
  /\ \A n \in 1 .. k : n + Layout[r].slots > k =>
       \A a \in Recorder!EntryWords(r, Recorder!Slot(r, n)) :
         (n = k /\ a \in torn) \/ m[a] = Recorder!EntryOf(r, n)[a]

Isolated(r) == \A q \in Recorder!Rings : ~Recorder!Overlap(r, q)

LEMMA Elsewhere ==
  ASSUME NEW r \in Recorder!Rings, NEW k \in Nat, NEW m, NEW m1, NEW torn,
         \A a \in Recorder!Area(r) : m1[a] = m[a], Sound(r, k, m, torn)
  PROVE  Sound(r, k, m1, torn)
<1>1. 0 \in 0 .. Layout[r].slots - 1  BY DiagAssumption DEF Recorder!Rings
<1>2. Layout[r].base \in Recorder!Area(r)  BY <1>1, EntryIn
<1>3. ASSUME NEW n \in 1 .. k, NEW a \in Recorder!EntryWords(r, Recorder!Slot(r, n))
      PROVE  m1[a] = m[a]
  <2>1. Recorder!Slot(r, n) \in 0 .. Layout[r].slots - 1  BY SlotIn
  <2> QED BY <2>1, EntryIn
<1> QED BY <1>2, <1>3 DEF Sound

(* A record takes the slot of the oldest.                                         *)
LEMMA SoundTakes ==
  ASSUME NEW r \in Recorder!Rings, NEW k \in Nat, NEW m, NEW m1, NEW torn,
         Sound(r, k, m, {}), m1[Layout[r].base].n = k + 1,
         \A a \in Recorder!EntryWords(r, Recorder!Slot(r, k + 1)) :
           a \in torn \/ m1[a] = Recorder!EntryOf(r, k + 1)[a],
         \A s \in 0 .. Layout[r].slots - 1 : s # Recorder!Slot(r, k + 1) =>
           \A a \in Recorder!EntryWords(r, s) : m1[a] = m[a]
  PROVE  Sound(r, k + 1, m1, torn)
<1>1. ASSUME NEW n \in 1 .. k + 1, n + Layout[r].slots > k + 1,
             NEW a \in Recorder!EntryWords(r, Recorder!Slot(r, n))
      PROVE  (n = k + 1 /\ a \in torn) \/ m1[a] = Recorder!EntryOf(r, n)[a]
  <2>1. CASE n = k + 1  BY <2>1
  <2>2. CASE n # k + 1
    <3>1. n \in 1 .. k /\ n + Layout[r].slots > k /\ n < k + 1
      BY <1>1, <2>2, DiagAssumption DEF Recorder!Rings
    <3>2. m[a] = Recorder!EntryOf(r, n)[a]  BY <3>1 DEF Sound
    <3>3. Recorder!Slot(r, n) # Recorder!Slot(r, k + 1)
      BY <1>1, <3>1, SlotsApart
    <3>4. Recorder!Slot(r, n) \in 0 .. Layout[r].slots - 1  BY SlotIn
    <3> QED BY <3>2, <3>3, <3>4
  <2> QED BY <2>1, <2>2
<1> QED BY <1>1 DEF Sound

(* All the rings: those of their own hold their newest records, but for the words   *)
(* in `torn`, which the probe has still to write.                                 *)
Memory(m) ==
  m = [a \in Recorder!Addresses |-> m[a]] /\ \A a \in Recorder!Addresses : m[a].n \in Nat

RingsSound(seq, m, torn) ==
  /\ seq \in [Recorder!Rings -> Nat] /\ Memory(m)
  /\ \A r \in Recorder!Rings :
       Isolated(r) => Sound(r, seq[r], m, IF r = "probe" THEN torn ELSE {})

(* Writing the header and an entry, all of it or all but the words in `left`.        *)
Rewritten(r, n, m, left) ==
  [a \in Recorder!Addresses |->
     IF a \in Recorder!EntryWords(r, Recorder!Slot(r, n)) \ left
     THEN Recorder!EntryOf(r, n)[a]
     ELSE IF a \in Recorder!Header(r) THEN Recorder!HeaderOf(r, n)[a] ELSE m[a]]

Takes(r, n, m, m1, left) ==
  /\ Memory(m1)
  /\ \A q \in Recorder!Rings : q # r /\ Isolated(q) =>
       \A a \in Recorder!Area(q) : m1[a] = m[a]
  /\ \A k \in Nat : n = k + 1 /\ Sound(r, k, m, {}) => Sound(r, n, m1, left)

LEMMA RewrittenTakes ==
  ASSUME NEW r \in Recorder!Rings, NEW n \in Nat \ {0}, NEW m, NEW left, Memory(m)
  PROVE  Takes(r, n, m, Rewritten(r, n, m, left), left)
<1> DEFINE m1 == Rewritten(r, n, m, left)
<1> DEFINE s == Recorder!Slot(r, n)
           W == Recorder!EntryWords(r, s)
           H == Recorder!Header(r)
<1>1. s \in 0 .. Layout[r].slots - 1  BY SlotIn
<1>2. /\ W \subseteq Recorder!Area(r) /\ W \cap H = {} /\ H \subseteq Recorder!Area(r)
      /\ Layout[r].base \in H
  BY <1>1, EntryIn
<1>3. \A q \in Recorder!Rings : Recorder!Area(q) \subseteq Recorder!Addresses
  BY DEF Recorder!Addresses
<1>4. /\ \A a \in W : Recorder!EntryOf(r, n)[a].n = n
      /\ \A a \in H : Recorder!HeaderOf(r, n)[a].n = n
  BY DEF Recorder!EntryOf, Recorder!HeaderOf, Recorder!Word
<1>5. \A a \in Recorder!Addresses :
        m1[a] = IF a \in W \ left THEN Recorder!EntryOf(r, n)[a]
                ELSE IF a \in H THEN Recorder!HeaderOf(r, n)[a] ELSE m[a]
  BY DEF Rewritten
<1>6. m1 = [a \in Recorder!Addresses |-> m1[a]]
  BY DEF Rewritten
<1> HIDE DEF W, H, s, m1
<1>7. \A a \in Recorder!Addresses : m1[a].n \in Nat
  BY <1>4, <1>5 DEF Memory
<1>8. ASSUME NEW q \in Recorder!Rings, q # r, Isolated(q), NEW a \in Recorder!Area(q)
      PROVE  m1[a] = m[a]
  <2>1. a \notin Recorder!Area(r)  BY <1>8 DEF Isolated, Recorder!Overlap
  <2>2. a \in Recorder!Addresses  BY <1>3
  <2> QED BY <1>2, <1>5, <2>1, <2>2
<1>9. ASSUME NEW k \in Nat, n = k + 1, Sound(r, k, m, {}) PROVE Sound(r, n, m1, left)
  <2>1. m1[Layout[r].base].n = n
    BY <1>2, <1>3, <1>4, <1>5
  <2>2. \A a \in W : a \in left \/ m1[a] = Recorder!EntryOf(r, n)[a]
    BY <1>2, <1>3, <1>5
  <2>3. ASSUME NEW t \in 0 .. Layout[r].slots - 1, t # s,
               NEW a \in Recorder!EntryWords(r, t)
        PROVE  m1[a] = m[a]
    <3>1. a \notin W  BY <1>1, <2>3, EntriesApart DEF W
    <3>2. a \in Recorder!Area(r) /\ a \notin H  BY EntryIn DEF H
    <3> QED BY <1>3, <1>5, <3>1, <3>2
  <2> QED BY <1>9, <2>1, <2>2, <2>3, SoundTakes DEF W, s
<1>10. Takes(r, n, m, m1, left)
  BY <1>6, <1>7, <1>8, <1>9 DEF Takes, Memory
<1> QED BY <1>10 DEF m1

RecordState(s, torn, probes) ==
  /\ s = [on |-> s.on, seq |-> s.seq, mem |-> s.mem]
  /\ RingsSound(s.seq, s.mem, torn) /\ s.seq["probe"] = probes

LEMMA RecordWrites ==
  ASSUME NEW r \in Recorder!Rings, NEW n, NEW m, Memory(m)
  PROVE  Recorder!Over(Recorder!EntryOf(r, n), Recorder!Over(Recorder!HeaderOf(r, n), m))
           = Rewritten(r, n, m, {})
<1>1. /\ DOMAIN m = Recorder!Addresses
      /\ DOMAIN Recorder!EntryOf(r, n) = Recorder!EntryWords(r, Recorder!Slot(r, n))
      /\ DOMAIN Recorder!HeaderOf(r, n) = Recorder!Header(r)
  BY DEF Memory, Recorder!EntryOf, Recorder!HeaderOf
<1> DEFINE m0 == Recorder!Over(Recorder!HeaderOf(r, n), m)
<1>2. m0 = [a \in Recorder!Addresses |->
              IF a \in Recorder!Header(r) THEN Recorder!HeaderOf(r, n)[a] ELSE m[a]]
  BY <1>1 DEF Recorder!Over
<1>3. DOMAIN m0 = Recorder!Addresses  BY <1>2
<1> HIDE DEF m0
<1>4. Recorder!Over(Recorder!EntryOf(r, n), m0) =
        [a \in Recorder!Addresses |->
           IF a \in Recorder!EntryWords(r, Recorder!Slot(r, n))
           THEN Recorder!EntryOf(r, n)[a] ELSE m0[a]]
  BY <1>1, <1>3 DEF Recorder!Over
<1> QED BY <1>2, <1>4 DEF m0, Rewritten

LEMMA RecordKeeps ==
  ASSUME NEW s, NEW torn, NEW probes, NEW r \in Recorder!Rings \ {"probe"},
         RecordState(s, torn, probes)
  PROVE  RecordState(Recorder!Record(s, r), torn, probes)
<1> DEFINE t == Recorder!Record(s, r)
           n == s.seq[r] + 1
<1>1. CASE Recorder!Trace(r) \notin s.on
  <2>1. t = s  BY <1>1 DEF Recorder!Record
  <2> QED BY <2>1
<1>2. CASE Recorder!Trace(r) \in s.on
  <2>0. /\ s.seq \in [Recorder!Rings -> Nat] /\ s.seq["probe"] = probes
        /\ Memory(s.mem)
        /\ \A q \in Recorder!Rings :
             Isolated(q) => Sound(q, s.seq[q], s.mem, IF q = "probe" THEN torn ELSE {})
    BY DEF RecordState, RingsSound
  <2>1. n \in Nat \ {0} /\ s.seq[r] \in Nat  BY <2>0
  <2> DEFINE m1 == Recorder!Over(Recorder!EntryOf(r, n),
                                 Recorder!Over(Recorder!HeaderOf(r, n), s.mem))
             seq1 == [s.seq EXCEPT ![r] = n]
  <2>2. t = [on |-> s.on, seq |-> seq1, mem |-> m1]
    BY <1>2 DEF RecordState, Recorder!Record
  <2>3. t = [on |-> t.on, seq |-> t.seq, mem |-> t.mem] /\ t.seq = seq1 /\ t.mem = m1
    <3> HIDE DEF t, m1, seq1
    <3> QED BY <2>2
  <2>4. m1 = Rewritten(r, n, s.mem, {})  BY <2>0, RecordWrites
  <2> HIDE DEF m1, n, t
  <2>5. Takes(r, n, s.mem, m1, {})
    BY <2>0, <2>1, <2>4, RewrittenTakes
  <2>6. seq1 \in [Recorder!Rings -> Nat] /\ seq1[r] = n
        /\ \A q \in Recorder!Rings : q # r => seq1[q] = s.seq[q]
    BY <2>0, <2>1
  <2> HIDE DEF seq1
  <2>7. ASSUME NEW q \in Recorder!Rings, Isolated(q)
        PROVE  Sound(q, seq1[q], m1, IF q = "probe" THEN torn ELSE {})
    <3>1. CASE q = r
      <4>1. Sound(r, s.seq[r], s.mem, {})  BY <2>0, <2>7, <3>1
      <4>2. n = s.seq[r] + 1  BY DEF n
      <4> QED BY <2>1, <2>5, <2>6, <3>1, <4>1, <4>2 DEF Takes
    <3>2. CASE q # r
      <4>1. \A a \in Recorder!Area(q) : m1[a] = s.mem[a]  BY <2>5, <2>7, <3>2 DEF Takes
      <4>2. Sound(q, s.seq[q], s.mem, IF q = "probe" THEN torn ELSE {})  BY <2>0, <2>7
      <4>3. s.seq[q] \in Nat  BY <2>0
      <4> QED BY <2>6, <3>2, <4>1, <4>2, <4>3, Elsewhere
    <3> QED BY <3>1, <3>2
  <2>8. RingsSound(seq1, m1, torn)
    BY <2>5, <2>6, <2>7 DEF RingsSound, Takes
  <2>9. "probe" \in Recorder!Rings  BY DiagAssumption DEF Recorder!Rings
  <2> QED BY <2>0, <2>3, <2>6, <2>8, <2>9 DEF t, RecordState
<1> QED BY <1>1, <1>2

(* What the probe has still to write is of the record that it has counted.         *)
Left == {probing[i] : i \in 1 .. Len(probing)}

DiagInv ==
  /\ QueueInv
  /\ diag = [on |-> diag.on, probe |-> diag.probe, seq |-> diag.seq, lines |-> diag.lines]
  /\ diag.on \subseteq Recorder!Traces /\ diag.probe \in BOOLEAN /\ diag.lines \in 0 .. LineLimit
  /\ probing \in Seq(Recorder!Area("probe"))
  /\ Isolated("probe") /\ probing # <<>> =>
       /\ diag.seq["probe"] > 0
       /\ Left \subseteq
            Recorder!EntryWords("probe", Recorder!Slot("probe", diag.seq["probe"]))
  /\ RingsSound(diag.seq, mem, Left)

LEMMA DiagSound ==
  ASSUME DiagInv PROVE Recorder!TypeOK /\ Recorder!QueueKept /\ Recorder!NewestWhole
<1>1. Recorder!QueueKept  BY DEF DiagInv, QueueInv
<1>2. /\ diag.seq \in [Recorder!Rings -> Nat] /\ mem = [a \in Recorder!Addresses |-> mem[a]]
      /\ \A r \in Recorder!Rings :
           Isolated(r) => Sound(r, diag.seq[r], mem, IF r = "probe" THEN Left ELSE {})
  BY DEF DiagInv, RingsSound, Memory
<1>3. Recorder!TypeOK
  <2>1. DOMAIN mem = Recorder!Addresses  BY <1>2
  <2>2. \A i \in 1 .. Len(probing) : probing[i] \in Recorder!Area("probe")
    BY DEF DiagInv
  <2> QED BY <1>2, <2>1, <2>2 DEF DiagInv, Recorder!TypeOK
<1>4. ASSUME NEW r \in Recorder!Rings, \A q \in Recorder!Rings : ~Recorder!Overlap(r, q)
      PROVE  /\ diag.seq[r] > 0 => mem[Layout[r].base].n = diag.seq[r]
             /\ \A n \in 1 .. diag.seq[r] :
                  n + Layout[r].slots > diag.seq[r] =>
                    \/ Recorder!Whole(r, n)
                    \/ r = "probe" /\ ~Recorder!Quiet /\ n = diag.seq[r]
  <2> DEFINE torn == IF r = "probe" THEN Left ELSE {}
  <2>1. Sound(r, diag.seq[r], mem, torn)  BY <1>2, <1>4 DEF Isolated
  <2>2. ASSUME NEW n \in 1 .. diag.seq[r], n + Layout[r].slots > diag.seq[r],
               ~(r = "probe" /\ ~Recorder!Quiet /\ n = diag.seq[r])
        PROVE  Recorder!Whole(r, n)
    <3>1. n # diag.seq[r] \/ torn = {}
      BY <2>2 DEF Recorder!Quiet, Left
    <3> HIDE DEF torn
    <3> QED BY <2>1, <2>2, <3>1 DEF Sound, Recorder!Whole, Recorder!WholeIn
  <2> HIDE DEF torn
  <2> QED BY <2>1, <2>2 DEF Sound
<1> QED BY <1>1, <1>3, <1>4 DEF Recorder!NewestWhole

LEMMA DiagStarts == ASSUME Recorder!Init PROVE DiagInv
<1> DEFINE start(on) == [on |-> on, seq |-> [r \in Recorder!Rings |-> 0],
                         mem |-> [a \in Recorder!Addresses |-> Recorder!None]]
<1>1. PICK on \in AtStart :
        LET s == Recorder!Record(start(on), "touch")
        IN  /\ diag = [on |-> on, probe |-> "storage" \in on, seq |-> s.seq, lines |-> 0]
            /\ mem = s.mem
  BY DEF Recorder!Init
<1>2. on \subseteq Recorder!Traces /\ LineLimit \in Nat
      /\ {"probe", "touch"} \subseteq Recorder!Rings
  BY DiagAssumption DEF Recorder!Traces, Recorder!Rings
<1>3. queue = Recorder!EmptyQueue /\ probing = <<>>
  BY DEF Recorder!Init
<1>4. RecordState(start(on), {}, 0)
  <2> DEFINE m == [a \in Recorder!Addresses |-> Recorder!None]
             seq == [r \in Recorder!Rings |-> 0]
  <2>1. m = [a \in Recorder!Addresses |-> m[a]] /\ \A a \in Recorder!Addresses : m[a].n = 0
    BY DEF Recorder!None
  <2>2. ASSUME NEW r \in Recorder!Rings
        PROVE  Sound(r, 0, m, IF r = "probe" THEN {} ELSE {})
    <3>1. 0 \in 0 .. Layout[r].slots - 1  BY DiagAssumption DEF Recorder!Rings
    <3>2. Layout[r].base \in Recorder!Addresses  BY <3>1, EntryIn DEF Recorder!Addresses
    <3> QED BY <2>1, <3>2 DEF Sound
  <2> HIDE DEF m
  <2>3. RingsSound(seq, m, {})
    BY <2>1, <2>2 DEF RingsSound, Memory
  <2>4. start(on).seq = seq /\ start(on).mem = m /\ start(on).on = on  BY DEF m
  <2> QED BY <1>2, <2>3, <2>4 DEF RecordState
<1>5. RecordState(Recorder!Record(start(on), "touch"), {}, 0)
  <2> HIDE DEF start
  <2> QED BY <1>2, <1>4, RecordKeeps
<1> HIDE DEF start
<1>6. RingsSound(diag.seq, mem, {})
  BY <1>1, <1>5 DEF RecordState
<1>7. Left = {}  BY <1>3 DEF Left
<1>8. probing \in Seq(Recorder!Area("probe"))  BY <1>3
<1>9. QueueInv  BY <1>3, QueueStarts
<1> QED BY <1>1, <1>2, <1>3, <1>6, <1>7, <1>8, <1>9 DEF DiagInv

LEMMA BecomesKeeps ==
  ASSUME DiagInv, NEW s, RecordState(s, Left, diag.seq["probe"]),
         diag' = [diag EXCEPT !.seq = s.seq], mem' = s.mem, UNCHANGED <<queue, probing>>
  PROVE  DiagInv'
<1>1. /\ diag'.seq = s.seq /\ diag'.on = diag.on /\ diag'.probe = diag.probe
      /\ diag'.lines = diag.lines
      /\ diag' = [on |-> diag'.on, probe |-> diag'.probe, seq |-> diag'.seq,
                  lines |-> diag'.lines]
  BY DEF DiagInv
<1>2. Left' = Left  BY DEF Left
<1>3. RingsSound(diag.seq, mem, Left)'
  BY <1>1, <1>2 DEF RecordState, RingsSound, Memory
<1>4. diag'.seq["probe"] = diag.seq["probe"]  BY <1>1 DEF RecordState
<1>5. QueueInv'  BY DEF DiagInv, QueueInv, Recorder!QueueKept
<1> QED BY <1>1, <1>2, <1>3, <1>4, <1>5 DEF DiagInv

LEMMA ProbeTaken == ASSUME DiagInv, Recorder!Probe PROVE DiagInv'
<1> DEFINE n == Recorder!ProbeNumber + 1
           s == Recorder!Slot("probe", n)
           e == Recorder!Entry("probe", s)
           W == Recorder!EntryWords("probe", s)
           w == Layout["probe"].words
           seq == diag.seq
<1>0. "probe" \in Recorder!Rings /\ w \in Nat /\ 0 \in 0 .. Layout["probe"].slots - 1
  BY DiagAssumption DEF Recorder!Rings
<1>1. /\ probing = <<>>
      /\ mem' = Recorder!Over(Recorder!HeaderOf("probe", n), mem)
      /\ diag' = [diag EXCEPT !.seq["probe"] = n]
      /\ probing' = [k \in 1 .. w |-> e + k - 1] /\ queue' = queue
  BY DEF Recorder!Probe, Recorder!Quiet
<1>2. /\ seq \in [Recorder!Rings -> Nat] /\ Memory(mem)
      /\ \A r \in Recorder!Rings :
           Isolated(r) => Sound(r, seq[r], mem, IF r = "probe" THEN Left ELSE {})
  BY DEF DiagInv, RingsSound
<1>3. Left = {}  BY <1>1 DEF Left
<1>4. Layout["probe"].base \in Recorder!Addresses
  BY <1>0, EntryIn DEF Recorder!Addresses
<1>5. n \in Nat \ {0} /\ n - 1 \in Nat /\ n = (n - 1) + 1 /\ n - 1 = mem[Layout["probe"].base].n
  BY <1>2, <1>4 DEF Recorder!ProbeNumber, Memory
<1>6. s \in 0 .. Layout["probe"].slots - 1  BY <1>0, <1>5, SlotIn
<1>7. /\ W \subseteq Recorder!Area("probe")
      /\ \A a \in Recorder!Area("probe") : a \in Nat
      /\ W = e .. e + w - 1 /\ e \in Nat
  <2>1. W \subseteq Recorder!Area("probe") /\ \A a \in Recorder!Area("probe") : a \in Nat
    BY <1>0, <1>6, EntryIn
  <2>2. W = e .. e + w - 1  BY DEF Recorder!EntryWords
  <2>3. Layout["probe"].base \in Nat /\ Layout["probe"].header \in Nat /\ s \in Nat
    BY <1>0, <1>6, DiagAssumption DEF Recorder!Rings
  <2>4. s * w \in Nat  BY <1>0, <2>3, SMTT(30)
  <2>5. e = Layout["probe"].base + Layout["probe"].header + s * w  BY DEF Recorder!Entry
  <2>6. e \in Nat  BY <2>3, <2>4, <2>5
  <2> QED BY <2>1, <2>2, <2>6
<1> HIDE DEF e, w
<1>8. Left' = W /\ probing' \in Seq(Recorder!Area("probe"))
  <2>1. Len(probing') = w  BY <1>0, <1>1
  <2>2. \A k \in 1 .. w : probing'[k] = e + k - 1 /\ probing'[k] \in W
    BY <1>0, <1>1, <1>7
  <2>3. \A a \in W : a - e + 1 \in 1 .. w /\ probing'[a - e + 1] = a
    BY <1>0, <1>1, <1>7
  <2>4. Left' = W  BY <2>1, <2>2, <2>3 DEF Left
  <2>5. probing' \in [1 .. w -> Recorder!Area("probe")]
    BY <1>1, <1>7, <2>2
  <2> QED BY <1>0, <2>4, <2>5
<1>9. mem' = Rewritten("probe", n, mem, W)
  <2>1. DOMAIN mem = Recorder!Addresses
        /\ DOMAIN Recorder!HeaderOf("probe", n) = Recorder!Header("probe")
    BY <1>2 DEF Memory, Recorder!HeaderOf
  <2> QED BY <1>1, <2>1 DEF Recorder!Over, Rewritten
<1> HIDE DEF W, s, n
<1>10. Takes("probe", n, mem, mem', W)
  BY <1>0, <1>2, <1>5, <1>9, RewrittenTakes
<1>11. /\ diag'.on = diag.on /\ diag'.probe = diag.probe /\ diag'.lines = diag.lines
       /\ diag'.seq = [seq EXCEPT !["probe"] = n]
       /\ diag' = [on |-> diag'.on, probe |-> diag'.probe, seq |-> diag'.seq,
                   lines |-> diag'.lines]
  BY <1>1 DEF DiagInv
<1>12. /\ diag'.seq \in [Recorder!Rings -> Nat] /\ diag'.seq["probe"] = n
       /\ \A r \in Recorder!Rings : r # "probe" => diag'.seq[r] = seq[r]
  BY <1>0, <1>2, <1>5, <1>11
<1>13. ASSUME NEW r \in Recorder!Rings, Isolated(r)
       PROVE  Sound(r, diag'.seq[r], mem', IF r = "probe" THEN W ELSE {})
  <2>1. CASE r = "probe"
    <3>1. Sound("probe", seq["probe"], mem, {})  BY <1>2, <1>3, <1>13, <2>1
    <3>2. seq["probe"] = n - 1  BY <1>5, <3>1 DEF Sound
    <3> QED BY <1>5, <1>10, <1>12, <2>1, <3>1, <3>2 DEF Takes
  <2>2. CASE r # "probe"
    <3>1. \A a \in Recorder!Area(r) : mem'[a] = mem[a]
      BY <1>10, <1>13, <2>2 DEF Takes
    <3>2. Sound(r, seq[r], mem, {}) /\ seq[r] \in Nat  BY <1>2, <1>13, <2>2
    <3> QED BY <1>12, <2>2, <3>1, <3>2, Elsewhere
  <2> QED BY <2>1, <2>2
<1>14. RingsSound(diag.seq, mem, Left)'
  BY <1>8, <1>10, <1>12, <1>13 DEF RingsSound, Takes, Memory
<1>15. QueueInv'  BY <1>1 DEF DiagInv, QueueInv, Recorder!QueueKept
<1>16. n > 0  BY <1>5
<1> QED BY <1>8, <1>11, <1>12, <1>14, <1>15, <1>16 DEF DiagInv, W, s

LEMMA ProbeWordKeeps == ASSUME DiagInv, Recorder!ProbeWord PROVE DiagInv'
<1> DEFINE n == Recorder!ProbeNumber
           a == Head(probing)
           word == Recorder!Word("probe", a - Recorder!Entry("probe", Recorder!Slot("probe", n)), n)
           seq == diag.seq
           k == seq["probe"]
           P == Recorder!Area("probe")
<1>0. "probe" \in Recorder!Rings /\ 0 \in 0 .. Layout["probe"].slots - 1
  BY DiagAssumption DEF Recorder!Rings
<1>1. /\ probing # <<>> /\ mem' = [mem EXCEPT ![a] = word] /\ probing' = Tail(probing)
      /\ UNCHANGED <<diag, queue>>
  BY DEF Recorder!ProbeWord, Recorder!Quiet
<1>2. /\ seq \in [Recorder!Rings -> Nat] /\ Memory(mem)
      /\ \A r \in Recorder!Rings :
           Isolated(r) => Sound(r, seq[r], mem, IF r = "probe" THEN Left ELSE {})
  BY DEF DiagInv, RingsSound
<1>3. probing \in Seq(P)  BY DEF DiagInv
<1>4. a \in P /\ a \in Left /\ probing' \in Seq(P) /\ Left' \subseteq Left
      /\ \A b \in Left : b = a \/ b \in Left'
  <2> HIDE DEF P
  <2>1. Len(probing) \in Nat /\ Len(probing) > 0 /\ a = probing[1] /\ a \in P
    BY <1>1, <1>3
  <2>2. probing' \in Seq(P) /\ Len(probing') = Len(probing) - 1
        /\ \A i \in 1 .. Len(probing) - 1 : probing'[i] = probing[i + 1]
    BY <1>1, <1>3
  <2>3. a \in Left  BY <2>1 DEF Left
  <2>4. Left' \subseteq Left  BY <2>1, <2>2 DEF Left
  <2>5. ASSUME NEW b \in Left, b # a PROVE b \in Left'
    <3>1. PICK i \in 1 .. Len(probing) : b = probing[i]  BY DEF Left
    <3>2. i # 1  BY <2>1, <2>5, <3>1
    <3>3. i - 1 \in 1 .. Len(probing') /\ probing'[i - 1] = b
      BY <2>1, <2>2, <3>1, <3>2
    <3> QED BY <3>3 DEF Left
  <2> QED BY <2>1, <2>2, <2>3, <2>4, <2>5
<1>5. a \in Recorder!Addresses /\ Layout["probe"].base \in Recorder!Addresses
  BY <1>0, <1>4, EntryIn DEF Recorder!Addresses
<1>6. n \in Nat /\ word.n = n
  BY <1>2, <1>5 DEF Recorder!ProbeNumber, Memory, Recorder!Word
<1> HIDE DEF word, a, P
<1>7. /\ Memory(mem') /\ mem'[a] = word
      /\ \A b \in Recorder!Addresses : b # a => mem'[b] = mem[b]
  BY <1>1, <1>2, <1>5, <1>6 DEF Memory
<1>8. ASSUME Isolated("probe") PROVE Sound("probe", k, mem', Left')
  <2> DEFINE W(i) == Recorder!EntryWords("probe", Recorder!Slot("probe", i))
  <2>1. k \in Nat /\ k > 0 /\ Left \subseteq W(k) /\ Sound("probe", k, mem, Left)
    BY <1>0, <1>1, <1>2, <1>8 DEF DiagInv
  <2>2. n = k  BY <2>1 DEF Sound, Recorder!ProbeNumber
  <2>3. Recorder!Slot("probe", k) \in 0 .. Layout["probe"].slots - 1
    BY <1>0, <2>1, SlotIn
  <2>4. mem'[Layout["probe"].base] = mem[Layout["probe"].base]
    <3>1. Layout["probe"].base # a  BY <1>0, <1>4, <2>1, <2>3, EntryIn
    <3> QED BY <1>5, <1>7, <3>1
  <2>5. mem'[a] = Recorder!EntryOf("probe", k)[a]
    <3>1. a \in W(k)  BY <1>4, <2>1
    <3> QED BY <1>7, <2>2, <3>1 DEF word, Recorder!EntryOf
  <2>6. ASSUME NEW i \in 1 .. k, i + Layout["probe"].slots > k, NEW b \in W(i)
        PROVE  (i = k /\ b \in Left') \/ mem'[b] = Recorder!EntryOf("probe", i)[b]
    <3>1. i \in Nat \ {0} /\ Recorder!Slot("probe", i) \in 0 .. Layout["probe"].slots - 1
      BY <1>0, <2>1, SlotIn
    <3>2. b \in Recorder!Addresses  BY <1>0, <3>1, EntryIn DEF Recorder!Addresses
    <3>3. (i = k /\ b \in Left) \/ mem[b] = Recorder!EntryOf("probe", i)[b]
      BY <2>1, <2>6 DEF Sound
    <3>4. CASE b = a
      <4>1. i = k
        <5>1. SUFFICES ASSUME i # k PROVE FALSE  OBVIOUS
        <5>2. i < k  BY <2>1, <5>1
        <5>3. Recorder!Slot("probe", i) # Recorder!Slot("probe", k)
          BY <1>0, <2>1, <2>6, <3>1, <5>2, SlotsApart
        <5>4. W(i) \cap W(k) = {}  BY <1>0, <2>3, <3>1, <5>3, EntriesApart
        <5> QED BY <1>4, <2>1, <3>4, <5>4
      <4> QED BY <2>5, <3>4, <4>1
    <3>5. CASE b # a
      BY <1>4, <1>7, <3>2, <3>3, <3>5
    <3> QED BY <3>4, <3>5
  <2>7. mem'[Layout["probe"].base].n = k  BY <2>1, <2>4 DEF Sound
  <2> QED BY <2>6, <2>7 DEF Sound
<1>9. ASSUME NEW r \in Recorder!Rings, r # "probe", Isolated(r)
      PROVE  Sound(r, seq[r], mem', {})
  <2>1. Sound(r, seq[r], mem, {}) /\ seq[r] \in Nat  BY <1>2, <1>9
  <2>2. ASSUME NEW b \in Recorder!Area(r) PROVE mem'[b] = mem[b]
    <3>1. b # a  BY <1>0, <1>4, <1>9 DEF Isolated, Recorder!Overlap, P
    <3>2. b \in Recorder!Addresses  BY DEF Recorder!Addresses
    <3> QED BY <1>7, <3>1, <3>2
  <2> QED BY <2>1, <2>2, Elsewhere
<1>10. RingsSound(diag.seq, mem, Left)'
  <2>1. diag' = diag  BY <1>1
  <2>2. Memory(mem)'  BY <1>7 DEF Memory
  <2> QED BY <1>2, <1>8, <1>9, <2>1, <2>2 DEF RingsSound
<1>11. QueueInv'  BY <1>1 DEF DiagInv, QueueInv, Recorder!QueueKept
<1>12. Isolated("probe") =>
         /\ k > 0 /\ Left' \subseteq Recorder!EntryWords("probe", Recorder!Slot("probe", k))
  BY <1>1, <1>4 DEF DiagInv
<1> QED BY <1>1, <1>4, <1>10, <1>11, <1>12 DEF DiagInv, P

LEMMA DiagSteps == ASSUME DiagInv, Recorder!Next \/ UNCHANGED diagVars PROVE DiagInv'
<1> DEFINE now0 == Recorder!State
           probes == diag.seq["probe"]
<1>1. RecordState(now0, Left, probes)
  BY DEF DiagInv, RecordState, Recorder!State
<1>2. {"storage", "target", "dmac", "touch", "msc", "progress"}
        \subseteq Recorder!Rings \ {"probe"}
  BY DiagAssumption DEF Recorder!Rings
<1>3. ASSUME NEW s, RecordState(s, Left, probes),
             diag' = [diag EXCEPT !.seq = s.seq], mem' = s.mem, UNCHANGED <<queue, probing>>
      PROVE  DiagInv'
  BY <1>3, BecomesKeeps
<1>4. ASSUME NEW r \in Recorder!Rings \ {"probe"}, Recorder!Records(r) PROVE DiagInv'
  <2> DEFINE s == Recorder!Record(now0, r)
  <2>1. RecordState(s, Left, probes)  BY <1>1, RecordKeeps
  <2>2. diag' = [diag EXCEPT !.seq = s.seq] /\ mem' = s.mem /\ UNCHANGED <<queue, probing>>
    BY <1>4 DEF Recorder!Records, Recorder!Becomes
  <2> HIDE DEF s, now0
  <2> QED BY <2>1, <2>2, BecomesKeeps
<1>5. ASSUME NEW r \in Recorder!Rings \ {"probe"}, NEW q \in Recorder!Rings \ {"probe"},
             Recorder!Both(r, q)
      PROVE  DiagInv'
  <2> DEFINE s == Recorder!Record(Recorder!Record(now0, r), q)
  <2>1. RecordState(Recorder!Record(now0, r), Left, probes)  BY <1>1, RecordKeeps
  <2>2. RecordState(s, Left, probes)  BY <2>1, RecordKeeps
  <2>3. diag' = [diag EXCEPT !.seq = s.seq] /\ mem' = s.mem /\ UNCHANGED <<queue, probing>>
    BY <1>5 DEF Recorder!Both, Recorder!Becomes
  <2> HIDE DEF s, now0
  <2> QED BY <2>2, <2>3, BecomesKeeps
<1>6. CASE Recorder!NandTarget
  <2> DEFINE s1 == Recorder!Record(now0, "storage")
             s2 == Recorder!Record(s1, "target")
             s == Recorder!Record(s2, "touch")
  <2>1. RecordState(s1, Left, probes)  BY <1>1, <1>2, RecordKeeps
  <2> HIDE DEF s1
  <2>2. RecordState(s2, Left, probes)  BY <1>2, <2>1, RecordKeeps
  <2> HIDE DEF s2
  <2>3. RecordState(s, Left, probes)  BY <1>2, <2>2, RecordKeeps
  <2>4. diag' = [diag EXCEPT !.seq = s.seq] /\ mem' = s.mem /\ UNCHANGED <<queue, probing>>
    BY <1>6 DEF Recorder!NandTarget, Recorder!Becomes, s1, s2
  <2> HIDE DEF s
  <2> QED BY <2>3, <2>4, BecomesKeeps
<1>7. CASE Recorder!Input \/ Recorder!Reset
  <2>1. /\ UNCHANGED <<diag, mem, probing>>
        /\ queue' = Recorder!Queued(queue) \/ queue' = Recorder!EmptyQueue
    BY <1>7 DEF Recorder!Input, Recorder!Reset
  <2>2. QueueInv'
    <3>1. CASE queue' = Recorder!Queued(queue)  BY <3>1, QueueTakes DEF DiagInv
    <3>2. CASE queue' = Recorder!EmptyQueue
      <4>1. Inputs \in Nat \ {0}  BY DiagAssumption
      <4>2. Recorder!Min({0, Inputs}) = 0  BY <4>1, SmallerOf
      <4>3. 0 % Inputs = 0  BY <4>1, RemainderOf
      <4> QED BY <3>2, <4>1, <4>2, <4>3 DEF Recorder!EmptyQueue, QueueInv, Recorder!QueueKept
    <3> QED BY <2>1, <3>1, <3>2
  <2>3. Left' = Left  BY <2>1 DEF Left
  <2>4. RingsSound(diag.seq, mem, Left)'  BY <2>1, <2>3 DEF DiagInv, RingsSound, Memory
  <2> QED BY <2>1, <2>2, <2>3, <2>4 DEF DiagInv
<1>8. CASE Recorder!Panel \/ (\E t \in Switches, on \in BOOLEAN : Recorder!Switch(t, on))
           \/ UNCHANGED diagVars
  <2>1. UNCHANGED <<mem, queue, probing>>
    BY <1>8 DEF Recorder!Panel, Recorder!Switch, diagVars
  <2>2. /\ diag'.seq = diag.seq /\ diag'.on \subseteq Recorder!Traces
        /\ diag'.probe \in BOOLEAN /\ diag'.lines \in 0 .. LineLimit
        /\ diag' = [on |-> diag'.on, probe |-> diag'.probe, seq |-> diag'.seq,
                    lines |-> diag'.lines]
    <3>0. /\ diag = [on |-> diag.on, probe |-> diag.probe, seq |-> diag.seq,
                     lines |-> diag.lines]
          /\ diag.on \subseteq Recorder!Traces /\ diag.probe \in BOOLEAN
          /\ diag.lines \in 0 .. LineLimit /\ LineLimit \in Nat
      BY DiagAssumption DEF DiagInv
    <3>1. CASE Recorder!Panel
      <4>1. diag' = [diag EXCEPT !.lines = IF @ < LineLimit THEN @ + 1 ELSE @]
        BY <3>1 DEF Recorder!Panel
      <4>2. (IF diag.lines < LineLimit THEN diag.lines + 1 ELSE diag.lines) \in 0 .. LineLimit
        BY <3>0
      <4> QED BY <3>0, <4>1, <4>2, Zenon
    <3>2. ASSUME NEW t \in Switches, NEW on \in BOOLEAN, Recorder!Switch(t, on)
          PROVE  /\ diag'.seq = diag.seq /\ diag'.on \subseteq Recorder!Traces
                 /\ diag'.probe \in BOOLEAN /\ diag'.lines \in 0 .. LineLimit
                 /\ diag' = [on |-> diag'.on, probe |-> diag'.probe, seq |-> diag'.seq,
                             lines |-> diag'.lines]
      <4> DEFINE on1 == IF on THEN diag.on \cup {t} ELSE diag.on \ {t}
                 lines1 == IF t = "graphics" THEN 0 ELSE diag.lines
      <4>1. t \in Recorder!Traces  BY DiagAssumption DEF Recorder!Traces
      <4>2. on1 \subseteq Recorder!Traces /\ lines1 \in 0 .. LineLimit  BY <3>0, <4>1
      <4>3. diag' = [diag EXCEPT !.on = on1, !.lines = lines1]
        BY <3>2 DEF Recorder!Switch
      <4> HIDE DEF on1, lines1
      <4>4. diag' = [on |-> on1, probe |-> diag.probe, seq |-> diag.seq, lines |-> lines1]
        BY <3>0, <4>3
      <4> QED BY <3>0, <4>2, <4>4
    <3>3. CASE UNCHANGED diagVars  BY <3>3 DEF DiagInv, diagVars
    <3> QED BY <1>8, <3>1, <3>2, <3>3
  <2>3. QueueInv'  BY <2>1 DEF DiagInv, QueueInv, Recorder!QueueKept
  <2>4. Left' = Left  BY <2>1 DEF Left
  <2>5. RingsSound(diag.seq, mem, Left)'
    BY <2>1, <2>2, <2>4 DEF DiagInv, RingsSound, Memory
  <2> QED BY <2>1, <2>2, <2>3, <2>4, <2>5 DEF DiagInv
<1>9. CASE Recorder!Probe  BY <1>9, ProbeTaken
<1>10. CASE Recorder!ProbeWord  BY <1>10, ProbeWordKeeps
<1> QED
  BY <1>2, <1>4, <1>5, <1>6, <1>7, <1>8, <1>9, <1>10
  DEF Recorder!Next, Recorder!NandLoad, Recorder!NandChange, Recorder!CardCommand,
      Recorder!CardRefused, Recorder!CardTransfer, Recorder!DmacEvent, Recorder!Touch,
      Recorder!Progress

----------------------------------------------------------------------------
(* What one state of the rings may become, by any number of records: none is taken  *)
(* back, and in a ring whose memory no other took, a new record is whole and an old  *)
(* one goes in its turn.                                                          *)
Reached(r, seq, seq1) == \E q \in Recorder!Rings : Recorder!Overlap(r, q) /\ seq1[q] > seq[q]

Mixes(r, seq, m, seq1, m1) ==
  /\ seq1[r] > seq[r] => Recorder!WholeIn(m1, r, seq1[r])
  /\ \A n \in 1 .. seq[r] :
       Recorder!WholeIn(m, r, n) /\ ~Recorder!WholeIn(m1, r, n) =>
         seq1[r] >= n + Layout[r].slots

Grows(seq, m, seq1, m1) ==
  /\ seq \in [Recorder!Rings -> Nat] /\ seq1 \in [Recorder!Rings -> Nat]
  /\ \A r \in Recorder!Rings : seq1[r] >= seq[r]
  /\ \A r \in Recorder!Rings \ {"probe"} :
       Reached(r, seq, seq1) \/ Mixes(r, seq, m, seq1, m1)

LEMMA GrowsOn ==
  ASSUME NEW a, NEW l, NEW b, NEW m, NEW c, NEW n, Grows(a, l, b, m), Grows(b, m, c, n)
  PROVE  Grows(a, l, c, n)
<1>1. /\ a \in [Recorder!Rings -> Nat] /\ b \in [Recorder!Rings -> Nat]
      /\ c \in [Recorder!Rings -> Nat]
      /\ \A r \in Recorder!Rings : b[r] >= a[r] /\ c[r] >= b[r] /\ c[r] >= a[r]
  BY DEF Grows
<1>2. ASSUME NEW r \in Recorder!Rings \ {"probe"}, ~Reached(r, a, c)
      PROVE  Mixes(r, a, l, c, n)
  <2>1. ~Reached(r, a, b) /\ ~Reached(r, b, c)
    BY <1>1, <1>2 DEF Reached
  <2>2. Mixes(r, a, l, b, m) /\ Mixes(r, b, m, c, n)
    BY <2>1 DEF Grows
  <2>3. /\ a[r] \in Nat /\ b[r] \in Nat /\ c[r] \in Nat /\ Layout[r].slots \in Nat \ {0}
        /\ b[r] >= a[r] /\ c[r] >= b[r]
    BY <1>1, DiagAssumption DEF Recorder!Rings
  <2>4. ASSUME c[r] > a[r] PROVE Recorder!WholeIn(n, r, c[r])
    <3>1. CASE c[r] > b[r]
      BY <2>2, <3>1 DEF Mixes
    <3>2. CASE c[r] = b[r]
      <4>1. b[r] > a[r] /\ b[r] \in 1 .. b[r] /\ ~(c[r] >= b[r] + Layout[r].slots)
        BY <2>3, <2>4, <3>2
      <4>2. Recorder!WholeIn(m, r, b[r])  BY <2>2, <4>1 DEF Mixes
      <4>3. Recorder!WholeIn(n, r, b[r])  BY <2>2, <4>1, <4>2 DEF Mixes
      <4> QED BY <3>2, <4>3
    <3> QED BY <2>3, <3>1, <3>2
  <2>5. ASSUME NEW k \in 1 .. a[r], Recorder!WholeIn(l, r, k), ~Recorder!WholeIn(n, r, k)
        PROVE  c[r] >= k + Layout[r].slots
    <3>1. CASE Recorder!WholeIn(m, r, k)
      <4>1. k \in 1 .. b[r]  BY <2>3
      <4> QED BY <2>2, <2>5, <3>1, <4>1 DEF Mixes
    <3>2. CASE ~Recorder!WholeIn(m, r, k)
      <4>1. b[r] >= k + Layout[r].slots  BY <2>2, <2>5, <3>2 DEF Mixes
      <4> QED BY <2>3, <4>1
    <3> QED BY <3>1, <3>2
  <2> QED BY <2>4, <2>5 DEF Mixes
<1> QED BY <1>1, <1>2 DEF Grows

LEMMA WholeElsewhere ==
  ASSUME NEW r \in Recorder!Rings, NEW n \in Nat \ {0}, NEW m, NEW m1,
         \A a \in Recorder!Area(r) : m1[a] = m[a]
  PROVE  Recorder!WholeIn(m1, r, n) <=> Recorder!WholeIn(m, r, n)
<1>1. Recorder!Slot(r, n) \in 0 .. Layout[r].slots - 1  BY SlotIn
<1>2. Recorder!EntryWords(r, Recorder!Slot(r, n)) \subseteq Recorder!Area(r)
  BY <1>1, EntryIn
<1> QED BY <1>2 DEF Recorder!WholeIn

(* A ring that no other reaches keeps what it had.                                *)
LEMMA SameMixes ==
  ASSUME NEW r \in Recorder!Rings, NEW seq \in [Recorder!Rings -> Nat], NEW seq1,
         seq1[r] = seq[r], NEW m, NEW m1, \A a \in Recorder!Area(r) : m1[a] = m[a]
  PROVE  Mixes(r, seq, m, seq1, m1)
<1>1. seq[r] \in Nat /\ ~(seq1[r] > seq[r])  OBVIOUS
<1>2. \A n \in 1 .. seq[r] : Recorder!WholeIn(m1, r, n) <=> Recorder!WholeIn(m, r, n)
  BY <1>1, WholeElsewhere
<1> QED BY <1>1, <1>2 DEF Mixes

(* The memory of the rings: the newest record lies in the slot of one that is out.  *)
LEMMA RewrittenMixes ==
  ASSUME NEW r \in Recorder!Rings, NEW k \in Nat, NEW n \in Nat, n = k + 1, NEW m
  PROVE  /\ Recorder!WholeIn(Rewritten(r, n, m, {}), r, n)
         /\ \A i \in 1 .. k :
              Recorder!WholeIn(m, r, i) /\ ~Recorder!WholeIn(Rewritten(r, n, m, {}), r, i) =>
                n >= i + Layout[r].slots
<1> DEFINE m1 == Rewritten(r, n, m, {})
           W(i) == Recorder!EntryWords(r, Recorder!Slot(r, i))
           H == Recorder!Header(r)
<1>1. \A i \in Nat \ {0} : Recorder!Slot(r, i) \in 0 .. Layout[r].slots - 1
  BY SlotIn
<1>2. /\ n \in Nat \ {0} /\ Layout[r].slots \in Nat
      /\ Recorder!Area(r) \subseteq Recorder!Addresses
      /\ \A i \in Nat \ {0} : W(i) \subseteq Recorder!Area(r) /\ W(i) \cap H = {}
  BY <1>1, EntryIn, DiagAssumption DEF Recorder!Addresses, Recorder!Rings
<1>3. \A a \in Recorder!Addresses :
        m1[a] = IF a \in W(n) THEN Recorder!EntryOf(r, n)[a]
                ELSE IF a \in H THEN Recorder!HeaderOf(r, n)[a] ELSE m[a]
  BY DEF Rewritten
<1> HIDE DEF m1, H
<1>4. Recorder!WholeIn(m1, r, n)
  BY <1>2, <1>3 DEF Recorder!WholeIn
<1>5. ASSUME NEW i \in 1 .. k, Recorder!WholeIn(m, r, i), ~Recorder!WholeIn(m1, r, i)
      PROVE  n >= i + Layout[r].slots
  <2>1. i \in Nat \ {0} /\ i < n  OBVIOUS
  <2>2. PICK a \in W(i) : m1[a] # Recorder!EntryOf(r, i)[a] /\ m[a] = Recorder!EntryOf(r, i)[a]
    BY <1>5 DEF Recorder!WholeIn
  <2>3. a \in W(n)  BY <1>2, <1>3, <2>1, <2>2
  <2>4. Recorder!Slot(r, i) = Recorder!Slot(r, n)
    <3>1. SUFFICES ASSUME Recorder!Slot(r, i) # Recorder!Slot(r, n) PROVE FALSE
      OBVIOUS
    <3>2. W(i) \cap W(n) = {}  BY <1>1, <1>2, <2>1, <3>1, EntriesApart
    <3> QED BY <2>2, <2>3, <3>2
  <2>5. ~(i + Layout[r].slots > n)  BY <1>2, <2>1, <2>4, SlotsApart
  <2> QED BY <1>2, <2>1, <2>5
<1> QED BY <1>4, <1>5 DEF m1

LEMMA RecordGrows ==
  ASSUME NEW s, NEW torn, NEW probes, NEW r \in Recorder!Rings \ {"probe"},
         RecordState(s, torn, probes)
  PROVE  LET t == Recorder!Record(s, r) IN Grows(s.seq, s.mem, t.seq, t.mem)
<1> DEFINE t == Recorder!Record(s, r)
           n == s.seq[r] + 1
<1>0. s.seq \in [Recorder!Rings -> Nat] /\ Memory(s.mem)
  BY DEF RecordState, RingsSound
<1>1. CASE Recorder!Trace(r) \notin s.on
  <2>1. t = s  BY <1>1 DEF Recorder!Record
  <2>2. \A q \in Recorder!Rings : Mixes(q, s.seq, s.mem, s.seq, s.mem)
    BY <1>0, SameMixes
  <2>3. Grows(s.seq, s.mem, s.seq, s.mem)  BY <1>0, <2>2 DEF Grows
  <2> QED BY <2>1, <2>3
<1>2. CASE Recorder!Trace(r) \in s.on
  <2> DEFINE m1 == Recorder!Over(Recorder!EntryOf(r, n),
                                 Recorder!Over(Recorder!HeaderOf(r, n), s.mem))
             seq1 == [s.seq EXCEPT ![r] = n]
  <2>2. t = [on |-> s.on, seq |-> seq1, mem |-> m1]
    BY <1>2 DEF RecordState, Recorder!Record
  <2>3. t.seq = seq1 /\ t.mem = m1
    <3> HIDE DEF t, m1, seq1
    <3> QED BY <2>2
  <2>4. m1 = Rewritten(r, n, s.mem, {})
    BY <1>0, RecordWrites
  <2> HIDE DEF m1, t
  <2>5. seq1 \in [Recorder!Rings -> Nat] /\ seq1[r] = n /\ n \in Nat /\ s.seq[r] \in Nat
        /\ \A q \in Recorder!Rings : q # r => seq1[q] = s.seq[q]
    BY <1>0
  <2>6. \A q \in Recorder!Rings : seq1[q] >= s.seq[q]
    BY <1>0, <2>5
  <2>6a. n = s.seq[r] + 1 /\ n > s.seq[r]  BY <2>5
  <2> HIDE DEF seq1, n
  <2>7. Mixes(r, s.seq, s.mem, seq1, m1)
    BY <2>4, <2>5, <2>6a, RewrittenMixes DEF Mixes
  <2>8. ASSUME NEW q \in Recorder!Rings, q # r, ~Reached(q, s.seq, seq1)
        PROVE  Mixes(q, s.seq, s.mem, seq1, m1)
    <3>1. ~Recorder!Overlap(q, r)
      BY <2>5, <2>6a, <2>8 DEF Reached
    <3>2. Recorder!Area(q) \cap Recorder!Area(r) = {}
      BY <2>8, <3>1 DEF Recorder!Overlap
    <3>3. ASSUME NEW a \in Recorder!Area(q) PROVE m1[a] = s.mem[a]
      <4>1. a \in Recorder!Addresses /\ a \notin Recorder!Area(r)
        BY <3>2 DEF Recorder!Addresses
      <4>2. n \in Nat \ {0}  BY <2>5, <2>6a
      <4>3. Recorder!Slot(r, n) \in 0 .. Layout[r].slots - 1  BY <4>2, SlotIn
      <4>4. a \notin Recorder!Header(r) /\ a \notin Recorder!EntryWords(r, Recorder!Slot(r, n))
        BY <4>1, <4>3, EntryIn
      <4> QED BY <2>4, <4>1, <4>4 DEF Rewritten
    <3> QED BY <1>0, <2>5, <2>8, <3>3, SameMixes
  <2>9. Grows(s.seq, s.mem, seq1, m1)
    BY <1>0, <2>5, <2>6, <2>7, <2>8 DEF Grows
  <2> QED BY <2>3, <2>9 DEF t
<1> QED BY <1>1, <1>2

(* The probe writes in a ring that lies above the others.                         *)
LEMMA ProbeApart ==
  ASSUME NEW r \in Recorder!Rings \ {"probe"}
  PROVE  Recorder!Area(r) \cap Recorder!Area("probe") = {}
<1> DEFINE b == Layout[r].base
           x == Layout[r].slots * Layout[r].words
           e == b + Layout[r].header + x
           p == Layout["probe"].base
           y == Layout["probe"].slots * Layout["probe"].words
           z == p + Layout["probe"].header + y
<1>1. /\ b \in Nat /\ Layout[r].header \in Nat /\ Layout[r].slots \in Nat
      /\ Layout[r].words \in Nat /\ e <= p /\ p \in Nat
      /\ Layout["probe"].header \in Nat
      /\ Layout["probe"].slots \in Nat /\ Layout["probe"].words \in Nat
  BY DiagAssumption DEF Recorder!Rings
<1>2. x \in Nat /\ y \in Nat  BY <1>1, SMTT(30)
<1>3. Recorder!Area(r) = b .. e - 1 /\ Recorder!Area("probe") = p .. z - 1
  BY DEF Recorder!Area, Recorder!Entry
<1> HIDE DEF b, p, x, y
<1>4. e \in Nat /\ z \in Nat  BY <1>1, <1>2
<1> HIDE DEF e, z
<1> QED BY <1>1, <1>3, <1>4

LEMMA GrownMixes ==
  ASSUME Grows(diag.seq, mem, diag'.seq, mem') PROVE Recorder!OnlyOverlapMixes
BY DEF Grows, Mixes, Reached, Recorder!OnlyOverlapMixes, Recorder!Whole

LEMMA DiagOdd ==
  ASSUME DiagInv, Recorder!Next \/ UNCHANGED diagVars PROVE Recorder!OnlyOverlapMixes
<1> DEFINE now0 == Recorder!State
           probes == diag.seq["probe"]
<1>1. RecordState(now0, Left, probes) /\ now0.seq = diag.seq /\ now0.mem = mem
  BY DEF DiagInv, RecordState, Recorder!State
<1>2. {"storage", "target", "dmac", "touch", "msc", "progress"}
        \subseteq Recorder!Rings \ {"probe"}
  BY DiagAssumption DEF Recorder!Rings
<1>0. /\ diag = [on |-> diag.on, probe |-> diag.probe, seq |-> diag.seq, lines |-> diag.lines]
      /\ diag.seq \in [Recorder!Rings -> Nat] /\ Memory(mem)
  BY DEF DiagInv, RingsSound
<1>3. ASSUME NEW s, Grows(now0.seq, now0.mem, s.seq, s.mem), Recorder!Becomes(s)
      PROVE  Recorder!OnlyOverlapMixes
  <2>1. diag' = [diag EXCEPT !.seq = s.seq] /\ mem' = s.mem
    BY <1>3 DEF Recorder!Becomes
  <2>2. diag'.seq = s.seq  BY <1>0, <2>1
  <2> HIDE DEF now0
  <2>3. Grows(diag.seq, mem, diag'.seq, mem')  BY <1>1, <1>3, <2>1, <2>2
  <2> QED BY <2>3, GrownMixes
<1> HIDE DEF now0
<1>4. ASSUME NEW r \in Recorder!Rings \ {"probe"}, Recorder!Records(r)
      PROVE  Recorder!OnlyOverlapMixes
  <2> DEFINE s == Recorder!Record(now0, r)
  <2>1. Grows(now0.seq, now0.mem, s.seq, s.mem)  BY <1>1, RecordGrows
  <2>2. Recorder!Becomes(s)  BY <1>4 DEF Recorder!Records, now0
  <2> HIDE DEF s
  <2> QED BY <1>3, <2>1, <2>2
<1>5. ASSUME NEW r \in Recorder!Rings \ {"probe"}, NEW q \in Recorder!Rings \ {"probe"},
             Recorder!Both(r, q)
      PROVE  Recorder!OnlyOverlapMixes
  <2> DEFINE s1 == Recorder!Record(now0, r)
             s == Recorder!Record(s1, q)
  <2>1. RecordState(s1, Left, probes) /\ Grows(now0.seq, now0.mem, s1.seq, s1.mem)
    BY <1>1, RecordKeeps, RecordGrows
  <2>2. Recorder!Becomes(s)  BY <1>5 DEF Recorder!Both, now0
  <2> HIDE DEF s1
  <2>3. Grows(s1.seq, s1.mem, s.seq, s.mem)  BY <2>1, RecordGrows
  <2> HIDE DEF s
  <2>4. Grows(now0.seq, now0.mem, s.seq, s.mem)  BY <2>1, <2>3, GrowsOn
  <2> QED BY <1>3, <2>2, <2>4
<1>6. CASE Recorder!NandTarget
  <2> DEFINE s1 == Recorder!Record(now0, "storage")
             s2 == Recorder!Record(s1, "target")
             s == Recorder!Record(s2, "touch")
  <2>1. RecordState(s1, Left, probes) /\ Grows(now0.seq, now0.mem, s1.seq, s1.mem)
    BY <1>1, <1>2, RecordKeeps, RecordGrows
  <2>2. Recorder!Becomes(s)  BY <1>6 DEF Recorder!NandTarget, now0
  <2> HIDE DEF s1
  <2>3. RecordState(s2, Left, probes) /\ Grows(s1.seq, s1.mem, s2.seq, s2.mem)
    BY <1>2, <2>1, RecordKeeps, RecordGrows
  <2> HIDE DEF s2
  <2>4. Grows(s2.seq, s2.mem, s.seq, s.mem)  BY <1>2, <2>3, RecordGrows
  <2> HIDE DEF s
  <2>5. Grows(now0.seq, now0.mem, s2.seq, s2.mem)  BY <2>1, <2>3, GrowsOn
  <2>6. Grows(now0.seq, now0.mem, s.seq, s.mem)  BY <2>4, <2>5, GrowsOn
  <2> QED BY <1>3, <2>2, <2>6
<1>7. ASSUME \A r \in Recorder!Rings \ {"probe"} :
               diag'.seq[r] = diag.seq[r] /\ \A a \in Recorder!Area(r) : mem'[a] = mem[a]
      PROVE  Recorder!OnlyOverlapMixes
  <2>1. \A r \in Recorder!Rings \ {"probe"} : Mixes(r, diag.seq, mem, diag'.seq, mem')
    BY <1>0, <1>7, SameMixes
  <2> QED BY <2>1 DEF Mixes, Recorder!OnlyOverlapMixes, Recorder!Whole
<1>8. CASE Recorder!Input \/ Recorder!Reset \/ UNCHANGED diagVars
  BY <1>7, <1>8 DEF Recorder!Input, Recorder!Reset, diagVars
<1>9. CASE Recorder!Panel \/ (\E t \in Switches, on \in BOOLEAN : Recorder!Switch(t, on))
  <2>1. mem' = mem  BY <1>9 DEF Recorder!Panel, Recorder!Switch
  <2>2. diag'.seq = diag.seq
    <3>1. CASE Recorder!Panel  BY <1>0, <3>1 DEF Recorder!Panel
    <3>2. ASSUME NEW t \in Switches, NEW on \in BOOLEAN, Recorder!Switch(t, on)
          PROVE  diag'.seq = diag.seq
      <4> DEFINE on1 == IF on THEN diag.on \cup {t} ELSE diag.on \ {t}
                 lines1 == IF t = "graphics" THEN 0 ELSE diag.lines
      <4>1. diag' = [diag EXCEPT !.on = on1, !.lines = lines1]
        BY <3>2 DEF Recorder!Switch
      <4> HIDE DEF on1, lines1
      <4> QED BY <1>0, <4>1
    <3> QED BY <1>9, <3>1, <3>2
  <2> QED BY <1>7, <2>1, <2>2
<1>10. CASE Recorder!Probe
  <2> DEFINE n == Recorder!ProbeNumber + 1
  <2>1. mem' = Recorder!Over(Recorder!HeaderOf("probe", n), mem)
        /\ diag' = [diag EXCEPT !.seq["probe"] = n]
    BY <1>10 DEF Recorder!Probe
  <2> HIDE DEF n
  <2>2. \A r \in Recorder!Rings \ {"probe"} : diag'.seq[r] = diag.seq[r]
    BY <1>0, <2>1
  <2>3. ASSUME NEW r \in Recorder!Rings \ {"probe"}, NEW a \in Recorder!Area(r)
        PROVE  mem'[a] = mem[a]
    <3>1. a \in Recorder!Addresses  BY DEF Recorder!Addresses
    <3>2. "probe" \in Recorder!Rings /\ 0 \in 0 .. Layout["probe"].slots - 1
      BY DiagAssumption DEF Recorder!Rings
    <3>3. Recorder!Header("probe") \subseteq Recorder!Area("probe")  BY <3>2, EntryIn
    <3>4. a \notin Recorder!Header("probe")  BY <3>3, ProbeApart
    <3>5. DOMAIN mem = Recorder!Addresses
          /\ DOMAIN Recorder!HeaderOf("probe", n) = Recorder!Header("probe")
      BY <1>0 DEF Memory, Recorder!HeaderOf
    <3> QED BY <2>1, <3>1, <3>4, <3>5 DEF Recorder!Over
  <2> QED BY <1>7, <2>2, <2>3
<1>11. CASE Recorder!ProbeWord
  <2> DEFINE n == Recorder!ProbeNumber
             b == Head(probing)
             word == Recorder!Word("probe", b - Recorder!Entry("probe", Recorder!Slot("probe", n)), n)
             P == Recorder!Area("probe")
  <2>1. probing # <<>> /\ mem' = [mem EXCEPT ![b] = word] /\ diag' = diag
    BY <1>11 DEF Recorder!ProbeWord, Recorder!Quiet
  <2>2. probing \in Seq(P)  BY DEF DiagInv
  <2>3. b \in P
    <3> HIDE DEF P
    <3> QED BY <2>1, <2>2
  <2> HIDE DEF b, word, P
  <2>4. ASSUME NEW r \in Recorder!Rings \ {"probe"}, NEW a \in Recorder!Area(r)
        PROVE  mem'[a] = mem[a]
    <3>1. a \in Recorder!Addresses /\ a # b
      BY <2>3, ProbeApart DEF Recorder!Addresses, P
    <3> QED BY <1>0, <2>1, <3>1 DEF Memory
  <2> QED BY <1>7, <2>1, <2>4
<1> QED
  BY <1>2, <1>4, <1>5, <1>6, <1>8, <1>9, <1>10, <1>11
  DEF Recorder!Next, Recorder!NandLoad, Recorder!NandChange, Recorder!CardCommand,
      Recorder!CardRefused, Recorder!CardTransfer, Recorder!DmacEvent, Recorder!Touch,
      Recorder!Progress

----------------------------------------------------------------------------
(* The odd states of the small devices, each with the one step that leads to it.   *)
LEMMA CimOdd == ASSUME CimInv, Camera!Next \/ UNCHANGED cim PROVE Camera!DisableAnswered
<1>1. cim \in Cims /\ ("VDD" \in cim.status => "ENA" \notin cim.control)
  BY DEF CimInv
<1>2. ASSUME NEW v \in CimControls, Camera!WriteControl(v) PROVE Camera!DisableAnswered
  <2> DEFINE c == [cim EXCEPT !.control = v]
             a == Camera!Answered(cim.control, c)
             b == Camera!Pending(a)
  <2>1. c.control = v /\ c.status = cim.status /\ c \in Cims
    BY <1>1 DEF Cims
  <2> HIDE DEF c
  <2>2. /\ a \in [control : {v}, irq : BOOLEAN, status : SUBSET (Camera!Masks \cup {"RF_EMPTY"})]
        /\ "ENA" \notin v => ("ENA" \in cim.control \/ "VDD" \in cim.status => "VDD" \in a.status)
    BY <1>1, <2>1 DEF Camera!Answered, Camera!Transfer, Cims, Camera!Masks
  <2>3. cim' = [a EXCEPT !.irq = b]
    BY <1>2 DEF Camera!WriteControl, Camera!Update, c
  <2> HIDE DEF a, b
  <2>4. cim'.control = v /\ cim'.status = a.status
    BY <2>2, <2>3
  <2> QED BY <1>1, <2>2, <2>4 DEF Camera!DisableAnswered
<1>3. ASSUME NEW s, cim' = Camera!Update([cim EXCEPT !.status = s])
      PROVE  cim'.control = cim.control /\ cim'.status = s
  <2> DEFINE c == [cim EXCEPT !.status = s]
             b == Camera!Pending(c)
  <2>1. cim' = [c EXCEPT !.irq = b]  BY <1>3 DEF Camera!Update
  <2> HIDE DEF b
  <2> QED BY <1>1, <2>1 DEF Cims
<1>4. ASSUME NEW k \in CimKeeps, Camera!WriteStatus(k) PROVE Camera!DisableAnswered
  <2>1. cim'.control = cim.control
        /\ cim'.status = (cim.status \ (Camera!Clearable \ k)) \cup {"RF_EMPTY"}
    BY <1>3, <1>4 DEF Camera!WriteStatus
  <2>2. "VDD" \in cim.status /\ "VDD" \notin cim'.status => "VDD" \notin k
    BY <2>1
  <2> QED BY <1>4, <2>1, <2>2 DEF Camera!DisableAnswered
<1>5. ASSUME cim'.control = cim.control, cim.status \subseteq cim'.status
      PROVE  Camera!DisableAnswered
  BY <1>5 DEF Camera!DisableAnswered
<1>6. CASE Camera!WriteOther
  <2> DEFINE b == Camera!Pending(cim)
  <2>1. cim' = [cim EXCEPT !.irq = b]  BY <1>6 DEF Camera!WriteOther, Camera!Update
  <2> HIDE DEF b
  <2>2. cim'.control = cim.control /\ cim'.status = cim.status  BY <1>1, <2>1 DEF Cims
  <2> QED BY <1>5, <2>2
<1>7. CASE Camera!Restore
  <2>1. cim'.control = cim.control /\ cim'.status = cim.status \cup {"RF_EMPTY"}
    BY <1>3, <1>7 DEF Camera!Restore
  <2> QED BY <1>5, <2>1
<1>8. CASE Camera!Reset
  BY <1>8 DEF Camera!Reset, Camera!DisableAnswered
<1>9. CASE UNCHANGED cim
  BY <1>9 DEF Camera!DisableAnswered
<1> QED BY <1>2, <1>4, <1>6, <1>7, <1>8, <1>9 DEF Camera!Next

LEMMA UdcOdd == ASSUME UdcInv, Usb!Next \/ UNCHANGED udc PROVE Usb!OneEndpoint
<1>1. udc \in Udcs
  BY DEF UdcInv, UdcTyped
<1>2. ASSUME NEW u, u.ep \in [Endpoints -> UdcBanks], udc' = Usb!Update(u),
             u = [udc EXCEPT !.enable = u.enable, !.index = u.index, !.pending = u.pending,
                             !.ep = u.ep],
             \A e \in Endpoints \ {udc.index} : u.ep[e] = udc.ep[e]
      PROVE  Usb!OneEndpoint
  <2> DEFINE b == Usb!Pending(u)
  <2>1. udc' = [u EXCEPT !.irq = b]  BY <1>2 DEF Usb!Update
  <2> HIDE DEF b
  <2>2. udc'.ep = u.ep  BY <1>1, <1>2, <2>1 DEF Udcs
  <2> QED BY <1>2, <2>2 DEF Usb!OneEndpoint
<1>3. ASSUME NEW a, NEW v, Usb!Write(a, v) PROVE Usb!OneEndpoint
  <2> DEFINE enable == [k \in Usb!Kinds |-> Usb!Merge(udc.enable[k], k, a, v, Usb!Exists[k])]
             bank == [r \in DOMAIN Usb!BankMask |->
                        IF udc.index \in Usb!BankEndpoints[r]
                        THEN Usb!Merge(udc.ep[udc.index][r], r, a, v, Usb!BankMask[r])
                        ELSE udc.ep[udc.index][r]]
             u == [udc EXCEPT !.enable = enable, !.ep[udc.index] = bank]
             b == Usb!Pending(u)
  <2>1. Usb!WriteByte(udc, a, v) = u
    BY <1>1 DEF Usb!WriteByte, Udcs
  <2>2. udc' = [u EXCEPT !.irq = b]
    BY <1>3, <2>1 DEF Usb!Write, Usb!Update
  <2> HIDE DEF enable, bank, b
  <2>3. udc'.ep = [udc.ep EXCEPT ![udc.index] = bank]
    BY <1>1, <2>2 DEF Udcs
  <2>4. \A e \in Endpoints \ {udc.index} : udc'.ep[e] = udc.ep[e]
    BY <1>1, <2>3 DEF Udcs
  <2> QED BY <2>4 DEF Usb!OneEndpoint
<1>4. ASSUME udc'.ep = udc.ep PROVE Usb!OneEndpoint
  BY <1>4 DEF Usb!OneEndpoint
<1>5. ASSUME NEW e \in Endpoints, Usb!WriteIndex(e) PROVE Usb!OneEndpoint
  <2> DEFINE b == Usb!Pending([udc EXCEPT !.index = e])
  <2>1. udc' = [[udc EXCEPT !.index = e] EXCEPT !.irq = b]
    BY <1>5 DEF Usb!WriteIndex, Usb!Update
  <2> HIDE DEF b
  <2>2. udc'.ep = udc.ep  BY <1>1, <2>1 DEF Udcs
  <2> QED BY <1>4, <2>2
<1>6. ASSUME NEW kinds, Usb!Read(kinds) PROVE Usb!OneEndpoint
  <2> DEFINE p == [k \in Usb!Kinds |-> IF k \in kinds THEN {} ELSE udc.pending[k]]
             b == Usb!Pending([udc EXCEPT !.pending = p])
  <2>1. udc' = [[udc EXCEPT !.pending = p] EXCEPT !.irq = b]
    BY <1>1, <1>6 DEF Usb!Read, Usb!Update, Udcs
  <2> HIDE DEF b, p
  <2>2. udc'.ep = udc.ep  BY <1>1, <2>1 DEF Udcs
  <2> QED BY <1>4, <2>2
<1>7. CASE Usb!Restore
  <2> DEFINE b == Usb!Pending(udc)
  <2>1. udc' = [udc EXCEPT !.irq = b]  BY <1>7 DEF Usb!Restore, Usb!Update
  <2> HIDE DEF b
  <2>2. udc'.ep = udc.ep  BY <1>1, <2>1 DEF Udcs
  <2> QED BY <1>4, <2>2
<1>8. CASE Usb!Reset
  BY <1>8 DEF Usb!Reset, Usb!OneEndpoint
<1>9. CASE UNCHANGED udc
  BY <1>4, <1>9
<1> QED BY <1>3, <1>5, <1>6, <1>7, <1>8, <1>9 DEF Usb!Next

LEMMA CpmOdd == ASSUME CpmInv, Power!Next \/ UNCHANGED cpmVars PROVE Power!OnlyItsLanes
<1>1. /\ regs \in Cpms /\ DOMAIN regs = DOMAIN Power!RwMask
      /\ \A r \in DOMAIN regs : regs[r] \subseteq Power!RwMask[r] \cup {Power!PLLS}
  BY DEF CpmInv, Power!TypeOK
<1>2. ASSUME NEW r \in PowerRegisters, NEW a \in PowerAccesses, NEW v \in PowerValues,
             Power!Write(r, a, v)
      PROVE  Power!OnlyItsLanes
  <2> DEFINE L == Power!Lanes(a)
             w == (regs[r] \ L) \cup (v \cap L)
             m == Power!Masked(r, w)
  <2>1. r \in DOMAIN Power!RwMask
    BY CpmAssumption DEF Power!RwMask
  <2>2. regs' = [regs EXCEPT ![r] = m] /\ (r \in Power!WordOnly => a = <<0, 4>>)
    BY <1>2 DEF Power!Write
  <2>3. m \ {Power!PLLS} = (w \cap Power!RwMask[r]) \ {Power!PLLS}
    BY DEF Power!Masked
  <2>4. (m \ L) \ {Power!PLLS} = (regs[r] \ L) \ {Power!PLLS}
    BY <1>1, <2>1, <2>3
  <2>5. regs'[r] = m /\ \A q \in PowerRegisters \ {r} : regs'[q] = regs[q]
    BY <1>1, <2>1, <2>2 DEF Cpms
  <2> HIDE DEF m
  <2> QED BY <2>2, <2>4, <2>5 DEF Power!OnlyItsLanes
<1>3. ASSUME UNCHANGED regs PROVE Power!OnlyItsLanes
  BY <1>3 DEF Power!OnlyItsLanes
<1>4. ASSUME NEW r \in PowerRegisters, NEW a \in PowerAccesses, Power!Ignored(r, a)
      PROVE  Power!OnlyItsLanes
  BY <1>3, <1>4 DEF Power!Ignored, Power!vars
<1>5. CASE Power!Reset
  BY <1>5 DEF Power!Reset, Power!OnlyItsLanes
<1>6. CASE Power!Restore
  BY <1>3, <1>6 DEF Power!Restore
<1>7. CASE UNCHANGED cpmVars
  BY <1>3, <1>7 DEF cpmVars
<1> QED BY <1>2, <1>4, <1>5, <1>6, <1>7 DEF Power!Next

(* The pins follow what is held, but for one that two sources share.             *)
LEMMA LevelSet ==
  ASSUME NEW g \in Gpios, NEW s \in Pins!Sources, NEW high \in BOOLEAN, NEW latch \in BOOLEAN
  PROVE  LET t == Pins!SetLevel(g, PinOf[s], high, latch)
         IN  /\ t.high = IF high THEN g.high \cup {PinOf[s]} ELSE g.high \ {PinOf[s]}
             /\ latch /\ t.high # g.high => PinOf[s] \in t.flag
<1> DEFINE pin == PinOf[s]
           h == IF high THEN g.high \cup {pin} ELSE g.high \ {pin}
           r == [g EXCEPT !.high = h]
           f == [r EXCEPT !.flag = r.flag \cup {pin}]
           b == Flagged(f, PortOf[pin])
           u == [f EXCEPT !.irq[PortOf[pin]] = b]
<1>1. \/ Pins!SetLevel(g, pin, high, latch) = r /\ ~(latch /\ h # g.high)
      \/ Pins!SetLevel(g, pin, high, latch) = Pins!UpdateIrq(f, PortOf[pin])
  BY DEF Pins!SetLevel
<1>2. Pins!UpdateIrq(f, PortOf[pin]) = u  BY DEF Pins!UpdateIrq, Flagged
<1> HIDE DEF h, pin, b
<1>3. r.high = h /\ r.flag = g.flag  BY DEF Gpios
<1>4. u.high = h /\ u.flag = g.flag \cup {pin}  BY DEF Gpios
<1> HIDE DEF r, f, u
<1>5. h = IF high THEN g.high \cup {pin} ELSE g.high \ {pin}  BY DEF h
<1> QED BY <1>1, <1>2, <1>3, <1>4, <1>5 DEF pin

LEMMA InputOdd ==
  ASSUME InputInv, Pins!Next \/ UNCHANGED inputVars
  PROVE  Pins!OnlyResetOrSharing /\ Pins!RecordsChanges
<1>1. /\ GpioSound(gpio) /\ held \subseteq Pins!Sources /\ gpio \in Gpios
      /\ \A s \in Pins!Sources : PinOf[s] \in Pins!InputPins
  BY InputPinTypes DEF InputInv, Pins!TypeOK, GpioSound
<1>2. ASSUME gpio'.high = gpio.high, held' = held, recorded' = recorded
      PROVE  Pins!OnlyResetOrSharing /\ Pins!RecordsChanges
  BY <1>2 DEF Pins!OnlyResetOrSharing, Pins!RecordsChanges, Pins!PinsShowHost
<1>3. ASSUME NEW s \in Pins!Sources, NEW down \in BOOLEAN,
             gpio'.high = IF down THEN gpio.high \ {PinOf[s]} ELSE gpio.high \cup {PinOf[s]},
             held' = IF down THEN held \cup {s} ELSE held \ {s}
      PROVE  Pins!OnlyResetOrSharing
  <2>1. SUFFICES ASSUME Pins!PinsShowHost, ~(Pins!PinsShowHost)'
                 PROVE  \E t \in held' : Pins!LetGoByOther(t)
    BY DEF Pins!OnlyResetOrSharing
  <2>2. gpio.high = Pins!InputPins \ {PinOf[t] : t \in held}
        /\ gpio'.high # Pins!InputPins \ {PinOf[t] : t \in held'}
    BY <2>1 DEF Pins!PinsShowHost
  <2>3. CASE down
    BY <1>3, <2>2, <2>3
  <2>4. CASE ~down
    <3>1. gpio'.high = gpio.high \cup {PinOf[s]} /\ held' = held \ {s}
      BY <1>3, <2>4
    <3>2. PICK t \in held' : PinOf[t] = PinOf[s]
      BY <1>1, <2>2, <3>1
    <3>3. PinOf[t] \in gpio'.high /\ s \in Pins!Sources \ {t}
      BY <3>1, <3>2
    <3> QED BY <3>2, <3>3 DEF Pins!LetGoByOther
  <2> QED BY <2>3, <2>4
<1>4. ASSUME NEW b \in BOOLEAN, Pins!SetCable(b)
      PROVE  Pins!OnlyResetOrSharing /\ Pins!RecordsChanges
  <2>1. Cable \in Pins!Sources /\ (~b) \in BOOLEAN  BY DEF Pins!Sources
  <2>2. /\ gpio' = Pins!SetLevel(gpio, PinOf[Cable], ~b, TRUE) /\ recorded' = recorded
        /\ held' = IF b THEN held \cup {Cable} ELSE held \ {Cable}
    BY <1>4 DEF Pins!SetCable
  <2>3. gpio'.high = IF ~b THEN gpio.high \cup {PinOf[Cable]} ELSE gpio.high \ {PinOf[Cable]}
    BY <1>1, <2>1, <2>2, LevelSet
  <2>4. gpio'.high = IF b THEN gpio.high \ {PinOf[Cable]} ELSE gpio.high \cup {PinOf[Cable]}
    BY <2>3
  <2> QED BY <1>3, <2>1, <2>2, <2>4 DEF Pins!RecordsChanges
<1>5. CASE Pins!Deliver
  <2>1. CASE UNCHANGED <<gpio, recorded, held>>
    BY <1>2, <2>1
  <2>2. CASE ~UNCHANGED <<gpio, recorded, held>>
    <3> DEFINE m == Head(wire)[2]
    <3>1. m \in Pins!Messages
      <4>1. wire \in Seq({"head", "end"} \X Pins!Messages) /\ wire # <<>>
        BY <1>5 DEF InputInv, WireInv, Pins!Deliver
      <4>2. Head(wire) \in {"head", "end"} \X Pins!Messages
        BY <4>1, HeadTailProperties
      <4> QED BY <4>2
    <3>2. m.source \in Pins!Sources /\ m.down \in BOOLEAN /\ Pen \in Pins!Sources
          /\ (~m.down) \in BOOLEAN
      BY <3>1 DEF Pins!Messages, Pins!Sources
    <3>3. /\ IF m.source = Pen THEN Pins!Touch(m.down) ELSE Pins!Key(m)
          /\ held' = IF m.down THEN held \cup {m.source} ELSE held \ {m.source}
      BY <1>5, <2>2 DEF Pins!Deliver, Pins!Handle
    <3> HIDE DEF m
    <3>4. CASE m.source = Pen
      <4>1. gpio' = Pins!SetLevel(gpio, PinOf[m.source], ~m.down, FALSE) /\ recorded' = recorded
        BY <3>3, <3>4 DEF Pins!Touch
      <4>2. gpio'.high = IF ~m.down THEN gpio.high \cup {PinOf[m.source]}
                         ELSE gpio.high \ {PinOf[m.source]}
        BY <1>1, <3>2, <4>1, LevelSet
      <4>3. gpio'.high = IF m.down THEN gpio.high \ {PinOf[m.source]}
                         ELSE gpio.high \cup {PinOf[m.source]}
        BY <4>2
      <4> QED BY <1>3, <3>2, <3>3, <4>1, <4>3 DEF Pins!RecordsChanges
    <3>5. CASE m.source # Pen
      <4>1. /\ gpio' = Pins!SetLevel(gpio, PinOf[m.source], ~m.down, TRUE)
            /\ recorded' = IF gpio'.high = gpio.high THEN recorded ELSE m
        BY <3>3, <3>5 DEF Pins!Key
      <4>2. /\ gpio'.high = IF ~m.down THEN gpio.high \cup {PinOf[m.source]}
                            ELSE gpio.high \ {PinOf[m.source]}
            /\ gpio'.high # gpio.high => PinOf[m.source] \in gpio'.flag
        BY <1>1, <3>2, <4>1, LevelSet
      <4>3. gpio'.high = IF m.down THEN gpio.high \ {PinOf[m.source]}
                         ELSE gpio.high \cup {PinOf[m.source]}
        BY <4>2
      <4>4. Pins!RecordsChanges  BY <4>1, <4>2 DEF Pins!RecordsChanges
      <4> QED BY <1>3, <3>2, <3>3, <4>3, <4>4
    <3> QED BY <3>4, <3>5
  <2> QED BY <2>1, <2>2
<1>6. ASSUME NEW mask \in PinMasks,
             \/ Pins!Ack(mask) \/ Pins!ClearOut(mask)
             \/ \E b \in BOOLEAN : Pins!SetMask(mask, b)
      PROVE  Pins!OnlyResetOrSharing /\ Pins!RecordsChanges
  <2>1. held' = held /\ recorded' = recorded
    BY <1>6 DEF Pins!Ack, Pins!ClearOut, Pins!SetMask
  <2>2. CASE Pins!Ack(mask)
    <3> DEFINE f == gpio.flag \ mask
               o == gpio.out \cup mask
               g == [gpio EXCEPT !.out = o, !.flag = f]
               i == [port \in Pins!Ports |->
                      IF \E p \in mask : PortOf[p] = port
                      THEN \E p \in g.flag : PortOf[p] = port ELSE g.irq[port]]
    <3>1. gpio' = [g EXCEPT !.irq = i]  BY <2>2 DEF Pins!Ack
    <3> HIDE DEF f, o, i
    <3>2. gpio'.high = gpio.high  BY <1>1, <3>1 DEF Gpios
    <3> QED BY <1>2, <2>1, <3>2
  <2>3. CASE Pins!ClearOut(mask)
    <3>1. gpio'.high = gpio.high  BY <1>1, <2>3 DEF Gpios, Pins!ClearOut
    <3> QED BY <1>2, <2>1, <3>1
  <2>4. ASSUME NEW b \in BOOLEAN, Pins!SetMask(mask, b) PROVE gpio'.high = gpio.high
    <3> DEFINE k == IF b THEN gpio.masked \cup mask ELSE gpio.masked \ mask
    <3>1. gpio' = [gpio EXCEPT !.masked = k]  BY <2>4 DEF Pins!SetMask
    <3> HIDE DEF k
    <3> QED BY <1>1, <3>1 DEF Gpios
  <2> QED BY <1>2, <1>6, <2>1, <2>2, <2>3, <2>4
<1>7. CASE Pins!NandReady
  <2> DEFINE g == [gpio EXCEPT !.flag = gpio.flag \cup {ReadyPin}]
             b == Flagged(g, PortOf[ReadyPin])
  <2>1. gpio' = [g EXCEPT !.irq[PortOf[ReadyPin]] = b] /\ held' = held /\ recorded' = recorded
    BY <1>7 DEF Pins!NandReady, Pins!UpdateIrq, Flagged
  <2> HIDE DEF b
  <2>2. gpio'.high = gpio.high  BY <1>1, <2>1 DEF Gpios
  <2> QED BY <1>2, <2>1, <2>2
<1>8. CASE Pins!Reset
  BY <1>8 DEF Pins!Reset, Pins!OnlyResetOrSharing, Pins!RecordsChanges
<1>9. CASE Pins!Restore
  <2> DEFINE i == [port \in Pins!Ports |-> \E p \in gpio.flag : PortOf[p] = port]
  <2>1. gpio' = [gpio EXCEPT !.irq = i] /\ held' = held /\ recorded' = recorded
    BY <1>9 DEF Pins!Restore
  <2> HIDE DEF i
  <2>2. gpio'.high = gpio.high  BY <1>1, <2>1 DEF Gpios
  <2> QED BY <1>2, <2>1, <2>2
<1>10. CASE (\E m \in Pins!Messages : Pins!Send(m)) \/ UNCHANGED inputVars
  <2>1. UNCHANGED <<gpio, held, recorded>>  BY <1>10 DEF Pins!Send, inputVars
  <2> QED BY <1>2, <2>1
<1> QED BY <1>4, <1>5, <1>6, <1>7, <1>8, <1>9, <1>10 DEF Pins!Next

(* A start that finds pages of the boot ROM's in an area which it cannot use.     *)
LEMMA BootOdd ==
  ASSUME BootInv, Boot!Next \/ UNCHANGED bootVars
  PROVE  Boot!OnlyStartLoads /\ Boot!StartsWell
<1>0. image \in Images /\ StageSize \in Nat /\ Backup \in Nat /\ image.pages \in Nat
  <2>1. image \in Images  BY DEF BootInv
  <2> QED BY <2>1, BootAssumption
<1>1. Boot!OnlyStartLoads
  <2>1. SUFFICES ASSUME board.up PROVE ram' = ram \/ ram' = Boot!Empty
    BY DEF Boot!OnlyStartLoads
  <2> QED BY <2>1 DEF Boot!Next, Boot!StartBootRom, Boot!StartRaw, Boot!StartKernel,
      Boot!WriteRam, Boot!Reset, Boot!Quit, Boot!WritePage, Boot!vars, bootVars
<1>2. ASSUME NEW f \in Firmwares, NEW first \in {0, Backup}, NEW area \in {"normal", "backup"},
             first = (IF area = "normal" THEN 0 ELSE Backup),
             area = "backup" => ~Boot!Loads(0),
             Boot!LoadFirstStage(first, area, f), nand' = nand
      PROVE  Boot!StartsWell
  <2>1. board'.area = area /\ Boot!Loads(first) /\ ram' = Boot!Copied(first)
    BY <1>2 DEF Boot!LoadFirstStage
  <2>2. Boot!AreaHasValidPage(first) /\ ~Boot!CopyFails(first)
    BY <2>1 DEF Boot!Loads
  <2>0. StageSize > 0
    BY <1>0, <2>2 DEF Boot!CopyFails, Boot!Marked, Boot!Area
  <2>3. image.present /\ image.spare
    BY <2>2 DEF Boot!AreaHasValidPage, Boot!PageValid, Boot!CopyFails, Boot!Corrects
  <2>4. ASSUME area = "backup"
        PROVE  \/ \E p \in Boot!InImage(0) : nand[p].data = "lost"
               \/ \A p \in Boot!InImage(0) : ~nand[p].mark \/ nand[p].data = "erased"
               \/ ~nand[0].mark
    <3>1. ~Boot!Loads(0)  BY <1>2, <2>4
    <3>2. \A p \in Boot!InImage(0) : Boot!PageValid(p) <=> nand[p].mark
      BY <2>3 DEF Boot!PageValid, Boot!InImage
    <3>3. CASE ~Boot!AreaHasValidPage(0)
      BY <3>2, <3>3 DEF Boot!AreaHasValidPage
    <3>4. CASE Boot!RangeErased(0)
      BY <3>4 DEF Boot!RangeErased
    <3>5. CASE Boot!Marked(0) = {}
      <4>1. 0 \in Boot!Area(0)  BY <1>0, <2>0 DEF Boot!Area
      <4>2. ~Boot!PageValid(0)
        <5>1. \A q \in 0 .. 0 : q = 0  OBVIOUS
        <5> QED BY <3>5, <4>1, <5>1 DEF Boot!Marked
      <4>3. CASE 0 < image.pages
        <5>1. 0 \in Boot!InImage(0)  BY <4>1, <4>3 DEF Boot!InImage
        <5> QED BY <3>2, <4>2, <5>1
      <4>4. CASE ~(0 < image.pages)
        <5>1. Boot!InImage(0) = {}  BY <1>0, <4>4 DEF Boot!InImage, Boot!Area
        <5> QED BY <5>1
      <4> QED BY <4>3, <4>4
    <3>6. ASSUME NEW p \in Boot!Marked(0), ~Boot!Corrects(p)
          PROVE  \E q \in Boot!InImage(0) : nand[q].data = "lost"
      <4>1. p \in Boot!Area(0) /\ p \in 0 .. p
        BY <1>0 DEF Boot!Marked, Boot!Area
      <4>2. Boot!PageValid(p)  BY <4>1 DEF Boot!Marked
      <4> QED BY <2>3, <3>6, <4>1, <4>2 DEF Boot!PageValid, Boot!Corrects, Boot!InImage
    <3> QED BY <3>1, <3>3, <3>4, <3>5, <3>6 DEF Boot!Loads, Boot!CopyFails
  <2>5. ASSUME \A p \in Boot!Area(first) : p < image.pages /\ nand[p].mark
        PROVE  Len(ram') = StageSize
    <3>1. first \in Nat  BY <1>0
    <3>2. \A p \in Boot!Area(first) : Boot!PageValid(p)
      BY <2>3, <2>5 DEF Boot!PageValid
    <3>3. Boot!Marked(first) = first .. first + StageSize - 1
      BY <1>0, <3>1, <3>2 DEF Boot!Marked, Boot!Area
    <3>4. Cardinality(first .. first + StageSize - 1) = StageSize
      <4> DEFINE last == first + StageSize - 1
      <4>1. first \in Int /\ last \in Int /\ first <= last /\ last - first + 1 = StageSize
        BY <1>0, <2>0, <3>1
      <4> HIDE DEF last
      <4>2. Cardinality(first .. last) = last - first + 1
        BY <4>1, FS_Interval
      <4> QED BY <4>1, <4>2 DEF last
    <3>5. Len(Boot!Copied(first)) = Cardinality(Boot!Marked(first))
      BY <1>0, <2>2, <3>1, CopiedPages
    <3> QED BY <2>1, <3>3, <3>4, <3>5
  <2>6. Len(ram') < StageSize =>
          \E p \in Boot!Area(first) : p >= image.pages \/ ~nand[p].mark
    <3>1. SUFFICES ASSUME Len(ram') < StageSize,
                          \A p \in Boot!Area(first) : ~(p >= image.pages \/ ~nand[p].mark)
                   PROVE  FALSE
      OBVIOUS
    <3>2. \A p \in Boot!Area(first) : p < image.pages /\ nand[p].mark
      BY <1>0, <3>1 DEF Boot!Area
    <3> QED BY <1>0, <2>5, <3>1, <3>2
  <2>7. (area = "normal") = (board'.area = "normal") /\ (area = "backup") = (board'.area = "backup")
    BY <2>1
  <2> QED BY <1>2, <2>1, <2>4, <2>6 DEF Boot!StartsWell
<1>3. ASSUME board'.area \in {"none", "raw", "kernel"} \/ board'.area = board.area
      PROVE  Boot!StartsWell
  BY <1>3 DEF Boot!StartsWell
<1>4. ASSUME NEW f \in Firmwares, Boot!StartBootRom(f) PROVE Boot!StartsWell
  <2>1. nand' = nand  BY <1>4 DEF Boot!StartBootRom
  <2>2. CASE Boot!LoadFirstStage(0, "normal", f)
    BY <1>2, <2>1, <2>2
  <2>3. CASE ~Boot!Loads(0) /\ Boot!LoadFirstStage(Backup, "backup", f)
    BY <1>2, <2>1, <2>3
  <2>4. CASE board' = Boot!Down
    BY <1>3, <2>4 DEF Boot!Down
  <2> QED BY <1>4, <2>2, <2>3, <2>4 DEF Boot!StartBootRom
<1>5. ASSUME ~(\E f \in Firmwares : Boot!StartBootRom(f)) PROVE Boot!StartsWell
  <2>1. board' = Boot!Down \/ board' = board \/ board'.area \in {"raw", "kernel"}
    BY <1>5 DEF Boot!Next, Boot!StartRaw, Boot!LoadRaw, Boot!StartKernel,
       Boot!WriteRam, Boot!Reset, Boot!Quit, Boot!WritePage, Boot!vars, bootVars
  <2> QED BY <1>3, <2>1 DEF Boot!Down
<1> QED BY <1>1, <1>4, <1>5

----------------------------------------------------------------------------
(* What each device keeps, whatever it is given and in whatever order.           *)
DevicesInv ==
  /\ unit = "dma" => DmaInv
  /\ unit = "rtc" => RtcInv
  /\ unit = "input" => InputInv
  /\ unit = "uart" => UartInv /\ UartOrder
  /\ unit = "lcd" => LcdLemmas!DisplayInv
  /\ unit = "stream" => StreamLemmas!DisplayInv
  /\ unit = "udc" => UdcInv
  /\ unit = "cim" => CimInv
  /\ unit = "emc" => EmcInv
  /\ unit = "cpm" => CpmInv
  /\ unit = "boot" => BootInv
  /\ unit = "tcu" => TcuInv
  /\ unit = "diag" => DiagInv

LEMMA DevicesStart == Init => DevicesInv
<1> SUFFICES ASSUME Init PROVE DevicesInv
  OBVIOUS
<1>1. unit = "rtc" => RtcInv  BY RtcStarts DEF Init
<1>2. unit = "input" => InputInv  BY InputStarts DEF Init
<1>3. unit = "uart" => UartInv /\ UartOrder  BY UartStarts, OrderStarts DEF Init
<1>4. unit = "lcd" => LcdLemmas!DisplayInv  BY LcdStarts DEF Init
<1>5. unit = "stream" => StreamLemmas!DisplayInv  BY StreamStarts DEF Init
<1>6. unit = "udc" => UdcInv  BY UdcStarts DEF Init
<1>7. unit = "cim" => CimInv  BY CimStarts DEF Init, Camera!Init
<1>8. unit = "emc" => EmcInv  BY EmcStarts DEF Init
<1>9. unit = "cpm" => CpmInv  BY CpmStarts DEF Init
<1>10. unit = "dma" => DmaInv  BY DmaStarts DEF Init
<1>11. unit = "boot" => BootInv  BY BootStarts DEF Init
<1>12. unit = "tcu" => TcuInv  BY TcuStarts DEF Init
<1>13. unit = "diag" => DiagInv  BY DiagStarts DEF Init
<1> QED
  BY <1>1, <1>2, <1>3, <1>4, <1>5, <1>6, <1>7, <1>8, <1>9, <1>10, <1>11, <1>12, <1>13
  DEF DevicesInv

LEMMA DevicesStep == ASSUME DevicesInv, [Next]_vars PROVE DevicesInv'
<1>1. (unit = "rtc" => RtcInv)'  BY Steps, RtcSteps DEF DevicesInv
<1>2. (unit = "input" => InputInv)'  BY Steps, InputSteps DEF DevicesInv
<1>3. (unit = "uart" => UartInv /\ UartOrder)'
  BY Steps, UartSteps, UartFlow, UartOrdered DEF DevicesInv
<1>4. (unit = "lcd" => LcdLemmas!DisplayInv)'  BY Steps, LcdSteps DEF DevicesInv
<1>5. (unit = "stream" => StreamLemmas!DisplayInv)'  BY Steps, StreamSteps DEF DevicesInv
<1>6. (unit = "udc" => UdcInv)'  BY Steps, UdcSteps DEF DevicesInv
<1>7. (unit = "cim" => CimInv)'  BY Steps, CimSteps DEF DevicesInv
<1>8. (unit = "emc" => EmcInv)'  BY Steps, EmcSteps DEF DevicesInv
<1>9. (unit = "cpm" => CpmInv)'  BY Steps, CpmSteps DEF DevicesInv
<1>10. (unit = "dma" => DmaInv)'  BY Steps, DmaSteps DEF DevicesInv
<1>11. (unit = "boot" => BootInv)'  BY Steps, BootSteps DEF DevicesInv
<1>12. (unit = "tcu" => TcuInv)'  BY Steps, TcuSteps DEF DevicesInv
<1>13. (unit = "diag" => DiagInv)'  BY Steps, DiagSteps DEF DevicesInv
<1> QED
  BY <1>1, <1>2, <1>3, <1>4, <1>5, <1>6, <1>7, <1>8, <1>9, <1>10, <1>11, <1>12, <1>13
  DEF DevicesInv

(* The registers of every device keep their types, and what is derived from them   *)
(* in passing is up to date: the interrupt output (each update_irq), the deadlines  *)
(* of the clock and the timer unit (rtc_schedule, tcu_reschedule), the flag of the  *)
(* transmitter (uart_latch_thr_irq), the pieces of a line of the host               *)
(* (host_input_read), the frame that an interrupt names (jz4740_lcd_latch_iid),     *)
(* the channels of the DMA controller that nothing holds up (dmac_try_run_channel), *)
(* and the rings of the recorder.                                                *)
THEOREM DevicesCorrect == Spec => []DevicesInv
<1>1. DevicesInv /\ [Next]_vars => DevicesInv'
  BY DevicesStep
<1> QED BY DevicesStart, <1>1, PTL DEF Spec

(* The output of every device is what its flags and enables ask for, for every  *)
(* value that the guest writes and in every order: no handler of jz4740_rtc.c,  *)
(* jz4740_gpio.c, the UART, the LCD controller, the UDC, the CIM or the EMC     *)
(* forgets its update_irq; and jz4740_cpm.c has told the board of the wake bits. *)
THEOREM OutputsAgree == Spec => []LinesAgree
<1>1. DevicesInv => LinesAgree
  BY DEF DevicesInv, LinesAgree, RtcInv, InputInv, UartInv, UdcInv, CimInv, EmcInv, CpmInv,
     LcdLemmas!DisplayInv, LcdLemmas!LineAgrees, LcdLemmas!Pending,
     StreamLemmas!DisplayInv, StreamLemmas!LineAgrees, StreamLemmas!Pending,
     Lcd!LineAgrees, Lcd!Pending
<1> QED BY DevicesCorrect, <1>1, PTL

(* No handler leaves work behind: a channel whose descriptor or count is ready has  *)
(* run to its end (dmac_run_all_auto), the timers of the clock and the timer unit   *)
(* expire no later than the guest waits for, a line of the host is handled when it   *)
(* is complete; the boot ROM hands over corrected pages, and neither the input       *)
(* queue nor a ring that has its memory to itself loses what is newest, for rings   *)
(* of every size and every count.                                                *)
THEOREM NothingIsStranded == Spec => []NothingStrands
<1>1. DevicesInv => NothingStrands
  <2> SUFFICES ASSUME DevicesInv PROVE NothingStrands
    OBVIOUS
  <2>1. unit = "dma" => Dmac!NothingWaits  BY DmaSound DEF DevicesInv
  <2>2. unit = "rtc" => Clock!DeadlineSet  BY DEF DevicesInv, RtcInv
  <2>3. unit = "input" => Pins!LineFlows  BY DEF DevicesInv, InputInv
  <2>4. unit = "boot" => Boot!StageSound  BY DEF DevicesInv, BootInv
  <2>5. unit = "tcu" => Counters!DeadlineExact  BY TcuSound DEF DevicesInv
  <2>6. unit = "diag" => Recorder!QueueKept /\ Recorder!NewestWhole
    BY DiagSound DEF DevicesInv
  <2> QED BY <2>1, <2>2, <2>3, <2>4, <2>5, <2>6 DEF NothingStrands
<1> QED BY DevicesCorrect, <1>1, PTL

(* Every unit of the board keeps its types, those of the CPU among them.          *)
THEOREM TypeCorrect == Spec => []TypeOK
<1>1. Spec => [](unit \in Units)
  <2>1. Init => unit \in Units  BY DEF Init
  <2>2. unit \in Units /\ [Next]_vars => (unit \in Units)'
    <3> SUFFICES ASSUME unit \in Units, [Next]_vars PROVE unit' \in Units
      OBVIOUS
    <3> QED BY Steps
  <2> QED BY <2>1, <2>2, PTL DEF Spec
<1>2. unit \in Units /\ DevicesInv /\ CpuInv => TypeOK
  <2> SUFFICES ASSUME unit \in Units, DevicesInv, CpuInv PROVE TypeOK
    OBVIOUS
  <2>1. CASE unit = "dma"  BY <2>1, DmaSound DEF DevicesInv, TypeOK
  <2>2. CASE unit = "rtc"  BY <2>2 DEF DevicesInv, RtcInv, TypeOK
  <2>3. CASE unit = "input"  BY <2>3 DEF DevicesInv, InputInv, TypeOK
  <2>4. CASE unit = "uart"  BY <2>4 DEF DevicesInv, UartInv, TypeOK
  <2>5. CASE unit = "lcd"
    <3>1. LcdLemmas!DisplayInv  BY <2>5 DEF DevicesInv
    <3>2. Lcd!TypeOK  BY <3>1, LcdTyped
    <3> QED BY <2>5, <3>2 DEF TypeOK
  <2>6. CASE unit = "stream"
    <3>1. StreamLemmas!DisplayInv  BY <2>6 DEF DevicesInv
    <3>2. Stream!TypeOK  BY <3>1, StreamTyped
    <3> QED BY <2>6, <3>2 DEF TypeOK
  <2>7. CASE unit = "udc"  BY <2>7 DEF DevicesInv, UdcInv, TypeOK
  <2>8. CASE unit = "cim"  BY <2>8 DEF DevicesInv, CimInv, TypeOK
  <2>9. CASE unit = "emc"  BY <2>9 DEF DevicesInv, EmcInv, TypeOK
  <2>10. CASE unit = "cpm"  BY <2>10 DEF DevicesInv, CpmInv, TypeOK
  <2>11. CASE unit = "boot"  BY <2>11 DEF DevicesInv, BootInv, TypeOK
  <2>12. CASE unit = "tcu"  BY <2>12, TcuSound DEF DevicesInv, TypeOK
  <2>13. CASE unit = "tlb"  BY <2>13, CpuTyped DEF TypeOK
  <2>14. CASE unit = "core"  BY <2>14, CpuTyped DEF TypeOK
  <2>15. CASE unit = "cp0"  BY <2>15, CpuTyped DEF TypeOK
  <2>16. CASE unit = "diag"  BY <2>16, DiagSound DEF DevicesInv, TypeOK
  <2> QED
    BY <2>1, <2>2, <2>3, <2>4, <2>5, <2>6, <2>7, <2>8, <2>9, <2>10, <2>11, <2>12, <2>13,
       <2>14, <2>15, <2>16 DEF Units
<1> QED BY DevicesCorrect, CpuCorrect, <1>1, <1>2, PTL

Ordered ==
  /\ unit = "uart" => Serial!InOrder' /\ Serial!OnlyClearLoses
  /\ unit = "lcd" => Lcd!IidHeld
  /\ unit = "stream" => Stream!OnlyLateClientsMiss
  /\ unit = "rtc" => Clock!SleepHolds
  /\ unit = "tcu" => Counters!CounterKept /\ Counters!NoUndividedMatchLost

(* What comes in order stays in order, step by step: the bytes of the serial port   *)
(* (uart_receive, uart_rx_pop), the frame that an interrupt of the LCD controller   *)
(* names, the newest picture for a client that keeps up; a machine that hibernates   *)
(* wakes by its alarm or a reset; a counter of the timer unit goes on from where the *)
(* guest left it, and under icount no match of an undivided counter is lost.       *)
THEOREM OrderStays == ASSUME Icount PROVE Spec => OrderKept
<1>1. DevicesInv /\ [Next]_vars => [Ordered]_vars
  <2> SUFFICES ASSUME DevicesInv, [Next]_vars PROVE Ordered
    OBVIOUS
  <2>1. unit = "uart" => Serial!InOrder' /\ Serial!OnlyClearLoses
    BY Steps, UartFlow, UartOrdered DEF DevicesInv, UartOrder
  <2>2. unit = "lcd" => Lcd!IidHeld  BY Steps, LcdSteps DEF DevicesInv
  <2>3. unit = "stream" => Stream!OnlyLateClientsMiss  BY Steps, StreamSteps DEF DevicesInv
  <2>4. unit = "rtc" => Clock!SleepHolds  BY Steps, RtcSleeps DEF DevicesInv
  <2>5. unit = "tcu" => Counters!CounterKept /\ Counters!NoUndividedMatchLost
    BY Steps, CountersKept, MatchesServed DEF DevicesInv
  <2> QED BY <2>1, <2>2, <2>3, <2>4, <2>5 DEF Ordered
<1>2. [][Ordered]_vars => OrderKept
  BY PTL DEF Ordered, OrderKept
<1> QED BY DevicesCorrect, <1>1, <1>2, PTL DEF Spec

Odd ==
  /\ unit = "dma" => /\ Dmac!DoorbellStrands /\ Dmac!LoadDesyncs
                     /\ Dmac!EndsByCard /\ Dmac!PendingKept
  /\ unit = "input" => Pins!OnlyResetOrSharing /\ Pins!RecordsChanges
  /\ unit = "udc" => Usb!OneEndpoint
  /\ unit = "cim" => Camera!DisableAnswered
  /\ unit = "cpm" => Power!OnlyItsLanes
  /\ unit = "diag" => Recorder!OnlyOverlapMixes
  /\ unit = "boot" => Boot!OnlyStartLoads /\ Boot!StartsWell

(* A device comes into the states that surprise its reader by the one step that is   *)
(* known for it: a card command is left waiting only by a doorbell, a block that     *)
(* waits for a device ends only with the card's answer, and the lines of the DMA     *)
(* controller come apart only by the load of a descriptor (dmac_try_channel); the     *)
(* pins leave the host's keys only by a reset or where two share one; a write of the  *)
(* USB controller reaches one endpoint; a camera that is switched off says so; the    *)
(* power manager keeps what is outside the lanes of an access; two rings mix only     *)
(* where their memory overlaps; only a start loads the boot area, and it falls back   *)
(* to the second copy only when the first is of no use.                            *)
THEOREM OddStatesKnown == Spec => OddStates
<1>1. DevicesInv /\ [Next]_vars => [Odd]_vars
  <2> SUFFICES ASSUME DevicesInv, [Next]_vars PROVE Odd
    OBVIOUS
  <2>1. unit = "dma" => DmaOdd  BY Steps, DmaStaysOdd DEF DevicesInv
  <2>2. unit = "input" => Pins!OnlyResetOrSharing /\ Pins!RecordsChanges
    BY Steps, InputOdd DEF DevicesInv
  <2>3. unit = "udc" => Usb!OneEndpoint  BY Steps, UdcOdd DEF DevicesInv
  <2>4. unit = "cim" => Camera!DisableAnswered  BY Steps, CimOdd DEF DevicesInv
  <2>5. unit = "cpm" => Power!OnlyItsLanes  BY Steps, CpmOdd DEF DevicesInv
  <2>6. unit = "diag" => Recorder!OnlyOverlapMixes  BY Steps, DiagOdd DEF DevicesInv
  <2>7. unit = "boot" => Boot!OnlyStartLoads /\ Boot!StartsWell
    BY Steps, BootOdd DEF DevicesInv
  <2> QED BY <2>1, <2>2, <2>3, <2>4, <2>5, <2>6, <2>7 DEF Odd, DmaOdd
<1>2. [][Odd]_vars => OddStates
  BY PTL DEF Odd, OddStates
<1> QED BY DevicesCorrect, <1>1, <1>2, PTL DEF Spec
=============================================================================
