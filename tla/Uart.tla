-------------------------------- MODULE Uart -------------------------------
(***************************************************************************)
(* The JZ4740 serial port (hw/char/jz4740_uart.c): the receive FIFO fed by *)
(* a character device or by the loop, the one latch of the transmitter,    *)
(* the error bits and the interrupt they are ranked into.                  *)
(*                                                                         *)
(* Bytes are numbered in the order in which the host sends them, so that   *)
(* loss and reordering show.                                               *)
(***************************************************************************)
EXTENDS Naturals, Sequences

CONSTANTS
  FifoSize,      \* 16 in the code
  FifoModes,     \* what the guest writes to FCR: [fifo, unit, trigger, clear]
  Enables,       \* sets of interrupt enables that it writes to IER
  MaxByte        \* bound: bytes the host sends

VARIABLES
  uart,          \* ier, unit (UME), fifo (FME), trigger, dlab, loop, link,
                 \* cts, ctsChanged, thr, errors, irq
  rx,            \* the receive FIFO
  sent,          \* the host's last byte
  got            \* the last byte of the host that the guest read

vars == <<uart, rx, sent, got>>

Interrupts == {"RDRIE", "TDRIE", "RLSIE", "RTOIE", "MSIE"}
Looped == 0      \* a byte from the loop

(* uart_reset_hold *)
ResetUart ==
  [ier |-> {}, unit |-> FALSE, fifo |-> FALSE, trigger |-> 1, dlab |-> FALSE,
   loop |-> FALSE, link |-> FALSE, cts |-> FALSE, ctsChanged |-> FALSE,
   thr |-> FALSE, errors |-> {}, irq |-> FALSE]

Init == uart = ResetUart /\ rx = <<>> /\ sent = 0 /\ got = 0

----------------------------------------------------------------------------
(* uart_rx_trigger_level, uart_rx_data_ready *)
DataReady(u, q) == Len(q) >= (IF u.fifo THEN u.trigger ELSE 1)

(* uart_iir_value: the pending causes, in the order in which IIR ranks them.   *)
(* The transmit register is always empty.                                      *)
Cause(u, q) ==
  IF ~u.unit THEN "none"
  ELSE IF "RLSIE" \in u.ier /\ u.errors # {} THEN "status"
  ELSE IF "RDRIE" \in u.ier /\ DataReady(u, q) THEN "data"
  ELSE IF "RTOIE" \in u.ier /\ q # <<>> THEN "timeout"
  ELSE IF "TDRIE" \in u.ier /\ u.thr THEN "transmit"
  ELSE IF "MSIE" \in u.ier /\ u.ctsChanged THEN "modem"
  ELSE "none"

(* uart_update_lsr, then uart_update_irq *)
UpdateLsr(u) ==
  IF u.fifo /\ u.errors # {} THEN [u EXCEPT !.errors = @ \cup {"FIFOE"}] ELSE u

Settled(u, q) ==
  LET v == UpdateLsr(u) IN [v EXCEPT !.irq = Cause(v, q) # "none"]

Settle(u, q) == uart' = Settled(u, q) /\ rx' = q

(* uart_latch_thr_irq; a fault: also while the unit is off. *)
LatchAnyway(u) ==
  IF "TDRIE" \in u.ier THEN [u EXCEPT !.thr = TRUE] ELSE u

LatchTransmit(u) ==
  IF u.unit /\ "TDRIE" \in u.ier THEN [u EXCEPT !.thr = TRUE] ELSE u

(* uart_push_rx *)
Push(u, q, byte) ==
  IF Len(q) < FifoSize THEN <<u, Append(q, byte)>>
  ELSE <<[u EXCEPT !.errors = @ \cup {"OVER"}], q>>

(* uart_can_receive, uart_receive: the character device waits for room. *)
Receive ==
  /\ Len(rx) < FifoSize /\ sent < MaxByte /\ sent' = sent + 1
  /\ LET p == Push(uart, rx, sent') IN Settle(p[1], p[2])
  /\ UNCHANGED got

(* uart_write_reg: THR, which is the low divisor byte while DLAB is set. *)
Transmit ==
  /\ LET u == [uart EXCEPT !.thr = FALSE]
         p == IF uart.loop THEN Push(u, rx, Looped) ELSE <<u, rx>>
     IN  IF uart.dlab THEN Settle(uart, rx) ELSE Settle(LatchTransmit(p[1]), p[2])
  /\ UNCHANGED <<sent, got>>

WriteEnables(e) ==
  /\ Settle(IF uart.dlab THEN uart
            ELSE LET u == [uart EXCEPT !.ier = e]
                 IN  IF "TDRIE" \notin e THEN [u EXCEPT !.thr = FALSE]
                     ELSE IF "TDRIE" \in uart.ier THEN u ELSE LatchTransmit(u), rx)
  /\ UNCHANGED <<sent, got>>

(* FCR; uart_clear_rx settles before the new mode is set. *)
WriteFifo(m) ==
  LET c == IF "rx" \in m.clear THEN Settled([uart EXCEPT !.errors = {}], <<>>) ELSE uart
      t == IF "tx" \in m.clear THEN [c EXCEPT !.thr = FALSE] ELSE c
      u == [t EXCEPT !.fifo = m.fifo, !.unit = m.unit, !.trigger = m.trigger]
  IN  /\ Settle(IF m.unit THEN LatchTransmit(u) ELSE [u EXCEPT !.thr = FALSE],
                IF "rx" \in m.clear THEN <<>> ELSE rx)
      /\ UNCHANGED <<sent, got>>

WriteLine(dlab) ==
  Settle([uart EXCEPT !.dlab = dlab], rx) /\ UNCHANGED <<sent, got>>

(* uart_update_msr: CTS follows MDCE, LOOP and RTS together. *)
UpdateModem(u) ==
  LET cts == u.loop /\ u.link
  IN  [u EXCEPT !.cts = cts, !.ctsChanged = @ \/ cts # u.cts]

WriteModem(loop, link) ==
  /\ Settle(UpdateModem([uart EXCEPT !.loop = loop, !.link = link]), rx)
  /\ UNCHANGED <<sent, got>>

(* uart_read_reg: RBR with uart_pop_rx; an empty FIFO reads as 0xff. *)
ReadData ==
  /\ ~uart.dlab
  /\ Settle(uart, IF rx = <<>> THEN rx ELSE Tail(rx))
  /\ got' = (IF rx # <<>> /\ Head(rx) # Looped THEN Head(rx) ELSE got)
  /\ UNCHANGED sent

(* IIR: reading the transmit cause is what ends it. *)
ReadCause ==
  /\ IF Cause(uart, rx) = "transmit"
     THEN LET u == [uart EXCEPT !.thr = FALSE]
          IN  uart' = [u EXCEPT !.irq = Cause(u, rx) # "none"] /\ rx' = rx
     ELSE UNCHANGED <<uart, rx>>
  /\ UNCHANGED <<sent, got>>

ReadStatus == Settle([uart EXCEPT !.errors = {}], rx) /\ UNCHANGED <<sent, got>>

ReadModem ==
  /\ LET u == [UpdateModem(uart) EXCEPT !.ctsChanged = FALSE]
     IN  uart' = [u EXCEPT !.irq = Cause(u, rx) # "none"]
  /\ UNCHANGED <<rx, sent, got>>

Reset == uart' = ResetUart /\ rx' = <<>> /\ UNCHANGED <<sent, got>>

(* uart_post_load *)
Restore == Settle(uart, rx) /\ UNCHANGED <<sent, got>>

Next ==
  \/ Receive \/ Transmit \/ ReadData \/ ReadCause \/ ReadStatus \/ ReadModem
  \/ \E e \in Enables : WriteEnables(e)
  \/ \E m \in FifoModes : WriteFifo(m)
  \/ \E d \in BOOLEAN : WriteLine(d)
  \/ \E l, k \in BOOLEAN : WriteModem(l, k)
  \/ Reset \/ Restore

Spec == Init /\ [][Next]_vars

----------------------------------------------------------------------------
TypeOK ==
  /\ uart \in [ier : SUBSET Interrupts, unit : BOOLEAN, fifo : BOOLEAN,
               trigger : {m.trigger : m \in FifoModes} \cup {1}, dlab : BOOLEAN, loop : BOOLEAN,
               link : BOOLEAN, cts : BOOLEAN, ctsChanged : BOOLEAN, thr : BOOLEAN,
               errors : SUBSET {"OVER", "FIFOE"}, irq : BOOLEAN]
  /\ Len(rx) <= FifoSize /\ {sent, got} \subseteq 0 .. MaxByte

(* The output stands for the causes that IIR would name, and the latch of the  *)
(* transmitter is set only for a guest that asked for it.                      *)
LineAgrees ==
  /\ uart.irq = (Cause(uart, rx) # "none")
  /\ uart.thr => uart.unit /\ "TDRIE" \in uart.ier

(* What the host sent stays in order, none of it twice. *)
InOrder ==
  \A j \in 1 .. Len(rx) :
    rx[j] # Looped => got < rx[j] /\ \A i \in 1 .. j - 1 : rx[i] < rx[j]

(* Only the loop overruns the FIFO, and a byte of the host is lost only when    *)
(* the guest or a reset empties the FIFO.                                      *)
Lost == ~(got + 1 .. sent \subseteq {rx[i] : i \in 1 .. Len(rx)})

OnlyClearLoses ==
  /\ "OVER" \in uart'.errors /\ "OVER" \notin uart.errors => uart.loop
  /\ Lost' /\ ~Lost => rx' = <<>> /\ rx # <<>> /\ got' = got
=============================================================================
