------------------------------- MODULE Input -------------------------------
(***************************************************************************)
(* From the host's keyboard, pen and power cable to the pins of the GPIO   *)
(* controller: the line protocol of hw/input/bbk9588_host_input.c, the     *)
(* board's key and touch callbacks (hw/mips/bbk9588.c) and                 *)
(* hw/gpio/jz4740_gpio.c.                                                  *)
(*                                                                         *)
(* Keys, the pen and the cable pull their pin low.  The pen shares its pin *)
(* with one of the keys.                                                   *)
(***************************************************************************)
EXTENDS Naturals, Sequences

CONSTANTS
  Keys, Pen, Cable,    \* what the host can hold down
  PinOf,               \* its pin; only the pen's is a key's as well
  PortOf,              \* pin -> port, for ReadyPin too
  ReadyPin,            \* raised by the NAND device, which drives no level
  Masks,               \* sets of pins that one register access names
  LineLimit,           \* pieces of the line buffer, 128 bytes in the code
  WireLimit            \* bound: messages on their way to QEMU

VARIABLES
  wire,          \* pieces of lines in the socket of the input chardev
  line,          \* host_input: what was read since the last newline
  gpio,          \* high, flag, irq, out (DAT), masked (IM), resetHigh
  held,          \* what the host holds down, as QEMU was told
  recorded       \* the last key event given to the recorder

vars == <<wire, line, gpio, held, recorded>>

Pins == DOMAIN PortOf
Ports == {PortOf[p] : p \in Pins}
Sources == Keys \cup {Pen, Cable}
InputPins == {PinOf[s] : s \in Sources}
Messages == [source : Keys \cup {Pen}, down : BOOLEAN]
NoEvent == [source |-> Cable, down |-> FALSE]

(* gpio_update_irq: the mask register has no part in it. *)
UpdateIrq(g, port) ==
  [g EXCEPT !.irq[port] = \E p \in g.flag : PortOf[p] = port]

(* jz4740_gpio_set_input_level *)
SetLevel(g, pin, high, latch) ==
  LET changed == (pin \in g.high) # high
      s == [g EXCEPT !.high = IF high THEN @ \cup {pin} ELSE @ \ {pin}]
  IN  IF changed /\ latch
      THEN UpdateIrq([s EXCEPT !.flag = @ \cup {pin}], PortOf[pin]) ELSE s

(* gpio_reset_hold: the pins take the levels they had when the machine was    *)
(* built, whatever is held now.                                              *)
ResetGpio(high) ==
  [high |-> high, flag |-> {}, irq |-> [port \in Ports |-> FALSE],
   out |-> {}, masked |-> Pins, resetHigh |-> high]

(* bbk9588_create_gpio_device: usb-power-connected counts then. *)
Init ==
  \E cable \in BOOLEAN :
    /\ gpio = ResetGpio(InputPins \ {p \in {PinOf[Cable]} : cable})
    /\ held = {s \in {Cable} : cable}
    /\ wire = <<>> /\ line = <<>> /\ recorded = NoEvent

----------------------------------------------------------------------------
(* The front end writes whole lines, here a first piece and a last one with   *)
(* the newline; the socket delivers them as it likes.                         *)
Send(m) ==
  /\ Len(wire) + 2 <= 2 * WireLimit
  /\ wire' = wire \o << <<"head", m>>, <<"end", m>> >>
  /\ UNCHANGED <<line, gpio, held, recorded>>

(* host_input_can_read *)
CanRead == LineLimit - Len(line) - 1

(* bbk9588_touch_set_state: no flag is latched, the SADC has its own interrupt. *)
Touch(down) ==
  /\ gpio' = SetLevel(gpio, PinOf[Pen], ~down, FALSE)
  /\ UNCHANGED recorded

(* bbk9588_key_apply_host_input: a key whose pin did not change is no event.  *)
Key(m) ==
  /\ gpio' = SetLevel(gpio, PinOf[m.source], ~m.down, TRUE)
  /\ recorded' = IF gpio'.high = gpio.high THEN recorded ELSE m

(* host_input_handle_line; what sscanf does not accept is dropped. *)
Handle(l, m) ==
  IF l = << <<"head", m>> >>
  THEN /\ IF m.source = Pen THEN Touch(m.down) ELSE Key(m)
       /\ held' = IF m.down THEN held \cup {m.source} ELSE held \ {m.source}
  ELSE UNCHANGED <<gpio, recorded, held>>

(* host_input_read *)
Deliver ==
  /\ wire # <<>> /\ CanRead > 0
  /\ wire' = Tail(wire)
  /\ IF Head(wire)[1] = "end"
     THEN line' = <<>> /\ Handle(line, Head(wire)[2])
     ELSE line' = Append(line, Head(wire)) /\ UNCHANGED <<gpio, recorded, held>>

(* bbk9588_set_usb_power_state, from a QMP property write *)
SetCable(connected) ==
  /\ gpio' = SetLevel(gpio, PinOf[Cable], ~connected, TRUE)
  /\ held' = IF connected THEN held \cup {Cable} ELSE held \ {Cable}
  /\ UNCHANGED <<wire, line, recorded>>

(* jz4740_gpio_raise_flag, for the end of a NAND command *)
NandReady ==
  /\ gpio' = UpdateIrq([gpio EXCEPT !.flag = @ \cup {ReadyPin}], PortOf[ReadyPin])
  /\ UNCHANGED <<wire, line, held, recorded>>

(* gpio_write: one offset sets DAT bits and clears flags, DATC clears DAT bits. *)
(* The other set and clear registers are storage, like those of IM.           *)
Ack(mask) ==
  /\ gpio' = LET g == [gpio EXCEPT !.out = @ \cup mask, !.flag = @ \ mask]
             IN  [g EXCEPT !.irq = [port \in Ports |->
                    IF \E p \in mask : PortOf[p] = port
                    THEN \E p \in g.flag : PortOf[p] = port ELSE @[port]]]
  /\ UNCHANGED <<wire, line, held, recorded>>

ClearOut(mask) ==
  gpio' = [gpio EXCEPT !.out = @ \ mask] /\ UNCHANGED <<wire, line, held, recorded>>

SetMask(mask, on) ==
  /\ gpio' = [gpio EXCEPT !.masked = IF on THEN @ \cup mask ELSE @ \ mask]
  /\ UNCHANGED <<wire, line, held, recorded>>

(* A reset of the machine leaves the line buffer and the host's fingers. *)
Reset ==
  /\ gpio' = ResetGpio(gpio.resetHigh)
  /\ UNCHANGED <<wire, line, held, recorded>>

(* gpio_post_load *)
Restore ==
  /\ gpio' = [gpio EXCEPT !.irq = [port \in Ports |->
                \E p \in gpio.flag : PortOf[p] = port]]
  /\ UNCHANGED <<wire, line, held, recorded>>

Next ==
  \/ \E m \in Messages : Send(m)
  \/ \E b \in BOOLEAN : SetCable(b)
  \/ \E mask \in Masks : \/ Ack(mask) \/ ClearOut(mask)
                         \/ \E b \in BOOLEAN : SetMask(mask, b)
  \/ Deliver \/ NandReady \/ Reset \/ Restore

Spec == Init /\ [][Next]_vars

----------------------------------------------------------------------------
TypeOK ==
  /\ wire \in Seq({"head", "end"} \X Messages) /\ line \in Seq({"head"} \X Messages)
  /\ gpio \in [high : SUBSET InputPins, flag : SUBSET Pins, irq : [Ports -> BOOLEAN],
               out : SUBSET Pins, masked : SUBSET Pins, resetHigh : SUBSET InputPins]
  /\ held \subseteq Sources /\ recorded \in Messages \cup {NoEvent}

(* The output of a port is high exactly while one of its flags is set. *)
LineAgrees ==
  \A port \in Ports : gpio.irq[port] = \E p \in gpio.flag : PortOf[p] = port

(* The pins show what the host holds down. *)
PinsShowHost == gpio.high = InputPins \ {PinOf[s] : s \in held}

(* Two things part them: a reset of the machine, and a pin that two of the     *)
(* host's sources share, let go by one while the other is held.                *)
LetGoByOther(s) ==
  PinOf[s] \in gpio'.high /\ \E t \in Sources \ {s} : PinOf[t] = PinOf[s]

OnlyResetOrSharing ==
  PinsShowHost /\ ~PinsShowHost' =>
    gpio' = ResetGpio(gpio.resetHigh) \/ \E s \in held' : LetGoByOther(s)

(* A key event is recorded exactly when its pin moved with a flag latched. *)
RecordsChanges ==
  recorded' # recorded => PinOf[recorded'.source] \in gpio'.flag

(* The line buffer always has room to read on, so every line is handled. *)
LineFlows == CanRead > 0

=============================================================================
