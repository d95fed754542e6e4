-------------------------------- MODULE Sadc --------------------------------
(***************************************************************************)
(* The touch and battery converter, hw/input/jz4740_sadc.c.  The host moves *)
(* the pen (jz4740_sadc_set_touch, main loop), one shared timer completes   *)
(* the conversions, the guest driver works through the registers.  All of   *)
(* them hold the big QEMU lock, so a call is a step; their order is free.   *)
(*                                                                         *)
(* A FIFO word is the position it carries, or Pressure for the second word  *)
(* of the modes that measure it.  The timer is armed or not: how long a     *)
(* delay is changes no property.  ADSAME and ADWAIT only set delays.        *)
(***************************************************************************)
EXTENDS Naturals, Sequences

CONSTANTS
  Positions,    \* raw pen positions
  Home,         \* the one after reset
  Cpu,          \* the channels the CPU reads: SADCIN, PBAT
  Masks,        \* the ADCTRL values the guest writes
  Conversions,  \* samples a press asks for: 5
  Pressure,     \* the word of a pressure measurement
  NoSample      \* before the first one

(* TCH stands for the channel and for its ready bit DTCH, a channel of Cpu   *)
(* for its own ready bit.                                                   *)
Channels == Cpu \cup {"TCH"}
Events == Channels \cup {"PENU", "PEND"}

ASSUME SadcAssumption ==
  /\ Conversions \in Nat \ {0}
  /\ Home \in Positions
  /\ {} \in Masks /\ \A m \in Masks : m \subseteq Events
  /\ Cpu \cap {"TCH", "PENU", "PEND"} = {}
  /\ Pressure \notin Positions /\ NoSample \notin Positions

VARIABLES
  down, raw,     \* touch_down; touch_raw_x, touch_raw_y
  enable, control, status,
  words,         \* words of a sample, by the XYZ mode of config
  pending,       \* pending_enable
  armed,         \* the timer has a deadline
  moved,         \* touch_move_pending
  forMove,       \* touch_sample_is_move
  remaining,     \* conversion_events_remaining
  fifo,
  irq,           \* irq_level
  \* what the driver did since the pen last moved, kept for the properties:
  read,          \* the position last read from ADTCH
  cleared,       \* it emptied the FIFO by a write
  blind          \* a DTCH it acknowledged unseen was counted as a sample

driverVars == <<read, cleared, blind>>
vars == <<down, raw, enable, control, status, words, pending, armed, moved,
          forMove, remaining, fifo, irq, driverVars>>
penVars == <<down, raw, moved, remaining>>

Samples == {<<p>> : p \in Positions} \cup {<<p, Pressure>> : p \in Positions}
             \cup {<<Pressure>>, <<>>}

TypeOK ==
  /\ down \in BOOLEAN /\ raw \in Positions
  /\ enable \subseteq Channels /\ pending \subseteq Channels
  /\ control \in Masks /\ status \subseteq Events
  /\ words \in {1, 2}
  /\ armed \in BOOLEAN /\ moved \in BOOLEAN /\ forMove \in BOOLEAN
  /\ irq \in BOOLEAN
  /\ remaining \in 0 .. Conversions
  /\ fifo \in Samples
  /\ read \in Positions \cup {NoSample}
  /\ cleared \in BOOLEAN /\ blind \in BOOLEAN

Init ==
  /\ down = FALSE /\ raw = Home
  /\ enable = {} /\ control = {} /\ status = {} /\ words = 1
  /\ pending = {} /\ armed = FALSE
  /\ moved = FALSE /\ forMove = FALSE /\ remaining = 0
  /\ fifo = <<>> /\ irq = FALSE
  /\ read = NoSample /\ cleared = FALSE /\ blind = FALSE

-----------------------------------------------------------------------------
(* sadc_update_irq *)
UpdateIrq == irq' = (status' \ control' # {})

(* sadc_queue_next_touch_sample, with the values the caller has stored.     *)
(* Faults: an unread sample does not block; no conversion is requested.     *)
MayQueueUnread == down' /\ "TCH" \in enable /\ "TCH" \notin pending
MayQueue ==
  /\ down' /\ "TCH" \in enable
  /\ "TCH" \notin status' /\ fifo' = <<>>
  /\ "TCH" \notin pending

QueueNext ==
  IF MayQueue /\ (remaining' > 0 \/ moved')
  THEN /\ forMove' = (remaining' = 0)
       /\ pending' = pending \cup {"TCH"}
       /\ armed' = (armed \/ pending = {})
  ELSE UNCHANGED <<forMove, pending, armed>>

(* sadc_queue_touch_sample.  Fault: the unread words stay. *)
SampleBehind(p) == fifo \o <<p>>
Sample(p) == IF words = 1 THEN <<p>> ELSE <<p, Pressure>>

-----------------------------------------------------------------------------
(* The host's pen: jz4740_sadc_set_touch. *)

PenDown(p) ==
  /\ ~down
  /\ down' = TRUE /\ raw' = p
  /\ status' = (status \ {"PENU"}) \cup {"PEND"}
  /\ moved' = FALSE
  /\ remaining' = Conversions
  /\ read' = NoSample /\ cleared' = FALSE /\ blind' = FALSE
  /\ UNCHANGED <<enable, control, words, fifo>>
  /\ QueueNext
  /\ UpdateIrq

PenMove(p) ==
  /\ down /\ p # raw
  /\ raw' = p
  /\ moved' = TRUE
  /\ read' = NoSample /\ cleared' = FALSE /\ blind' = FALSE
  /\ UNCHANGED <<down, remaining, enable, control, status, words, fifo, irq>>
  /\ QueueNext

(* Fault: the timer goes with the touch request. *)
TimerAfterPenUpStopped == FALSE
TimerAfterPenUp == armed

PenUp(p) ==
  /\ down
  /\ down' = FALSE /\ raw' = p
  /\ moved' = FALSE /\ forMove' = FALSE /\ remaining' = 0
  /\ pending' = pending \ {"TCH"}
  /\ armed' = TimerAfterPenUp
  /\ status' = (status \ {"PEND"}) \cup {"PENU"}
  /\ UNCHANGED <<enable, control, words, fifo, driverVars>>
  /\ UpdateIrq

-----------------------------------------------------------------------------
(* sadc_timer_cb: sadc_complete_cpu_samples, then the touch sample.         *)
EnabledAfter(requested) == enable \ (requested \cap Cpu)
TouchDone(requested) == "TCH" \in requested /\ down

Timer ==
  /\ armed
  /\ armed' = FALSE /\ pending' = {}
  /\ enable' = EnabledAfter(pending)
  /\ status' = status \cup (pending \cap Cpu)
                 \cup (IF TouchDone(pending) THEN {"TCH"} ELSE {})
  /\ IF TouchDone(pending)
     THEN fifo' = Sample(raw) /\ moved' = (moved /\ ~forMove)
     ELSE UNCHANGED <<fifo, moved>>
  /\ forMove' = FALSE
  /\ UNCHANGED <<down, raw, remaining, control, words, driverVars>>
  /\ UpdateIrq

-----------------------------------------------------------------------------
(* The guest's register accesses. *)

(* ADENA: sadc_schedule_conversion *)
WriteEnable(requested) ==
  /\ enable' = requested
  /\ IF requested = {} THEN pending' = {} /\ armed' = FALSE
     ELSE /\ pending' = pending \cup requested
          /\ armed' = (armed \/ pending = {} \/ (requested \cap Cpu) \ pending # {})
  /\ UNCHANGED <<penVars, control, status, words, forMove, fifo, driverVars>>
  /\ UpdateIrq

(* ADCTRL *)
WriteControl(mask) ==
  /\ control' = mask
  /\ UNCHANGED <<penVars, enable, status, words, pending, armed, forMove, fifo,
                 driverVars>>
  /\ UpdateIrq

(* ADCFG *)
WriteConfig(n) ==
  /\ words' = n
  /\ UNCHANGED <<penVars, enable, control, status, pending, armed, forMove, fifo,
                 irq, driverVars>>

(* ADSTATE.  A DTCH that is written counts as a sample, set or not.         *)
WriteState(bits) ==
  /\ status' = status \ bits
  /\ remaining' = IF "TCH" \in bits /\ remaining > 0 THEN remaining - 1 ELSE remaining
  /\ blind' = (blind \/ ("TCH" \in bits \ status /\ remaining > 0))
  /\ UNCHANGED <<down, raw, moved, enable, control, words, fifo, read, cleared>>
  /\ IF "TCH" \in bits THEN QueueNext ELSE UNCHANGED <<forMove, pending, armed>>
  /\ UpdateIrq

(* ADTCH read: a word leaves the FIFO, the last one makes room for a sample. *)
(* Fault: only the acknowledgement starts the next conversion.               *)
RefillLater == FALSE
Refill == fifo' = <<>>

ReadTouch ==
  /\ fifo' = IF fifo = <<>> THEN fifo ELSE Tail(fifo)
  /\ read' = IF fifo # <<>> /\ Head(fifo) \in Positions THEN Head(fifo) ELSE read
  /\ UNCHANGED <<penVars, enable, control, status, words, cleared, blind>>
  /\ IF Refill THEN QueueNext ELSE UNCHANGED <<forMove, pending, armed>>
  /\ IF pending' # pending THEN UpdateIrq ELSE UNCHANGED irq

(* ADTCH write: the FIFO is emptied. *)
WriteTouch ==
  /\ fifo' = <<>> /\ cleared' = TRUE
  /\ UNCHANGED <<penVars, enable, control, status, words, pending, armed, forMove,
                 read, blind>>
  /\ UpdateIrq

(* ADBDAT and ADSDAT writes *)
WriteData(c) ==
  /\ status' = status \ {c}
  /\ UNCHANGED <<penVars, enable, control, words, pending, armed, forMove, fifo,
                 driverVars>>
  /\ UpdateIrq

(* sadc_reset_hold *)
Reset ==
  /\ down' = FALSE /\ raw' = Home
  /\ enable' = {} /\ control' = {} /\ status' = {} /\ words' = 1
  /\ pending' = {} /\ armed' = FALSE
  /\ moved' = FALSE /\ forMove' = FALSE /\ remaining' = 0
  /\ fifo' = <<>> /\ irq' = FALSE /\ cleared' = FALSE /\ blind' = FALSE
  /\ UNCHANGED read

(* The pen moves off the panel. *)
PenAway(p) ==
  /\ ~down /\ p # raw
  /\ raw' = p
  /\ UNCHANGED <<down, moved, remaining, enable, control, status, words, pending,
                 armed, forMove, fifo, irq, driverVars>>

Pen == \E p \in Positions : PenDown(p) \/ PenMove(p) \/ PenUp(p) \/ PenAway(p)

Next ==
  \/ Pen \/ Timer \/ Reset
  \/ \E requested \in SUBSET Channels : WriteEnable(requested)
  \/ \E mask \in Masks : WriteControl(mask)
  \/ \E n \in {1, 2} : WriteConfig(n)
  \/ \E bits \in SUBSET Events : WriteState(bits)
  \/ ReadTouch
  \/ WriteTouch
  \/ \E c \in Cpu : WriteData(c)

Spec == Init /\ [][Next]_vars

(* A driver that answers DTCH and reads what is in the FIFO.  The timer's    *)
(* deadline comes unless it is deleted.                                      *)
Acknowledge == "TCH" \in status /\ WriteState({"TCH"})
Drain == fifo # <<>> /\ ReadTouch
FairSpec == Spec /\ WF_vars(Timer) /\ WF_vars(Acknowledge) /\ WF_vars(Drain)

-----------------------------------------------------------------------------
(* A requested conversion has a deadline: no request hangs when requests for *)
(* the pen and the CPU channels share the timer, come and go.                *)
TimerServes == pending # {} => armed

(* A sample is owed and nothing the guest can still answer leads to it.      *)
Stalled ==
  /\ down /\ "TCH" \in enable
  /\ moved \/ remaining > 0
  /\ "TCH" \notin pending /\ "TCH" \notin status /\ fifo = <<>>

(* Whichever of DTCH and the FIFO the driver clears first, the second starts *)
(* the next sample; only emptying the FIFO by a write can stall the pen.     *)
OnlyClearStalls == Stalled => cleared

(* A conversion that will overwrite what the guest has not yet read.         *)
Overruns == "TCH" \in pending /\ ("TCH" \in status \/ fifo # <<>>)

(* The pen never overwrites an unread sample: only a new ADENA write does.   *)
OnlyEnableOverruns ==
  [][Overruns' => Overruns \/ \E requested \in SUBSET Channels : WriteEnable(requested)]_vars

(* A held position reaches a driver that answers, unless it throws the       *)
(* sample away, or acknowledges one that it has not seen: that is counted as *)
(* one of the samples a press asks for, and none may be left for the         *)
(* position.                                                                 *)
HeldPositionRead ==
  \A p \in Positions :
    (down /\ "TCH" \in enable /\ raw = p)
      ~> (read = p \/ raw # p \/ ~down \/ "TCH" \notin enable \/ cleared \/ blind)
=============================================================================
