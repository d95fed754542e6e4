------------------------------ MODULE SadcProofs ------------------------------
(***************************************************************************)
(* Proofs about Sadc: the request for a sample and the deadline it needs,  *)
(* who may lose an unread sample, and who may leave a held pen without     *)
(* any.  They hold for every set of positions, channels and masks.         *)
(***************************************************************************)
EXTENDS Sadc, TLAPS

(* The channels of the CPU are none of the touch panel's events. *)
LEMMA CpuApart == "TCH" \notin Cpu /\ "TCH" \in Channels /\ Channels \subseteq Events
  BY SadcAssumption DEF Channels, Events

(* What sadc_queue_touch_sample puts into the FIFO, and what a read leaves.   *)
LEMMA SampleType ==
  ASSUME NEW p \in Positions, words \in {1, 2}
  PROVE  Sample(p) \in Samples /\ Sample(p) # <<>>
  BY DEF Sample, Samples

LEMMA TailType ==
  ASSUME NEW s \in Samples, s # <<>>
  PROVE  Tail(s) \in Samples
  <1>1. CASE \E p \in Positions : s = <<p>>
    <2>1. Tail(s) = <<>>
      BY <1>1
    <2>2. QED
      BY <2>1 DEF Samples
  <1>2. CASE \E p \in Positions : s = <<p, Pressure>>
    <2>1. Tail(s) = <<Pressure>>
      BY <1>2
    <2>2. QED
      BY <2>1 DEF Samples
  <1>3. CASE s = <<Pressure>>
    <2>1. Tail(s) = <<>>
      BY <1>3
    <2>2. QED
      BY <2>1 DEF Samples
  <1>4. QED
    BY <1>1, <1>2, <1>3 DEF Samples

(* sadc_queue_next_touch_sample, wherever it is called from, asks for the     *)
(* touch channel or for nothing.                                             *)
LEMMA QueueType ==
  ASSUME TypeOK, QueueNext
  PROVE  /\ forMove' \in BOOLEAN /\ armed' \in BOOLEAN /\ pending' \subseteq Channels
         /\ pending' \in {pending, pending \cup {"TCH"}}
         /\ pending' # pending => MayQueue /\ pending' = pending \cup {"TCH"}
         /\ armed => armed'
         /\ TimerServes => TimerServes'
  <1>1. CASE MayQueue /\ (remaining' > 0 \/ moved')
    BY <1>1, CpuApart DEF QueueNext, TypeOK, TimerServes
  <1>2. CASE ~(MayQueue /\ (remaining' > 0 \/ moved'))
    BY <1>2 DEF QueueNext, TypeOK, TimerServes
  <1>3. QED
    BY <1>1, <1>2

----------------------------------------------------------------------------
(* The three promises are inductive together with the types.                  *)
Served == TypeOK /\ TimerServes /\ OnlyClearStalls

EnableWritten == \E requested \in SUBSET Channels : WriteEnable(requested)

(* What a step keeps, whichever handler it is: the invariant, and that only a  *)
(* write of ADENA puts an unread sample at risk.                              *)
Kept ==
  /\ Served'
  /\ Overruns' => Overruns \/ EnableWritten

LEMMA ServedInit == Init => Served
  <1> SUFFICES ASSUME Init PROVE Served
    OBVIOUS
  <1>1. fifo \in Samples
    BY DEF Init, Samples
  <1>2. remaining \in 0 .. Conversions
    BY SadcAssumption DEF Init
  <1>3. TypeOK
    BY <1>1, <1>2, SadcAssumption DEF Init, TypeOK
  <1>4. QED
    BY <1>3 DEF Init, Served, TimerServes, OnlyClearStalls, Stalled

\* The pen: a press and a move ask for a sample, a lift takes the request back.
LEMMA PenKeeps ==
  ASSUME Served, NEW p \in Positions, PenDown(p) \/ PenMove(p) \/ PenUp(p) \/ PenAway(p)
  PROVE  Kept
  <1> USE CpuApart, SadcAssumption DEF driverVars
  <1>1. CASE PenDown(p)
    <2>1. QueueNext
      BY <1>1 DEF PenDown
    <2>2. TypeOK' /\ TimerServes'
      <3>1. remaining' \in 0 .. Conversions
        BY <1>1 DEF PenDown
      <3>2. status' \subseteq Events
        BY <1>1 DEF PenDown, Served, TypeOK, Events
      <3>3. irq' \in BOOLEAN
        BY <1>1 DEF PenDown, UpdateIrq
      <3>4. /\ forMove' \in BOOLEAN /\ armed' \in BOOLEAN /\ pending' \subseteq Channels
            /\ TimerServes'
        BY <2>1, QueueType DEF Served
      <3>5. QED
        BY <1>1, <3>1, <3>2, <3>3, <3>4 DEF PenDown, Served, TypeOK
    <2>3. OnlyClearStalls'
      BY <1>1, <2>1, <2>2 DEF PenDown, Served, TypeOK, OnlyClearStalls, Stalled, QueueNext,
                         MayQueue
    <2>4. Overruns' => Overruns
      BY <1>1, <2>1, QueueType DEF PenDown, Served, Overruns, MayQueue
    <2>5. QED
      BY <2>2, <2>3, <2>4 DEF Served, Kept
  <1>2. CASE PenMove(p)
    <2>1. QueueNext
      BY <1>2 DEF PenMove
    <2>2. TypeOK' /\ TimerServes'
      BY <1>2, <2>1, QueueType DEF PenMove, Served, TypeOK
    <2>3. OnlyClearStalls'
      BY <1>2, <2>1, <2>2 DEF PenMove, Served, TypeOK, OnlyClearStalls, Stalled, QueueNext,
                         MayQueue
    <2>4. Overruns' => Overruns
      BY <1>2, <2>1, QueueType DEF PenMove, Served, Overruns, MayQueue
    <2>5. QED
      BY <2>2, <2>3, <2>4 DEF Served, Kept
  <1>3. CASE PenUp(p)
    <2>1. remaining' \in 0 .. Conversions
      BY <1>3 DEF PenUp
    <2>2. status' \subseteq Events /\ irq' \in BOOLEAN
      BY <1>3 DEF PenUp, Served, TypeOK, Events, UpdateIrq
    <2>3. TypeOK'
      BY <1>3, <2>1, <2>2 DEF PenUp, Served, TypeOK, TimerAfterPenUp
    <2>4. QED
      BY <1>3, <2>3 DEF PenUp, Served, Kept, TimerServes, OnlyClearStalls, Stalled, Overruns,
                        TimerAfterPenUp
  <1>4. CASE PenAway(p)
    BY <1>4 DEF PenAway, Served, Kept, TypeOK, TimerServes, OnlyClearStalls, Stalled, Overruns
  <1>5. QED
    BY <1>1, <1>2, <1>3, <1>4

\* sadc_timer_cb: every request is answered, that of the pen with a sample.
LEMMA TimerKeeps ==
  ASSUME Served, Timer
  PROVE  Kept
  <1> USE DEF driverVars
  <1>1. TypeOK'
    <2>1. fifo' \in Samples
      BY SampleType DEF Timer, Served, TypeOK
    <2>2. QED
      BY <2>1, CpuApart DEF Timer, Served, TypeOK, EnabledAfter, UpdateIrq
  <1>2. TimerServes' /\ ~Overruns'
    BY DEF Timer, TimerServes, Overruns
  <1>3. OnlyClearStalls'
    BY CpuApart DEF Timer, Served, TypeOK, OnlyClearStalls, Stalled, TouchDone, EnabledAfter
  <1>4. QED
    BY <1>1, <1>2, <1>3 DEF Served, Kept

\* The driver's answers: the second of them asks for the next sample.
LEMMA AnswerKeeps ==
  ASSUME Served, ReadTouch \/ \E bits \in SUBSET Events : WriteState(bits)
  PROVE  Kept
  <1> USE CpuApart DEF driverVars
  <1>1. CASE ReadTouch
    <2>1. fifo' \in Samples
      BY <1>1, TailType DEF ReadTouch, Served, TypeOK
    <2>2. TypeOK' /\ TimerServes'
      BY <1>1, <2>1, QueueType DEF ReadTouch, Served, TypeOK, TimerServes, UpdateIrq, Refill, penVars
    <2>3. OnlyClearStalls'
      BY <1>1, <2>2 DEF ReadTouch, Served, TypeOK, OnlyClearStalls, Stalled, QueueNext,
                         MayQueue, Refill, penVars
    <2>4. Overruns' => Overruns
      BY <1>1, QueueType DEF ReadTouch, Served, Overruns, MayQueue, Refill
    <2>5. QED
      BY <2>2, <2>3, <2>4 DEF Served, Kept
  <1>2. ASSUME NEW bits \in SUBSET Events, WriteState(bits)
        PROVE  Kept
    <2>1. TypeOK' /\ TimerServes'
      BY <1>2, QueueType, SadcAssumption DEF WriteState, Served, TypeOK, TimerServes, UpdateIrq
    <2>2. OnlyClearStalls'
      BY <1>2, <2>1 DEF WriteState, Served, TypeOK, OnlyClearStalls, Stalled, QueueNext,
                         MayQueue
    <2>3. Overruns' => Overruns
      BY <1>2, QueueType DEF WriteState, Served, Overruns, MayQueue
    <2>4. QED
      BY <2>1, <2>2, <2>3 DEF Served, Kept
  <1>3. QED
    BY <1>1, <1>2

\* The other registers, and the reset.
LEMMA RegisterKeeps ==
  ASSUME Served,
         \/ Reset \/ WriteTouch
         \/ \E requested \in SUBSET Channels : WriteEnable(requested)
         \/ \E mask \in Masks : WriteControl(mask)
         \/ \E n \in {1, 2} : WriteConfig(n)
         \/ \E c \in Cpu : WriteData(c)
  PROVE  Kept
  <1> USE CpuApart, SadcAssumption
  <1> USE DEF Served, Kept, TypeOK, TimerServes, OnlyClearStalls, Stalled, Overruns, penVars,
              driverVars, UpdateIrq, Samples
  <1>1. CASE Reset
    <2>1. remaining' \in 0 .. Conversions /\ fifo' \in Samples
      BY <1>1 DEF Reset
    <2>2. QED
      BY <1>1, <2>1 DEF Reset
  <1>2. CASE WriteTouch
    BY <1>2 DEF WriteTouch
  <1>3. ASSUME NEW r \in SUBSET Channels, WriteEnable(r)
        PROVE  Kept
    BY <1>3 DEF WriteEnable, EnableWritten
  <1>4. ASSUME NEW mask \in Masks, WriteControl(mask)
        PROVE  Kept
    BY <1>4 DEF WriteControl
  <1>5. ASSUME NEW n \in {1, 2}, WriteConfig(n)
        PROVE  Kept
    BY <1>5 DEF WriteConfig
  <1>6. ASSUME NEW c \in Cpu, WriteData(c)
        PROVE  Kept
    BY <1>6 DEF WriteData
  <1>7. QED
    BY <1>1, <1>2, <1>3, <1>4, <1>5, <1>6

LEMMA StepKeeps ==
  ASSUME Served, [Next]_vars
  PROVE  /\ Served'
         /\ [Overruns' => Overruns \/ EnableWritten]_vars
  <1>1. CASE Next
    <2>1. Kept
      BY <1>1, PenKeeps, TimerKeeps, AnswerKeeps, RegisterKeeps DEF Next, Pen
    <2>2. QED
      BY <2>1 DEF Kept
  <1>2. CASE UNCHANGED vars
    BY <1>2 DEF vars, driverVars, Served, TypeOK, TimerServes, OnlyClearStalls, Stalled
  <1>3. QED
    BY <1>1, <1>2

----------------------------------------------------------------------------
(* The registers, the FIFO and the requests keep their types.                 *)
THEOREM TypeCorrect == Spec => []TypeOK
  <1>1. Served => TypeOK
    BY DEF Served
  <1>2. QED
    BY ServedInit, StepKeeps, <1>1, PTL DEF Spec

(* However the pen, the driver and the CPU channels share the one timer, a     *)
(* requested conversion has a deadline (sadc_schedule_conversion,              *)
(* sadc_queue_next_touch_sample and sadc_timer_cb arm it, PenUp leaves it).     *)
THEOREM RequestsServed == Spec => []TimerServes
  <1>1. Served => TimerServes
    BY DEF Served
  <1>2. QED
    BY ServedInit, StepKeeps, <1>1, PTL DEF Spec

(* A held pen whose sample is owed, with nothing requested and nothing for the  *)
(* driver to answer, has had its FIFO emptied by a write to ADTCH.             *)
THEOREM HeldPenServed == Spec => []OnlyClearStalls
  <1>1. Served => OnlyClearStalls
    BY DEF Served
  <1>2. QED
    BY ServedInit, StepKeeps, <1>1, PTL DEF Spec

(* A sample comes to threaten an unread one by a write to ADENA only.          *)
THEOREM UnreadSafe == Spec => OnlyEnableOverruns
  <1>1. Served /\ [Next]_vars
          => [Overruns' =>
                Overruns \/ \E requested \in SUBSET Channels : WriteEnable(requested)]_vars
    BY StepKeeps DEF EnableWritten
  <1>2. QED
    BY ServedInit, StepKeeps, <1>1, PTL DEF Spec, OnlyEnableOverruns

=============================================================================
