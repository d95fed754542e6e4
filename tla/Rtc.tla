-------------------------------- MODULE Rtc --------------------------------
(***************************************************************************)
(* The JZ4740 real-time clock (hw/rtc/jz4740_rtc.c) with the power-down    *)
(* callback of the board.  Every register access, read or write, latches   *)
(* the 1 Hz and alarm flags, drives the output and arms the timer again.   *)
(*                                                                         *)
(* Time is counted in half seconds.  The timer runs in QEMU's main loop:   *)
(* it fires no earlier than its deadline and possibly later.               *)
(***************************************************************************)
EXTENDS Naturals

CONSTANTS
  MaxNow,        \* bound of the clock, in half seconds
  ControlValues, \* what the guest writes to RTCCR
  SecondValues,  \* to RTCSR
  AlarmValues    \* and to RTCSAR

Second == 2
Never == 4 * MaxNow       \* the reset value of RTCSAR
NoTimer == 8 * Never

VARIABLES
  rtc,           \* the registers, the latches and the output
  now,
  timer,         \* its deadline, or NoTimer
  machine        \* "on", "ending" once a shutdown was requested, "off" without a QEMU

Machine == {"on", "ending", "off"}

vars == <<rtc, now, timer, machine>>

Control == {"1HZ", "1HZIE", "AF", "AIE", "AE", "RTCE"}
Enables == {"1HZIE", "AIE", "AE", "RTCE"}
Causes == {"HR", "PPR", "PIN", "ALM"}

(* jz4740_rtc_seconds: a stopped clock shows the value it was started from. *)
Seconds(r, t) ==
  IF "RTCE" \in r.control THEN r.base + (t - r.baseTime) \div Second ELSE r.base

(* rtc_latch_flags *)
LatchSecond(r, t) ==
  IF "RTCE" \in r.control /\ Seconds(r, t) # r.secondSeen
  THEN [r EXCEPT !.control = @ \cup {"1HZ"}, !.secondSeen = Seconds(r, t)] ELSE r

AlarmDue(r, t) ==
  {"RTCE", "AE"} \subseteq r.control /\ Seconds(r, t) >= r.alarm /\ ~r.alarmSeen

LatchAlarm(r, t) ==
  LET a == [r EXCEPT !.control = @ \cup {"AF"}, !.alarmSeen = TRUE]
  IN  IF ~AlarmDue(r, t) THEN r
      ELSE IF r.pd /\ r.ealm
           THEN [a EXCEPT !.wake = @ \cup {"ALM"}, !.pd = FALSE] ELSE a

Latched(r, t) == LatchAlarm(LatchSecond(r, t), t)

(* rtc_irq_pending, rtc_update_irq *)
Raises(r) == {"1HZ", "1HZIE"} \subseteq r.control \/ {"AF", "AIE"} \subseteq r.control

UpdateIrq(r, t) ==
  LET l == Latched(r, t) IN [l EXCEPT !.irq = Raises(l)]

(* rtc_schedule: the nearer of the next second and the alarm.  The second is  *)
(* counted from the start of the clock, the alarm from this very moment.      *)
(* Faults: the second counted from the access, no alarm while asleep. *)
SecondFromNow(r, t) == t + Second

NextSecond(r, t) ==
  r.baseTime + Second * ((t - r.baseTime) \div Second + 1)

NextAlarm(r, t) ==
  IF Seconds(r, t) < r.alarm THEN t + Second * (r.alarm - Seconds(r, t)) ELSE t

WantedAwake(r, t) ==
  {d \in {NextSecond(r, t)} : "1HZIE" \in r.control /\ "1HZ" \notin r.control}
    \cup {d \in {NextAlarm(r, t)} : "AE" \in r.control /\ ~r.alarmSeen /\ ~r.pd}

Wanted(r, t) ==
  {d \in {NextSecond(r, t)} : "1HZIE" \in r.control /\ "1HZ" \notin r.control}
    \cup {d \in {NextAlarm(r, t)} : "AE" \in r.control /\ ~r.alarmSeen}

Schedule(r, t) ==
  IF "RTCE" \notin r.control \/ Wanted(r, t) = {} THEN NoTimer
  ELSE CHOOSE d \in Wanted(r, t) : \A e \in Wanted(r, t) : d <= e

(* The end of every access: rtc_update_irq, then rtc_schedule *)
Settle(r) ==
  /\ rtc' = UpdateIrq(r, now)
  /\ timer' = Schedule(rtc', now)
  /\ UNCHANGED now

(* rtc_host_seconds: the host's clock has no offset here. *)
HostSeconds(t) == t \div Second

(* rtc_reset_hold; the property hibernate-wakeup chooses the reset cause. *)
ResetRegisters(wakeup, t) ==
  [control |-> {"RTCE"}, base |-> HostSeconds(t), baseTime |-> t,
   alarm |-> Never, secondSeen |-> HostSeconds(t), alarmSeen |-> FALSE,
   pd |-> FALSE, ealm |-> FALSE,
   wake |-> IF wakeup THEN {"HR", "PIN"} ELSE {"PPR"}, irq |-> FALSE]

Init ==
  /\ \E wakeup \in BOOLEAN : rtc = ResetRegisters(wakeup, 0)
  /\ now = 0 /\ timer = NoTimer /\ machine = "on"

----------------------------------------------------------------------------
(* rtc_write_reg.  RTCCR is read first, which latches its flags; a flag is     *)
(* kept only by writing one over one.                                         *)
Controlled(r, v, t) ==
  LET c == (r.control \cap {"1HZ", "AF"} \cap v) \cup (v \cap Enables)
  IN  IF "RTCE" \notin r.control /\ "RTCE" \in c
      THEN [r EXCEPT !.control = c, !.baseTime = t, !.secondSeen = r.base]
      ELSE [r EXCEPT !.control = c]

(* rtc_write_while_hibernating: all else is frozen.  A fault: it is not. *)
ControlledAnyway(r, v) == [r EXCEPT !.control = v]

ControlledAsleep(r, v) ==
  [r EXCEPT !.control = {f \in @ : f \in v \/ f \notin {"1HZ", "1HZIE"}}
                           \cup (v \cap {"1HZIE"})]

WriteControl(v) ==
  LET r == Latched(rtc, now)
  IN  /\ Settle(IF r.pd THEN ControlledAsleep(r, v) ELSE Controlled(r, v, now))
      /\ UNCHANGED machine

Write(r) == Settle(IF rtc.pd THEN rtc ELSE r) /\ UNCHANGED machine

WriteSeconds(v) ==
  Write([rtc EXCEPT !.base = v, !.baseTime = now, !.secondSeen = v,
                    !.alarmSeen = @ /\ v >= rtc.alarm,
                    !.control = @ \ {"1HZ"}])

WriteAlarm(v) ==
  Write([rtc EXCEPT !.alarm = v, !.alarmSeen = FALSE, !.control = @ \ {"AF"}])

(* HCR: rtc_enter_hibernate and the board's bbk9588_rtc_power_down, which asks  *)
(* for a shutdown when hibernate-poweroff is set, as it is by default.         *)
WriteHibernate(pd, poweroff) ==
  LET r == [rtc EXCEPT !.pd = TRUE, !.wake = @ \ {"ALM", "PIN"}]
  IN  IF pd /\ ~rtc.pd
      THEN Settle(r) /\ machine' = (IF poweroff THEN "ending" ELSE machine)
      ELSE Write(rtc)

WriteWakeEnable(ealm) == Write([rtc EXCEPT !.ealm = ealm])

WriteWakeStatus(kept) == Write([rtc EXCEPT !.wake = @ \cap kept])

(* rtc_read of any register, and rtc_post_load *)
Read == Settle(rtc) /\ UNCHANGED machine

(* rtc_timer_cb *)
Timer == now >= timer /\ Settle(rtc) /\ UNCHANGED machine

(* The main loop sees the request and QEMU exits: nothing of it runs on.       *)
Exit == machine = "ending" /\ machine' = "off" /\ UNCHANGED <<rtc, now, timer>>

(* A reset of the machine; after a shutdown it is a new QEMU.                  *)
Reset(wakeup) ==
  /\ machine # "ending" /\ machine' = "on"
  /\ rtc' = ResetRegisters(wakeup, now)
  /\ timer' = Schedule(rtc', now)
  /\ UNCHANGED now

Tick == now < MaxNow /\ now' = now + 1 /\ UNCHANGED <<rtc, timer, machine>>

Guest ==
  \/ \E v \in ControlValues : WriteControl(v)
  \/ \E v \in SecondValues : WriteSeconds(v)
  \/ \E v \in AlarmValues : WriteAlarm(v)
  \/ \E b \in BOOLEAN :
       \/ WriteWakeEnable(b)
       \/ \E poweroff \in BOOLEAN : WriteHibernate(b, poweroff)
  \/ WriteWakeStatus({})
  \/ Read

(* The guest, and a timer that was due, go on until the main loop sees the     *)
(* request for a shutdown.                                                    *)
Next ==
  \/ machine # "off" /\ (Guest \/ Timer)
  \/ Exit \/ Tick \/ (\E wakeup \in BOOLEAN : Reset(wakeup))

(* The clock goes on, and a QEMU that is not about to exit serves a timer that *)
(* expired.                                                                   *)
Served == machine = "on" /\ Timer
Fairness == WF_vars(Served) /\ WF_vars(Tick)

Spec == Init /\ [][Next]_vars /\ Fairness

----------------------------------------------------------------------------
TypeOK ==
  /\ rtc \in [control : SUBSET Control, base : Nat, baseTime : 0 .. MaxNow,
              alarm : AlarmValues \cup {Never}, secondSeen : Nat,
              alarmSeen : BOOLEAN, pd : BOOLEAN,
              ealm : BOOLEAN, wake : SUBSET Causes, irq : BOOLEAN]
  /\ now \in 0 .. MaxNow /\ timer \in Nat /\ machine \in Machine

(* The moment at which the seconds reach the alarm, if the clock runs on.     *)
AlarmTime ==
  IF rtc.alarm <= rtc.base THEN rtc.baseTime
  ELSE rtc.baseTime + Second * (rtc.alarm - rtc.base)

AlarmArmed == {"RTCE", "AE"} \subseteq rtc.control /\ ~rtc.alarmSeen

(* The timer is always set for what the guest waits for: for the next second  *)
(* to the tick, for the alarm less than a second late however often the       *)
(* registers are read meanwhile.                                             *)
DeadlineSet ==
  /\ {"RTCE", "1HZIE"} \subseteq rtc.control /\ "1HZ" \notin rtc.control =>
       timer <= rtc.baseTime + Second * (rtc.secondSeen - rtc.base + 1)
  /\ AlarmArmed /\ AlarmTime >= now => timer < AlarmTime + Second
  /\ AlarmArmed /\ AlarmTime < now => timer < now + Second

(* The output is what the latched flags and their enables ask for. *)
LineAgrees == rtc.irq = Raises(rtc)

(* Hibernation ends by the alarm it allows or by a reset, by nothing else, and *)
(* while it lasts the guest can change neither the clock nor the alarm.        *)
Sleeping == rtc.pd /\ rtc'.pd

SleepHolds ==
  /\ rtc.pd /\ ~rtc'.pd =>
       \/ rtc'.wake \in {{"PPR"}, {"HR", "PIN"}}
       \/ rtc.ealm /\ AlarmDue(rtc, now) /\ "ALM" \in rtc'.wake
  /\ Sleeping =>
       /\ rtc'.base = rtc.base /\ rtc'.alarm = rtc.alarm
       /\ rtc'.control \ {"1HZ", "1HZIE", "AF"} = rtc.control \ {"1HZ", "1HZIE", "AF"}
  /\ machine = "on" /\ machine' = "ending" =>
       rtc'.pd \/ (rtc.ealm /\ AlarmDue(rtc, now))

(* A machine that sleeps without having asked for a shutdown wakes for an      *)
(* alarm that it armed.                                                       *)
AlarmWakes ==
  (machine = "on" /\ rtc.pd /\ rtc.ealm /\ AlarmArmed /\ AlarmTime + Second <= MaxNow)
    ~> ~rtc.pd
=============================================================================
