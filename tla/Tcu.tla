-------------------------------- MODULE Tcu ---------------------------------
(***************************************************************************)
(* The counters and match deadlines of the timer unit, hw/timer/           *)
(* jz4740_tcu.c.  A counter is never stepped: it is a base, the time it was  *)
(* latched at and the clock; every register write latches and computes all  *)
(* deadlines again.  Time is counted in periods of the input clock, so a    *)
(* prescaled tick takes Divisors \ {0} of them.  The interrupt masks and     *)
(* outputs are in InterruptTree; here a TMCR write only reschedules.         *)
(***************************************************************************)
EXTENDS Integers

CONSTANTS
  Channels,
  Masks,      \* the channels the guest names in one set or clear write
  Fulls, Halves, Counts,  \* values it writes to TDFR, TDHR, TCNT
  Divisors,   \* clocks it selects in TCSR; 0 is none
  Wrap,       \* 2^16
  Default,    \* TDFR and TDHR after reset
  Icount,     \* instruction clock: no guest instruction after a due deadline
  MaxTime     \* bound on time

Flags == Channels \X {"full", "half"}
Far == MaxTime + Wrap * Wrap   \* later than any deadline the bounds allow

VARIABLES
  now,
  base, anchor,       \* counter, counter_anchor_ns
  divisor,            \* the clock of TCSR
  full, half,         \* compare, half_compare
  enabled, stopped,   \* enabled_mask, stop_mask
  flags,              \* pending_mask
  deadline,           \* deadline_ns and half_deadline_ns, by flag; 0 is none
  timer               \* the QEMU timer; 0 is none

counters == <<base, anchor, divisor, full, half>>
gates == <<enabled, stopped>>
vars == <<now, counters, gates, flags, deadline, timer>>

TypeOK ==
  /\ now \in 0 .. MaxTime
  /\ base \in [Channels -> 0 .. Wrap - 1]
  /\ anchor \in [Channels -> 0 .. MaxTime]
  /\ divisor \in [Channels -> Divisors \cup {0}]
  /\ full \in [Channels -> Fulls \cup {Default}]
  /\ half \in [Channels -> Halves \cup {Default}]
  /\ enabled \subseteq Channels /\ stopped \subseteq Channels
  /\ flags \subseteq Flags
  /\ deadline \in [Flags -> 0 .. Far] /\ timer \in 0 .. Far

Init ==
  /\ now = 0
  /\ base = [c \in Channels |-> 0] /\ anchor = [c \in Channels |-> 0]
  /\ divisor = [c \in Channels |-> 0]
  /\ full = [c \in Channels |-> Default] /\ half = [c \in Channels |-> Default]
  /\ enabled = {} /\ stopped = {}
  /\ flags = {} /\ deadline = [f \in Flags |-> 0] /\ timer = 0

-----------------------------------------------------------------------------
(* tcu_counter_running, with the clock and the gates the caller has.         *)
RunsWith(c, d, on, off) == c \in on /\ c \notin off /\ d # 0
Running(c) == RunsWith(c, divisor[c], enabled, stopped)

(* tcu_current_counter: 16 bits wide. *)
CountWith(c, d, run) ==
  IF ~run \/ now <= anchor[c] THEN base[c]
  ELSE LET n == base[c] + (now - anchor[c]) \div d
       IN n % (IF full[c] = 0 THEN Wrap ELSE full[c])
Count(c) == CountWith(c, divisor[c], Running(c))

Target(f) == IF f[2] = "half" THEN half[f[1]] ELSE full[f[1]]

(* tcu_ticks_until_match.  The subtraction is unsigned: it goes below zero   *)
(* when the counter was written beyond both compare values.  Fault: a count  *)
(* that has just reached the target is awaited again.                        *)
TicksAgain(c, target, current) ==
  IF full[c] = 0 \/ target > full[c] THEN 0
  ELSE IF current <= target THEN target - current ELSE full[c] - current + target
TicksUntil(c, target, current) ==
  IF full[c] = 0 \/ target > full[c] THEN 0
  ELSE IF current < target THEN target - current
  ELSE IF target = full[c] THEN full[c]
  ELSE full[c] - current + target

(* tcu_next_deadline_ns.  A wrapped difference, converted to nanoseconds and *)
(* added, is either in the past or never comes: `wrapped` is one of the two. *)
NextDeadline(f, wrapped) ==
  LET ticks == TicksUntil(f[1], Target(f), Count(f[1]))
  IN IF ~Running(f[1]) \/ f \in flags \/ ticks = 0 THEN 0
     ELSE IF ticks < 0 THEN wrapped
     ELSE now + ticks * divisor[f[1]]

(* The timer's deadline: the first of them.                                  *)
Coming == {deadline[f] : f \in Flags} \ {0}
Earliest ==
  IF Coming = {} THEN 0 ELSE CHOOSE d \in Coming : \A e \in Coming : d <= e

(* tcu_schedule *)
Schedule ==
  /\ \E wrapped \in {now, Far} :
       deadline' = [f \in Flags |-> NextDeadline(f, wrapped)']
  /\ timer' = Earliest'

-----------------------------------------------------------------------------
(* tcu_raise_pending, tcu_timer_cb.  Fault: a deadline counts once it is past. *)
DuePast == {f \in Flags \ flags : deadline[f] # 0 /\ now > deadline[f]}
Due == {f \in Flags \ flags : deadline[f] # 0 /\ now >= deadline[f]}

Timer ==
  /\ timer # 0 /\ now >= timer
  /\ flags' = flags \cup Due
  /\ UNCHANGED <<now, counters, gates>>
  /\ Schedule

Tick ==
  /\ now < MaxTime
  /\ Icount => timer = 0 \/ now < timer
  /\ now' = now + 1
  /\ UNCHANGED <<counters, gates, flags, deadline, timer>>

(* With the instruction clock timers run before the next instruction.        *)
GuestRuns == Icount => timer = 0 \/ now < timer

(* tcu_latch_counter *)
Latch(C, d, on, off) ==
  /\ base' = [c \in Channels |-> IF c \in C THEN CountWith(c, d[c], RunsWith(c, d[c], on, off))
                                ELSE base[c]]
  /\ anchor' = [c \in Channels |-> IF c \in C THEN now ELSE anchor[c]]

(* TESR: only channels that were off are latched, before they run.  Fault:   *)
(* latched when they run already.                                            *)
LatchAfterEnable(C) == Latch(C, divisor, enabled \cup C, stopped)
LatchEnable(C) == Latch(C, divisor, enabled, stopped)

Enable(C) ==
  /\ GuestRuns
  /\ LatchEnable(C \ enabled)
  /\ enabled' = enabled \cup C
  /\ UNCHANGED <<now, divisor, full, half, stopped, flags>>
  /\ Schedule

(* TECR *)
Disable(C) ==
  /\ GuestRuns
  /\ Latch(C, divisor, enabled, stopped)
  /\ enabled' = enabled \ C
  /\ UNCHANGED <<now, divisor, full, half, stopped, flags>>
  /\ Schedule

(* TSSR *)
Stop(C) ==
  /\ GuestRuns
  /\ Latch(C, divisor, enabled, stopped)
  /\ stopped' = stopped \cup C
  /\ UNCHANGED <<now, divisor, full, half, enabled, flags>>
  /\ Schedule

(* TSCR: the stop bits fall before the latch. *)
Start(C) ==
  /\ GuestRuns
  /\ stopped' = stopped \ C
  /\ Latch(C \cap enabled, divisor, enabled, stopped')
  /\ UNCHANGED <<now, divisor, full, half, enabled, flags>>
  /\ Schedule

(* TFSR does not reschedule; TFCR and TMCR do. *)
SetFlags(F) ==
  /\ GuestRuns
  /\ flags' = flags \cup F
  /\ UNCHANGED <<now, counters, gates, deadline, timer>>

ClearFlags(F) ==
  /\ GuestRuns
  /\ flags' = flags \ F
  /\ UNCHANGED <<now, counters, gates>>
  /\ Schedule

(* TDFR and TDHR: tcu_update_compare *)
WriteFull(c, v) ==
  /\ GuestRuns
  /\ full' = [full EXCEPT ![c] = v]
  /\ base' = [base EXCEPT ![c] = IF v # 0 THEN Count(c) % v ELSE Count(c)]
  /\ anchor' = [anchor EXCEPT ![c] = now]
  /\ UNCHANGED <<now, divisor, half, gates, flags>>
  /\ Schedule

WriteHalf(c, v) ==
  /\ GuestRuns
  /\ Latch({c}, divisor, enabled, stopped)
  /\ half' = [half EXCEPT ![c] = v]
  /\ UNCHANGED <<now, divisor, full, gates, flags>>
  /\ Schedule

(* TCNT *)
WriteCounter(c, v) ==
  /\ GuestRuns
  /\ base' = [base EXCEPT ![c] = v] /\ anchor' = [anchor EXCEPT ![c] = now]
  /\ UNCHANGED <<now, divisor, full, half, gates, flags>>
  /\ Schedule

(* TCSR: tcu_write has stored the new value when the handler latches.        *)
WriteClock(c, d) ==
  /\ GuestRuns
  /\ divisor' = [divisor EXCEPT ![c] = d]
  /\ Latch({c}, divisor', enabled, stopped)
  /\ UNCHANGED <<now, full, half, gates, flags>>
  /\ Schedule

(* tcu_reset_hold *)
Reset ==
  /\ base' = [c \in Channels |-> 0] /\ anchor' = [c \in Channels |-> now]
  /\ divisor' = [c \in Channels |-> 0]
  /\ full' = [c \in Channels |-> Default] /\ half' = [c \in Channels |-> Default]
  /\ enabled' = {} /\ stopped' = {}
  /\ flags' = {} /\ deadline' = [f \in Flags |-> 0] /\ timer' = 0
  /\ UNCHANGED now

Guest ==
  \/ \E C \in Masks :
       \/ Enable(C) \/ Disable(C) \/ Stop(C) \/ Start(C)
       \/ \E kind \in {"full", "half"} :
            SetFlags(C \X {kind}) \/ ClearFlags(C \X {kind})
  \/ \E c \in Channels :
       \/ \E v \in Fulls : WriteFull(c, v)
       \/ \E v \in Halves : WriteHalf(c, v)
       \/ \E v \in Counts : WriteCounter(c, v)
       \/ \E d \in Divisors : WriteClock(c, d)

Next == Guest \/ Timer \/ Tick \/ Reset

Spec == Init /\ [][Next]_vars

-----------------------------------------------------------------------------
(* The instant t at which channel f[1] arrives at the target of f.           *)
MatchAt(f, t) ==
  LET c == f[1]
  IN /\ t > anchor[c]
     /\ (t - anchor[c]) % divisor[c] = 0
     /\ (base[c] + (t - anchor[c]) \div divisor[c] - Target(f)) % full[c] = 0

(* A flag that a match would set; the counter was written below TDFR.        *)
Live(f) ==
  LET c == f[1]
  IN /\ Running(c) /\ f \notin flags
     /\ 0 < full[c] /\ Target(f) <= full[c] /\ base[c] < full[c]

(* A live flag's deadline is its very next match: computed from a count      *)
(* rounded down, it is late by less than a tick of the channel.              *)
DeadlineExact ==
  \A f \in Flags :
    Live(f) /\ deadline[f] >= now
      => \E m \in deadline[f] - divisor[f[1]] + 1 .. deadline[f] :
           MatchAt(f, m) /\ \A t \in now + 1 .. m - 1 : ~MatchAt(f, t)

(* The match that f's deadline stands for has happened. *)
Reached(f) ==
  /\ Live(f) /\ deadline[f] # 0
  /\ \E m \in deadline[f] - divisor[f[1]] + 1 .. now : MatchAt(f, m)

(* The match of f is not forgotten because a register was written, or a     *)
(* flag or another match served, first.                                      *)
MatchKept(f) ==
  Reached(f) /\ UNCHANGED <<base[f[1]], anchor[f[1]], divisor[f[1]], full[f[1]],
                           half[f[1]], f[1] \in enabled, f[1] \in stopped>>
    => f \in flags' \/ deadline'[f] = deadline[f]

(* "The TCU's period is derived from the registers and the clock selection", *)
(* docs/jz4740-qemu-remodel-plan.md: a channel misses no match.              *)
NoMatchLost == [][\A f \in Flags : MatchKept(f)]_vars

(* A channel that runs on the undivided clock misses no match, whatever the  *)
(* others do.                                                                *)
NoUndividedMatchLost == \A f \in Flags : divisor[f[1]] = 1 => MatchKept(f)

(* A counter changes with time and by a write of TCNT or TDFR; a write of    *)
(* another register moves it in two cases only: TSCR counts the time the     *)
(* channel was stopped, and TCSR counts the past with the new clock.         *)
CounterKept ==
  \A c \in Channels :
    now' = now /\ Count(c)' # Count(c)
      => \/ \E v \in Counts : WriteCounter(c, v)
         \/ \E v \in Fulls : WriteFull(c, v)
         \/ \E C \in Masks : c \in C \cap stopped /\ Start(C)
         \/ \E d \in Divisors \ {divisor[c]} : WriteClock(c, d)
         \/ Reset
=============================================================================
