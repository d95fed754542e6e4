------------------------- MODULE InterruptTreeProofs -------------------------
(***************************************************************************)
(* Proofs about InterruptTree, for any sets of sources.  Every device call *)
(* ends in a composition of DriveCpu and IntcUpdate.  Tuned(w) is WiresAgree *)
(* but for INTC's own output; DriveCpu keeps it, and IntcUpdate turns it   *)
(* into Agree.  A call either leaves the CPU's inputs alone or ends in     *)
(* DriveCpu, which signals the thread or clears the request: this is what  *)
(* the wakeup and latch properties rest on.                                *)
(***************************************************************************)
EXTENDS InterruptTree, TLAPS

Tuned(w) ==
  /\ w.level = w.out
  /\ w.ip2 = (w.level /\ w.enabled)
  /\ w.resample = w.ip2
  /\ w.ip2 => w.cause /\ w.hard

(* Work nobody has signalled. *)
Unsignalled(w) == w.hard /\ (w.cause \/ w.ip2) /\ ~w.kick

(* What a call may do to the CPU's inputs. *)
Harmless(w, r) ==
  /\ Unsignalled(r) => Unsignalled(w)
  /\ Latched(r) => Latched(w)

(* The CPU's input follows the board's level.                               *)
LEMMA Driven ==
  ASSUME NEW w \in Wires
  PROVE  LET r == DriveCpu(w) IN
         /\ r \in Wires
         /\ r.pending = w.pending /\ r.mask = w.mask /\ r.out = w.out
         /\ r.level = w.level /\ r.enabled = w.enabled
         /\ r.ip2 = (w.level /\ w.enabled) /\ r.resample = r.ip2
         /\ r.ip2 => r.cause /\ r.hard /\ r.kick
         /\ ~r.ip2 => ~r.cause /\ ~r.hard
<1> DEFINE up == w.level /\ w.enabled
<1> DEFINE s == [w EXCEPT !.ip2 = up, !.resample = up]
<1>1. s \in Wires BY Zenon DEF Wires
<1>2. /\ s.pending = w.pending /\ s.mask = w.mask /\ s.out = w.out
      /\ s.level = w.level /\ s.enabled = w.enabled
      /\ s.ip2 = up /\ s.resample = up
  BY Zenon DEF Wires
<1>3. DriveCpu(w) = IrqRequest(s) BY Zenon DEF DriveCpu
<1> DEFINE t == [s EXCEPT !.cause = TRUE]
<1> DEFINE high == [t EXCEPT !.hard = TRUE, !.kick = TRUE]
<1> DEFINE low == [s EXCEPT !.cause = FALSE, !.hard = FALSE]
<1>4. IrqRequest(s) = IF s.ip2 THEN high ELSE low
  BY Zenon DEF IrqRequest, Interrupt
<1> HIDE DEF s
<1>5. /\ t \in Wires
      /\ t.pending = s.pending /\ t.mask = s.mask /\ t.out = s.out
      /\ t.level = s.level /\ t.enabled = s.enabled
      /\ t.ip2 = s.ip2 /\ t.resample = s.resample /\ t.cause = TRUE
  BY <1>1, Zenon DEF Wires
<1> HIDE DEF t
<1>6. /\ high \in Wires
      /\ high.pending = t.pending /\ high.mask = t.mask /\ high.out = t.out
      /\ high.level = t.level /\ high.enabled = t.enabled
      /\ high.ip2 = t.ip2 /\ high.resample = t.resample /\ high.cause = t.cause
      /\ high.hard = TRUE /\ high.kick = TRUE
  BY <1>5, Zenon DEF Wires
<1>7. /\ low \in Wires
      /\ low.pending = s.pending /\ low.mask = s.mask /\ low.out = s.out
      /\ low.level = s.level /\ low.enabled = s.enabled
      /\ low.ip2 = s.ip2 /\ low.resample = s.resample
      /\ low.cause = FALSE /\ low.hard = FALSE
  BY <1>1, Zenon DEF Wires
<1> HIDE DEF high, low
<1>8. CASE s.ip2 BY <1>2, <1>3, <1>4, <1>5, <1>6, <1>8, Zenon
<1>9. CASE ~s.ip2 BY <1>2, <1>3, <1>4, <1>7, <1>9, Zenon
<1>10. QED BY <1>8, <1>9

(* One field of the wires changes. *)
LEMMA SetPending ==
  ASSUME NEW w \in Wires, NEW P \in SUBSET Sources
  PROVE  LET s == [w EXCEPT !.pending = P] IN
         /\ s \in Wires /\ s.pending = P /\ s.mask = w.mask
         /\ s.enabled = w.enabled
         /\ Tuned(w) => Tuned(s)
         /\ Harmless(w, s)
  BY Zenon DEF Wires, Tuned, Harmless, Unsignalled, Latched

(* After an update the controller, the board and the CPU agree. *)
LEMMA Updated ==
  ASSUME NEW w \in Wires, Tuned(w)
  PROVE  LET r == IntcUpdate(w) IN
         /\ r \in Wires
         /\ r.pending = w.pending /\ r.mask = w.mask /\ r.enabled = w.enabled
         /\ Agree(r)
         /\ Harmless(w, r)
<1> DEFINE up == w.pending \ w.mask # {}
<1> DEFINE s == [w EXCEPT !.out = up]
<1> DEFINE t == [s EXCEPT !.level = up]
<1> DEFINE d == DriveCpu(t)
<1>1. IntcUpdate(w) = IF up = w.out THEN w ELSE d
  BY Zenon DEF IntcUpdate, OutputHandler
<1>2. s \in Wires /\ s.pending = w.pending /\ s.mask = w.mask
      /\ s.enabled = w.enabled /\ s.out = up
  BY Zenon DEF Wires
<1> HIDE DEF s
<1>3. t \in Wires /\ t.pending = s.pending /\ t.mask = s.mask
      /\ t.enabled = s.enabled /\ t.out = s.out /\ t.level = up
  BY <1>2, Zenon DEF Wires
<1> HIDE DEF t
<1>4. /\ d \in Wires
      /\ d.pending = t.pending /\ d.mask = t.mask /\ d.out = t.out
      /\ d.level = t.level /\ d.enabled = t.enabled
      /\ d.ip2 = (t.level /\ t.enabled) /\ d.resample = d.ip2
      /\ d.ip2 => d.cause /\ d.hard /\ d.kick
      /\ ~d.ip2 => ~d.cause /\ ~d.hard
  BY <1>3, Driven, Zenon
<1> HIDE DEF d
<1>5. CASE up = w.out
  BY <1>1, <1>5, Zenon DEF Agree, Tuned, Harmless
<1>6. CASE up # w.out
  <2>1. IntcUpdate(w) = d BY <1>1, <1>6, Zenon
  <2>2. Agree(d) BY <1>2, <1>3, <1>4, Zenon DEF Agree
  <2>3. ~Unsignalled(d) /\ ~Latched(d) BY <1>4, Zenon DEF Unsignalled, Latched
  <2>4. QED BY <2>1, <2>2, <2>3, <1>2, <1>3, <1>4, Zenon DEF Harmless
<1>7. QED BY <1>5, <1>6

\* Wires in agreement are in particular in the state IntcUpdate starts from.
LEMMA AgreeIsTuned == ASSUME NEW w, Agree(w) PROVE Tuned(w)
  BY Zenon DEF Agree, Tuned

\* Two harmless changes in a row are one.
LEMMA HarmlessTrans ==
  ASSUME NEW a, NEW b, NEW c, Harmless(a, b), Harmless(b, c)
  PROVE  Harmless(a, c)
  BY Zenon DEF Harmless

(* A call that replaces the pending set. *)
LEMMA Repended ==
  ASSUME NEW w \in Wires, Tuned(w), NEW P \in SUBSET Sources
  PROVE  LET r == IntcUpdate([w EXCEPT !.pending = P]) IN
         /\ r \in Wires
         /\ r.pending = P /\ r.mask = w.mask /\ r.enabled = w.enabled
         /\ Agree(r)
         /\ Harmless(w, r)
<1> DEFINE s == [w EXCEPT !.pending = P]
<1>1. /\ s \in Wires /\ s.pending = P /\ s.mask = w.mask
      /\ s.enabled = w.enabled /\ Tuned(s) /\ Harmless(w, s)
  BY SetPending, Zenon
<1> HIDE DEF s
<1> DEFINE r == IntcUpdate(s)
<1>2. /\ r \in Wires
      /\ r.pending = s.pending /\ r.mask = s.mask /\ r.enabled = s.enabled
      /\ Agree(r) /\ Harmless(s, r)
  BY <1>1, Updated, Zenon
<1>3. Harmless(w, r) BY <1>1, <1>2, HarmlessTrans, Zenon
<1>4. QED BY <1>1, <1>2, <1>3, Zenon DEF s

(* bbk9588_update_irq leaves everything in agreement.                       *)
LEMMA Refreshed ==
  ASSUME NEW w \in Wires, Tuned(w), NEW outs \in SUBSET Timers
  PROVE  LET r == UpdateIrq(w, outs) IN
         /\ r \in Wires
         /\ r.pending = (w.pending \ Timers) \cup outs
         /\ r.mask = w.mask /\ r.enabled = w.enabled
         /\ Agree(r)
         /\ Harmless(w, r)
<1> DEFINE P == (w.pending \ Timers) \cup outs
<1> DEFINE s == SyncTcu(w, outs)
<1>1. P \in SUBSET Sources BY Zenon DEF Wires, Sources
<1>2. s = IntcUpdate([w EXCEPT !.pending = P]) BY Zenon DEF SyncTcu
<1> HIDE DEF P, s
<1>3. /\ s \in Wires
      /\ s.pending = P /\ s.mask = w.mask /\ s.enabled = w.enabled
      /\ Agree(s)
  BY <1>1, <1>2, Repended, Zenon
<1> DEFINE t == [s EXCEPT !.level = s.out]
<1> DEFINE r == DriveCpu(t)
<1>4. UpdateIrq(w, outs) = r BY Zenon DEF UpdateIrq, s
<1>5. t \in Wires /\ t.pending = s.pending /\ t.mask = s.mask
      /\ t.enabled = s.enabled /\ t.out = s.out /\ t.level = s.out
  BY <1>3, Zenon DEF Wires
<1> HIDE DEF t
<1>6. /\ r \in Wires
      /\ r.pending = t.pending /\ r.mask = t.mask /\ r.out = t.out
      /\ r.level = t.level /\ r.enabled = t.enabled
      /\ r.ip2 = (t.level /\ t.enabled) /\ r.resample = r.ip2
      /\ r.ip2 => r.cause /\ r.hard /\ r.kick
      /\ ~r.ip2 => ~r.cause /\ ~r.hard
  BY <1>5, Driven, Zenon
<1> HIDE DEF r
<1>7. Agree(r) BY <1>3, <1>5, <1>6, Zenon DEF Agree
<1>8. ~Unsignalled(r) /\ ~Latched(r) BY <1>6, Zenon DEF Unsignalled, Latched
<1>9. QED BY <1>3, <1>4, <1>5, <1>6, <1>7, <1>8, Zenon DEF P, Harmless

-----------------------------------------------------------------------------
(* The inductive invariant, and what a step does to it.                     *)
IInv == TypeOK /\ SourcesAgree /\ WiresAgree

(* The pending set as a function of the device state. *)
Active(ls, key, outs) == ls \cup outs \cup (IF key THEN {Keys} ELSE {})

(* What a device call leaves. *)
Wired(P) ==
  /\ wire' \in Wires
  /\ wire'.pending = P
  /\ Agree(wire')
  /\ Harmless(wire, wire')

\* What the invariant says of the wires, spelt out for the steps below.
LEMMA WireFacts ==
  ASSUME IInv
  PROVE  /\ wire \in Wires /\ Agree(wire) /\ Tuned(wire)
         /\ wire.pending = Active(lines, keyFlag, tcuOut)
         /\ wire.pending \in SUBSET Sources
         /\ lines \subseteq Devices \cup Handled
         /\ tcuOut \in SUBSET Timers
         /\ tcuFlag \in SUBSET Timers /\ tcuMask \in SUBSET Timers
         /\ tcuOut = tcuFlag \ tcuMask
<1>1. wire \in Wires /\ Agree(wire) BY Zenon DEF IInv, TypeOK, WiresAgree
<1>2. wire.pending \in SUBSET Sources BY <1>1, Zenon DEF Wires
<1>3. QED
  BY <1>1, <1>2, AgreeIsTuned, Zenon DEF IInv, TypeOK, SourcesAgree, Active

(* jz4740_intc_set_irq with one source. *)
LEMMA SetIrqWired ==
  ASSUME NEW w \in Wires, Tuned(w), NEW i \in Sources, NEW level \in BOOLEAN
  PROVE  LET r == SetIrq(w, i, level) IN
         /\ r \in Wires
         /\ r.pending = (IF level THEN w.pending \cup {i} ELSE w.pending \ {i})
         /\ Agree(r)
         /\ Harmless(w, r)
<1> DEFINE P == IF level THEN w.pending \cup {i} ELSE w.pending \ {i}
<1>1. P \in SUBSET Sources BY Zenon DEF Wires
<1>2. SetIrq(w, i, level) = IntcUpdate([w EXCEPT !.pending = P])
  BY Zenon DEF SetIrq
<1> HIDE DEF P
<1>3. QED BY <1>1, <1>2, Repended, Zenon DEF P

\* A device that raises or lowers its line leaves the wires right.
LEMMA DeviceLineWired ==
  ASSUME IInv, NEW d \in Devices, NEW level \in BOOLEAN, DeviceLine(d, level)
  PROVE  Wired(Active(lines', keyFlag', tcuOut'))
<1>1. d \in Sources BY Zenon DEF Sources
<1>2. /\ wire' \in Wires
      /\ wire'.pending = (IF level THEN wire.pending \cup {d} ELSE wire.pending \ {d})
      /\ Agree(wire') /\ Harmless(wire, wire')
  BY <1>1, WireFacts, SetIrqWired, Zenon DEF DeviceLine
<1>3. d \notin Timers /\ d # Keys BY SourcesAssumption, Zenon
<1>4. (IF level THEN wire.pending \cup {d} ELSE wire.pending \ {d})
        = Active(lines', keyFlag', tcuOut')
  BY <1>3, WireFacts DEF DeviceLine, Active
<1>5. QED BY <1>2, <1>4, Zenon DEF Wired

\* So does a source whose handler also resamples the CPU.
LEMMA HandledLineWired ==
  ASSUME IInv, NEW d \in Handled, NEW level \in BOOLEAN, HandledLine(d, level)
  PROVE  Wired(Active(lines', keyFlag', tcuOut'))
<1> DEFINE s == SetIrq(wire, d, level)
<1>1. d \in Sources BY Zenon DEF Sources
<1>2. /\ s \in Wires
      /\ s.pending = (IF level THEN wire.pending \cup {d} ELSE wire.pending \ {d})
      /\ Agree(s) /\ Harmless(wire, s)
  BY <1>1, WireFacts, SetIrqWired, Zenon
<1>3. Tuned(s) BY <1>2, AgreeIsTuned, Zenon
<1>4. wire' = UpdateIrq(s, tcuOut) BY Zenon DEF HandledLine
<1> HIDE DEF s
<1>5. /\ wire' \in Wires /\ wire'.pending = (s.pending \ Timers) \cup tcuOut
      /\ Agree(wire') /\ Harmless(s, wire')
  BY <1>2, <1>3, <1>4, WireFacts, Refreshed, Zenon
<1>6. Harmless(wire, wire') BY <1>2, <1>5, HarmlessTrans, Zenon
<1>7. d \notin Timers /\ d # Keys BY SourcesAssumption, Zenon
<1>8. (s.pending \ Timers) \cup tcuOut = Active(lines', keyFlag', tcuOut')
  <2>1. lines \cap Timers = {} /\ Keys \notin Timers
    BY WireFacts, SourcesAssumption
  <2>2. (wire.pending \ Timers) \cup tcuOut = wire.pending
    BY <2>1, WireFacts DEF Active
  <2>3. CASE level
    BY <1>2, <1>7, <2>1, <2>3, WireFacts DEF HandledLine, Active
  <2>4. CASE ~level
    BY <1>2, <1>7, <2>1, <2>4, WireFacts DEF HandledLine, Active
  <2>5. QED BY <2>3, <2>4
<1>9. QED BY <1>5, <1>6, <1>8, Zenon DEF Wired

\* A key edge and its acknowledgement go through the GPIO line in the same way.
LEMMA KeyWired ==
  ASSUME IInv, KeyEdge \/ KeyAck
  PROVE  Wired(Active(lines', keyFlag', tcuOut'))
<1>1. Keys \in Sources BY Zenon DEF Sources
<1>2. Keys \notin lines /\ Keys \notin tcuOut
  BY WireFacts, SourcesAssumption
<1>3. PICK level \in BOOLEAN :
        /\ wire' = SetIrq(wire, Keys, level) /\ keyFlag' = level
        /\ lines' = lines /\ tcuOut' = tcuOut
  BY Zenon DEF KeyEdge, KeyAck
<1>4. /\ wire' \in Wires
      /\ wire'.pending = (IF level THEN wire.pending \cup {Keys}
                          ELSE wire.pending \ {Keys})
      /\ Agree(wire') /\ Harmless(wire, wire')
  BY <1>1, <1>3, WireFacts, SetIrqWired, Zenon
<1>5. (IF level THEN wire.pending \cup {Keys} ELSE wire.pending \ {Keys})
        = Active(lines', keyFlag', tcuOut')
  BY <1>2, <1>3, WireFacts DEF Active
<1>6. QED BY <1>4, <1>5, Zenon DEF Wired

\* Driving the TCU outputs one after the other ends with them all right.
LEMMA TcuWired ==
  ASSUME IInv, NEW w \in Wires, w.pending = wire.pending, Agree(w),
         Harmless(wire, w), NEW flags \in SUBSET Timers, NEW masked,
         wire' = TcuOutputs(w, flags, masked), tcuOut' = flags \ masked,
         lines' = lines, keyFlag' = keyFlag
  PROVE  Wired(Active(lines', keyFlag', tcuOut'))
<1> DEFINE outs == flags \ masked
<1>1. outs \in SUBSET Timers OBVIOUS
<1>2. Tuned(w) BY AgreeIsTuned, Zenon
<1>3. lines \cap Timers = {} /\ Keys \notin Timers
  BY WireFacts, SourcesAssumption
<1>4. CASE outs = tcuOut
  BY <1>4, WireFacts, Zenon DEF TcuOutputs, Wired
<1>5. CASE outs # tcuOut
  <2>1. wire' = UpdateIrq(w, outs) BY <1>5, Zenon DEF TcuOutputs
  <2>2. /\ wire' \in Wires /\ wire'.pending = (w.pending \ Timers) \cup outs
        /\ Agree(wire') /\ Harmless(w, wire')
    BY <1>1, <1>2, <2>1, Refreshed, Zenon
  <2>3. Harmless(wire, wire') BY <2>2, HarmlessTrans, Zenon
  <2>4. (wire.pending \ Timers) \cup outs = Active(lines, keyFlag, outs)
    BY <1>3, WireFacts DEF Active
  <2>5. QED BY <2>2, <2>3, <2>4, Zenon DEF Wired
<1>6. QED BY <1>4, <1>5

\* A timer match: the wake request first, then the outputs.
LEMMA TcuMatchWired ==
  ASSUME IInv, NEW t \in Timers, TcuMatch(t)
  PROVE  Wired(Active(lines', keyFlag', tcuOut'))
<1> DEFINE w == IF wire.enabled THEN [wire EXCEPT !.wake = TRUE, !.kick = TRUE]
                ELSE wire
<1>1. /\ w \in Wires /\ w.pending = wire.pending /\ Agree(w) /\ Harmless(wire, w)
  <2>1. CASE wire.enabled
    <3> DEFINE s == [wire EXCEPT !.wake = TRUE]
    <3> DEFINE u == [s EXCEPT !.kick = TRUE]
    <3>1. /\ s \in Wires
          /\ s.pending = wire.pending /\ s.mask = wire.mask /\ s.out = wire.out
          /\ s.level = wire.level /\ s.enabled = wire.enabled
          /\ s.ip2 = wire.ip2 /\ s.resample = wire.resample
          /\ s.cause = wire.cause /\ s.hard = wire.hard /\ s.kick = wire.kick
      BY WireFacts, Zenon DEF Wires
    <3> HIDE DEF s
    <3>2. /\ u \in Wires
          /\ u.pending = s.pending /\ u.mask = s.mask /\ u.out = s.out
          /\ u.level = s.level /\ u.enabled = s.enabled
          /\ u.ip2 = s.ip2 /\ u.resample = s.resample
          /\ u.cause = s.cause /\ u.hard = s.hard /\ u.kick = TRUE
      BY <3>1, Zenon DEF Wires
    <3>3. w = u BY <2>1, Zenon DEF s
    <3> HIDE DEF u, w
    <3>4. Agree(u) BY <3>1, <3>2, WireFacts, Zenon DEF Agree
    <3>5. Harmless(wire, u)
      BY <3>1, <3>2, Zenon DEF Harmless, Unsignalled, Latched
    <3>6. QED BY <3>1, <3>2, <3>3, <3>4, <3>5, Zenon
  <2>2. CASE ~wire.enabled BY <2>2, WireFacts, Zenon DEF Harmless
  <2>3. QED BY <2>1, <2>2
<1>2. /\ wire' = TcuOutputs(w, tcuFlag', tcuMask) /\ tcuOut' = tcuFlag' \ tcuMask
      /\ lines' = lines /\ keyFlag' = keyFlag
      /\ tcuFlag' \in SUBSET Timers
  BY WireFacts, Zenon DEF TcuMatch
<1> HIDE DEF w
<1>3. QED BY <1>1, <1>2, TcuWired, Zenon

\* A write to the TCU flags or masks drives the outputs again.
LEMMA TcuWriteWired ==
  ASSUME IInv, NEW f \in SUBSET Timers, NEW m \in SUBSET Timers, TcuWrite(f, m)
  PROVE  Wired(Active(lines', keyFlag', tcuOut'))
<1>1. Harmless(wire, wire) BY Zenon DEF Harmless
<1>2. QED BY <1>1, WireFacts, TcuWired, Zenon DEF TcuWrite

\* A write to the controller mask.
LEMMA IntcWired ==
  ASSUME IInv, NEW m \in SUBSET Sources, IntcWrite(m)
  PROVE  Wired(Active(lines', keyFlag', tcuOut'))
<1> DEFINE s == [wire EXCEPT !.mask = m]
<1>1. /\ s \in Wires /\ s.pending = wire.pending /\ Tuned(s) /\ Harmless(wire, s)
  BY WireFacts, Zenon DEF Wires, Tuned, Harmless, Unsignalled, Latched
<1>2. wire' = IntcUpdate(s) BY Zenon DEF IntcWrite, SetMask
<1> HIDE DEF s
<1>3. /\ wire' \in Wires /\ wire'.pending = wire.pending
      /\ Agree(wire') /\ Harmless(s, wire')
  BY <1>1, <1>2, Updated, Zenon
<1>4. Harmless(wire, wire') BY <1>1, <1>3, HarmlessTrans, Zenon
<1>5. QED
  BY <1>3, <1>4, WireFacts, Zenon DEF Wired, IntcWrite, deviceVars

(* Refreshing what is already in agreement keeps the pending set.           *)
LEMMA PendingTimers ==
  ASSUME IInv
  PROVE  (wire.pending \ Timers) \cup tcuOut = wire.pending
<1>1. lines \cap Timers = {} /\ Keys \notin Timers
  BY WireFacts, SourcesAssumption
<1>2. QED BY <1>1, WireFacts DEF Active

\* A read of the controller synchronises the TCU sources first.
LEMMA IntcReadWired ==
  ASSUME IInv, IntcRead
  PROVE  Wired(Active(lines', keyFlag', tcuOut'))
<1> DEFINE s == SyncTcu(wire, tcuOut)
<1>1. s = IntcUpdate([wire EXCEPT !.pending = wire.pending])
  BY PendingTimers, Zenon DEF SyncTcu
<1>2. wire' = IntcUpdate(s) BY Zenon DEF IntcRead
<1> HIDE DEF s
<1>3. s \in Wires /\ s.pending = wire.pending /\ Agree(s) /\ Harmless(wire, s)
  BY <1>1, WireFacts, Repended, Zenon
<1>4. Tuned(s) BY <1>3, AgreeIsTuned, Zenon
<1>5. wire' \in Wires /\ wire'.pending = s.pending /\ Agree(wire')
      /\ Harmless(s, wire')
  BY <1>2, <1>3, <1>4, Updated, Zenon
<1>6. Harmless(wire, wire') BY <1>3, <1>5, HarmlessTrans, Zenon
<1>7. QED BY <1>3, <1>5, <1>6, WireFacts, Zenon DEF Wired, IntcRead, deviceVars

\* The deferred resampling of the board.
LEMMA ResampleWired ==
  ASSUME IInv, Resample
  PROVE  Wired(Active(lines', keyFlag', tcuOut'))
<1>1. wire' = UpdateIrq(wire, tcuOut) BY Zenon DEF Resample
<1>2. /\ wire' \in Wires
      /\ wire'.pending = (wire.pending \ Timers) \cup tcuOut
      /\ Agree(wire') /\ Harmless(wire, wire')
  BY <1>1, WireFacts, Refreshed, Zenon
<1>3. QED
  BY <1>2, PendingTimers, WireFacts, Zenon DEF Wired, Resample, deviceVars

\* Opening or closing the output of the board to the CPU.
LEMMA OutputWired ==
  ASSUME IInv, NEW on \in BOOLEAN, CpuIrqOutput(on)
  PROVE  Wired(Active(lines', keyFlag', tcuOut'))
<1> DEFINE s == [wire EXCEPT !.enabled = on]
<1>1. /\ s \in Wires /\ s.pending = wire.pending /\ s.mask = wire.mask
      /\ s.out = wire.out /\ s.level = wire.level
  BY WireFacts, Zenon DEF Wires
<1>2. wire' = DriveCpu(s) BY Zenon DEF CpuIrqOutput, SetOutput
<1> HIDE DEF s
<1>3. /\ wire' \in Wires
      /\ wire'.pending = s.pending /\ wire'.mask = s.mask /\ wire'.out = s.out
      /\ wire'.level = s.level /\ wire'.enabled = s.enabled
      /\ wire'.ip2 = (s.level /\ s.enabled) /\ wire'.resample = wire'.ip2
      /\ wire'.ip2 => wire'.cause /\ wire'.hard /\ wire'.kick
      /\ ~wire'.ip2 => ~wire'.cause /\ ~wire'.hard
  BY <1>1, <1>2, Driven, Zenon
<1>4. Agree(wire') BY <1>1, <1>3, WireFacts, Zenon DEF Agree
<1>5. Harmless(wire, wire')
  BY <1>3, Zenon DEF Harmless, Unsignalled, Latched
<1>6. QED
  BY <1>1, <1>3, <1>4, <1>5, WireFacts, Zenon DEF Wired, CpuIrqOutput, deviceVars

(* The thread's steps do not touch the devices.  What they write of the      *)
(* CPU's inputs keeps the agreement.                                         *)
Same(r) ==
  /\ r \in Wires /\ r.pending = wire.pending
  /\ Agree(r)

\* The latch of a waiting CPU leaves pending set and agreement alone.
LEMMA LatchSame ==
  ASSUME IInv, WaitLatch
  PROVE  Same(wire') /\ wire'.kick
<1> DEFINE s == [wire EXCEPT !.cause = TRUE]
<1> DEFINE t == [s EXCEPT !.hard = TRUE, !.kick = TRUE]
<1>1. /\ s \in Wires /\ s.pending = wire.pending /\ s.mask = wire.mask
      /\ s.out = wire.out /\ s.level = wire.level /\ s.enabled = wire.enabled
      /\ s.ip2 = wire.ip2 /\ s.resample = wire.resample /\ s.cause = TRUE
  BY WireFacts, Zenon DEF Wires
<1>2. wire' = t BY Zenon DEF WaitLatch, Interrupt
<1> HIDE DEF s
<1>3. /\ t \in Wires /\ t.pending = s.pending /\ t.mask = s.mask
      /\ t.out = s.out /\ t.level = s.level /\ t.enabled = s.enabled
      /\ t.ip2 = s.ip2 /\ t.resample = s.resample /\ t.cause = s.cause
      /\ t.hard = TRUE /\ t.kick = TRUE
  BY <1>1, Zenon DEF Wires
<1> HIDE DEF t
<1>4. Agree(t) BY <1>1, <1>3, WireFacts, Zenon DEF Agree
<1>5. QED BY <1>1, <1>2, <1>3, <1>4, Zenon DEF Same

\* So does clearing the wake request,
LEMMA ClearSame ==
  ASSUME IInv, WaitClear
  PROVE  Same(wire') /\ Harmless(wire, wire')
<1> DEFINE s == [wire EXCEPT !.wake = FALSE]
<1>1. /\ s \in Wires /\ s.pending = wire.pending /\ s.mask = wire.mask
      /\ s.out = wire.out /\ s.level = wire.level /\ s.enabled = wire.enabled
      /\ s.ip2 = wire.ip2 /\ s.resample = wire.resample /\ s.cause = wire.cause
      /\ s.hard = wire.hard /\ s.kick = wire.kick
  BY WireFacts, Zenon DEF Wires
<1>2. wire' = s BY Zenon DEF WaitClear
<1> HIDE DEF s
<1>3. Agree(s) BY <1>1, WireFacts, Zenon DEF Agree
<1>4. QED
  BY <1>1, <1>2, <1>3, Zenon DEF Same, Harmless, Unsignalled, Latched

\* and so does going to sleep, which happens only without work.
LEMMA IdleSame ==
  ASSUME IInv, Idle
  PROVE  /\ Same(wire') /\ (Latched(wire') => Latched(wire))
         /\ pc' = "asleep" => ~HasWork(wire) /\ (HasWork(wire') => HasWork(wire))
<1> DEFINE s == [wire EXCEPT !.kick = FALSE]
<1>1. /\ s \in Wires /\ s.pending = wire.pending /\ s.mask = wire.mask
      /\ s.out = wire.out /\ s.level = wire.level /\ s.enabled = wire.enabled
      /\ s.ip2 = wire.ip2 /\ s.resample = wire.resample /\ s.cause = wire.cause
      /\ s.hard = wire.hard
  BY WireFacts, Zenon DEF Wires
<1>2. /\ wire' = s \/ wire' = wire
      /\ pc' = "asleep" => ~HasWork(wire) /\ wire' = s
  BY Zenon DEF Idle
<1> HIDE DEF s
<1>3. Agree(s) BY <1>1, WireFacts, Zenon DEF Agree
<1>4. Latched(s) => Latched(wire) BY <1>1, Zenon DEF Latched
<1>5. HasWork(s) => HasWork(wire) BY <1>1, Zenon DEF HasWork, Pending
<1>6. QED
  BY <1>1, <1>2, <1>3, <1>4, <1>5, WireFacts, Zenon DEF Same

\* Taking an interrupt touches only the CPU side.
LEMMA TakeSame ==
  ASSUME IInv, TakeInterrupt
  PROVE  Same(wire') /\ Harmless(wire, wire')
<1> DEFINE s == [wire EXCEPT !.cause = TRUE]
<1>1. /\ s \in Wires /\ s.pending = wire.pending /\ s.mask = wire.mask
      /\ s.out = wire.out /\ s.level = wire.level /\ s.enabled = wire.enabled
      /\ s.ip2 = wire.ip2 /\ s.resample = wire.resample /\ s.cause = TRUE
      /\ s.hard = wire.hard /\ s.kick = wire.kick
  BY WireFacts, Zenon DEF Wires
<1>2. wire' = IF wire.ip2 THEN s ELSE wire BY Zenon DEF TakeInterrupt
<1> HIDE DEF s
<1>3. Agree(s) BY <1>1, WireFacts, Zenon DEF Agree
<1>4. wire.ip2 => Harmless(wire, s)
  BY <1>1, WireFacts, Zenon DEF Harmless, Unsignalled, Latched, Agree
<1>5. QED
  BY <1>1, <1>2, <1>3, <1>4, WireFacts, Zenon DEF Same, Harmless

\* A system reset silences every wire.
LEMMA ResetWired ==
  ASSUME IInv, Reset
  PROVE  /\ Wired(Active(lines', keyFlag', tcuOut'))
         /\ ~Unsignalled(wire') /\ ~Latched(wire')
<1>1. wire.enabled \in BOOLEAN BY WireFacts, Zenon DEF Wires
<1>2. wire' = ResetWire(wire.enabled) BY Zenon DEF Reset
<1>3. wire' \in Wires BY <1>1, <1>2 DEF ResetWire, Wires
<1>4. /\ wire'.pending = {} /\ wire'.mask = Sources /\ wire'.out = FALSE
      /\ wire'.level = FALSE /\ wire'.ip2 = FALSE /\ wire'.resample = FALSE
      /\ wire'.hard = FALSE /\ wire'.cause = FALSE
  BY <1>2 DEF ResetWire
<1>5. Agree(wire') BY <1>4, Zenon DEF Agree
<1>6. ~Unsignalled(wire') /\ ~Latched(wire')
  BY <1>4, Zenon DEF Unsignalled, Latched
<1>7. Active(lines', keyFlag', tcuOut') = {} BY DEF Reset, Active
<1>8. QED BY <1>3, <1>4, <1>5, <1>6, <1>7, Zenon DEF Wired, Harmless

-----------------------------------------------------------------------------
(* The rest of the type invariant: everything but the wires.                *)
RestOK ==
  /\ lines \subseteq Devices \cup Handled
  /\ keyFlag \in BOOLEAN
  /\ tcuFlag \subseteq Timers /\ tcuMask \subseteq Timers /\ tcuOut \subseteq Timers
  /\ tcuOut = tcuFlag \ tcuMask
  /\ im \in BOOLEAN /\ ie \in BOOLEAN /\ halted \in BOOLEAN
  /\ pc \in PCs
  /\ vector \in {"none", "general", "special"}

\* The invariant, split into the part about the wires and the rest.
LEMMA IInvParts ==
  IInv <=> /\ RestOK
           /\ wire \in Wires /\ Agree(wire)
           /\ wire.pending = Active(lines, keyFlag, tcuOut)
  BY Zenon DEF IInv, TypeOK, RestOK, SourcesAgree, WiresAgree, Active

\* Every step keeps the part that is not about the wires.
LEMMA RestStep ==
  ASSUME RestOK, [Next]_vars
  PROVE  RestOK'
<1> USE DEF RestOK
<1>1. ASSUME NEW d \in Devices, NEW l \in BOOLEAN, DeviceLine(d, l) PROVE RestOK'
  BY <1>1, Zenon DEF DeviceLine, cpuVars
<1>2. ASSUME NEW d \in Handled, NEW l \in BOOLEAN, HandledLine(d, l) PROVE RestOK'
  BY <1>2, Zenon DEF HandledLine, cpuVars
<1>3. CASE KeyEdge BY <1>3, Zenon DEF KeyEdge, cpuVars
<1>4. CASE KeyAck BY <1>4, Zenon DEF KeyAck, cpuVars
<1>5. ASSUME NEW t \in Timers, TcuMatch(t) PROVE RestOK'
  BY <1>5 DEF TcuMatch
<1>6. ASSUME NEW f \in SUBSET Timers, NEW m \in SUBSET Timers, TcuWrite(f, m)
      PROVE RestOK'
  BY <1>6, Zenon DEF TcuWrite, cpuVars
<1>7. CASE \E m \in SUBSET Sources : IntcWrite(m)
  BY <1>7, Zenon DEF IntcWrite, cpuVars, deviceVars
<1>8. CASE IntcRead BY <1>8, Zenon DEF IntcRead, cpuVars, deviceVars
<1>9. CASE Resample BY <1>9, Zenon DEF Resample, cpuVars, deviceVars
<1>10. CASE \E on \in BOOLEAN : CpuIrqOutput(on)
  BY <1>10, Zenon DEF CpuIrqOutput, cpuVars, deviceVars
<1>11. CASE Reset BY <1>11 DEF Reset, PCs
<1>12. ASSUME NEW m \in BOOLEAN, NEW e \in BOOLEAN, WriteStatus(m, e) PROVE RestOK'
  BY <1>12, Zenon DEF WriteStatus, deviceVars
<1>13. CASE Wait BY <1>13, Zenon DEF Wait, deviceVars, PCs
<1>14. CASE WaitLatch BY <1>14, Zenon DEF WaitLatch, deviceVars, PCs
<1>15. CASE WaitTest BY <1>15, Zenon DEF WaitTest, deviceVars, PCs
<1>16. CASE WaitHalt BY <1>16, Zenon DEF WaitHalt, deviceVars, PCs
<1>17. CASE WaitClear BY <1>17, Zenon DEF WaitClear, deviceVars, PCs
<1>18. CASE HaltLoop BY <1>18, Zenon DEF HaltLoop, deviceVars, PCs
<1>19. CASE Idle BY <1>19, Zenon DEF Idle, deviceVars, PCs
<1>20. CASE Wake BY <1>20, Zenon DEF Wake, deviceVars, PCs
<1>21. CASE TakeInterrupt BY <1>21, Zenon DEF TakeInterrupt, deviceVars
<1>22. CASE UNCHANGED vars BY <1>22, Zenon DEF vars
<1>23. QED
  BY <1>1, <1>2, <1>3, <1>4, <1>5, <1>6, <1>7, <1>8, <1>9, <1>10, <1>11, <1>12,
     <1>13, <1>14, <1>15, <1>16, <1>17, <1>18, <1>19, <1>20, <1>21, <1>22, Zenon
  DEF Next, MainLoop, Guest, Thread

(* Steps of the vCPU thread that leave the wires alone. *)
Silent ==
  (\E m, e \in BOOLEAN : WriteStatus(m, e)) \/ Wait \/ WaitTest \/ WaitHalt \/ HaltLoop \/ Wake
    \/ UNCHANGED vars

(* Every step is a device call, which leaves the wires in agreement with the *)
(* devices, or a step of the thread, which leaves the devices alone.         *)
LEMMA Steps ==
  ASSUME IInv, [Next]_vars
  PROVE  \/ Wired(Active(lines', keyFlag', tcuOut'))
         \/ (WaitLatch \/ WaitClear \/ Idle \/ TakeInterrupt) /\ Same(wire')
         \/ Silent
<1>1. CASE MainLoop
  BY <1>1, DeviceLineWired, HandledLineWired, KeyWired, TcuMatchWired,
     ResampleWired, OutputWired, ResetWired, Zenon DEF MainLoop
<1>2. CASE Guest
  BY <1>2, KeyWired, TcuWriteWired, IntcWired, IntcReadWired, Zenon DEF Guest, Silent
<1>3. CASE Thread
  BY <1>3, LatchSame, ClearSame, IdleSame, TakeSame, Zenon DEF Thread, Silent
<1>4. CASE UNCHANGED vars BY <1>4, Zenon DEF Silent
<1>5. QED BY <1>1, <1>2, <1>3, <1>4, Zenon DEF Next

\* Every step keeps the whole invariant.
LEMMA Inductive ==
  ASSUME IInv, [Next]_vars
  PROVE  IInv'
<1>1. RestOK' BY RestStep, IInvParts, Zenon
<1>2. CASE Wired(Active(lines', keyFlag', tcuOut'))
  BY <1>1, <1>2, Zenon DEF Wired, IInv, TypeOK, RestOK, SourcesAgree, WiresAgree, Active
<1>3. CASE (WaitLatch \/ WaitClear \/ Idle \/ TakeInterrupt) /\ Same(wire')
  <2>1. deviceVars' = deviceVars
    BY <1>3, Zenon DEF WaitLatch, WaitClear, Idle, TakeInterrupt
  <2>2. /\ wire'.pending = Active(lines', keyFlag', tcuOut')
        /\ wire' \in Wires /\ Agree(wire')
    BY <2>1, <1>3, WireFacts, Zenon DEF Same, deviceVars
  <2>3. QED
    BY <1>1, <2>2, Zenon DEF IInv, TypeOK, RestOK, SourcesAgree, WiresAgree, Active
<1>4. CASE Silent
  <2>1. deviceVars' = deviceVars /\ wire' = wire
    BY <1>4, Zenon
    DEF Silent, WriteStatus, Wait, WaitTest, WaitHalt, HaltLoop, Wake, vars, deviceVars
  <2>2. /\ wire'.pending = Active(lines', keyFlag', tcuOut')
        /\ wire' \in Wires /\ Agree(wire')
    BY <2>1, WireFacts, Zenon DEF deviceVars
  <2>3. QED
    BY <1>1, <2>2, Zenon DEF IInv, TypeOK, RestOK, SourcesAgree, WiresAgree, Active
<1>5. QED BY Steps, <1>2, <1>3, <1>4

\* The machine starts in it.
LEMMA Initial ==
  ASSUME Init
  PROVE  IInv
<1>1. wire = ResetWire(TRUE) BY Zenon DEF Init
<1>2. wire \in Wires BY <1>1 DEF ResetWire, Wires
<1>3. /\ wire.pending = {} /\ wire.mask = Sources /\ wire.out = FALSE
      /\ wire.level = FALSE /\ wire.ip2 = FALSE /\ wire.resample = FALSE
  BY <1>1 DEF ResetWire
<1>4. Agree(wire) BY <1>3, Zenon DEF Agree
<1>5. RestOK BY DEF Init, RestOK, PCs
<1>6. wire.pending = Active(lines, keyFlag, tcuOut) BY <1>3 DEF Init, Active
<1>7. QED BY <1>2, <1>4, <1>5, <1>6, IInvParts, Zenon

(* Only Idle goes to sleep; of the others only the main loop acts while the  *)
(* thread sleeps, and it leaves the Status register alone.                   *)
LEMMA Asleep ==
  ASSUME IInv, [Next]_vars, pc' = "asleep"
  PROVE  Idle \/ (pc = "asleep" /\ im' = im /\ Harmless(wire, wire'))
<1>1. ASSUME NEW d \in Devices, NEW l \in BOOLEAN, DeviceLine(d, l)
      PROVE pc' = pc /\ im' = im /\ Harmless(wire, wire')
  BY <1>1, DeviceLineWired, Zenon DEF DeviceLine, cpuVars, Wired
<1>2. ASSUME NEW d \in Handled, NEW l \in BOOLEAN, HandledLine(d, l)
      PROVE pc' = pc /\ im' = im /\ Harmless(wire, wire')
  BY <1>2, HandledLineWired, Zenon DEF HandledLine, cpuVars, Wired
<1>3. CASE KeyEdge BY <1>3, KeyWired, Zenon DEF KeyEdge, cpuVars, Wired
<1>4. ASSUME NEW t \in Timers, TcuMatch(t)
      PROVE pc' = pc /\ im' = im /\ Harmless(wire, wire')
  BY <1>4, TcuMatchWired, Zenon DEF TcuMatch, Wired
<1>5. CASE Resample
  BY <1>5, ResampleWired, Zenon DEF Resample, cpuVars, Wired
<1>6. ASSUME NEW on \in BOOLEAN, CpuIrqOutput(on)
      PROVE pc' = pc /\ im' = im /\ Harmless(wire, wire')
  BY <1>6, OutputWired, Zenon DEF CpuIrqOutput, cpuVars, Wired
<1>7. ~Reset BY Zenon DEF Reset
<1>8. ~Guest
  BY Zenon DEF Guest, KeyAck, TcuWrite, IntcWrite, IntcRead, WriteStatus, Wait, cpuVars
<1>9. Thread => Idle
  BY Zenon DEF Thread, WaitLatch, WaitTest, WaitHalt, WaitClear, HaltLoop, Wake,
     TakeInterrupt
<1>10. CASE UNCHANGED vars
  BY <1>10, Zenon DEF vars, Harmless
<1>11. QED
  BY <1>1, <1>2, <1>3, <1>4, <1>5, <1>6, <1>7, <1>8, <1>9, <1>10, Zenon
  DEF Next, MainLoop

(* A sleeping thread with work was signalled after its last test.           *)
LEMMA StillSignalled ==
  ASSUME IInv, NoLostWakeup, [Next]_vars
  PROVE  NoLostWakeup'
<1> SUFFICES ASSUME pc' = "asleep", HasWork(wire)', ~wire'.kick PROVE FALSE
  BY Zenon DEF NoLostWakeup
<1>1. HasWork(wire)' <=> wire'.hard /\ (wire'.cause \/ wire'.ip2) /\ im'
  BY Zenon DEF HasWork, Pending
<1>2. CASE Idle
  <2>1. im' = im BY <1>2, Zenon DEF Idle
  <2>2. ~HasWork(wire) /\ (HasWork(wire') => HasWork(wire))
    BY <1>2, IdleSame, Zenon
  <2>3. HasWork(wire') BY <1>1, <2>1, Zenon DEF HasWork, Pending
  <2>4. QED BY <2>2, <2>3
<1>3. CASE pc = "asleep" /\ im' = im /\ Harmless(wire, wire')
  <2>1. Unsignalled(wire') BY <1>1, Zenon DEF Unsignalled
  <2>2. Unsignalled(wire) BY <1>3, <2>1, Zenon DEF Harmless
  <2>3. HasWork(wire) /\ ~wire.kick
    BY <1>1, <1>3, <2>2, Zenon DEF HasWork, Pending, Unsignalled
  <2>4. QED BY <1>3, <2>3, Zenon DEF NoLostWakeup
<1>4. QED BY <1>2, <1>3, Asleep

(* Cause.IP2 is left behind by the second half of WAIT only.                *)
LEMMA LatchStep ==
  ASSUME IInv, [Next]_vars, Latched(wire')
  PROVE  Latched(wire) \/ WaitLatch
<1>1. CASE Wired(Active(lines', keyFlag', tcuOut'))
  BY <1>1, Zenon DEF Wired, Harmless
<1>2. CASE WaitClear BY <1>2, ClearSame, Zenon DEF Harmless
<1>3. CASE Idle BY <1>3, IdleSame, Zenon
<1>4. CASE TakeInterrupt BY <1>4, TakeSame, Zenon DEF Harmless
<1>5. CASE Silent
  <2>1. wire' = wire
    BY <1>5, Zenon
    DEF Silent, WriteStatus, Wait, WaitTest, WaitHalt, HaltLoop, Wake, vars
  <2>2. QED BY <2>1, Zenon
<1>6. QED BY <1>1, <1>2, <1>3, <1>4, <1>5, Steps, Zenon

(* Records of wires with equal fields are equal. *)
LEMMA Extensional ==
  ASSUME NEW r \in Wires, NEW s \in Wires,
         r.pending = s.pending, r.mask = s.mask, r.out = s.out,
         r.level = s.level, r.enabled = s.enabled, r.resample = s.resample,
         r.ip2 = s.ip2, r.cause = s.cause, r.hard = s.hard, r.wake = s.wake,
         r.kick = s.kick
  PROVE  r = s
  BY DEF Wires


(* An agreeing update changes nothing.                                      *)
LEMMA UpdateIdle ==
  ASSUME NEW w \in Wires, Agree(w)
  PROVE  IntcUpdate(w) = w
  BY Zenon DEF IntcUpdate, Agree

(* A high line driven again only signals the thread.                        *)
LEMMA DriveIdle ==
  ASSUME NEW w \in Wires, Agree(w), w.ip2
  PROVE  DriveCpu(w) = [w EXCEPT !.kick = TRUE]
<1> DEFINE s == [w EXCEPT !.kick = TRUE]
<1> DEFINE t == [w EXCEPT !.ip2 = w.level /\ w.enabled,
                          !.resample = w.level /\ w.enabled]
<1>1. t \in Wires /\ t = w
  <2>1. (w.level /\ w.enabled) = TRUE BY Zenon DEF Agree
  <2>2. w.ip2 = TRUE /\ w.resample = TRUE BY Zenon DEF Agree, Wires
  <2>3. /\ t \in Wires
        /\ t.pending = w.pending /\ t.mask = w.mask /\ t.out = w.out
        /\ t.level = w.level /\ t.enabled = w.enabled /\ t.ip2 = TRUE
        /\ t.resample = TRUE /\ t.cause = w.cause /\ t.hard = w.hard
        /\ t.wake = w.wake /\ t.kick = w.kick
    BY <2>1, Zenon DEF Wires
  <2> HIDE DEF t
  <2>4. t = w BY <2>2, <2>3, Extensional, Zenon
  <2>5. QED BY <2>3, <2>4, Zenon
<1>2. DriveCpu(w) = IrqRequest(t) BY Zenon DEF DriveCpu
<1> HIDE DEF t
<1> DEFINE c == [w EXCEPT !.cause = TRUE]
<1> DEFINE h == [c EXCEPT !.hard = TRUE]
<1> DEFINE k == [h EXCEPT !.kick = TRUE]
<1>3. DriveCpu(w) = k BY <1>1, <1>2, Zenon DEF IrqRequest, Interrupt
<1>4. w.cause = TRUE /\ w.hard = TRUE BY Zenon DEF Agree, Wires
<1>5. c = w
  <2>1. /\ c \in Wires
        /\ c.pending = w.pending /\ c.mask = w.mask /\ c.out = w.out
        /\ c.level = w.level /\ c.enabled = w.enabled /\ c.ip2 = w.ip2
        /\ c.resample = w.resample /\ c.cause = TRUE /\ c.hard = w.hard
        /\ c.wake = w.wake /\ c.kick = w.kick
    BY Zenon DEF Wires
  <2> HIDE DEF c
  <2>2. QED BY <1>4, <2>1, Extensional, Zenon
<1>6. [w EXCEPT !.hard = TRUE] = w
  <2> DEFINE g == [w EXCEPT !.hard = TRUE]
  <2>1. /\ g \in Wires
        /\ g.pending = w.pending /\ g.mask = w.mask /\ g.out = w.out
        /\ g.level = w.level /\ g.enabled = w.enabled /\ g.ip2 = w.ip2
        /\ g.resample = w.resample /\ g.cause = w.cause /\ g.hard = TRUE
        /\ g.wake = w.wake /\ g.kick = w.kick
    BY Zenon DEF Wires
  <2> HIDE DEF g
  <2>2. g = w BY <1>4, <2>1, Extensional, Zenon
  <2>3. QED BY <2>2, Zenon DEF g
<1>7. QED BY <1>3, <1>5, <1>6, Zenon

(* The resample timer finds the tree as its own update would leave it.      *)
LEMMA ResampleStep ==
  ASSUME IInv, Resample
  PROVE  wire' = [wire EXCEPT !.kick = TRUE]
<1> DEFINE s == [wire EXCEPT !.pending = wire.pending]
<1>1. s = wire
  <2>1. /\ s \in Wires
        /\ s.pending = wire.pending /\ s.mask = wire.mask /\ s.out = wire.out
        /\ s.level = wire.level /\ s.enabled = wire.enabled
        /\ s.ip2 = wire.ip2 /\ s.resample = wire.resample
        /\ s.cause = wire.cause /\ s.hard = wire.hard /\ s.wake = wire.wake
        /\ s.kick = wire.kick
    BY WireFacts, Zenon DEF Wires
  <2> HIDE DEF s
  <2>2. QED BY <2>1, WireFacts, Extensional, Zenon
<1>2. SyncTcu(wire, tcuOut) = IntcUpdate(s) BY PendingTimers, Zenon DEF SyncTcu
<1>3. SyncTcu(wire, tcuOut) = wire
  BY <1>1, <1>2, WireFacts, UpdateIdle, Zenon
<1> DEFINE t == [wire EXCEPT !.level = wire.out]
<1>4. t = wire
  <2>1. /\ t \in Wires
        /\ t.pending = wire.pending /\ t.mask = wire.mask /\ t.out = wire.out
        /\ t.level = wire.out /\ t.enabled = wire.enabled
        /\ t.ip2 = wire.ip2 /\ t.resample = wire.resample
        /\ t.cause = wire.cause /\ t.hard = wire.hard /\ t.wake = wire.wake
        /\ t.kick = wire.kick
    BY WireFacts, Zenon DEF Wires
  <2>2. wire.level = wire.out BY WireFacts, Zenon DEF Agree
  <2> HIDE DEF t
  <2>3. QED BY <2>1, <2>2, WireFacts, Extensional, Zenon
<1>5. wire' = DriveCpu(t) BY <1>3, Zenon DEF Resample, UpdateIrq
<1>6. wire.ip2 BY WireFacts, Zenon DEF Resample, Agree
<1>7. QED BY <1>4, <1>5, <1>6, WireFacts, DriveIdle, Zenon

-----------------------------------------------------------------------------
(* The invariant holds of every behaviour.                                  *)
LEMMA Invariant == Spec => []IInv
<1>1. Init => IInv BY Initial
<1>2. IInv /\ [Next]_vars => IInv' BY Inductive
<1>3. QED BY <1>1, <1>2, PTL DEF Spec

(* Every variable keeps its type, for any sets of sources.                  *)
THEOREM TypeCorrect == Spec => []TypeOK
<1>1. IInv => TypeOK BY DEF IInv
<1>2. QED BY <1>1, Invariant, PTL

(* The INTC's pending register is exactly the set of sources that the        *)
(* devices, the TCU and the key port drive.                                  *)
THEOREM KnownSources == Spec => []SourcesAgree
<1>1. IInv => SourcesAgree BY DEF IInv
<1>2. QED BY <1>1, Invariant, PTL

(* The INTC's output, the board's copy, the CPU's level and the resample      *)
(* timer agree after every device call, and a high level is latched.          *)
THEOREM Wiring == Spec => []WiresAgree
<1>1. IInv => WiresAgree BY DEF IInv
<1>2. QED BY <1>1, Invariant, PTL

(* A thread asleep in WAIT with an interrupt to take has been signalled.      *)
THEOREM Wakeup == Spec => []NoLostWakeup
<1>1. Init => NoLostWakeup BY DEF Init, NoLostWakeup
<1>2. IInv /\ NoLostWakeup /\ [Next]_vars => NoLostWakeup' BY StillSignalled
<1>3. QED BY <1>1, <1>2, Invariant, PTL DEF Spec

(* Only the second half of WAIT leaves Cause.IP2 set with the line low.       *)
THEOREM Latch == Spec => OnlyWaitLeavesCause
<1>1. IInv /\ [Next]_vars => [Latched(wire') => Latched(wire) \/ WaitLatch]_vars
  BY LatchStep
<1>2. QED BY <1>1, Invariant, PTL DEF Spec, OnlyWaitLeavesCause

(* The 1 ms resample only signals the thread again.                          *)
THEOREM Resampling == Spec => ResampleFindsNothing
<1>1. IInv /\ [Next]_vars => [Resample => wire' = [wire EXCEPT !.kick = TRUE]]_vars
  BY ResampleStep
<1>2. QED BY <1>1, Invariant, PTL DEF Spec, ResampleFindsNothing
=============================================================================
