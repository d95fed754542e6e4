----------------------------- MODULE AicDmaProofs -----------------------------
(***************************************************************************)
(* Proofs about AicDma, for any depth of the FIFO, any blocks and commands *)
(* of the guest and any debt of the timer: how deep the devices call each  *)
(* other, what the nested transfers agree on, and that no request is left  *)
(* unserved.  That the stream is in order is proved for a guest that arms  *)
(* the channel while the request is low (ArmMasked).                       *)
(***************************************************************************)
EXTENDS AicDma, SequenceTheorems, TLAPS

Ticks == [op : {"refill", "pop", "frame"}]
Xfers == [op : {"xfer"}, cnt : Nat, src : Nat, part : Nat, kick : BOOLEAN]
Frames == Ticks \cup Xfers

OnTop(s) == s[Len(s)]
Transfers(s) == Len(s) # 0 /\ OnTop(s).op = "xfer"

(* At most two activations, the second a transfer that the first one kicked; the  *)
(* controller is marked busy just while a kicked transfer runs.                   *)
Nested(s, busy) ==
  /\ s \in Seq(Frames) /\ Len(s) <= 2 /\ busy \in BOOLEAN
  /\ Len(s) = 2 => s[2].op = "xfer" /\ s[2].kick /\ (s[1].op = "xfer" => ~s[1].kick)
  /\ busy <=> Transfers(s) /\ OnTop(s).kick
  /\ ArmMasked => \A i \in 1 .. Len(s) : s[i].op = "xfer" => s[i].kick

(* However they are nested, all transfers end at the last sample programmed.      *)
Counted(s, unit, end) ==
  \A i \in 1 .. Len(s) : s[i].op = "xfer" =>
    /\ s[i].src + s[i].cnt * unit = end
    /\ s[i].part < unit
    /\ s[i].part # 0 => s[i].cnt # 0

Numbers ==
  /\ dsa \in Nat /\ dtc \in Nat /\ prog \in 0 .. MaxSamples /\ debt \in 0 .. MaxDebt
  /\ dcm \in Commands
  /\ dsa + dtc * dcm.unit = prog

Level ==
  /\ fifo \in Seq(Nat) /\ Len(fifo) <= Depth
  /\ req = Requested(Len(fifo), tdms)

Flags ==
  /\ cte \in BOOLEAN /\ tt \in BOOLEAN /\ req \in BOOLEAN /\ tdms \in BOOLEAN
  /\ playing \in BOOLEAN /\ boundary \in BOOLEAN /\ ended \in BOOLEAN

Served == ~Transfers(calls) => (cte /\ req => dtc = 0)

(* What a block that ended inside the callback means for the steps still to come. *)
Batch ==
  /\ ended => boundary /\ InTick
  /\ ended /\ ~AtRest => /\ Top.op # "refill"
                         /\ Top.op = "pop" => fifo # <<>>
  /\ Len(calls) = 2 => calls[1].op # "refill" /\ (calls[1].op = "pop" => ~ended)
  /\ \A i \in 1 .. Len(calls) : calls[i].op = "xfer" /\ calls[i].cnt = 0 => fifo # <<>>

(* The timer works on a debt.                                                     *)
Owed == InTick => debt # 0

AicInv ==
  /\ Nested(calls, transferring) /\ Counted(calls, dcm.unit, prog)
  /\ Numbers /\ Level /\ Flags /\ Served /\ Batch /\ Owed

-----------------------------------------------------------------------------
(* The stack. *)

LEMMA FramesOf ==
  /\ \A n, s \in Nat, k \in BOOLEAN : Xfer(n, s, k) \in Xfers /\ Xfer(n, s, k).op = "xfer"
       /\ Xfer(n, s, k).cnt = n /\ Xfer(n, s, k).src = s /\ Xfer(n, s, k).part = 0
       /\ Xfer(n, s, k).kick = k
  /\ \A t \in {"refill", "pop", "frame"} : Tick(t) \in Ticks /\ Tick(t).op = t
  /\ \A f \in Frames : f.op = "xfer" => f \in Xfers
  /\ \A f \in Frames : f.op # "xfer" => f \in Ticks /\ f.op \in {"refill", "pop", "frame"}
BY DEF Xfer, Tick, Xfers, Ticks, Frames

LEMMA Pushed ==
  ASSUME NEW s \in Seq(Frames), NEW f \in Frames
  PROVE  /\ Append(s, f) \in Seq(Frames) /\ Len(Append(s, f)) = Len(s) + 1
         /\ Append(s, f)[Len(s) + 1] = f
         /\ \A i \in 1 .. Len(s) : Append(s, f)[i] = s[i]
BY AppendProperties

LEMMA Popped ==
  ASSUME calls \in Seq(Frames), ~AtRest
  PROVE  /\ Len(calls) \in Nat \ {0} /\ Top \in Frames /\ Top = OnTop(calls)
         /\ Below \in Seq(Frames) /\ Len(Below) = Len(calls) - 1
         /\ \A i \in 1 .. Len(Below) : Below[i] = calls[i]
<1>1. Len(calls) \in Nat \ {0}
  BY EmptySeq DEF AtRest
<1>2. Top \in Frames /\ Top = OnTop(calls)
  BY <1>1, ElementOfSeq DEF Top, OnTop
<1>3. \A i \in 1 .. Len(calls) - 1 : calls[i] \in Frames
  BY <1>1, ElementOfSeq
<1>4. /\ SubSeq(calls, 1, Len(calls) - 1) \in Seq(Frames)
      /\ Len(SubSeq(calls, 1, Len(calls) - 1)) = Len(calls) - 1
      /\ \A i \in 1 .. Len(calls) - 1 : SubSeq(calls, 1, Len(calls) - 1)[i] = calls[i]
  <2> DEFINE n == Len(calls) - 1
  <2>1. n \in Nat /\ n \in Int /\ 1 \in Int /\ \A i \in 1 .. n : calls[i] \in Frames
    BY <1>1, <1>3
  <2> HIDE DEF n
  <2>2. /\ SubSeq(calls, 1, n) \in Seq(Frames)
        /\ Len(SubSeq(calls, 1, n)) = IF 1 <= n THEN n - 1 + 1 ELSE 0
        /\ \A i \in 1 .. n - 1 + 1 : SubSeq(calls, 1, n)[i] = calls[1 + i - 1]
    BY ONLY <2>1, SubSeqProperties
  <2>3. n - 1 + 1 = n /\ (~(1 <= n) => n = 0) /\ \A i \in 1 .. n : 1 + i - 1 = i
    BY <2>1
  <2>4. /\ SubSeq(calls, 1, n) \in Seq(Frames) /\ Len(SubSeq(calls, 1, n)) = n
        /\ \A i \in 1 .. n : SubSeq(calls, 1, n)[i] = calls[i]
    BY <2>2, <2>3
  <2> QED BY <2>4 DEF n
<1> QED BY <1>1, <1>2, <1>4 DEF Below

(* The top frame is replaced. *)
LEMMA Replaced ==
  ASSUME calls \in Seq(Frames), ~AtRest, NEW f \in Frames
  PROVE  LET s == Append(Below, f)
         IN  /\ s \in Seq(Frames) /\ Len(s) = Len(calls) /\ OnTop(s) = f
             /\ \A i \in 1 .. Len(s) : s[i] = IF i = Len(s) THEN f ELSE calls[i]
<1>1. /\ Len(calls) \in Nat \ {0} /\ Below \in Seq(Frames) /\ Len(Below) = Len(calls) - 1
      /\ \A i \in 1 .. Len(Below) : Below[i] = calls[i]
  BY Popped
<1>2. /\ Append(Below, f) \in Seq(Frames) /\ Len(Append(Below, f)) = Len(Below) + 1
      /\ Append(Below, f)[Len(Below) + 1] = f
      /\ \A i \in 1 .. Len(Below) : Append(Below, f)[i] = Below[i]
  BY <1>1, Pushed
<1> QED BY <1>1, <1>2 DEF OnTop

(* What a change of the FIFO or of TDMS sets off. *)
LEMMA Lines ==
  ASSUME NEW stack, NEW len, NEW on, UpdateLines(stack, len, on), transferring \in BOOLEAN
  PROVE  /\ req' = Requested(len, on)
         /\ \/ /\ calls' = stack /\ transferring' = transferring
               /\ req' /\ cte /\ ~transferring => dtc = 0
            \/ /\ calls' = Append(stack, Xfer(dtc, dsa, TRUE))
               /\ transferring' = TRUE /\ ~transferring /\ req' /\ cte /\ dtc # 0
BY DEF UpdateLines, KickAllowed, Enter

LEMMA KickNests ==
  ASSUME NEW s, NEW n \in Nat, NEW d \in Nat, Nested(s, FALSE)
  PROVE  /\ Nested(Append(s, Xfer(n, d, TRUE)), TRUE)
         /\ Len(Append(s, Xfer(n, d, TRUE))) = Len(s) + 1
         /\ OnTop(Append(s, Xfer(n, d, TRUE))) = Xfer(n, d, TRUE)
         /\ Transfers(Append(s, Xfer(n, d, TRUE)))
         /\ \A i \in 1 .. Len(s) : Append(s, Xfer(n, d, TRUE))[i] = s[i]
<1> DEFINE f == Xfer(n, d, TRUE)
<1>1. f \in Frames /\ f.op = "xfer" /\ f.kick
  BY DEF Frames, Xfers, Xfer
<1>2. s \in Seq(Frames)
  BY DEF Nested
<1> HIDE DEF f
<1>3. /\ Append(s, f) \in Seq(Frames) /\ Len(Append(s, f)) = Len(s) + 1
      /\ Append(s, f)[Len(s) + 1] = f
      /\ \A i \in 1 .. Len(s) : Append(s, f)[i] = s[i]
  BY <1>1, <1>2, Pushed
<1>4. Len(s) \in Nat /\ Len(s) < 2
  <2>1. Len(s) \in Nat
    BY <1>2, LenProperties
  <2>2. ASSUME Len(s) = 2 PROVE FALSE
    <3>1. s[2].op = "xfer" /\ s[2].kick
      BY <2>2 DEF Nested
    <3>2. OnTop(s) = s[2]
      BY <2>2 DEF OnTop
    <3>3. ~(Transfers(s) /\ OnTop(s).kick)
      BY DEF Nested
    <3>4. Transfers(s)
      BY <2>2, <3>1, <3>2 DEF Transfers
    <3>5. OnTop(s).kick
      BY <3>1, <3>2, Zenon
    <3> QED BY <3>3, <3>4, <3>5
  <2>3. Len(s) <= 2
    BY DEF Nested
  <2> QED BY ONLY <2>1, <2>2, <2>3
<1>5. Nested(Append(s, f), TRUE)
  BY <1>1, <1>2, <1>3, <1>4 DEF Nested, Transfers, OnTop
<1>6. OnTop(Append(s, f)) = f /\ Len(Append(s, f)) # 0
  BY <1>3, <1>4 DEF OnTop
<1>7. Transfers(Append(s, f))
  BY <1>1, <1>6 DEF Transfers
<1> QED BY <1>3, <1>5, <1>6, <1>7 DEF f

(* The new top is an activation of the same kind. *)
LEMMA SameKind ==
  ASSUME Nested(calls, transferring), ~AtRest, NEW f \in Frames,
         f.op = "xfer" <=> Top.op = "xfer", f.op = "xfer" => f.kick = Top.kick
  PROVE  Nested(Append(Below, f), transferring)
<1> DEFINE s == Append(Below, f)
<1>1. /\ s \in Seq(Frames) /\ Len(s) = Len(calls) /\ OnTop(s) = f
      /\ \A i \in 1 .. Len(s) : s[i] = IF i = Len(s) THEN f ELSE calls[i]
  BY Replaced DEF Nested
<1>2. Len(calls) \in Nat \ {0} /\ Top = OnTop(calls) /\ Len(calls) <= 2
  BY Popped DEF Nested
<1> HIDE DEF s
<1>3. Transfers(s) /\ OnTop(s).kick <=> Transfers(calls) /\ OnTop(calls).kick
  BY <1>1, <1>2 DEF Transfers
<1>4. \A i \in 1 .. Len(s) :
         /\ s[i].op = "xfer" <=> calls[i].op = "xfer"
         /\ s[i].op = "xfer" => s[i].kick = calls[i].kick
  BY <1>1, <1>2 DEF OnTop
<1>5. Len(s) = 2 => s[2].op = "xfer" /\ s[2].kick /\ (s[1].op = "xfer" => ~s[1].kick)
  <2> SUFFICES ASSUME Len(s) = 2
               PROVE  s[2].op = "xfer" /\ s[2].kick /\ (s[1].op = "xfer" => ~s[1].kick)
    OBVIOUS
  <2>1. /\ calls[2].op = "xfer" /\ calls[2].kick
        /\ calls[1].op = "xfer" => ~calls[1].kick
    BY <1>1 DEF Nested
  <2>2. 1 \in 1 .. Len(s) /\ 2 \in 1 .. Len(s)
    OBVIOUS
  <2>3. s[2].op = "xfer" /\ s[2].kick = calls[2].kick
    BY <1>4, <2>1, <2>2
  <2>4. s[1].op = "xfer" => calls[1].op = "xfer" /\ s[1].kick = calls[1].kick
    BY <1>4, <2>2
  <2> QED BY <2>1, <2>3, <2>4, Zenon
<1>6. ArmMasked => \A i \in 1 .. Len(s) : s[i].op = "xfer" => s[i].kick
  <2> SUFFICES ASSUME ArmMasked, NEW i \in 1 .. Len(s), s[i].op = "xfer" PROVE s[i].kick
    OBVIOUS
  <2>1. i \in 1 .. Len(calls) /\ calls[i].op = "xfer" /\ s[i].kick = calls[i].kick
    BY <1>1, <1>4
  <2>2. calls[i].kick
    BY <2>1 DEF Nested
  <2> QED BY <2>1, <2>2, Zenon
<1>7. (transferring \in BOOLEAN) /\ (transferring <=> Transfers(s) /\ OnTop(s).kick)
  BY <1>3 DEF Nested
<1>8. Nested(s, transferring)
  BY <1>1, <1>2, <1>5, <1>6, <1>7 DEF Nested
<1> QED BY <1>8 DEF s

LEMMA AfterLines ==
  ASSUME AicInv, NEW stack, NEW len \in Nat, NEW on \in BOOLEAN,
         UpdateLines(stack, len, on),
         Nested(stack, transferring), Counted(stack, dcm.unit, prog)
  PROVE  /\ req' = Requested(len, on) /\ req' \in BOOLEAN
         /\ Nested(calls', transferring') /\ Counted(calls', dcm.unit, prog)
         /\ ~Transfers(calls') => (cte /\ req' => dtc = 0)
         /\ \/ calls' = stack /\ transferring' = transferring
            \/ /\ ~transferring /\ req' /\ dtc # 0
               /\ calls' = Append(stack, Xfer(dtc, dsa, TRUE))
               /\ Transfers(calls') /\ Len(calls') = Len(stack) + 1
               /\ calls'[Len(calls')] = Xfer(dtc, dsa, TRUE)
               /\ \A i \in 1 .. Len(stack) : calls'[i] = stack[i]
<1>1. req' = Requested(len, on) /\ req' \in BOOLEAN
  BY Lines DEF Requested, AicInv, Nested
<1>2. CASE /\ calls' = stack /\ transferring' = transferring
           /\ req' /\ cte /\ ~transferring => dtc = 0
  <2>1. ~Transfers(stack) => ~transferring
    BY DEF Nested
  <2> QED BY <1>1, <1>2, <2>1
<1>3. CASE /\ calls' = Append(stack, Xfer(dtc, dsa, TRUE))
           /\ transferring' = TRUE /\ ~transferring /\ req' /\ cte /\ dtc # 0
  <2> DEFINE f == Xfer(dtc, dsa, TRUE)
  <2>1. dtc \in Nat /\ dsa \in Nat /\ dsa + dtc * dcm.unit = prog /\ dcm.unit \in Nat \ {0}
    BY AicDmaAssumption DEF AicInv, Numbers
  <2>2. transferring = FALSE
    BY <1>3 DEF AicInv, Nested
  <2>3. /\ Nested(Append(stack, f), TRUE) /\ Transfers(Append(stack, f))
        /\ Len(Append(stack, f)) = Len(stack) + 1
        /\ OnTop(Append(stack, f)) = f
        /\ \A i \in 1 .. Len(stack) : Append(stack, f)[i] = stack[i]
    BY <2>1, <2>2, KickNests
  <2>4. f.src = dsa /\ f.cnt = dtc /\ f.part = 0
    BY DEF Xfer
  <2>5. Len(stack) \in Nat
    BY LenProperties DEF Nested
  <2> HIDE DEF f
  <2>6. Counted(Append(stack, f), dcm.unit, prog)
    <3> SUFFICES ASSUME NEW i \in 1 .. Len(stack) + 1, Append(stack, f)[i].op = "xfer"
                 PROVE  /\ Append(stack, f)[i].src + Append(stack, f)[i].cnt * dcm.unit = prog
                        /\ Append(stack, f)[i].part < dcm.unit
                        /\ Append(stack, f)[i].part # 0 => Append(stack, f)[i].cnt # 0
      BY <2>3 DEF Counted
    <3>1. CASE i \in 1 .. Len(stack)
      <4>1. Append(stack, f)[i] = stack[i]
        BY <2>3, <3>1
      <4> QED BY <3>1, <4>1 DEF Counted
    <3>2. CASE i = Len(stack) + 1
      <4>1. Append(stack, f)[i] = f
        BY <2>3, <3>2 DEF OnTop
      <4>2. f.src + f.cnt * dcm.unit = prog
        BY <2>1, <2>4, Zenon
      <4>3. f.part < dcm.unit /\ ~(f.part # 0)
        BY <2>1, <2>4
      <4> QED BY <4>1, <4>2, <4>3
    <3> QED BY <2>5, <3>1, <3>2
  <2>7. calls' = Append(stack, f)
    BY <1>3 DEF f
  <2>8. OnTop(calls') = calls'[Len(calls')]
    BY DEF OnTop
  <2>9. calls'[Len(calls')] = f /\ Len(calls') = Len(stack) + 1
    BY <2>3, <2>7, <2>8
  <2>10. f = Xfer(dtc, dsa, TRUE)
    BY DEF f
  <2> QED BY <1>1, <1>3, <2>3, <2>6, <2>7, <2>9, <2>10
<1> QED BY <1>2, <1>3, Lines DEF AicInv, Nested

LEMMA NoElement == ASSUME NEW s, s = <<>> PROVE Len(s) = 0 /\ \A i \in 1 .. Len(s) : FALSE
<1>1. Len(s) = 0
  OBVIOUS
<1> QED BY <1>1

(* A stack of one activation. *)
LEMMA Single ==
  ASSUME NEW s, NEW f \in Frames, s = <<f>> \/ s = Append(<<>>, f)
  PROVE  /\ s \in Seq(Frames) /\ Len(s) = 1 /\ s[1] = f /\ s # <<>> /\ OnTop(s) = f
         /\ Transfers(s) <=> f.op = "xfer"
         /\ \A i \in 1 .. Len(s) : i = 1
<1>1. s = <<f>>
  OBVIOUS
<1>2. s \in Seq(Frames) /\ Len(s) = 1 /\ s[1] = f
  BY <1>1
<1>3. s # <<>>
  BY <1>2
<1>4. OnTop(s) = f
  BY <1>2 DEF OnTop
<1>5. Transfers(s) <=> f.op = "xfer"
  BY <1>2, <1>4 DEF Transfers
<1>6. \A i \in 1 .. Len(s) : i = 1
  BY <1>2
<1> QED BY <1>2, <1>3, <1>4, <1>5, <1>6

LEMMA EmptyStack ==
  /\ Len(<<>>) = 0 /\ ~Transfers(<<>>) /\ Nested(<<>>, FALSE)
  /\ \A u, e : Counted(<<>>, u, e)
<1>1. Len(<<>>) = 0 /\ <<>> \in Seq(Frames)
  BY EmptySeq
<1>2. ~Transfers(<<>>)
  BY <1>1 DEF Transfers
<1>3. \A i \in 1 .. Len(<<>>) : FALSE
  BY <1>1
<1>4. Nested(<<>>, FALSE)
  BY <1>1, <1>2, <1>3 DEF Nested
<1> QED BY <1>1, <1>2, <1>3, <1>4 DEF Counted

(* At rest nothing is owed to a callback, and a tick is alone on the stack. *)
LEMMA Resting ==
  ASSUME AicInv, AtRest
  PROVE  /\ Len(calls) = 0 /\ ~Transfers(calls) /\ transferring = FALSE /\ ended = FALSE
         /\ Nested(<<>>, transferring) /\ \A u, e : Counted(<<>>, u, e)
<1>1. calls = <<>> /\ Len(calls) = 0
  BY EmptySeq DEF AtRest
<1>2. ~Transfers(calls) /\ transferring = FALSE
  BY <1>1 DEF Transfers, AicInv, Nested
<1>3. ended = FALSE
  BY DEF AicInv, Batch, InTick, Flags
<1> QED BY <1>1, <1>2, <1>3, EmptyStack

LEMMA TickAlone ==
  ASSUME AicInv, ~AtRest, Top.op # "xfer"
  PROVE  /\ Len(calls) = 1 /\ calls[1] = Top /\ ~Transfers(calls) /\ transferring = FALSE
         /\ Len(Below) = 0 /\ Below = <<>>
<1>1. Len(calls) \in Nat \ {0} /\ Top = OnTop(calls) /\ Len(calls) <= 2
  BY Popped DEF AicInv, Nested
<1>2. ~Transfers(calls) /\ transferring = FALSE
  BY <1>1 DEF Transfers, AicInv, Nested
<1>3. Len(calls) # 2
  BY <1>1 DEF AicInv, Nested, OnTop
<1>a. Len(calls) = 1
  <2>1. \A n \in Nat : n # 0 /\ n <= 2 /\ n # 2 => n = 1
    OBVIOUS
  <2> QED BY <1>1, <1>3, <2>1
<1>4. Len(calls) = 1 /\ calls[1] = Top
  BY <1>1, <1>a DEF OnTop
<1>5. Below \in Seq(Frames) /\ Len(Below) = 0
  BY <1>4, Popped DEF AicInv, Nested
<1>6. Below = <<>>
  BY <1>5, EmptySeq
<1> QED BY <1>2, <1>4, <1>5, <1>6

(* A tick goes on to its next step. *)
LEMMA TickMoves ==
  ASSUME AicInv, ~AtRest, Top.op # "xfer", NEW t \in {"refill", "pop", "frame"}
  PROVE  LET s == Append(Below, Tick(t))
         IN  /\ Nested(s, transferring) /\ Counted(s, dcm.unit, prog)
             /\ Len(s) = 1 /\ s[1] = Tick(t) /\ s[1].op = t /\ OnTop(s) = Tick(t)
             /\ s # <<>>
<1> DEFINE s == Append(Below, Tick(t))
<1>1. Tick(t) \in Frames /\ Tick(t).op = t
  BY FramesOf DEF Frames
<1>2. Len(calls) = 1
  BY TickAlone
<1>3. /\ s \in Seq(Frames) /\ Len(s) = 1 /\ OnTop(s) = Tick(t)
      /\ \A i \in 1 .. Len(s) : s[i] = IF i = Len(s) THEN Tick(t) ELSE calls[i]
  BY <1>1, <1>2, Replaced DEF AicInv, Nested
<1>5. Nested(s, transferring)
  BY <1>1, SameKind DEF AicInv
<1> HIDE DEF s
<1>4. s[1] = Tick(t) /\ s # <<>>
  <2>1. OnTop(s) = s[1] /\ s # <<>>
    BY <1>3, EmptySeq DEF OnTop
  <2> QED BY <1>3, <2>1
<1>6. Counted(s, dcm.unit, prog)
  BY <1>1, <1>3, <1>4 DEF Counted
<1> QED BY <1>1, <1>3, <1>4, <1>5, <1>6 DEF s

-----------------------------------------------------------------------------
(* The steps. *)

(* A tick that goes on may have kicked a transfer, which then is fresh. *)
LEMMA TickLines ==
  ASSUME AicInv, ~AtRest, Top.op # "xfer", NEW t \in {"refill", "pop", "frame"},
         NEW len \in Nat, UpdateLines(Append(Below, Tick(t)), len, tdms)
  PROVE  /\ req' = Requested(len, tdms) /\ req' \in BOOLEAN
         /\ Nested(calls', transferring') /\ Counted(calls', dcm.unit, prog)
         /\ ~Transfers(calls') => (cte /\ req' => dtc = 0)
         /\ calls' # <<>> /\ calls'[1].op = t
         /\ Len(calls') = 2 => Transfers(calls')
         /\ Len(calls') # 2 => Len(calls') = 1
         /\ \A i \in 1 .. Len(calls') : calls'[i].op = "xfer" => calls'[i].cnt # 0
         /\ Transfers(calls') => calls'[Len(calls')] = Xfer(dtc, dsa, TRUE)
<1> DEFINE s == Append(Below, Tick(t))
<1>1. /\ Nested(s, transferring) /\ Counted(s, dcm.unit, prog)
      /\ Len(s) = 1 /\ s[1].op = t /\ s # <<>>
  BY TickMoves
<1>2. tdms \in BOOLEAN /\ UpdateLines(s, len, tdms)
  BY DEF AicInv, Flags
<1> HIDE DEF s
<1>3. /\ req' = Requested(len, tdms) /\ req' \in BOOLEAN
      /\ Nested(calls', transferring') /\ Counted(calls', dcm.unit, prog)
      /\ ~Transfers(calls') => (cte /\ req' => dtc = 0)
      /\ \/ calls' = s /\ transferring' = transferring
         \/ /\ ~transferring /\ req' /\ dtc # 0
            /\ calls' = Append(s, Xfer(dtc, dsa, TRUE))
            /\ Transfers(calls') /\ Len(calls') = Len(s) + 1
            /\ calls'[Len(calls')] = Xfer(dtc, dsa, TRUE)
            /\ \A i \in 1 .. Len(s) : calls'[i] = s[i]
  BY <1>1, <1>2, AfterLines
<1>4. CASE calls' = s
  <2>1. Len(calls') = 1 /\ calls'[1].op = t /\ calls' # <<>>
    BY <1>1, <1>4
  <2>2. ~Transfers(calls')
    <3>1. OnTop(calls') = calls'[1] /\ t # "xfer"
      BY <2>1 DEF OnTop
    <3> QED BY <2>1, <3>1 DEF Transfers
  <2>3. \A i \in 1 .. Len(calls') : calls'[i].op = "xfer" => calls'[i].cnt # 0
    <3>1. \A i \in 1 .. Len(calls') : i = 1
      BY <2>1
    <3> QED BY <2>1, <3>1
  <2>4. Len(calls') # 2
    BY <2>1
  <2> QED BY <1>3, <2>1, <2>2, <2>3, <2>4
<1>5. CASE /\ dtc # 0 /\ Transfers(calls') /\ Len(calls') = Len(s) + 1
           /\ calls'[Len(calls')] = Xfer(dtc, dsa, TRUE)
           /\ \A i \in 1 .. Len(s) : calls'[i] = s[i]
  <2>1. Len(s) + 1 = 2 /\ 1 \in 1 .. Len(s)
    BY <1>1
  <2>2. Len(calls') = 2 /\ calls'[1].op = t /\ calls'[2].cnt = dtc
    BY <1>1, <1>5, <2>1 DEF Xfer
  <2>3. calls' # <<>>
    BY <2>2, EmptySeq
  <2>4. \A i \in 1 .. Len(calls') : calls'[i].op = "xfer" => calls'[i].cnt # 0
    <3>1. \A i \in 1 .. 2 : i = 1 \/ i = 2
      OBVIOUS
    <3> QED BY <1>5, <2>2, <3>1
  <2> QED BY <1>3, <1>5, <2>2, <2>3, <2>4
<1> QED BY <1>3, <1>4, <1>5

LEMMA RefillKeeps == AicInv /\ Refill => AicInv'
<1> SUFFICES ASSUME AicInv, Refill PROVE AicInv'
  OBVIOUS
<1>1. /\ ~AtRest /\ Top.op = "refill"
      /\ UpdateLines(Append(Below, Tick("pop")), Len(fifo), tdms)
      /\ UNCHANGED <<dsa, dtc, cte, tt, dcm, fifo, tdms, playing, boundary, debt, prog, ended>>
  BY DEF Refill, aicVars
<1>2. Len(fifo) \in Nat /\ ended = FALSE
  BY <1>1, LenProperties DEF AicInv, Level, Flags, Batch
<1>3. /\ req' = Requested(Len(fifo), tdms) /\ req' \in BOOLEAN
      /\ Nested(calls', transferring') /\ Counted(calls', dcm.unit, prog)
      /\ ~Transfers(calls') => (cte /\ req' => dtc = 0)
      /\ calls'[1].op = "pop"
      /\ \A i \in 1 .. Len(calls') : calls'[i].op = "xfer" => calls'[i].cnt # 0
  BY <1>1, <1>2, TickLines
<1>4. Numbers' /\ Level' /\ Flags' /\ Served'
  BY <1>1, <1>3 DEF AicInv, Numbers, Level, Flags, Served
<1>5. Batch'
  BY <1>1, <1>2, <1>3 DEF Batch
<1>6. Owed'
  BY <1>1, TickAlone DEF AicInv, Owed, InTick
<1> QED BY <1>1, <1>3, <1>4, <1>5, <1>6 DEF AicInv

LEMMA PopKeeps == AicInv /\ Pop => AicInv'
<1> SUFFICES ASSUME AicInv, Pop PROVE AicInv'
  OBVIOUS
<1>1. /\ ~AtRest /\ Top.op = "pop"
      /\ fifo' = IF fifo = <<>> THEN fifo ELSE Tail(fifo)
      /\ UpdateLines(Append(Below, Tick("frame")), LevelAfterPop, tdms)
      /\ UNCHANGED <<dsa, dtc, cte, tt, dcm, tdms, playing, boundary, debt, prog, ended>>
  BY DEF Pop
<1>2. LevelAfterPop \in Nat /\ fifo' \in Seq(Nat) /\ Len(fifo') = LevelAfterPop
      /\ Len(fifo') <= Len(fifo)
  <2>1. CASE fifo = <<>>
    BY <1>1, <2>1, EmptySeq DEF LevelAfterPop, AicInv, Level
  <2>2. CASE fifo # <<>>
    BY <1>1, <2>2, EmptySeq, HeadTailProperties DEF LevelAfterPop, AicInv, Level
  <2> QED BY <2>1, <2>2
<1>3. /\ req' = Requested(LevelAfterPop, tdms) /\ req' \in BOOLEAN
      /\ Nested(calls', transferring') /\ Counted(calls', dcm.unit, prog)
      /\ ~Transfers(calls') => (cte /\ req' => dtc = 0)
      /\ calls' # <<>> /\ calls'[1].op = "frame"
      /\ Len(calls') = 2 => Transfers(calls')
      /\ Len(calls') # 2 => Len(calls') = 1
      /\ \A i \in 1 .. Len(calls') : calls'[i].op = "xfer" => calls'[i].cnt # 0
  BY <1>1, <1>2, TickLines
<1>4. Numbers' /\ Level' /\ Flags' /\ Served'
  BY <1>1, <1>2, <1>3, AicDmaAssumption, LenProperties DEF AicInv, Numbers, Level, Flags, Served
<1>5. Batch'
  <2>1. Top'.op # "refill" /\ Top'.op # "pop"
    <3>1. Top' = calls'[Len(calls')]
      BY DEF Top
    <3>2. CASE Len(calls') = 1
      BY <1>3, <3>1, <3>2
    <3>3. CASE Len(calls') = 2
      BY <1>3, <3>1, <3>3 DEF Transfers, OnTop
    <3> QED BY <1>3, <3>2, <3>3
  <2>2. InTick'
    BY <1>3 DEF InTick, AtRest
  <2> QED BY <1>1, <1>3, <2>1, <2>2 DEF Batch, AicInv
<1>6. Owed'
  BY <1>1, TickAlone DEF AicInv, Owed, InTick
<1> QED BY <1>1, <1>3, <1>4, <1>5, <1>6 DEF AicInv

LEMMA FrameKeeps == AicInv /\ Frame => AicInv'
<1> SUFFICES ASSUME AicInv, Frame PROVE AicInv'
  OBVIOUS
<1>1. /\ ~AtRest /\ Top.op = "frame" /\ debt' = debt - 1 /\ boundary' = FALSE
      /\ calls' = IF BatchEnds THEN Below ELSE Append(Below, Tick("refill"))
      /\ ended' = (ended /\ ~BatchEnds)
      /\ UNCHANGED <<dsa, dtc, cte, tt, dcm, transferring, req, fifo, tdms, playing, prog>>
  BY DEF Frame, DebtPaid, dmacVars
<1>2. Len(calls) = 1 /\ ~Transfers(calls) /\ transferring = FALSE /\ Below = <<>>
  BY <1>1, TickAlone
<1>4. /\ Nested(calls', transferring') /\ Counted(calls', dcm.unit, prog) /\ ~Transfers(calls')
      /\ Len(calls') # 2
      /\ \A i \in 1 .. Len(calls') : calls'[i].op # "xfer"
  <2>1. CASE calls' = <<>>
    <3>1. \A i \in 1 .. Len(calls') : FALSE
      BY <2>1, EmptyStack
    <3>2. Len(calls') # 2
      BY <2>1, EmptyStack
    <3>3. Nested(calls', transferring') /\ Counted(calls', dcm.unit, prog) /\ ~Transfers(calls')
      BY <1>1, <1>2, <2>1, EmptyStack
    <3> QED BY <3>1, <3>2, <3>3
  <2>2. CASE calls' = Append(Below, Tick("refill"))
    <3>1. /\ Nested(calls', transferring) /\ Counted(calls', dcm.unit, prog)
          /\ Len(calls') = 1 /\ calls'[1].op = "refill"
      BY <1>1, <2>2, TickMoves
    <3>2. ~Transfers(calls')
      BY <3>1 DEF Transfers, OnTop
    <3>3. Len(calls') # 2 /\ \A i \in 1 .. Len(calls') : i = 1
      BY <3>1
    <3> QED BY <1>1, <3>1, <3>2, <3>3
  <2> QED BY <1>1, <1>2, <2>1, <2>2
<1>5. ended' = FALSE
  BY <1>1 DEF AicInv, Batch, Flags, BatchEnds
<1>6. debt' \in 0 .. MaxDebt
  <2>1. debt # 0
    BY <1>1, TickAlone DEF AicInv, Owed, InTick
  <2> QED BY <1>1, <2>1, AicDmaAssumption DEF AicInv, Numbers
<1>7. Numbers' /\ Level' /\ Flags' /\ Served'
  BY <1>1, <1>2, <1>5, <1>6 DEF AicInv, Numbers, Level, Flags, Served
<1>8. Batch'
  BY <1>4, <1>5 DEF Batch
<1>9. Owed'
  <2>1. CASE calls' = <<>>
    BY <2>1 DEF Owed, InTick, AtRest
  <2>2. CASE ~BatchEnds
    BY <1>1, <1>6, <2>2 DEF Owed, BatchEnds, AicInv, Numbers
  <2> QED BY <1>1, <1>2, <2>1, <2>2
<1> QED BY <1>1, <1>4, <1>7, <1>8, <1>9 DEF AicInv

(* A transfer is on top. *)
LEMMA TransferOnTop ==
  ASSUME AicInv, ~AtRest, Top.op = "xfer"
  PROVE  /\ Top \in Xfers /\ Len(calls) \in {1, 2} /\ Top = calls[Len(calls)]
         /\ Top.src + Top.cnt * dcm.unit = prog /\ Top.part < dcm.unit
         /\ Top.part # 0 => Top.cnt # 0
         /\ transferring = Top.kick
         /\ InTick => Len(calls) = 2
<1>1. Len(calls) \in Nat \ {0} /\ Top = calls[Len(calls)] /\ Top \in Frames /\ Len(calls) <= 2
  BY Popped DEF AicInv, Nested, OnTop
<1>2. Top \in Xfers
  BY <1>1, FramesOf
<1>3. Len(calls) \in {1, 2} /\ Len(calls) \in 1 .. Len(calls)
  <2>1. \A n \in Nat : n # 0 /\ n <= 2 => n \in {1, 2} /\ n \in 1 .. n
    OBVIOUS
  <2> QED BY <1>1, <2>1
<1>4. /\ Top.src + Top.cnt * dcm.unit = prog /\ Top.part < dcm.unit
      /\ Top.part # 0 => Top.cnt # 0
  BY <1>1, <1>3 DEF AicInv, Counted
<1>5. transferring = Top.kick
  <2>1. Transfers(calls) /\ OnTop(calls) = Top
    BY <1>1, <1>3 DEF Transfers, OnTop
  <2>2. transferring \in BOOLEAN /\ Top.kick \in BOOLEAN
    BY <1>2 DEF AicInv, Nested, Xfers
  <2>3. transferring <=> OnTop(calls).kick
    BY <2>1 DEF AicInv, Nested
  <2>4. transferring <=> Top.kick
    BY <2>1, <2>3, Zenon
  <2> QED BY <2>2, <2>4
<1>6. InTick => Len(calls) # 1
  BY <1>1 DEF InTick
<1> QED BY <1>1, <1>2, <1>3, <1>4, <1>5, <1>6

(* The transfer goes on by a sample, which may be the last of its unit. *)
LEMMA AdvancedCounts ==
  ASSUME AicInv, ~AtRest, Top.op = "xfer", LoopGoesOn
  PROVE  /\ Advanced(Top) \in Xfers /\ Advanced(Top).op = "xfer"
         /\ Advanced(Top).kick = Top.kick
         /\ Advanced(Top).src + Advanced(Top).cnt * dcm.unit = prog
         /\ Advanced(Top).part < dcm.unit
         /\ Advanced(Top).part # 0 => Advanced(Top).cnt # 0
         /\ Advanced(Top).src + Advanced(Top).part = Top.src + Top.part + 1
<1> DEFINE f == Top
           u == dcm.unit
<1>1. /\ f \in Xfers /\ f.src + f.cnt * u = prog /\ f.part < u /\ (f.part # 0 => f.cnt # 0)
  BY TransferOnTop
<1>2. u \in Nat \ {0}
  BY AicDmaAssumption DEF AicInv, Numbers
<1>3. f.cnt # 0
  BY <1>1 DEF LoopGoesOn
<1>4. Advanced(f) = IF f.part + 1 < u THEN [f EXCEPT !.part = @ + 1]
                    ELSE [f EXCEPT !.part = 0, !.cnt = @ - 1, !.src = @ + u]
  BY DEF Advanced
<1> HIDE DEF f, u
<1>5. f.cnt \in Nat /\ f.src \in Nat /\ f.part \in Nat /\ f.op = "xfer" /\ f.kick \in BOOLEAN
  BY <1>1 DEF Xfers
<1>6. CASE f.part + 1 < u
  <2>1. Advanced(f) = [f EXCEPT !.part = @ + 1]
    BY <1>4, <1>6
  <2>2. /\ Advanced(f).op = "xfer" /\ Advanced(f).kick = f.kick /\ Advanced(f).cnt = f.cnt
        /\ Advanced(f).src = f.src /\ Advanced(f).part = f.part + 1 /\ Advanced(f) \in Xfers
    BY <1>1, <1>5, <2>1 DEF Xfers
  <2>3. Advanced(f).src + Advanced(f).cnt * u = prog
    BY <1>1, <2>2, Zenon
  <2>4. f.src + (f.part + 1) = f.src + f.part + 1
    BY <1>5
  <2> QED BY <1>3, <1>6, <2>2, <2>3, <2>4 DEF f, u
<1>7. CASE ~(f.part + 1 < u)
  <2>1. Advanced(f) = [f EXCEPT !.part = 0, !.cnt = @ - 1, !.src = @ + u]
    BY <1>4, <1>7
  <2>2. f.cnt - 1 \in Nat /\ f.src + u \in Nat /\ f.part + 1 = u
    BY <1>1, <1>2, <1>3, <1>5, <1>7
  <2>3. /\ Advanced(f).op = "xfer" /\ Advanced(f).kick = f.kick
        /\ Advanced(f).cnt = f.cnt - 1 /\ Advanced(f).src = f.src + u
        /\ Advanced(f).part = 0 /\ Advanced(f) \in Xfers
    <3>1. f = [op |-> f.op, cnt |-> f.cnt, src |-> f.src, part |-> f.part, kick |-> f.kick]
      BY <1>1 DEF Xfers
    <3>2. Advanced(f) = [op |-> "xfer", cnt |-> f.cnt - 1, src |-> f.src + u,
                         part |-> 0, kick |-> f.kick]
      BY <1>5, <2>1, <3>1
    <3> QED BY <1>5, <2>2, <3>2 DEF Xfers
  <2>5. (f.src + u) + (f.cnt - 1) * u = prog
    <3>1. (f.cnt - 1) * u = f.cnt * u - u
      BY <1>2, <1>5
    <3>2. f.cnt * u \in Int
      BY <1>2, <1>5
    <3>3. \A x, y \in Int : (f.src + y) + (x - y) = f.src + x
      BY <1>5
    <3>4. u \in Int /\ f.src + f.cnt * u = prog
      BY <1>1, <1>2
    <3>5. (f.src + u) + (f.cnt * u - u) = f.src + f.cnt * u
      BY <3>2, <3>3, <3>4
    <3> QED BY <3>1, <3>4, <3>5, Zenon
  <2>6. Advanced(f).src + Advanced(f).cnt * u = prog
    BY <2>3, <2>5, Zenon
  <2>7. f.src + u + 0 = f.src + f.part + 1 /\ 0 < u
    BY <1>2, <1>5, <2>2
  <2> QED BY <2>3, <2>6, <2>7 DEF f, u
<1> QED BY <1>6, <1>7

LEMMA PushKeeps == AicInv /\ Push => AicInv'
<1> SUFFICES ASSUME AicInv, Push PROVE AicInv'
  OBVIOUS
<1> DEFINE f == Advanced(Top)
           s == Append(Below, f)
<1>1. /\ ~AtRest /\ Top.op = "xfer" /\ LoopGoesOn /\ Len(fifo) < Depth
      /\ fifo' = Append(fifo, Top.src + Top.part) /\ UpdateLines(s, Len(fifo) + 1, tdms)
      /\ UNCHANGED <<dsa, dtc, cte, tt, dcm, tdms, playing, boundary, debt, prog, ended>>
  BY DEF Push
<1>2. /\ f \in Xfers /\ f.op = "xfer" /\ f.kick = Top.kick
      /\ f.src + f.cnt * dcm.unit = prog /\ f.part < dcm.unit
      /\ f.part # 0 => f.cnt # 0
  BY <1>1, AdvancedCounts
<1>3. Top \in Xfers /\ Len(calls) \in {1, 2} /\ Top = calls[Len(calls)]
  BY <1>1, TransferOnTop
<1>4. Top.src + Top.part \in Nat /\ Len(fifo) \in Nat /\ tdms \in BOOLEAN /\ fifo \in Seq(Nat)
  BY <1>3, LenProperties DEF Xfers, AicInv, Level, Flags
<1>5. fifo' \in Seq(Nat) /\ Len(fifo') = Len(fifo) + 1 /\ fifo' # <<>>
  BY <1>1, <1>4, AppendProperties
<1> HIDE DEF f
<1>6. /\ s \in Seq(Frames) /\ Len(s) = Len(calls) /\ OnTop(s) = f
      /\ \A i \in 1 .. Len(s) : s[i] = IF i = Len(s) THEN f ELSE calls[i]
  BY <1>1, <1>2, Replaced DEF AicInv, Nested, Frames
<1>7. Nested(s, transferring)
  BY <1>1, <1>2, SameKind DEF AicInv, Frames
<1> HIDE DEF s
<1>8. Counted(s, dcm.unit, prog)
  <2> SUFFICES ASSUME NEW i \in 1 .. Len(s), s[i].op = "xfer"
               PROVE  /\ s[i].src + s[i].cnt * dcm.unit = prog
                      /\ s[i].part < dcm.unit /\ (s[i].part # 0 => s[i].cnt # 0)
    BY DEF Counted
  <2>1. CASE i = Len(s)
    <3>1. s[i] = f
      BY <1>6, <2>1
    <3> QED BY <1>2, <3>1
  <2>2. CASE i # Len(s)
    <3>1. s[i] = calls[i] /\ i \in 1 .. Len(calls)
      BY <1>6, <2>2
    <3> QED BY <3>1 DEF AicInv, Counted
  <2> QED BY <2>1, <2>2
<1>9. Len(fifo) + 1 \in Nat
  BY <1>4
<1>10. /\ req' = Requested(Len(fifo) + 1, tdms) /\ req' \in BOOLEAN
       /\ Nested(calls', transferring') /\ Counted(calls', dcm.unit, prog)
       /\ ~Transfers(calls') => (cte /\ req' => dtc = 0)
       /\ \/ calls' = s /\ transferring' = transferring
          \/ /\ ~transferring /\ Transfers(calls') /\ Len(calls') = Len(s) + 1
             /\ calls'[Len(calls')] = Xfer(dtc, dsa, TRUE)
             /\ \A i \in 1 .. Len(s) : calls'[i] = s[i]
  BY <1>1, <1>4, <1>7, <1>8, <1>9, AfterLines
<1>11. Numbers' /\ Level' /\ Flags' /\ Served'
  BY <1>1, <1>4, <1>5, <1>10, AicDmaAssumption DEF AicInv, Numbers, Level, Flags, Served
<1>12. Transfers(calls')
  <2>1. Transfers(s)
    BY <1>2, <1>3, <1>6 DEF Transfers
  <2> QED BY <1>10, <2>1
<1>13. /\ calls' # <<>> /\ Len(calls') \in Nat
       /\ \/ Len(calls') = Len(calls) /\ (Len(calls) = 2 => calls'[1] = calls[1])
          \/ Len(calls') = 2 /\ Len(calls) = 1 /\ calls'[1] = f
  <2>1. calls' # <<>> /\ Len(calls') \in Nat /\ Len(calls') <= 2
    BY <1>10, <1>12, EmptyStack, LenProperties DEF Nested
  <2>2. CASE calls' = s
    <3>1. Len(calls) = 2 => 1 \in 1 .. Len(s) /\ 1 # Len(s)
      BY <1>6
    <3> QED BY <1>6, <2>1, <2>2, <3>1
  <2>3. CASE /\ Len(calls') = Len(s) + 1
             /\ \A i \in 1 .. Len(s) : calls'[i] = s[i]
    <3>1. Len(calls) = 1
      <4>1. Len(calls) # 2
        BY <1>6, <2>1, <2>3
      <4> QED BY <1>3, <4>1
    <3>2. 1 \in 1 .. Len(s) /\ 1 = Len(s)
      BY <1>6, <3>1
    <3> QED BY <1>6, <2>1, <2>3, <3>1, <3>2
  <2> QED BY <1>10, <2>2, <2>3
<1>14. InTick' => InTick
  <2>1. InTick' => calls'[1].op # "xfer"
    BY DEF InTick
  <2>2. InTick' => Len(calls) = 2 /\ calls'[1] = calls[1]
    BY <1>1, <1>2, <1>3, <1>6, <1>10, <1>12, <1>13, <2>1 DEF Transfers, OnTop
  <2> QED BY <1>1, <2>1, <2>2 DEF InTick
<1>15. Batch'
  <2>1. ended' => boundary' /\ InTick'
    <3>1. ended => Len(calls) = 2 /\ calls[1].op # "xfer" /\ boundary
      BY <1>1, TransferOnTop DEF AicInv, Batch, InTick
    <3>2. Len(calls) = 2 => calls'[1] = calls[1]
      BY <1>13
    <3>3. ended' = ended /\ boundary' = boundary /\ calls' # <<>>
      BY <1>1, <1>13
    <3> QED BY <3>1, <3>2, <3>3 DEF InTick, AtRest
  <2>2. Top'.op = "xfer"
    BY <1>12 DEF Top, Transfers, OnTop
  <2>3. Len(calls') = 2 => calls'[1].op # "refill" /\ (calls'[1].op = "pop" => ~ended')
    BY <1>1, <1>2, <1>13 DEF AicInv, Batch
  <2> QED BY <1>5, <2>1, <2>2, <2>3 DEF Batch
<1>16. Owed'
  BY <1>1, <1>14 DEF AicInv, Owed
<1> QED BY <1>1, <1>10, <1>11, <1>15, <1>16 DEF AicInv

(* A loop ends at a full FIFO, without a request, or with its block.             *)
LEMMA LeftIdle ==
  ASSUME AicInv, ~AtRest, Top.op = "xfer", ~LoopGoesOn \/ Len(fifo) = Depth
  PROVE  req => Top.cnt = 0
<1>1. CASE Len(fifo) = Depth
  <2>1. dcm.unit \in Nat \ {0} /\ Threshold + dcm.unit <= Depth /\ Threshold \in Nat
    BY AicDmaAssumption DEF AicInv, Numbers
  <2>2. ~(Depth <= Threshold)
    BY <2>1, AicDmaAssumption
  <2> QED BY <1>1, <2>2 DEF AicInv, Level, Requested
<1>2. CASE ~LoopGoesOn
  BY <1>2 DEF LoopGoesOn
<1> QED BY <1>1, <1>2

LEMMA LeaveKeeps == AicInv /\ Leave => AicInv'
<1> SUFFICES ASSUME AicInv, Leave PROVE AicInv'
  OBVIOUS
<1>1. /\ ~AtRest /\ Top.op = "xfer" /\ (~LoopGoesOn \/ Len(fifo) = Depth)
      /\ dtc' = Top.cnt /\ dsa' = Top.src
      /\ IF Top.cnt = 0 THEN cte' = FALSE /\ tt' = TRUE /\ boundary' = TRUE
         ELSE UNCHANGED <<cte, tt, boundary>>
      /\ transferring' = (transferring /\ ~Top.kick) /\ calls' = Below
      /\ ended' = (ended \/ (Top.cnt = 0 /\ InTick))
      /\ UNCHANGED <<dcm, req, fifo, tdms, playing, debt, prog>>
  BY DEF Leave, Done
<1>2. /\ Top \in Xfers /\ Len(calls) \in {1, 2} /\ Top = calls[Len(calls)]
      /\ Top.src + Top.cnt * dcm.unit = prog
      /\ transferring = Top.kick /\ (InTick => Len(calls) = 2)
  BY <1>1, TransferOnTop
<1>3. transferring' = FALSE
  BY <1>1, <1>2
<1>4. Below \in Seq(Frames) /\ Len(Below) = Len(calls) - 1
      /\ \A i \in 1 .. Len(Below) : Below[i] = calls[i]
  BY <1>1, Popped DEF AicInv, Nested
<1>5. ASSUME Len(calls) = 1
      PROVE  Nested(calls', transferring') /\ Counted(calls', dcm'.unit, prog') /\ Batch' /\ Owed'
  <2>1. calls' = <<>> /\ Len(calls') = 0 /\ ~InTick /\ ~ended
    <3>1. Len(Below) = 0
      BY <1>4, <1>5
    <3>2. ~InTick
      BY <1>2, <1>5
    <3> QED BY <1>1, <1>4, <3>1, <3>2, EmptySeq DEF AicInv, Batch
  <2>2. ended' = FALSE
    BY <1>1, <2>1 DEF AicInv, Flags
  <2>3. Nested(calls', transferring') /\ Counted(calls', dcm'.unit, prog')
    BY <1>3, <2>1, EmptyStack
  <2>4. \A i \in 1 .. Len(calls') : FALSE
    BY <2>1
  <2>5. Batch' /\ Owed'
    BY <2>1, <2>2, <2>4 DEF Batch, Owed, InTick, AtRest
  <2> QED BY <2>3, <2>5
<1>6. ASSUME Len(calls) = 2
      PROVE  Nested(calls', transferring') /\ Counted(calls', dcm'.unit, prog') /\ Batch' /\ Owed'
  <2>1. Len(calls') = 1 /\ calls'[1] = calls[1] /\ calls' # <<>> /\ calls' \in Seq(Frames)
    <3>1. Len(Below) = 1 /\ 1 \in 1 .. Len(Below)
      BY <1>4, <1>6
    <3>2. Below # <<>>
      BY <3>1, EmptyStack
    <3> QED BY <1>1, <1>4, <3>1, <3>2
  <2>2. /\ calls[1].op = "xfer" => ~calls[1].kick
        /\ 1 \in 1 .. Len(calls) /\ 2 \in 1 .. Len(calls)
    BY <1>6 DEF AicInv, Nested
  <2>3. /\ Transfers(calls') <=> calls'[1].op = "xfer"
        /\ OnTop(calls') = calls'[1] /\ Top' = calls'[1]
        /\ \A i \in 1 .. Len(calls') : i = 1
    BY <2>1 DEF Transfers, OnTop, Top
  <2>4. ~(Transfers(calls') /\ OnTop(calls').kick)
    <3>1. CASE calls[1].op = "xfer"
      <4>1. ~calls'[1].kick
        BY <2>1, <2>2, <3>1, Zenon
      <4> QED BY <2>3, <4>1, Zenon
    <3>2. CASE calls[1].op # "xfer"
      BY <2>1, <2>3, <3>2
    <3> QED BY <3>1, <3>2
  <2>5. ArmMasked => \A i \in 1 .. Len(calls') : calls'[i].op = "xfer" => calls'[i].kick
    <3>1. ArmMasked => (calls[1].op = "xfer" => calls[1].kick)
      BY <2>2 DEF AicInv, Nested
    <3>2. ArmMasked => (calls'[1].op = "xfer" => calls'[1].kick)
      BY <2>1, <3>1, Zenon
    <3> QED BY <2>3, <3>2
  <2>6. Nested(calls', transferring')
    <3>1. Len(calls') <= 2 /\ Len(calls') # 2 /\ FALSE \in BOOLEAN
      BY <2>1
    <3> QED BY <1>3, <2>1, <2>4, <2>5, <3>1 DEF Nested
  <2>7. Counted(calls', dcm'.unit, prog')
    <3>1. calls[1].op = "xfer" =>
            /\ calls[1].src + calls[1].cnt * dcm.unit = prog
            /\ calls[1].part < dcm.unit
            /\ calls[1].part # 0 => calls[1].cnt # 0
      BY <2>2 DEF AicInv, Counted
    <3>2. dcm' = dcm /\ prog' = prog
      BY <1>1
    <3> QED BY <2>1, <2>3, <3>1, <3>2 DEF Counted
  <2>8. InTick' <=> InTick
    BY <1>1, <2>1 DEF InTick, AtRest
  <2>9. /\ calls[1].op # "refill" /\ (calls[1].op = "pop" => ~ended)
        /\ \A i \in 1 .. Len(calls) : calls[i].op = "xfer" /\ calls[i].cnt = 0 => fifo # <<>>
        /\ ended => boundary /\ InTick
    BY <1>6 DEF AicInv, Batch
  <2>10. Top.cnt = 0 => fifo # <<>>
    BY <1>1, <1>2, <1>6, <2>2, <2>9
  <2>11. Batch'
    <3>1. ended' => boundary' /\ InTick'
      BY <1>1, <2>8, <2>9
    <3>2. ended' /\ calls'[1].op = "pop" => fifo' # <<>>
      BY <1>1, <2>1, <2>9, <2>10
    <3>3. calls'[1].op = "xfer" /\ calls'[1].cnt = 0 => fifo' # <<>>
      BY <1>1, <2>1, <2>2, <2>9
    <3>4. Len(calls') # 2
      BY <2>1
    <3> QED BY <2>1, <2>3, <2>9, <3>1, <3>2, <3>3, <3>4 DEF Batch
  <2>12. Owed'
    BY <1>1, <2>8 DEF AicInv, Owed
  <2> QED BY <2>6, <2>7, <2>11, <2>12
<1>7. Nested(calls', transferring') /\ Counted(calls', dcm'.unit, prog') /\ Batch' /\ Owed'
  BY <1>2, <1>5, <1>6
<1>8. Numbers'
  <2>1. Top.cnt \in Nat /\ Top.src \in Nat
    BY <1>2 DEF Xfers
  <2> QED BY <1>1, <1>2, <2>1 DEF AicInv, Numbers
<1>9. Level'
  BY <1>1 DEF AicInv, Level
<1>10. Flags'
  <2>1. cte' \in BOOLEAN /\ tt' \in BOOLEAN /\ boundary' \in BOOLEAN
    BY <1>1 DEF AicInv, Flags
  <2>2. ended' \in BOOLEAN
    BY <1>1 DEF InTick
  <2> QED BY <1>1, <2>1, <2>2 DEF AicInv, Flags
<1>11. Served'
  <2>1. req => Top.cnt = 0
    BY <1>1, LeftIdle
  <2> QED BY <1>1, <2>1 DEF Served
<1> QED BY <1>7, <1>8, <1>9, <1>10, <1>11 DEF AicInv

LEMMA SampleTimerKeeps ==
  ASSUME AicInv, NEW n \in 0 .. MaxDebt, SampleTimer(n)
  PROVE  AicInv'
<1>1. /\ AtRest /\ debt + n <= MaxDebt /\ debt' = debt + n
      /\ calls' = IF debt + n = 0 THEN <<>> ELSE <<Tick("refill")>>
      /\ UNCHANGED <<dsa, dtc, cte, tt, dcm, transferring, req, fifo, tdms, playing, boundary,
                     prog, ended>>
  BY DEF SampleTimer, dmacVars
<1>2. transferring = FALSE /\ ended = FALSE /\ calls = <<>> /\ ~Transfers(calls)
  BY <1>1, Resting DEF AtRest
<1>3. /\ Nested(calls', FALSE) /\ ~Transfers(calls') /\ Len(calls') # 2
      /\ \A i \in 1 .. Len(calls') : calls'[i].op # "xfer"
  <2>1. CASE calls' = <<>>
    <3>1. \A i \in 1 .. Len(calls') : FALSE
      BY <2>1, EmptyStack
    <3>2. Len(calls') # 2
      BY <2>1, EmptyStack
    <3> QED BY <2>1, <3>1, <3>2, EmptyStack
  <2>2. CASE calls' = <<Tick("refill")>>
    <3>1. Tick("refill") \in Frames /\ Tick("refill").op = "refill"
      BY FramesOf DEF Frames
    <3> DEFINE t == Tick("refill")
    <3> HIDE DEF t
    <3>2. t \in Frames /\ t.op = "refill" /\ calls' = <<t>>
      BY <2>2, <3>1 DEF t
    <3>3. <<t>> \in Seq(Frames) /\ Len(<<t>>) = 1 /\ <<t>>[1] = t
      BY <3>2
    <3>4. /\ OnTop(calls') = t /\ ~Transfers(calls') /\ Len(calls') # 2 /\ Len(calls') <= 2
          /\ \A i \in 1 .. Len(calls') : i = 1
      BY <3>2, <3>3 DEF OnTop, Transfers
    <3>5. \A i \in 1 .. Len(calls') : calls'[i].op # "xfer"
      BY <3>2, <3>3, <3>4
    <3>6. Nested(calls', FALSE)
      BY <3>2, <3>3, <3>4, <3>5 DEF Nested
    <3> QED BY <3>4, <3>5, <3>6
  <2> QED BY <1>1, <2>1, <2>2
<1>4. Counted(calls', dcm'.unit, prog') /\ Batch'
  BY <1>1, <1>2, <1>3 DEF Counted, Batch
<1>5. debt' \in 0 .. MaxDebt /\ (debt' = 0 => calls' = <<>>)
  BY <1>1, AicDmaAssumption DEF AicInv, Numbers
<1>6. Owed'
  BY <1>5 DEF Owed, InTick, AtRest
<1>7. Numbers' /\ Level' /\ Flags' /\ Served'
  BY <1>1, <1>2, <1>5 DEF AicInv, Numbers, Level, Flags, Served
<1> QED BY <1>1, <1>2, <1>3, <1>4, <1>6, <1>7 DEF AicInv

(* A write of DCS with CTE enters the loop without a kick. *)
LEMMA DirectEntry ==
  ASSUME AicInv, AtRest, ArmMasked => ~req, NEW n \in Nat, n # 0, NEW u \in Nat \ {0},
         NEW end, dsa + n * u = end, calls' = IF req THEN Enter(<<>>, n, dsa, FALSE) ELSE <<>>
  PROVE  /\ Nested(calls', FALSE) /\ Counted(calls', u, end)
         /\ ~Transfers(calls') => ~req
         /\ Len(calls') # 2 /\ ~InTick'
         /\ \A i \in 1 .. Len(calls') : calls'[i].op = "xfer" /\ calls'[i].cnt # 0
<1> DEFINE f == Xfer(n, dsa, FALSE)
<1>1. dsa \in Nat
  BY DEF AicInv, Numbers
<1>2. f \in Frames /\ f.op = "xfer" /\ f.cnt = n /\ f.src = dsa /\ f.part = 0 /\ ~f.kick
  BY <1>1 DEF Xfer, Frames, Xfers
<1>3. CASE ~req
  <2>1. calls' = <<>> /\ Len(calls') # 2
    BY <1>3, EmptyStack
  <2>2. \A i \in 1 .. Len(calls') : FALSE
    BY <2>1, NoElement
  <2>3. ~InTick'
    BY <2>1 DEF InTick, AtRest
  <2> QED BY <1>3, <2>1, <2>2, <2>3, EmptyStack
<1>4. CASE req
  <2>1. calls' = Append(<<>>, f) /\ ~ArmMasked
    BY <1>4 DEF Enter
  <2> HIDE DEF f
  <2>2. calls' \in Seq(Frames) /\ Len(calls') = 1 /\ calls'[1] = f
    BY <1>2, <2>1, Single
  <2>3. OnTop(calls') = f /\ Transfers(calls') /\ Len(calls') # 2 /\ Len(calls') <= 2
        /\ \A i \in 1 .. Len(calls') : i = 1
    <3>1. /\ OnTop(calls') = f /\ \A i \in 1 .. Len(calls') : i = 1
          /\ Transfers(calls') <=> f.op = "xfer"
      BY <1>2, <2>1, Single
    <3>4. \A k : k = 1 => k # 2 /\ k <= 2
      OBVIOUS
    <3>2. Len(calls') # 2 /\ Len(calls') <= 2
      BY <2>2, <3>4
    <3>3. Transfers(calls')
      BY <1>2, <3>1
    <3> QED BY <3>1, <3>2, <3>3
  <2>4. Nested(calls', FALSE)
    <3>1. ~OnTop(calls').kick
      BY <1>2, <2>3, Zenon
    <3> QED BY <2>1, <2>2, <2>3, <3>1 DEF Nested
  <2>5. f.src + f.cnt * u = end /\ f.part < u /\ ~(f.part # 0)
    <3>1. f.src + f.cnt * u = end
      BY <1>2, Zenon
    <3> QED BY <1>2, <3>1
  <2>6. Counted(calls', u, end)
    BY <2>2, <2>3, <2>5 DEF Counted
  <2>7. ~InTick'
    BY <1>2, <2>2 DEF InTick
  <2> QED BY <1>2, <2>2, <2>3, <2>4, <2>6, <2>7
<1> QED BY <1>3, <1>4

LEMMA ArmBlockKeeps ==
  ASSUME AicInv, NEW n \in Blocks, NEW command \in Commands, ArmBlock(n, command)
  PROVE  AicInv'
<1>1. /\ AtRest /\ (ArmMasked => ~req) /\ dsa + n * command.unit <= MaxSamples
      /\ dcm' = command /\ dtc' = n /\ prog' = dsa + n * command.unit
      /\ cte' = TRUE /\ tt' = FALSE
      /\ calls' = IF req THEN Enter(<<>>, n, dsa, FALSE) ELSE <<>>
      /\ UNCHANGED <<dsa, transferring, req, fifo, tdms, playing, boundary, debt, ended>>
  BY DEF ArmBlock, aicVars
<1>2. n \in Nat /\ n # 0 /\ command.unit \in Nat \ {0} /\ dsa \in Nat
  BY AicDmaAssumption DEF AicInv, Numbers
<1>3. transferring = FALSE /\ ended = FALSE
  BY <1>1, Resting
<1>4. /\ Nested(calls', FALSE) /\ Counted(calls', command.unit, prog')
      /\ ~Transfers(calls') => ~req
      /\ Len(calls') # 2 /\ ~InTick'
      /\ \A i \in 1 .. Len(calls') : calls'[i].op = "xfer" /\ calls'[i].cnt # 0
  BY <1>1, <1>2, DirectEntry
<1>5. n * command.unit \in Nat
  BY <1>2
<1>6. prog' \in 0 .. MaxSamples
  BY <1>1, <1>2, <1>5, AicDmaAssumption
<1>7. Numbers' /\ Level' /\ Flags' /\ Served'
  BY <1>1, <1>2, <1>4, <1>6 DEF AicInv, Numbers, Level, Flags, Served
<1>8. Batch' /\ Owed'
  BY <1>1, <1>3, <1>4 DEF Batch, Owed
<1> QED BY <1>1, <1>3, <1>4, <1>7, <1>8 DEF AicInv

LEMMA ResumeKeeps == AicInv /\ Resume => AicInv'
<1> SUFFICES ASSUME AicInv, Resume PROVE AicInv'
  OBVIOUS
<1>1. /\ AtRest /\ (ArmMasked => ~req) /\ dtc # 0
      /\ cte' = TRUE /\ tt' = FALSE
      /\ calls' = IF req THEN Enter(<<>>, dtc, dsa, FALSE) ELSE <<>>
      /\ UNCHANGED <<dsa, dtc, dcm, transferring, req, fifo, tdms, playing, boundary, debt,
                     prog, ended>>
  BY DEF Resume, aicVars
<1>2. dtc \in Nat /\ dcm.unit \in Nat \ {0} /\ dsa + dtc * dcm.unit = prog
  BY AicDmaAssumption DEF AicInv, Numbers
<1>3. transferring = FALSE /\ ended = FALSE
  BY <1>1, Resting
<1>4. /\ Nested(calls', FALSE) /\ Counted(calls', dcm.unit, prog)
      /\ ~Transfers(calls') => ~req
      /\ Len(calls') # 2 /\ ~InTick'
      /\ \A i \in 1 .. Len(calls') : calls'[i].op = "xfer" /\ calls'[i].cnt # 0
  BY <1>1, <1>2, DirectEntry
<1>5. Numbers' /\ Level' /\ Flags' /\ Served'
  BY <1>1, <1>4 DEF AicInv, Numbers, Level, Flags, Served
<1>6. Batch' /\ Owed'
  BY <1>1, <1>3, <1>4 DEF Batch, Owed
<1> QED BY <1>1, <1>3, <1>4, <1>5, <1>6 DEF AicInv

LEMMA StopKeeps == AicInv /\ Stop => AicInv'
<1> SUFFICES ASSUME AicInv, Stop PROVE AicInv'
  OBVIOUS
<1>1. AtRest /\ cte' = FALSE
      /\ UNCHANGED <<dsa, dtc, tt, dcm, transferring, req, fifo, tdms, playing, boundary, debt,
                     calls, prog, ended>>
  BY DEF Stop, aicVars
<1>2. Numbers' /\ Level' /\ Flags' /\ Served'
  BY <1>1 DEF AicInv, Numbers, Level, Flags, Served
<1>3. InTick' = InTick /\ AtRest' = AtRest /\ Top' = Top
  BY <1>1 DEF InTick, AtRest, Top
<1>4. Batch' /\ Owed'
  BY <1>1, <1>3 DEF AicInv, Batch, Owed
<1> QED BY <1>1, <1>2, <1>4 DEF AicInv

LEMMA WriteControlKeeps ==
  ASSUME AicInv, NEW request \in BOOLEAN, NEW on \in BOOLEAN, NEW clear \in BOOLEAN,
         WriteControl(request, on, clear)
  PROVE  AicInv'
<1>1. /\ AtRest /\ tdms' = request /\ playing' = on
      /\ fifo' = (IF clear THEN <<>> ELSE fifo)
      /\ debt' = (IF on # playing THEN 0 ELSE debt)
      /\ boundary' = (boundary /\ (on \/ ~playing))
      /\ UpdateLines(<<>>, Len(fifo'), request)
      /\ UNCHANGED <<dsa, dtc, cte, tt, dcm, prog, ended>>
  BY DEF WriteControl, TimerUpdate
<1>2. /\ transferring = FALSE /\ ended = FALSE
      /\ Nested(<<>>, transferring) /\ Counted(<<>>, dcm.unit, prog)
  BY <1>1, Resting
<1>3. fifo' \in Seq(Nat) /\ Len(fifo') <= Depth /\ Len(fifo') \in Nat
  <2>1. CASE clear
    <3>1. fifo' = <<>>
      BY <1>1, <2>1
    <3>2. <<>> \in Seq(Nat) /\ Len(<<>>) = 0
      BY EmptySeq
    <3>3. Len(fifo') = 0
      BY <3>1, <3>2
    <3> QED BY <3>1, <3>2, <3>3, AicDmaAssumption
  <2>2. CASE ~clear
    BY <1>1, <2>2, LenProperties DEF AicInv, Level
  <2> QED BY <2>1, <2>2
<1>4. /\ req' = Requested(Len(fifo'), request) /\ req' \in BOOLEAN
      /\ Nested(calls', transferring') /\ Counted(calls', dcm.unit, prog)
      /\ ~Transfers(calls') => (cte /\ req' => dtc = 0)
      /\ \/ calls' = <<>> /\ transferring' = transferring
         \/ /\ ~transferring /\ req' /\ dtc # 0
            /\ calls' = Append(<<>>, Xfer(dtc, dsa, TRUE))
            /\ Transfers(calls') /\ Len(calls') = Len(<<>>) + 1
            /\ calls'[Len(calls')] = Xfer(dtc, dsa, TRUE)
            /\ \A i \in 1 .. Len(<<>>) : calls'[i] = <<>>[i]
  <2> DEFINE s == <<>>
  <2>1. UpdateLines(s, Len(fifo'), request) /\ Nested(s, transferring)
        /\ Counted(s, dcm.unit, prog)
    BY <1>1, <1>2
  <2> HIDE DEF s
  <2>2. /\ req' = Requested(Len(fifo'), request) /\ req' \in BOOLEAN
        /\ Nested(calls', transferring') /\ Counted(calls', dcm.unit, prog)
        /\ ~Transfers(calls') => (cte /\ req' => dtc = 0)
        /\ \/ calls' = s /\ transferring' = transferring
           \/ /\ ~transferring /\ req' /\ dtc # 0
              /\ calls' = Append(s, Xfer(dtc, dsa, TRUE))
              /\ Transfers(calls') /\ Len(calls') = Len(s) + 1
              /\ calls'[Len(calls')] = Xfer(dtc, dsa, TRUE)
              /\ \A i \in 1 .. Len(s) : calls'[i] = s[i]
    BY <1>3, <2>1, AfterLines
  <2> QED BY <2>2 DEF s
<1>5. /\ ~InTick' /\ Len(calls') # 2
      /\ \A i \in 1 .. Len(calls') : calls'[i].op = "xfer" /\ calls'[i].cnt # 0
  <2>1. CASE calls' = <<>>
    <3>1. \A i \in 1 .. Len(calls') : FALSE
      BY <2>1, EmptyStack
    <3>2. Len(calls') # 2
      BY <2>1, EmptyStack
    <3>3. ~InTick'
      BY <2>1 DEF InTick, AtRest
    <3> QED BY <3>1, <3>2, <3>3
  <2>2. CASE /\ dtc # 0 /\ Len(calls') = Len(<<>>) + 1
             /\ calls'[Len(calls')] = Xfer(dtc, dsa, TRUE)
    <3> DEFINE f == Xfer(dtc, dsa, TRUE)
    <3>1. f.op = "xfer" /\ f.cnt = dtc
      BY DEF Xfer
    <3>2. Len(calls') = 1
      BY <2>2, EmptyStack
    <3> HIDE DEF f
    <3>5. calls'[Len(calls')] = f
      BY <2>2 DEF f
    <3>6. calls'[1] = f /\ Len(calls') # 2
      BY <3>2, <3>5
    <3>7. \A i \in 1 .. Len(calls') : i = 1
      BY <3>2
    <3>3. calls'[1] = f /\ Len(calls') # 2 /\ \A i \in 1 .. Len(calls') : i = 1
      BY <3>6, <3>7
    <3>4. ~InTick'
      BY <3>1, <3>3 DEF InTick
    <3> QED BY <2>2, <3>1, <3>3, <3>4
  <2> QED BY <1>4, <2>1, <2>2
<1>6. Numbers' /\ Level' /\ Flags' /\ Served'
  BY <1>1, <1>3, <1>4, AicDmaAssumption DEF AicInv, Numbers, Level, Flags, Served
<1>7. Batch' /\ Owed'
  BY <1>1, <1>2, <1>5 DEF Batch, Owed
<1> QED BY <1>1, <1>4, <1>6, <1>7 DEF AicInv

LEMMA AicInit == Init => AicInv
<1> SUFFICES ASSUME Init PROVE AicInv
  OBVIOUS
<1> USE DEF Init
<1>1. Nested(calls, transferring) /\ Counted(calls, dcm.unit, prog) /\ ~Transfers(calls)
  BY EmptyStack
<1>2. Numbers
  <2>1. dcm.unit \in Nat /\ 0 + 0 * dcm.unit = 0
    BY AicDmaAssumption
  <2> QED BY <2>1, AicDmaAssumption DEF Numbers
<1>3. Level
  <2>1. fifo \in Seq(Nat) /\ Len(fifo) = 0
    BY EmptySeq
  <2>2. Len(fifo) <= Depth
    BY <2>1, AicDmaAssumption
  <2>3. req = Requested(Len(fifo), tdms)
    BY DEF Requested
  <2> QED BY <2>1, <2>2, <2>3 DEF Level
<1>4. Flags /\ Served
  BY DEF Flags, Served
<1>5. Batch /\ Owed
  <2>1. Len(calls) # 2 /\ \A i \in 1 .. Len(calls) : FALSE
    BY NoElement
  <2>2. ~InTick
    BY DEF InTick, AtRest
  <2> QED BY <2>1, <2>2 DEF Batch, Owed
<1> QED BY <1>1, <1>2, <1>3, <1>4, <1>5 DEF AicInv

LEMMA AicStep == AicInv /\ [Next]_vars => AicInv'
<1> SUFFICES ASSUME AicInv, [Next]_vars PROVE AicInv'
  OBVIOUS
<1>1. CASE UNCHANGED vars
  <2>1. UNCHANGED <<dsa, dtc, cte, tt, dcm, transferring, req, fifo, tdms, playing, boundary,
                    debt, calls, prog, ended>>
    BY <1>1 DEF vars, dmacVars, aicVars
  <2>2. Numbers' /\ Level' /\ Flags' /\ Served'
    BY <2>1 DEF AicInv, Numbers, Level, Flags, Served
  <2>3. InTick' = InTick /\ AtRest' = AtRest /\ Top' = Top
    BY <2>1 DEF InTick, AtRest, Top
  <2>4. Batch' /\ Owed'
    BY <2>1, <2>3 DEF AicInv, Batch, Owed
  <2> QED BY <2>1, <2>2, <2>4 DEF AicInv
<1> QED
  BY <1>1, ArmBlockKeeps, StopKeeps, ResumeKeeps, WriteControlKeeps, SampleTimerKeeps,
     RefillKeeps, PopKeeps, FrameKeeps, PushKeeps, LeaveKeeps DEF Next

LEMMA AicAlways == Spec => []AicInv
BY AicInit, AicStep, PTL DEF Spec

-----------------------------------------------------------------------------
(* The results. *)

(* The registers, the FIFO and the activations stay in their ranges: in particular *)
(* the source address never passes the last sample programmed, and the FIFO never   *)
(* holds more than its depth, however the callbacks nest (jz4740_aic_tx_push).      *)
THEOREM TypeCorrect == Spec => []TypeOK
<1>1. AicInv => TypeOK
  <2> SUFFICES ASSUME AicInv PROVE TypeOK
    OBVIOUS
  <2>1. /\ dsa \in Nat /\ dtc \in Nat /\ prog \in 0 .. MaxSamples /\ debt \in 0 .. MaxDebt
        /\ dcm \in Commands /\ dsa + dtc * dcm.unit = prog /\ dcm.unit \in Nat \ {0}
    BY AicDmaAssumption DEF AicInv, Numbers
  <2>2. dsa \in 0 .. MaxSamples /\ dtc \in 0 .. MaxSamples
    <3> DEFINE m == dtc * dcm.unit
    <3>1. \A u \in Nat \ {0}, n \in Nat : n * u \in Nat /\ n <= n * u
      <4> TAKE u \in Nat \ {0}, n \in Nat
      <4>1. u - 1 \in Nat /\ n * u = n * (u - 1) + n
        OBVIOUS
      <4>2. n * (u - 1) \in Nat
        BY <4>1
      <4> QED BY <4>1, <4>2
    <3>2. m \in Nat /\ dtc <= m /\ dsa + m = prog
      BY <2>1, <3>1
    <3> HIDE DEF m
    <3> QED BY <2>1, <3>2, AicDmaAssumption
  <2>3. \A i \in DOMAIN calls : calls[i].op \in {"xfer", "refill", "pop", "frame"}
    <3> SUFFICES ASSUME NEW i \in DOMAIN calls
                 PROVE  calls[i].op \in {"xfer", "refill", "pop", "frame"}
      OBVIOUS
    <3>1. calls[i] \in Frames
      BY DEF AicInv, Nested
    <3> QED BY <3>1 DEF Frames, Ticks, Xfers
  <2>4. transferring \in BOOLEAN
    BY DEF AicInv, Nested
  <2> QED BY <2>1, <2>2, <2>3, <2>4 DEF TypeOK, AicInv, Level, Flags
<1> QED BY <1>1, AicAlways, PTL

(* At rest no enabled channel with units left has its request up: every change of   *)
(* the FIFO and of TDMS drives the line, every rising line kicks the channel unless  *)
(* a kick is running, and the loop of that kick ends only with the request low.      *)
THEOREM RequestsServed == Spec => []NoUnservedRequest
<1>1. AicInv => NoUnservedRequest
  BY Resting DEF AicInv, Served, NoUnservedRequest
<1> QED BY <1>1, AicAlways, PTL

(* A callback of the sample timer in which a block came to its end plays no frame    *)
(* from an empty FIFO: the sample the block ended with is still there, and the batch *)
(* is over when it has been played (jz4740_aic_process_output, tx_dma_boundary).     *)
THEOREM BatchesEnd == Spec => NoUnderrunAfterBlock
<1>1. AicInv /\ [Next]_vars => [Pop /\ fifo = <<>> => ~ended]_vars
  BY DEF AicInv, Batch, Pop
<1> QED BY <1>1, AicAlways, PTL DEF Spec, NoUnderrunAfterBlock

-----------------------------------------------------------------------------
(* The stream, for a guest that arms the channel while the request is low.          *)

(* A transfer that does not wait for the request moves single samples.  Without     *)
(* this the FIFO may fill up inside a unit: jz4740_aic_dma_write then moved less     *)
(* than the unit, dmac_try_audio_transfer leaves the source where it was, and the    *)
(* samples that went in are sent again with the next request.                        *)
WholeUnits == \A c \in Commands : c.tm => c.unit = 1

(* What the channel has moved, by the innermost activation.                          *)
FedOf(s, d) == IF Transfers(s) THEN OnTop(s).src + OnTop(s).part ELSE d

InStep(q, n) ==
  /\ n \in 0 .. MaxSamples /\ Len(q) <= n
  /\ \A i \in 1 .. Len(q) : q[i] = n - Len(q) + i - 1

(* A unit that was begun fits.                                                       *)
Room(s, len, unit) ==
  Transfers(s) /\ OnTop(s).part # 0 => len + (unit - OnTop(s).part) <= Depth

StreamInv ==
  /\ InStep(fifo, FedOf(calls, dsa)) /\ FedOf(calls, dsa) <= prog
  /\ Room(calls, Len(fifo), dcm.unit)

(* Kicked transfers are not nested, so the innermost one is the only one.            *)
LEMMA OneTransfer ==
  ASSUME ArmMasked, AicInv
  PROVE  /\ Fed = FedOf(calls, dsa)
         /\ \A i \in 1 .. Len(calls) : calls[i].op = "xfer" => i = Len(calls)
         /\ AtRest => Fed = dsa
<1>1. calls \in Seq(Frames) /\ Len(calls) \in Nat /\ Len(calls) <= 2 /\ DOMAIN calls = 1 .. Len(calls)
  BY LenProperties DEF AicInv, Nested
<1>2. \A i \in 1 .. Len(calls) : calls[i].op = "xfer" => i = Len(calls)
  <2> SUFFICES ASSUME NEW i \in 1 .. Len(calls), calls[i].op = "xfer", i # Len(calls)
               PROVE  FALSE
    OBVIOUS
  <2>1. \A n \in Nat : \A k \in 1 .. n : n <= 2 /\ k # n => n = 2 /\ k = 1
    OBVIOUS
  <2>2. Len(calls) = 2 /\ i = 1
    BY <1>1, <2>1
  <2>3. ~calls[1].kick
    BY <2>2 DEF AicInv, Nested
  <2>4. calls[1].kick
    BY <2>2 DEF AicInv, Nested
  <2> QED BY <2>3, <2>4, Zenon
<1>3. CASE Transfers(calls)
  <2>1. Moving = {Len(calls)}
    <3>1. Len(calls) \in 1 .. Len(calls) /\ calls[Len(calls)].op = "xfer"
      BY <1>1, <1>3 DEF Transfers, OnTop
    <3> QED BY <1>1, <1>2, <3>1 DEF Moving
  <2>2. (CHOOSE i \in Moving : \A j \in Moving : j <= i) = Len(calls)
    BY <1>1, <2>1
  <2>3. Fed = OnTop(calls).src + OnTop(calls).part
    BY <2>1, <2>2 DEF Fed, OnTop
  <2>4. ~AtRest
    BY <1>3, EmptyStack DEF AtRest
  <2> QED BY <1>2, <1>3, <2>3, <2>4 DEF FedOf
<1>4. CASE ~Transfers(calls)
  <2>1. Moving = {}
    BY <1>1, <1>2, <1>4 DEF Moving, Transfers, OnTop
  <2> QED BY <1>2, <1>4, <2>1 DEF Fed, FedOf
<1> QED BY <1>3, <1>4

(* A fresh transfer, kicked while none runs, starts from the register. *)
LEMMA KickFeeds ==
  ASSUME AicInv, NEW len \in Nat, ~Transfers(calls),
         \/ ~Transfers(calls')
         \/ Transfers(calls') /\ calls'[Len(calls')] = Xfer(dtc, dsa, TRUE)
  PROVE  FedOf(calls', dsa) = dsa /\ FedOf(calls, dsa) = dsa /\ Room(calls', len, dcm.unit)
<1>1. Xfer(dtc, dsa, TRUE).src = dsa /\ Xfer(dtc, dsa, TRUE).part = 0 /\ dsa \in Nat
  BY DEF Xfer, AicInv, Numbers
<1>2. CASE ~Transfers(calls')
  BY <1>2 DEF FedOf, Room
<1>3. CASE Transfers(calls') /\ calls'[Len(calls')] = Xfer(dtc, dsa, TRUE)
  <2>1. OnTop(calls') = Xfer(dtc, dsa, TRUE)
    BY <1>3 DEF OnTop
  <2>2. OnTop(calls').src = dsa /\ OnTop(calls').part = 0
    BY <1>1, <2>1
  <2>3. FedOf(calls', dsa) = dsa + 0
    BY <1>3, <2>2 DEF FedOf
  <2> QED BY <1>1, <2>2, <2>3 DEF FedOf, Room
<1> QED BY <1>2, <1>3

LEMMA InStepMoves ==
  ASSUME NEW q \in Seq(Nat), NEW n, InStep(q, n)
  PROVE  /\ InStep(<<>>, n)
         /\ n + 1 <= MaxSamples => InStep(Append(q, n), n + 1)
         /\ q # <<>> => InStep(Tail(q), n)
<1>1. /\ Len(q) \in Nat /\ n \in Nat /\ n <= MaxSamples /\ Len(q) <= n
      /\ \A i \in 1 .. Len(q) : q[i] = n - Len(q) + i - 1
  BY LenProperties, AicDmaAssumption DEF InStep
<1>2. InStep(<<>>, n)
  <2>1. Len(<<>>) = 0 /\ \A i \in 1 .. Len(<<>>) : FALSE
    BY NoElement
  <2> QED BY <1>1, <2>1, AicDmaAssumption DEF InStep
<1>3. ASSUME n + 1 <= MaxSamples PROVE InStep(Append(q, n), n + 1)
  <2> DEFINE p == Append(q, n)
  <2>1. /\ Len(p) = Len(q) + 1 /\ p[Len(q) + 1] = n
        /\ \A i \in 1 .. Len(q) : p[i] = q[i]
    BY <1>1, AppendProperties
  <2> HIDE DEF p
  <2>2. \A i \in 1 .. Len(p) : p[i] = (n + 1) - Len(p) + i - 1
    <3> SUFFICES ASSUME NEW i \in 1 .. Len(p) PROVE p[i] = (n + 1) - Len(p) + i - 1
      OBVIOUS
    <3>1. CASE i \in 1 .. Len(q)
      BY <1>1, <2>1, <3>1
    <3>2. CASE i = Len(q) + 1
      BY <1>1, <2>1, <3>2
    <3> QED BY <1>1, <2>1, <3>1, <3>2
  <2>3. n + 1 \in 0 .. MaxSamples /\ Len(p) <= n + 1
    BY <1>1, <1>3, <2>1, AicDmaAssumption
  <2> QED BY <2>2, <2>3 DEF InStep, p
<1>4. ASSUME q # <<>> PROVE InStep(Tail(q), n)
  <2> DEFINE p == Tail(q)
  <2>1. /\ Len(q) # 0 /\ Len(p) = Len(q) - 1
        /\ \A i \in 1 .. Len(p) : p[i] = q[i + 1]
    BY <1>4, EmptySeq, HeadTailProperties
  <2> HIDE DEF p
  <2>2. \A i \in 1 .. Len(p) : p[i] = n - Len(p) + i - 1
    BY <1>1, <2>1
  <2>3. n \in 0 .. MaxSamples /\ Len(p) <= n
    BY <1>1, <2>1, AicDmaAssumption
  <2> QED BY <2>2, <2>3 DEF InStep, p
<1> QED BY <1>2, <1>3, <1>4

(* A step of the stream, in the terms of the activations.                            *)
Moves ==
  LET f == FedOf(calls, dsa)
      g == FedOf(calls', dsa')
  IN  \/ prog' > f /\ g = f /\ Len(fifo') = Len(fifo)
      \/ /\ f < prog /\ Len(fifo) < Depth /\ g = f + 1 /\ Len(fifo') = Len(fifo) + 1
         /\ prog' = prog
      \/ 0 < Len(fifo) /\ g = f /\ Len(fifo') = Len(fifo) - 1 /\ prog' = prog
      \/ Len(fifo') = 0 /\ g = f /\ prog' = prog
      \/ g = f /\ Len(fifo') = Len(fifo) /\ prog' = prog

LEMMA PushMoves ==
  ASSUME ArmMasked, WholeUnits, AicInv, StreamInv, Push
  PROVE  StreamInv' /\ Moves
<1> DEFINE f == Advanced(Top)
           u == dcm.unit
<1>1. /\ ~AtRest /\ Top.op = "xfer" /\ LoopGoesOn /\ Len(fifo) < Depth
      /\ fifo' = Append(fifo, Top.src + Top.part)
      /\ UpdateLines(Append(Below, f), Len(fifo) + 1, tdms)
      /\ UNCHANGED <<dsa, dtc, cte, tt, dcm, tdms, playing, boundary, debt, prog, ended>>
  BY DEF Push
<1>2. /\ Top \in Xfers /\ Top = OnTop(calls) /\ Transfers(calls)
      /\ Len(calls) \in 1 .. Len(calls) /\ Top = calls[Len(calls)]
      /\ Top.src + Top.cnt * u = prog /\ Top.part < u /\ transferring = Top.kick
  <2>1. /\ Top \in Xfers /\ Len(calls) \in {1, 2} /\ Top = calls[Len(calls)]
        /\ Top.src + Top.cnt * dcm.unit = prog /\ Top.part < dcm.unit
        /\ transferring = Top.kick
    BY <1>1, TransferOnTop
  <2>4. \A n \in {1, 2} : n \in 1 .. n /\ n # 0
    OBVIOUS
  <2>2. Len(calls) \in 1 .. Len(calls) /\ Len(calls) # 0
    BY <2>1, <2>4
  <2>3. Top = OnTop(calls) /\ Transfers(calls)
    BY <1>1, <2>1, <2>2 DEF OnTop, Transfers
  <2> QED BY <2>1, <2>2, <2>3 DEF u
<1>3. transferring
  <2>1. Top.kick
    BY <1>1, <1>2 DEF AicInv, Nested
  <2> QED BY <1>2, <2>1, Zenon
<1>4. calls' = Append(Below, f)
  BY <1>1, <1>3, Lines DEF AicInv, Nested
<1>5. /\ f \in Xfers /\ f.op = "xfer"
      /\ f.src + f.cnt * u = prog /\ f.part < u
      /\ f.src + f.part = Top.src + Top.part + 1
  BY <1>1, AdvancedCounts
<1>6. u \in Nat \ {0} /\ prog \in Nat /\ prog <= MaxSamples /\ Depth \in Nat
  BY AicDmaAssumption DEF AicInv, Numbers
<1>7. /\ f.part = (IF Top.part + 1 < u THEN Top.part + 1 ELSE 0)
  BY <1>2 DEF Advanced, Xfers
<1> HIDE DEF f, u
<1>8. OnTop(calls') = f /\ Transfers(calls')
  <2>1. f \in Frames
    BY <1>5 DEF Frames
  <2>2. Len(Append(Below, f)) = Len(calls) /\ OnTop(Append(Below, f)) = f
    BY <1>1, <2>1, Replaced DEF AicInv, Nested
  <2>3. Len(calls) # 0
    BY <1>2 DEF Transfers
  <2> QED BY <1>4, <1>5, <2>2, <2>3 DEF Transfers
<1>9. FedOf(calls, dsa) = Top.src + Top.part /\ FedOf(calls', dsa') = Top.src + Top.part + 1
  BY <1>2, <1>5, <1>8 DEF FedOf
<1>10. /\ f.src \in Nat /\ f.part \in Nat /\ f.cnt \in Nat
       /\ Top.src \in Nat /\ Top.part \in Nat /\ Top.cnt \in Nat
  BY <1>2, <1>5 DEF Xfers
<1>11. f.src + f.part <= prog
  <2>1. f.part # 0 => f.cnt # 0
    BY <1>1, AdvancedCounts DEF f
  <2>2. f.cnt * u \in Nat /\ (f.cnt # 0 => u <= f.cnt * u)
    <3>1. \A c \in Nat : c # 0 => c - 1 \in Nat /\ c * u = (c - 1) * u + u
      BY <1>6
    <3>2. \A c \in Nat : c * u \in Nat
      BY <1>6
    <3> QED BY <1>6, <1>10, <3>1, <3>2
  <2>3. \A m \in Nat : f.part <= m => f.src + f.part <= f.src + m
    BY <1>10
  <2>4. f.part <= f.cnt * u
    BY <1>5, <1>6, <1>10, <2>1, <2>2
  <2>5. f.src + f.part <= f.src + f.cnt * u
    BY <2>2, <2>3, <2>4
  <2> QED BY <1>5, <2>5
<1>12. fifo \in Seq(Nat) /\ Len(fifo) \in Nat
  BY LenProperties DEF AicInv, Level
<1>13. Len(fifo') = Len(fifo) + 1
  BY <1>1, <1>10, <1>12, AppendProperties
<1>14. InStep(fifo', FedOf(calls', dsa'))
  <2>1. InStep(fifo, Top.src + Top.part)
    BY <1>9 DEF StreamInv
  <2>2. Top.src + Top.part + 1 <= MaxSamples
    <3>1. f.src + f.part <= MaxSamples
      BY <1>6, <1>10, <1>11, AicDmaAssumption
    <3> QED BY <1>5, <3>1
  <2>3. InStep(Append(fifo, Top.src + Top.part), Top.src + Top.part + 1)
    BY <1>12, <2>1, <2>2, InStepMoves
  <2> QED BY <1>1, <1>9, <2>3
<1>15. FedOf(calls', dsa') <= prog' /\ FedOf(calls, dsa) < prog
  BY <1>1, <1>5, <1>6, <1>9, <1>10, <1>11
<1>16. Room(calls', Len(fifo'), dcm'.unit)
  <2> SUFFICES ASSUME f.part # 0 PROVE Len(fifo) + 1 + (u - f.part) <= Depth
    BY <1>1, <1>8, <1>13 DEF Room, u
  <2>1. f.part = Top.part + 1 /\ Top.part + 1 < u
    BY <1>7
  <2>2. Len(fifo) + (u - Top.part) <= Depth
    <3>1. CASE Top.part # 0
      BY <1>2, <3>1 DEF StreamInv, Room, u
    <3>2. CASE Top.part = 0
      <4>1. ~dcm.tm
        <5>1. dcm \in Commands /\ u # 1
          BY <1>6, <2>1, <3>2 DEF AicInv, Numbers
        <5> QED BY <5>1 DEF WholeUnits, u
      <4>2. req
        BY <1>1, <3>2, <4>1 DEF LoopGoesOn
      <4>3. Len(fifo) <= Threshold
        BY <4>2 DEF AicInv, Level, Requested
      <4>4. Threshold + u <= Depth /\ Threshold \in Nat
        BY AicDmaAssumption DEF AicInv, Numbers, u
      <4> QED BY <1>6, <1>12, <3>2, <4>3, <4>4
    <3> QED BY <3>1, <3>2
  <2> QED BY <1>6, <1>10, <1>12, <2>1, <2>2
<1>17. Moves
  BY <1>1, <1>9, <1>13, <1>15 DEF Moves
<1> QED BY <1>14, <1>15, <1>16, <1>17 DEF StreamInv

LEMMA LeaveMoves ==
  ASSUME ArmMasked, AicInv, StreamInv, Leave
  PROVE  StreamInv' /\ Moves
<1>1. /\ ~AtRest /\ Top.op = "xfer" /\ (~LoopGoesOn \/ Len(fifo) = Depth)
      /\ dsa' = Top.src /\ calls' = Below /\ UNCHANGED <<dcm, fifo, prog>>
  BY DEF Leave
<1>2. /\ Top \in Xfers /\ Len(calls) \in {1, 2} /\ Top = calls[Len(calls)] /\ Top.part < dcm.unit
  BY <1>1, TransferOnTop
<1>3. Top = OnTop(calls) /\ Transfers(calls)
  <2>1. Len(calls) # 0
    BY <1>2
  <2> QED BY <1>1, <1>2, <2>1 DEF OnTop, Transfers
<1>4. Top.part \in Nat /\ Top.src \in Nat /\ dcm.unit \in Nat /\ Len(fifo) \in Nat
  BY <1>2, AicDmaAssumption, LenProperties DEF Xfers, AicInv, Numbers, Level
<1>5. Top.part = 0
  <2>1. CASE ~LoopGoesOn
    BY <2>1 DEF LoopGoesOn
  <2>2. CASE Len(fifo) = Depth
    <3> SUFFICES ASSUME Top.part # 0 PROVE FALSE
      OBVIOUS
    <3>1. Len(fifo) + (dcm.unit - Top.part) <= Depth
      BY <1>3 DEF StreamInv, Room
    <3> QED BY <1>2, <1>4, <2>2, <3>1
  <2> QED BY <1>1, <2>1, <2>2
<1>6. ~Transfers(calls')
  <2> SUFFICES ASSUME Transfers(calls') PROVE FALSE
    OBVIOUS
  <2>1. /\ Len(Below) = Len(calls) - 1 /\ Len(Below) # 0 /\ Below[Len(Below)].op = "xfer"
        /\ \A i \in 1 .. Len(Below) : Below[i] = calls[i]
    BY <1>1, Popped DEF AicInv, Nested, Transfers, OnTop
  <2>2. Len(Below) \in 1 .. Len(Below) /\ Len(Below) \in 1 .. Len(calls) /\ Len(Below) # Len(calls)
    BY <1>2, <2>1
  <2>3. calls[Len(Below)].op = "xfer"
    BY <2>1, <2>2
  <2> QED BY <2>2, <2>3, OneTransfer
<1>7. FedOf(calls', dsa') = Top.src /\ FedOf(calls, dsa) = Top.src
  BY <1>1, <1>3, <1>4, <1>5, <1>6 DEF FedOf
<1>8. StreamInv'
  BY <1>1, <1>6, <1>7 DEF StreamInv, Room
<1> QED BY <1>1, <1>7, <1>8 DEF Moves

(* Kicked transfers only: a controller that is not busy has none. *)
LEMMA NoneBusy == ASSUME ArmMasked, NEW s, Nested(s, FALSE) PROVE ~Transfers(s)
<1> SUFFICES ASSUME Transfers(s) PROVE FALSE
  OBVIOUS
<1>1. Len(s) \in Nat /\ Len(s) # 0
  BY LenProperties DEF Nested, Transfers
<1>2. Len(s) \in 1 .. Len(s)
  BY <1>1
<1>3. s[Len(s)].op = "xfer"
  BY DEF Transfers, OnTop
<1>4. s[Len(s)].kick
  BY <1>2, <1>3 DEF Nested
<1>5. ~OnTop(s).kick
  BY Zenon DEF Nested
<1> QED BY <1>4, <1>5, Zenon DEF OnTop

LEMMA TickMovesNothing ==
  ASSUME ArmMasked, AicInv, AicInv', StreamInv,
         Refill \/ Frame \/ \E n \in 0 .. MaxDebt : SampleTimer(n)
  PROVE  StreamInv' /\ Moves
<1>1. UNCHANGED <<dsa, dcm, fifo, prog>>
  BY DEF Refill, Frame, SampleTimer, dmacVars, aicVars
<1>2. ~Transfers(calls) /\ transferring = FALSE
  BY Resting, TickAlone DEF Refill, Frame, SampleTimer
<1>3. Len(fifo) \in Nat
  BY LenProperties DEF AicInv, Level
<1>4. Transfers(calls') => calls'[Len(calls')] = Xfer(dtc, dsa, TRUE)
  <2>1. CASE Refill
    <3>1. ~AtRest /\ Top.op = "refill" /\ UpdateLines(Append(Below, Tick("pop")), Len(fifo), tdms)
      BY <2>1 DEF Refill
    <3> QED BY <1>3, <3>1, TickLines
  <2>2. CASE Frame \/ \E n \in 0 .. MaxDebt : SampleTimer(n)
    <3>1. transferring' = transferring
      BY <2>2 DEF Frame, SampleTimer, dmacVars
    <3>2. Nested(calls', FALSE)
      BY <1>2, <3>1 DEF AicInv
    <3> QED BY <3>2, NoneBusy
  <2> QED BY <2>1, <2>2
<1>5. FedOf(calls', dsa) = dsa /\ FedOf(calls, dsa) = dsa /\ Room(calls', Len(fifo), dcm.unit)
  BY <1>2, <1>3, <1>4, KickFeeds
<1>6. StreamInv'
  BY <1>1, <1>5 DEF StreamInv
<1> QED BY <1>1, <1>5, <1>6 DEF Moves

LEMMA PopMoves ==
  ASSUME AicInv, StreamInv, Pop
  PROVE  StreamInv' /\ Moves
<1>1. /\ ~AtRest /\ Top.op = "pop"
      /\ fifo' = IF fifo = <<>> THEN fifo ELSE Tail(fifo)
      /\ UpdateLines(Append(Below, Tick("frame")), LevelAfterPop, tdms)
      /\ UNCHANGED <<dsa, dcm, prog>>
  BY DEF Pop
<1>2. Len(fifo) \in Nat /\ fifo \in Seq(Nat)
  BY LenProperties DEF AicInv, Level
<1>3. LevelAfterPop \in Nat
  BY <1>2, EmptySeq DEF LevelAfterPop
<1>4. Transfers(calls') => calls'[Len(calls')] = Xfer(dtc, dsa, TRUE)
  BY <1>1, <1>3, TickLines
<1>5. ~Transfers(calls)
  BY <1>1, TickAlone
<1>6. CASE fifo = <<>>
  <2>1. FedOf(calls', dsa) = dsa /\ FedOf(calls, dsa) = dsa /\ Room(calls', Len(fifo), dcm.unit)
    BY <1>2, <1>4, <1>5, KickFeeds
  <2>2. fifo' = fifo
    BY <1>1, <1>6
  <2>3. StreamInv'
    BY <1>1, <2>1, <2>2 DEF StreamInv
  <2> QED BY <1>1, <2>1, <2>2, <2>3 DEF Moves
<1>7. CASE fifo # <<>>
  <2>1. fifo' = Tail(fifo) /\ Len(fifo) # 0 /\ Len(fifo') = Len(fifo) - 1
    BY <1>1, <1>2, <1>7, EmptySeq, HeadTailProperties
  <2>2. Len(fifo') \in Nat /\ 0 < Len(fifo)
    BY <1>2, <2>1
  <2>3. FedOf(calls', dsa) = dsa /\ FedOf(calls, dsa) = dsa /\ Room(calls', Len(fifo'), dcm.unit)
    BY <1>4, <1>5, <2>2, KickFeeds
  <2>4. InStep(fifo', dsa)
    BY <1>2, <1>7, <2>1, <2>3, InStepMoves DEF StreamInv
  <2>5. StreamInv'
    BY <1>1, <2>3, <2>4 DEF StreamInv
  <2> QED BY <1>1, <2>1, <2>2, <2>3, <2>5 DEF Moves
<1> QED BY <1>6, <1>7

LEMMA WriteControlMoves ==
  ASSUME AicInv, StreamInv,
         NEW request \in BOOLEAN, NEW on \in BOOLEAN, NEW clear \in BOOLEAN,
         WriteControl(request, on, clear)
  PROVE  StreamInv' /\ Moves
<1>1. /\ AtRest /\ fifo' = (IF clear THEN <<>> ELSE fifo)
      /\ UpdateLines(<<>>, Len(fifo'), request)
      /\ UNCHANGED <<dsa, dcm, prog>>
  BY DEF WriteControl
<1>2. fifo \in Seq(Nat) /\ Len(fifo) \in Nat
  BY LenProperties DEF AicInv, Level
<1>3. Len(fifo') \in Nat /\ (clear => Len(fifo') = 0)
  BY <1>1, <1>2, NoElement
<1>4. ~Transfers(calls)
  BY <1>1, Resting
<1>5. Transfers(calls') => calls'[Len(calls')] = Xfer(dtc, dsa, TRUE)
  <2> DEFINE f == Xfer(dtc, dsa, TRUE)
  <2>1. f \in Frames
    BY FramesOf DEF Frames, AicInv, Numbers
  <2>2. calls' = <<>> \/ calls' = Append(<<>>, f)
    BY <1>1, Lines DEF AicInv, Nested
  <2> HIDE DEF f
  <2>3. ASSUME calls' = Append(<<>>, f) PROVE calls'[Len(calls')] = f
    <3>1. Len(calls') = 1 /\ calls'[1] = f
      BY <2>1, <2>3, Single
    <3> QED BY <3>1
  <2>4. ASSUME calls' = <<>> PROVE ~Transfers(calls')
    BY <2>4, EmptyStack
  <2> QED BY <2>2, <2>3, <2>4 DEF f
<1>6. FedOf(calls', dsa) = dsa /\ FedOf(calls, dsa) = dsa /\ Room(calls', Len(fifo'), dcm.unit)
  BY <1>3, <1>4, <1>5, KickFeeds
<1>7. InStep(fifo', dsa)
  <2>1. InStep(fifo, dsa)
    BY <1>6 DEF StreamInv
  <2> QED BY <1>1, <1>2, <2>1, InStepMoves
<1>8. StreamInv'
  BY <1>1, <1>6, <1>7 DEF StreamInv
<1> QED BY <1>1, <1>3, <1>6, <1>8 DEF Moves

LEMMA ArmMoves ==
  ASSUME ArmMasked, AicInv, AicInv', StreamInv,
         \/ \E n \in Blocks, command \in Commands : ArmBlock(n, command)
         \/ Stop
         \/ Resume
  PROVE  StreamInv' /\ Moves
<1>1. /\ AtRest /\ UNCHANGED <<dsa, fifo>>
      /\ calls' = <<>>
      /\ prog' = prog \/ prog' > dsa
  <2>1. CASE \E n \in Blocks, command \in Commands : ArmBlock(n, command)
    <3> PICK n \in Blocks, command \in Commands : ArmBlock(n, command)
      BY <2>1
    <3>1. AtRest /\ UNCHANGED <<dsa, fifo>> /\ calls' = <<>> /\ prog' = dsa + n * command.unit
      BY DEF ArmBlock, aicVars
    <3>2. n \in Nat \ {0} /\ command.unit \in Nat \ {0} /\ dsa \in Nat
      BY AicDmaAssumption DEF AicInv, Numbers
    <3>3. \A x, y \in Nat \ {0} : x * y \in Nat \ {0}
      <4> TAKE x \in Nat \ {0}, y \in Nat \ {0}
      <4>1. x - 1 \in Nat /\ x * y = (x - 1) * y + y
        OBVIOUS
      <4>2. (x - 1) * y \in Nat
        BY <4>1
      <4> QED BY <4>1, <4>2
    <3>4. n * command.unit \in Nat \ {0}
      BY <3>2, <3>3
    <3>5. \A m \in Nat \ {0} : dsa + m > dsa
      BY <3>2
    <3>6. prog' > dsa
      BY <3>1, <3>4, <3>5
    <3> QED BY <3>1, <3>6
  <2>2. CASE Stop
    BY <2>2 DEF Stop, AtRest, aicVars
  <2>3. CASE Resume
    BY <2>3 DEF Resume, aicVars
  <2> QED BY <2>1, <2>2, <2>3
<1>2. ~Transfers(calls) /\ ~Transfers(calls') /\ dsa \in Nat
  BY <1>1, Resting, EmptyStack DEF AicInv, Numbers
<1>3. FedOf(calls', dsa') = dsa /\ FedOf(calls, dsa) = dsa
  BY <1>1, <1>2 DEF FedOf
<1>4. dsa <= prog'
  <2>1. CASE prog' = prog
    BY <1>3, <2>1 DEF StreamInv
  <2>2. CASE prog' > dsa
    <3>1. prog' \in Nat
      BY AicDmaAssumption DEF AicInv, Numbers
    <3> QED BY <1>2, <2>2, <3>1
  <2> QED BY <1>1, <2>1, <2>2
<1>5. StreamInv'
  BY <1>1, <1>2, <1>3, <1>4 DEF StreamInv, Room
<1> QED BY <1>1, <1>3, <1>5 DEF Moves

(* What the activations show of a step is a step of the stream. *)
LEMMA StreamStep ==
  ASSUME ArmMasked, AicInv, StreamInv, Moves, Fed = FedOf(calls, dsa),
         Fed' = FedOf(calls', dsa'), AicInv', StreamInv'
  PROVE  [Stream!StreamNext]_Stream!streamVars
<1> DEFINE f == Fed
           g == Fed'
           l == Len(fifo)
           m == Len(fifo')
<1>1. l \in Nat /\ m \in Nat /\ f \in Nat /\ g \in Nat
  BY LenProperties DEF AicInv, Level, StreamInv, InStep
<1>2. \/ prog' > f /\ g = f /\ m = l
      \/ f < prog /\ l < Depth /\ g = f + 1 /\ m = l + 1 /\ prog' = prog
      \/ 0 < l /\ g = f /\ m = l - 1 /\ prog' = prog
      \/ m = 0 /\ g = f /\ prog' = prog
      \/ g = f /\ m = l /\ prog' = prog
  BY DEF Moves
<1> USE DEF Stream!StreamNext, Stream!streamVars
<1>3. CASE prog' > f /\ g = f /\ m = l
  <2>1. Stream!Program
    BY <1>3 DEF Stream!Program
  <2> QED BY <2>1
<1>4. CASE f < prog /\ l < Depth /\ g = f + 1 /\ m = l + 1 /\ prog' = prog
  <2> HIDE DEF f, g, l, m
  <2>1. f - (f - l) < Depth /\ g - m = f - l
    BY <1>1, <1>4
  <2>2. Stream!Feed
    BY <1>4, <2>1 DEF Stream!Feed, f, g, l, m
  <2> QED BY <2>2
<1>5. CASE 0 < l /\ g = f /\ m = l - 1 /\ prog' = prog
  <2> HIDE DEF f, g, l, m
  <2>1. f - l < f /\ g - m = f - l + 1
    BY <1>1, <1>5
  <2>2. Stream!Play
    BY <1>5, <2>1 DEF Stream!Play, f, g, l, m
  <2> QED BY <2>2
<1>6. CASE m = 0 /\ g = f /\ prog' = prog
  <2> HIDE DEF f, g, l, m
  <2>1. g - m = f
    BY <1>1, <1>6
  <2>2. Stream!Flush
    BY <1>6, <2>1 DEF Stream!Flush, f, g, l, m
  <2> QED BY <2>2
<1>7. CASE g = f /\ m = l /\ prog' = prog
  BY <1>7
<1> QED BY <1>2, <1>3, <1>4, <1>5, <1>6, <1>7

FedKnown == Fed = FedOf(calls, dsa)

LEMMA StreamMoves ==
  ASSUME ArmMasked, WholeUnits
  PROVE  AicInv /\ StreamInv /\ [Next]_vars
         => StreamInv' /\ [Stream!StreamNext]_Stream!streamVars
<1>1. AicInv => FedKnown
  BY OneTransfer DEF FedKnown
<1>2. AicInv' => FedKnown'
  BY <1>1, PTL
<1> SUFFICES ASSUME AicInv, StreamInv, [Next]_vars
             PROVE  StreamInv' /\ [Stream!StreamNext]_Stream!streamVars
  OBVIOUS
<1>3. AicInv'
  BY AicStep
<1>4. StreamInv' /\ Moves
  <2>1. CASE UNCHANGED vars
    BY <2>1 DEF vars, dmacVars, aicVars, StreamInv, Moves
  <2> QED
    BY <1>3, <2>1, ArmMoves, WriteControlMoves, TickMovesNothing, PopMoves, PushMoves,
       LeaveMoves DEF Next
<1>5. [Stream!StreamNext]_Stream!streamVars
  BY <1>1, <1>2, <1>3, <1>4, StreamStep DEF FedKnown
<1> QED BY <1>4, <1>5

LEMMA StreamStart ==
  ASSUME ArmMasked, Init
  PROVE  StreamInv /\ Stream!StreamInit
<1>1. calls = <<>> /\ fifo = <<>> /\ dsa = 0 /\ prog = 0
  BY DEF Init
<1>2. ~Transfers(calls)
  BY <1>1, EmptyStack
<1>3. InStep(fifo, 0)
  <2>1. Len(fifo) = 0 /\ \A i \in 1 .. Len(fifo) : FALSE
    BY <1>1, NoElement
  <2> QED BY <2>1, AicDmaAssumption DEF InStep
<1>4. StreamInv
  BY <1>1, <1>2, <1>3 DEF StreamInv, FedOf, Room
<1>5. Fed = 0 /\ Len(fifo) = 0
  BY <1>1, <1>2, AicInit, OneTransfer, NoElement DEF FedOf
<1>6. Fed - Len(fifo) = 0
  BY <1>5
<1> QED BY <1>1, <1>4, <1>5, <1>6 DEF Stream!StreamInit

LEMMA StreamAlways ==
  ASSUME ArmMasked, WholeUnits
  PROVE  Spec => []StreamInv
<1>1. Init => StreamInv
  BY StreamStart
<1>2. AicInv /\ StreamInv /\ [Next]_vars => StreamInv'
  BY StreamMoves
<1> QED BY <1>1, <1>2, AicAlways, PTL DEF Spec

(* Playback implements the in-order stream of AudioStream: whatever nests in what,    *)
(* each sample the guest programs enters the FIFO once, after the one before it.      *)
THEOREM Refinement ==
  ASSUME ArmMasked, WholeUnits
  PROVE  Spec => StreamRefined
<1>1. Init => Stream!StreamInit
  BY StreamStart
<1>2. AicInv /\ StreamInv /\ [Next]_vars => [Stream!StreamNext]_Stream!streamVars
  BY StreamMoves
<1> QED BY <1>1, <1>2, AicAlways, StreamAlways, PTL DEF Spec, StreamRefined, Stream!StreamSpec

(* And so the FIFO holds the last samples the channel moved: what the run             *)
(* aic_dma_direct refutes for a guest that starts the channel with its request up.     *)
THEOREM InOrder ==
  ASSUME ArmMasked, WholeUnits
  PROVE  Spec => []RealSamples
<1>1. AicInv /\ StreamInv => RealSamples
  <2> SUFFICES ASSUME AicInv, StreamInv, AtRest PROVE RealSamples
    BY DEF RealSamples
  <2>1. FedOf(calls, dsa) = dsa
    BY OneTransfer
  <2> QED BY <2>1 DEF StreamInv, InStep, RealSamples, AicInv, Level
<1> QED BY <1>1, AicAlways, StreamAlways, PTL
===============================================================================
