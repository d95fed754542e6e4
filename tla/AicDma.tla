-------------------------------- MODULE AicDma --------------------------------
(***************************************************************************)
(* Audio playback: one DMAC channel in peripheral mode (DRT 24) feeding    *)
(* the transmit FIFO of the AIC, dma/jz4740_dmac.c and audio/jz4740_aic.c. *)
(*                                                                         *)
(* Everything runs under the big lock, so a guest register write or a      *)
(* timer callback is not interrupted; but it is not one step either.  Each *)
(* sample pushed or popped calls jz4740_aic_update_lines, which drives the *)
(* DMA request line, which calls back into the DMAC (set_request, kick),   *)
(* which may start another transfer loop inside the one that is running.   *)
(* The stack of those activations is the variable calls: the top one takes *)
(* the next step, and the guest runs only when it is empty.  A kick marks  *)
(* the controller busy (transferring); a guest write to a channel register *)
(* enters dmac_try_channel without doing so.                               *)
(*                                                                         *)
(* The source address counts samples, so a sample is its position in the   *)
(* stream; a unit (DCM.TSZ) is what the channel moves at a time.  Playback *)
(* is mono (AICCR.M2S).                                                    *)
(***************************************************************************)
EXTENDS Naturals, Sequences

CONSTANTS
  Depth,      \* JZ4740_AIC_FIFO_DEPTH
  Threshold,  \* AICFR.TFTH * 2: the request is raised at or below this level
  Commands,   \* the DCM values the guest programs: samples in a unit, and TM,
              \* with which a transfer in progress does not wait for the request
  Blocks,     \* block lengths the guest programs, in units
  MaxSamples, \* bound: samples programmed in all
  MaxDebt,    \* bound: frames owed by the sample timer
  ArmMasked   \* the guest starts the channel only while the request is low

ASSUME AicDmaAssumption ==
  /\ Commands \subseteq [unit : Nat \ {0}, tm : BOOLEAN]
  /\ Depth \in Nat \ {0}
  /\ Threshold \in Nat
  /\ \A c \in Commands : Threshold + c.unit <= Depth  \* a requested unit fits
  /\ Blocks \subseteq Nat \ {0}
  /\ MaxSamples \in Nat
  /\ MaxDebt \in Nat
  /\ ArmMasked \in BOOLEAN

VARIABLES
  dsa, dtc,      \* source address (in samples) and count (in units) registers
  cte, tt,       \* DCS.CTE and DCS.TT
  dcm,           \* the command register
  transferring,  \* the controller's own re-entrancy mark
  req,           \* request_levels, the AIC TX bit
  fifo,          \* tx_fifo
  tdms, playing, \* AICCR.TDMS; AICFR.ENB and AICCR.ERPL
  boundary,      \* tx_dma_boundary
  debt,          \* pending_output_frames
  calls,         \* activations in progress, the innermost last
  prog,          \* samples the guest has programmed
  ended          \* a block completed inside the sample timer callback in progress

dmacVars == <<dsa, dtc, cte, tt, dcm, transferring, req>>
aicVars == <<fifo, tdms, playing, boundary, debt>>
vars == <<dmacVars, aicVars, calls, prog, ended>>

-----------------------------------------------------------------------------
(* An activation: a transfer loop with its local count, source and samples   *)
(* already moved of the unit; or the sample timer with what it does next.    *)
Xfer(n, s, kicked) == [op |-> "xfer", cnt |-> n, src |-> s, part |-> 0, kick |-> kicked]
Tick(next) == [op |-> next]

TypeOK ==
  /\ dsa \in 0 .. MaxSamples /\ dtc \in 0 .. MaxSamples
  /\ cte \in BOOLEAN /\ tt \in BOOLEAN /\ transferring \in BOOLEAN /\ req \in BOOLEAN
  /\ dcm \in Commands
  /\ fifo \in Seq(Nat) /\ Len(fifo) <= Depth
  /\ tdms \in BOOLEAN /\ playing \in BOOLEAN /\ boundary \in BOOLEAN
  /\ debt \in 0 .. MaxDebt
  /\ prog \in 0 .. MaxSamples /\ ended \in BOOLEAN
  /\ \A i \in DOMAIN calls : calls[i].op \in {"xfer", "refill", "pop", "frame"}

Init ==
  /\ dsa = 0 /\ dtc = 0 /\ cte = FALSE /\ tt = FALSE
  /\ dcm \in Commands
  /\ transferring = FALSE /\ req = FALSE
  /\ fifo = <<>> /\ tdms = FALSE /\ playing = FALSE
  /\ boundary = FALSE /\ debt = 0
  /\ calls = <<>> /\ prog = 0 /\ ended = FALSE

AtRest == calls = <<>>
Top == calls[Len(calls)]
Below == SubSeq(calls, 1, Len(calls) - 1)

(* jz4740_aic_tx_dma_requested *)
Requested(len, on) == on /\ len <= Threshold

(* dmac_try_audio_transfer up to its loop: with the channel off, nothing     *)
(* left or no request it returns at once.                                    *)
Enter(stack, n, s, kicked) ==
  IF n = 0 THEN stack ELSE Append(stack, Xfer(n, s, kicked))

(* jz4740_dmac_kick runs the channels.  Fault: also inside a running kick.   *)
KickAlways == TRUE
KickAllowed == ~transferring

(* jz4740_aic_update_lines, jz4740_dmac_set_request and jz4740_dmac_kick,    *)
(* with the FIFO level and TDMS as the caller leaves them: a high level      *)
(* kicks the channel unless a kick is running.                               *)
UpdateLines(stack, len, on) ==
  /\ req' = Requested(len, on)
  /\ IF Requested(len, on) /\ KickAllowed /\ cte /\ dtc # 0
     THEN /\ calls' = Enter(stack, dtc, dsa, TRUE)
          /\ transferring' = TRUE
     ELSE /\ calls' = stack
          /\ UNCHANGED transferring

-----------------------------------------------------------------------------
InTick == ~AtRest /\ calls[1].op # "xfer"

(* The transfer loop of dmac_try_audio_transfer.  Fault: a unit per request. *)
LoopMovesOneUnit == Top.part # 0 \/ (Top.cnt # 0 /\ Top.cnt = dtc /\ (req \/ dcm.tm))
LoopGoesOn == Top.part # 0 \/ (Top.cnt # 0 /\ (req \/ dcm.tm))

(* The count and source after a sample of the unit.  Fault: the count stays. *)
AdvancedUncounted(f) ==
  IF f.part + 1 < dcm.unit THEN [f EXCEPT !.part = @ + 1]
  ELSE [f EXCEPT !.part = 0, !.src = @ + dcm.unit]
Advanced(f) ==
  IF f.part + 1 < dcm.unit THEN [f EXCEPT !.part = @ + 1]
  ELSE [f EXCEPT !.part = 0, !.cnt = @ - 1, !.src = @ + dcm.unit]

(* jz4740_aic_tx_push of the next sample of the unit. *)
Push ==
  /\ ~AtRest /\ Top.op = "xfer"
  /\ LoopGoesOn
  /\ Len(fifo) < Depth
  /\ fifo' = Append(fifo, Top.src + Top.part)
  /\ UpdateLines(Append(Below, Advanced(Top)), Len(fifo) + 1, tdms)
  /\ UNCHANGED <<dsa, dtc, cte, tt, dcm, tdms, playing, boundary, debt, prog, ended>>

Done == Top.cnt = 0

(* The loop ends: the registers take the local values, and a count of zero   *)
(* is dmac_finish_transfer: completion is recorded (which notifies the AIC   *)
(* of the block boundary), CTE drops and TT rises.                           *)
Leave ==
  /\ ~AtRest /\ Top.op = "xfer"
  /\ ~LoopGoesOn \/ Len(fifo) = Depth
  /\ dtc' = Top.cnt
  /\ dsa' = Top.src
  /\ IF Done
     THEN cte' = FALSE /\ tt' = TRUE /\ boundary' = TRUE
     ELSE UNCHANGED <<cte, tt, boundary>>
  /\ transferring' = (transferring /\ ~Top.kick)
  /\ calls' = Below
  /\ ended' = (ended \/ (Done /\ InTick))
  /\ UNCHANGED <<dcm, req, fifo, tdms, playing, debt, prog>>

-----------------------------------------------------------------------------
(* jz4740_aic_sample_timer: n frames elapsed since the last tick are added   *)
(* to the debt, and jz4740_aic_process_output works it off frame by frame.   *)
SampleTimer(n) ==
  /\ AtRest
  /\ playing
  /\ debt + n <= MaxDebt
  /\ debt' = debt + n
  /\ calls' = IF debt + n = 0 THEN <<>> ELSE <<Tick("refill")>>
  /\ UNCHANGED <<dmacVars, fifo, tdms, playing, boundary, prog, ended>>

(* jz4740_aic_tx_pop drives the lines first: the channel may refill. *)
Refill ==
  /\ ~AtRest /\ Top.op = "refill"
  /\ UpdateLines(Append(Below, Tick("pop")), Len(fifo), tdms)
  /\ UNCHANGED <<dsa, dtc, cte, tt, dcm, aicVars, prog, ended>>

(* The level jz4740_aic_tx_pop reports last. *)
LevelAfterPop == IF fifo = <<>> THEN 0 ELSE Len(fifo) - 1

(* A sample, or an underrun that repeats the last one or plays silence. *)
Pop ==
  /\ ~AtRest /\ Top.op = "pop"
  /\ fifo' = IF fifo = <<>> THEN fifo ELSE Tail(fifo)
  /\ UpdateLines(Append(Below, Tick("frame")), LevelAfterPop, tdms)
  /\ UNCHANGED <<dsa, dtc, cte, tt, dcm, tdms, playing, boundary, debt, prog, ended>>

(* A frame was put out.  At a block boundary the rest of the debt waits for  *)
(* the next tick, so that the guest can rearm the channel.                   *)
(* Fault: the boundary does not end the batch.                               *)
BatchNeverEnds == debt = 1
BatchEnds == boundary \/ debt = 1

(* Fault: a frame is not paid off. *)
DebtKept == debt
DebtPaid == debt - 1

Frame ==
  /\ ~AtRest /\ Top.op = "frame"
  /\ debt' = DebtPaid
  /\ boundary' = FALSE
  /\ calls' = IF BatchEnds THEN Below ELSE Append(Below, Tick("refill"))
  /\ ended' = (ended /\ ~BatchEnds)
  /\ UNCHANGED <<dmacVars, fifo, tdms, playing, prog>>

-----------------------------------------------------------------------------
(* dmac_write of DCM, DSA, DTC and then DCS = NDES | CTE by the guest: the   *)
(* last enters dmac_try_channel directly, not through a kick.  The block is  *)
(* numbered on from the last unit moved, so a new one may replace the rest   *)
(* of a stopped one.                                                         *)
ArmBlock(n, command) ==
  /\ AtRest
  /\ ~cte
  /\ ArmMasked => ~req
  /\ dsa + n * command.unit <= MaxSamples
  /\ dcm' = command /\ dtc' = n /\ prog' = dsa + n * command.unit
  /\ cte' = TRUE /\ tt' = FALSE
  /\ calls' = IF req THEN Enter(<<>>, n, dsa, FALSE) ELSE <<>>
  /\ UNCHANGED <<dsa, transferring, req, aicVars, ended>>

(* DCS without CTE: the channel stops where it is.  Written with CTE again   *)
(* it goes on from its registers.                                            *)
Stop ==
  /\ AtRest
  /\ cte
  /\ cte' = FALSE
  /\ UNCHANGED <<dsa, dtc, tt, dcm, transferring, req, aicVars, calls, prog, ended>>

Resume ==
  /\ AtRest
  /\ ~cte /\ dtc # 0
  /\ ArmMasked => ~req
  /\ cte' = TRUE /\ tt' = FALSE
  /\ calls' = IF req THEN Enter(<<>>, dtc, dsa, FALSE) ELSE <<>>
  /\ UNCHANGED <<dsa, dtc, dcm, transferring, req, aicVars, prog, ended>>

(* jz4740_aic_update_timer: starting and stopping forget the frame debt; the *)
(* debt stays when nothing changes.                                          *)
TimerUpdate(on) ==
  /\ debt' = IF on # playing THEN 0 ELSE debt
  /\ boundary' = (boundary /\ (on \/ ~playing))

(* A write of AICCR or AICFR.ENB: TDMS, ERPL and, with FLUSH, an empty FIFO. *)
WriteControl(request, on, clear) ==
  /\ AtRest
  /\ tdms' = request
  /\ playing' = on
  /\ fifo' = IF clear THEN <<>> ELSE fifo
  /\ TimerUpdate(on)
  /\ UpdateLines(<<>>, Len(fifo'), request)
  /\ UNCHANGED <<dsa, dtc, cte, tt, dcm, prog, ended>>

Next ==
  \/ \E n \in Blocks, command \in Commands : ArmBlock(n, command)
  \/ Stop
  \/ Resume
  \/ \E request, on, clear \in BOOLEAN : WriteControl(request, on, clear)
  \/ \E n \in 0 .. MaxDebt : SampleTimer(n)
  \/ Refill
  \/ Pop
  \/ Frame
  \/ Push
  \/ Leave

Spec == Init /\ [][Next]_vars

Internal == Push \/ Leave \/ Refill \/ Pop \/ Frame

(* A callback runs to its end before anything else does. *)
FairSpec == Spec /\ WF_vars(Internal)

-----------------------------------------------------------------------------
(* What the channel has moved: the local source of the loop in progress is   *)
(* ahead of the register.                                                    *)
Moving == {i \in DOMAIN calls : calls[i].op = "xfer"}
Fed ==
  IF Moving = {} THEN dsa
  ELSE LET f == calls[CHOOSE i \in Moving : \A j \in Moving : j <= i]
       IN f.src + f.part

(* The FIFO holds every sample of the stream once and in order, the newest   *)
(* being the last one the channel moved: qemu/README.md calls them the real  *)
(* samples, carried by DMAC DRT 24/25.                                       *)
RealSamples ==
  AtRest => \A i \in DOMAIN fifo : fifo[i] = dsa - Len(fifo) + i - 1

(* Nothing is left undone: at rest an enabled channel with units to move has *)
(* no raised request, so the FIFO never starves while data is ready.         *)
NoUnservedRequest == AtRest /\ cte /\ req => dtc = 0

(* An audio timer callback does not play past the end of a block: the        *)
(* underruns between terminal count and rearm that ending the batch at the   *)
(* boundary removed do not come back.                                        *)
NoUnderrunAfterBlock == [][Pop /\ fifo = <<>> => ~ended]_vars

(* The activations always unwind: no two devices call each other for ever.   *)
CallbacksReturn == ~AtRest ~> AtRest

(* Playback implements the in-order stream. *)
Stream == INSTANCE AudioStream WITH
  programmed <- prog, fed <- Fed, drained <- Fed - Len(fifo)

StreamRefined == Stream!StreamSpec
=============================================================================
