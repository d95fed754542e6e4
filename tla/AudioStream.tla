----------------------------- MODULE AudioStream -----------------------------
(***************************************************************************)
(* What playback promises the guest: the samples it programs enter the     *)
(* transmit FIFO once each and in order, and leave it in that order or are *)
(* discarded by a flush.  Samples are numbered from 0 in the order the     *)
(* guest programs them.                                                    *)
(***************************************************************************)
EXTENDS Naturals

CONSTANTS Depth    \* JZ4740_AIC_FIFO_DEPTH

VARIABLES
  programmed,  \* samples handed to the DMA channel
  fed,         \* samples that entered the FIFO
  drained      \* samples that left it, played or flushed

streamVars == <<programmed, fed, drained>>

StreamInit == programmed = 0 /\ fed = 0 /\ drained = 0

(* The guest hands over a block; what it left of a stopped one is forgotten. *)
Program ==
  /\ programmed' > fed
  /\ UNCHANGED <<fed, drained>>

(* One sample moves from memory into the FIFO. *)
Feed ==
  /\ fed < programmed
  /\ fed - drained < Depth
  /\ fed' = fed + 1
  /\ UNCHANGED <<programmed, drained>>

Play ==
  /\ drained < fed
  /\ drained' = drained + 1
  /\ UNCHANGED <<programmed, fed>>

Flush ==
  /\ drained' = fed
  /\ UNCHANGED <<programmed, fed>>

StreamNext == Program \/ Feed \/ Play \/ Flush

StreamSpec == StreamInit /\ [][StreamNext]_streamVars
=============================================================================
