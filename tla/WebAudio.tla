------------------------------- MODULE WebAudio -------------------------------
(***************************************************************************)
(* Sound from QEMU to the pages: _on_qemu_audio_ready() and                *)
(* audio_packets_after() of emu/web/frontend_state.py, and the loop that   *)
(* serves one listener in emu/web/frontend_server.py.                      *)
(*                                                                         *)
(* The packets are numbered as they come, whatever QEMU process they are   *)
(* from.  The last few are kept for all; a listener takes what is newer    *)
(* than what it had, the newest only if that is too much, and sends it     *)
(* while more arrives.                                                     *)
(***************************************************************************)
EXTENDS Naturals, Sequences

CONSTANTS
  Pages,       \* the listeners
  Depth,       \* packets kept, 128 in the code
  Batch,       \* packets taken at once, 12 in the code
  MaxPackets   \* bound on the packets

VARIABLES
  packets,     \* audio_packets, their numbers
  delivered,   \* audio_delivery_seq
  dropped,     \* audio_dropped_packets
  listener     \* of each page: whether it listens, the last one sent, the ones to send

vars == <<packets, delivered, dropped, listener>>

Away == [on |-> FALSE, last |-> 0, batch |-> <<>>]

TypeOK ==
  /\ packets \in Seq(1 .. MaxPackets) /\ Len(packets) <= Depth
  /\ delivered \in 0 .. MaxPackets
  /\ dropped \in 0 .. MaxPackets
  /\ \A c \in Pages : /\ listener[c].last <= delivered
                      /\ Len(listener[c].batch) <= Batch

Init ==
  /\ packets = <<>> /\ delivered = 0 /\ dropped = 0
  /\ listener = [c \in Pages |-> Away]

(* The deque lets go of the oldest one without a word.                            *)
Newest(s, n) == IF Len(s) <= n THEN s ELSE SubSeq(s, Len(s) - n + 1, Len(s))
Oldest(s, n) == IF Len(s) <= n THEN s ELSE SubSeq(s, 1, n)

Arrives ==
  /\ delivered < MaxPackets
  /\ delivered' = delivered + 1
  /\ packets' = Newest(Append(packets, delivered + 1), Depth)
  /\ UNCHANGED <<dropped, listener>>

(* reset() forgets the packets and the counts, not the numbering.                 *)
Reset ==
  /\ packets # <<>>
  /\ packets' = <<>> /\ dropped' = 0
  /\ UNCHANGED <<delivered, listener>>

Connect(c) ==
  /\ ~listener[c].on
  /\ listener' = [listener EXCEPT ![c] = [on |-> TRUE, last |-> delivered, batch |-> <<>>]]
  /\ UNCHANGED <<packets, delivered, dropped>>

(* The page closes, or a send times out.                                          *)
Leave(c) ==
  /\ listener[c].on
  /\ listener' = [listener EXCEPT ![c] = Away]
  /\ UNCHANGED <<packets, delivered, dropped>>

(* audio_packets_after: what is counted as dropped is counted for each listener.   *)
After(last) ==
  LET upTo[n \in 0 .. Len(packets)] ==
        IF n = 0 THEN <<>>
        ELSE IF packets[n] > last THEN Append(upTo[n - 1], packets[n]) ELSE upTo[n - 1]
  IN  upTo[Len(packets)]

TakenOldest(s) == Oldest(s, Batch)
Taken(s) == Newest(s, Batch)

Fetch(c) ==
  /\ listener[c].on /\ listener[c].batch = <<>>
  /\ After(listener[c].last) # <<>>
  /\ LET new == After(listener[c].last)
     IN /\ listener' = [listener EXCEPT ![c].batch = Taken(new)]
        /\ dropped' = IF dropped + Len(new) - Len(Taken(new)) <= MaxPackets
                      THEN dropped + Len(new) - Len(Taken(new)) ELSE MaxPackets
  /\ UNCHANGED <<packets, delivered>>

Send(c) ==
  /\ listener[c].batch # <<>>
  /\ listener' = [listener EXCEPT ![c].last = Head(listener[c].batch), ![c].batch = Tail(@)]
  /\ UNCHANGED <<packets, delivered, dropped>>

Next ==
  \/ Arrives \/ Reset
  \/ \E c \in Pages : Connect(c) \/ Leave(c) \/ Fetch(c) \/ Send(c)

----------------------------------------------------------------------------
(* Properties *)

(* What a listener has still to send is newer than what it sent, in order and      *)
(* without a gap, though more arrives and the deque moves on meanwhile.           *)
BatchesFollow ==
  \A c \in Pages :
    LET b == listener[c].batch
    IN b # <<>> => /\ b[1] > listener[c].last /\ b[Len(b)] <= delivered
                   /\ \A i \in 1 .. Len(b) - 1 : b[i + 1] = b[i] + 1

(* A listener that takes packets catches up with the newest one, and misses some   *)
(* only if it was more than a batch behind or they were forgotten meanwhile.      *)
CatchesUp ==
  \A c \in Pages :
    LET l == listener[c]
        b == listener'[c].batch
    IN l.on /\ l.batch = <<>> /\ b # <<>> =>
         /\ b[Len(b)] = delivered
         /\ b[1] # l.last + 1 => delivered - l.last > Batch \/ l.last + 1 < packets[1]
=============================================================================
