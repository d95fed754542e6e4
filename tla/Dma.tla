-------------------------------- MODULE Dma --------------------------------
(***************************************************************************)
(* Block transfers of the JZ4740 DMA controller (hw/dma/jz4740_dmac.c):    *)
(* descriptors, doorbells, memory-to-memory blocks and the bulk callback   *)
(* by which hw/dma/bbk9588_dma_bridge.c moves the sectors of a pending     *)
(* command of the card controller (hw/sd/jz4740_msc.c).                    *)
(*                                                                         *)
(* All calls are synchronous and made under the big QEMU lock, so a        *)
(* handler is a function from one state of both devices to the next.  The  *)
(* audio endpoints, where the calls nest, are in AicDma; here an audio     *)
(* channel may be armed but its request line stays low.                    *)
(***************************************************************************)
EXTENDS Naturals

CONSTANTS
  NChannels,     \* the card reads through channel 0 and writes through 1
  Descriptor,    \* descriptor address -> [dcm, dsa, dta, dtc, link]
  Addresses,     \* values of DDA, some of them not descriptors in RAM
  RamSize,       \* units of RAM
  BulkLimit,     \* the largest card transfer, 128 sectors in the code
  ResponseBytes, \* of the card's response FIFO, 16 in the code
  RegWrites,     \* <<channel, register, value>> the guest may write
  Doorbells      \* sets of channels the guest may ring at once

(* descriptors with VM set *)
Validated == {d \in DOMAIN Descriptor : Descriptor[d].dcm.vm}

Channels == 0 .. NChannels - 1

VARIABLES
  dmac,          \* ch, enable (DMAE), ddb, irqp, error (AR), irq
  valid,         \* descriptors in memory whose V bit is set
  msc            \* pending, size of the response left, ready, mask, irq

vars == <<dmac, valid, msc>>

Flags == {"INV", "AR", "TT", "CT"}

(* A transfer command, DCM: [sai, dai, size, link, vm, vie, tie].  An       *)
(* invalid unit size is 0.                                                  *)
NoCommand == [sai |-> FALSE, dai |-> FALSE, size |-> 1, link |-> FALSE,
              vm |-> FALSE, vie |-> FALSE, tie |-> FALSE]

ResetChannel ==
  [dsa |-> 0, dta |-> 0, dtc |-> 0, drt |-> "ext", dcm |-> NoCommand,
   dda |-> 0, ndes |-> FALSE, cte |-> FALSE, flags |-> {}]

(* dmac_reset_hold, msc_reset_hold *)
ResetDmac ==
  [ch |-> [c \in Channels |-> ResetChannel], enable |-> FALSE, ddb |-> {},
   irqp |-> {}, error |-> FALSE, irq |-> FALSE]

ResetMsc ==
  [pending |-> "none", response |-> 0, ready |-> FALSE, masked |-> TRUE,
   irq |-> FALSE]

Init ==
  /\ dmac = ResetDmac /\ msc = ResetMsc
  /\ valid \in SUBSET Validated

----------------------------------------------------------------------------
(* A handler works on a record of all it may change. *)
State == [dmac |-> dmac, valid |-> valid, msc |-> msc]

Becomes(s) ==
  /\ dmac' = s.dmac /\ valid' = s.valid /\ msc' = s.msc

Ch(s, c) == s.dmac.ch[c]

SetCh(s, c, r) == [s EXCEPT !.dmac.ch[c] = r]

(* dmac_irq_pending_internal *)
ChannelInterrupts(r) ==
  \/ "AR" \in r.flags
  \/ "INV" \in r.flags /\ r.dcm.vie
  \/ r.flags \cap {"TT", "CT"} # {} /\ r.dcm.tie

IrqPending(d) == \E c \in d.irqp : ChannelInterrupts(d.ch[c])

(* dmac_sync_irq: DIRQP, the error bit of DMACR and the output follow. *)
Sync(s) ==
  LET d == [s.dmac EXCEPT
              !.irqp = {c \in Channels : s.dmac.ch[c].flags # {}},
              !.error = \E c \in Channels : "AR" \in s.dmac.ch[c].flags]
  IN  [s EXCEPT !.dmac = [d EXCEPT !.irq = IrqPending(d)]]

(* dmac_channel_enabled *)
Enabled(s, c) == s.dmac.enable /\ Ch(s, c).cte

(* dmac_set_address_error: the channel stays enabled. *)
AddressError(s, c) ==
  Sync(SetCh(s, c, [Ch(s, c) EXCEPT !.flags = @ \cup {"AR"}]))

(* dmac_fetch_descriptor *)
FetchPending(s, c) == ~Ch(s, c).ndes /\ Ch(s, c).cte /\ c \in s.dmac.ddb

Loaded(r) ==
  LET e == Descriptor[r.dda]
  IN  [r EXCEPT !.dcm = e.dcm, !.dsa = e.dsa, !.dta = e.dta, !.dtc = e.dtc]

Fetch(s, c) ==
  LET r == Ch(s, c)
      t == [s EXCEPT !.dmac.ddb = @ \ {c}]
  IN  IF ~FetchPending(s, c) THEN s
      ELSE IF r.dda \notin DOMAIN Descriptor THEN AddressError(t, c)
      ELSE IF Descriptor[r.dda].dcm.vm /\ r.dda \notin s.valid
      THEN Sync(SetCh(t, c, [r EXCEPT !.cte = FALSE, !.dcm = Descriptor[r.dda].dcm,
                                      !.flags = @ \cup {"INV"}]))
      ELSE SetCh(t, c, Loaded(r))

(* dmac_finish_transfer, with dmac_set_terminal_count for NDES.  A linked    *)
(* block points DDA at its successor and leaves the channel enabled.        *)
Terminal(r) ==
  [r EXCEPT !.dtc = 0, !.cte = FALSE, !.flags = @ \cup {"TT"}]

Linked(r) ==
  [r EXCEPT !.dtc = 0, !.flags = (@ \ {"TT"}) \cup {"CT"},
            !.dda = IF @ \in DOMAIN Descriptor THEN Descriptor[@].link ELSE @]

Finish(s, c) ==
  LET r == Ch(s, c)
      t == IF ~r.ndes /\ r.dcm.vm
           THEN [s EXCEPT !.valid = @ \ {r.dda}] ELSE s
  IN  Sync(SetCh(t, c, IF r.ndes THEN Terminal(r)
                       ELSE IF r.dcm.link THEN Linked(r)
                       ELSE Terminal([r EXCEPT !.flags = @ \ {"CT"}])))

----------------------------------------------------------------------------
(* The card controller. *)

(* msc_update_irq *)
MscSync(m) == [m EXCEPT !.irq = m.ready /\ ~m.masked]

(* jz4740_msc_begin_dma: a pending read takes channel 0, a write channel 1.  *)
Takes(m, c) ==
  \/ m.pending = "read" /\ c = 0
  \/ m.pending = "write" /\ c = 1

(* bridge_msc_dma_transfer with bridge_dmac_bulk_transfer: the request number *)
(* of the channel is not looked at, nor the unit size or the RAM range; a     *)
(* transfer above the limit is refused and stays pending.                     *)
BulkHandles(s, c) ==
  Enabled(s, c) /\ Ch(s, c).dtc # 0 /\ Takes(s.msc, c) /\ Ch(s, c).dtc <= BulkLimit

(* jz4740_msc_finish_dma *)
MscDone(m) == MscSync([m EXCEPT !.pending = "none", !.ready = TRUE])

(* dmac_try_bulk_transfer, when the callback took the block *)
Bulk(s, c) == Finish([s EXCEPT !.msc = MscDone(@)], c)

(* dmac_ram_range_valid *)
InRam(address, units) == address + units <= RamSize

(* dmac_try_auto_transfer *)
AutoReady(s, c) == Enabled(s, c) /\ Ch(s, c).drt = "auto" /\ Ch(s, c).dtc # 0

Copyable(r) ==
  LET units == r.dtc * r.dcm.size
  IN  units # 0 /\ InRam(r.dsa, units) /\ InRam(r.dta, units)

Copied(r) ==
  LET units == r.dtc * r.dcm.size
  IN  [r EXCEPT !.dsa = IF r.dcm.sai THEN @ + units ELSE @,
                !.dta = IF r.dcm.dai THEN @ + units ELSE @]

Auto(s, c) ==
  IF ~Enabled(s, c) THEN s
  ELSE LET t == Fetch(s, c)
       IN  IF ~AutoReady(t, c) THEN t
           ELSE IF ~Copyable(Ch(t, c)) THEN AddressError(t, c)
           ELSE Finish([SetCh(t, c, Copied(Ch(t, c))) EXCEPT !.dmac.ddb = @ \ {c}], c)

(* A fault: the callback is never asked. *)
AutoOnly(s, c) == Auto(s, c)

(* dmac_try_channel; dmac_try_bulk_transfer fetches before it asks whether    *)
(* the channel is enabled at all.                                             *)
TryChannel(s, c) ==
  LET t == Fetch(s, c)
  IN  IF BulkHandles(t, c) THEN Bulk(t, c) ELSE Auto(t, c)

(* Every channel in turn. *)
TryAll(s) ==
  LET upTo[n \in 0 .. NChannels] ==
        IF n = 0 THEN s ELSE TryChannel(upTo[n - 1], n - 1)
  IN  upTo[NChannels]

(* jz4740_dmac_kick *)
Kick(s) == Sync(TryAll(s))

----------------------------------------------------------------------------
(* Register accesses of the guest. *)

(* dmac_write: a channel register.  DCS carries ndes, cte and the flags.       *)
Written(r, reg, v) ==
  CASE reg = "dcs" -> [r EXCEPT !.ndes = v.ndes, !.cte = v.cte, !.flags = v.flags]
    [] reg = "dsa" -> [r EXCEPT !.dsa = v]
    [] reg = "dta" -> [r EXCEPT !.dta = v]
    [] reg = "dtc" -> [r EXCEPT !.dtc = v]
    [] reg = "drt" -> [r EXCEPT !.drt = v]
    [] reg = "dcm" -> [r EXCEPT !.dcm = v]
    [] reg = "dda" -> [r EXCEPT !.dda = v]

WriteRegister(w) ==
  LET c == w[1] IN
  Becomes(TryChannel(Sync(SetCh(State, c, Written(Ch(State, c), w[2], w[3]))), c))

WriteControl(enable) ==
  Becomes(Sync(TryAll([State EXCEPT !.dmac.enable = enable, !.dmac.error = FALSE])))

WritePending == Becomes(Sync(State))

(* dmac_write: DDB and DDBS.  The bulk callback is not tried. *)
AutoAll(s) ==
  LET upTo[n \in 0 .. NChannels] ==
        IF n = 0 THEN s ELSE Auto(upTo[n - 1], n - 1)
  IN  upTo[NChannels]

WriteDoorbell(C) == Becomes(AutoAll([State EXCEPT !.dmac.ddb = C]))

SetDoorbell(C) == Becomes(AutoAll([State EXCEPT !.dmac.ddb = @ \cup C]))

(* The guest prepares a descriptor in memory. *)
Validate(d) ==
  d \notin valid /\ Becomes([State EXCEPT !.valid = @ \cup {d}])

(* jz4740_dmac_set_request: an audio request that rises kicks every channel;   *)
(* AicDma is about the channels armed for it.                                  *)
AudioRequest ==
  /\ \A c \in Channels : ~(Ch(State, c).drt = "aic" /\ Enabled(State, c))
  /\ Becomes(Kick(State))

(* msc_prepare_response, from a write of STRPCL: the command before it, served *)
(* or not, is forgotten.                                                       *)
Started(m, command) ==
  MscSync([m EXCEPT !.pending = command, !.response = ResponseBytes, !.ready = FALSE])

Command(command) ==
  LET s == [State EXCEPT !.msc = Started(@, command)]
  IN  Becomes(IF command = "none" THEN s ELSE Kick(s))

(* msc_write: IREG and IMASK; msc_read_response *)
AckMsc == Becomes([State EXCEPT !.msc = MscSync([@ EXCEPT !.ready = FALSE])])

MaskMsc(masked) ==
  Becomes([State EXCEPT !.msc = MscSync([@ EXCEPT !.masked = masked])])

ReadResponse(size) ==
  /\ msc.response > 0
  /\ Becomes([State EXCEPT !.msc.response = IF @ > size THEN @ - size ELSE 0])

(* dmac_reset_hold and msc_reset_hold, as one machine reset *)
Reset == Becomes([State EXCEPT !.dmac = ResetDmac, !.msc = ResetMsc])

(* dmac_post_load and msc_post_load on a state saved by this machine *)
Restore == Becomes([Sync(State) EXCEPT !.msc = MscSync(@)])

Next ==
  \/ \E w \in RegWrites : WriteRegister(w)
  \/ \E b \in BOOLEAN : WriteControl(b) \/ MaskMsc(b)
  \/ \E C \in Doorbells : WriteDoorbell(C) \/ SetDoorbell(C)
  \/ \E d \in Validated : Validate(d)
  \/ \E k \in {"none", "read", "write"} : Command(k)
  \/ \E n \in 1 .. ResponseBytes : ReadResponse(n)
  \/ WritePending \/ AudioRequest \/ AckMsc \/ Reset \/ Restore

Spec == Init /\ [][Next]_vars

----------------------------------------------------------------------------
Commands == {w[3] : w \in {x \in RegWrites : x[2] = "dcm"}}
              \cup {NoCommand} \cup {Descriptor[d].dcm : d \in DOMAIN Descriptor}

TypeOK ==
  /\ \A c \in Channels :
       LET r == dmac.ch[c]
       IN  /\ {r.dsa, r.dta, r.dtc} \subseteq Nat
           /\ r.drt \in {"auto", "aic", "ext"} /\ r.dcm \in Commands
           /\ r.dda \in Addresses /\ r.ndes \in BOOLEAN /\ r.cte \in BOOLEAN
           /\ r.flags \subseteq Flags
  /\ {dmac.enable, dmac.error, dmac.irq} \subseteq BOOLEAN
  /\ dmac.ddb \subseteq Channels /\ dmac.irqp \subseteq Channels
  /\ valid \subseteq Validated
  /\ msc \in [pending : {"none", "read", "write"}, response : 0 .. ResponseBytes,
              ready : BOOLEAN, masked : BOOLEAN, irq : BOOLEAN]

(* Nothing that could start is left waiting: no enabled channel has a rung     *)
(* doorbell or a block of memory it could copy.                                *)
NothingWaits ==
  \A c \in Channels :
    /\ ~(dmac.enable /\ FetchPending(State, c))
    /\ ~(AutoReady(State, c) /\ Copyable(dmac.ch[c]))

(* A card command waits beside a channel armed for it in one case only: the    *)
(* channel got its block by a doorbell, for which the callback is not tried.   *)
CardWaits == \E c \in Channels : BulkHandles(State, c)

RingsDoorbell ==
  \E C \in Doorbells : WriteDoorbell(C) \/ SetDoorbell(C)

DoorbellStrands == CardWaits' => CardWaits \/ RingsDoorbell

(* A channel that waits for a device ends its block with the card's answer, the *)
(* one for sound among them: the callback takes whatever is armed on channel 0  *)
(* or 1 while a command is pending.                                            *)
EndsByCard ==
  \A c \in Channels :
    /\ dmac'.ch[c].drt # "auto"
    /\ (dmac'.ch[c].flags \cap {"TT", "CT"}) \ dmac.ch[c].flags # {}
    => \/ c \in {0, 1} /\ msc'.ready /\ msc'.pending = "none"
       \/ \E w \in RegWrites : w[1] = c /\ w[2] = "dcs" /\ WriteRegister(w)

(* A pending command is served with a block of its channel, or given up for a   *)
(* new command or by a reset; no failure of a channel ends it.                 *)
PendingKept ==
  msc.pending # "none" /\ msc'.pending # msc.pending =>
    \/ \E k \in {"none", "read", "write"} : Command(k)
    \/ msc' = ResetMsc
    \/ /\ msc'.ready
       /\ \E c \in Channels : Takes(msc, c) /\ dmac'.ch[c].flags \cap {"TT", "CT"} # {}

(* The two interrupt outputs, DIRQP and the error bit say what the channels    *)
(* and the card say, whichever handler ran last.  They come apart in one case  *)
(* only: a descriptor whose command has other interrupt enables is loaded into *)
(* a channel that still shows the end of the block before it.                  *)
LinesAgree ==
  /\ dmac.irqp = {c \in Channels : dmac.ch[c].flags # {}}
  /\ dmac.error = \E c \in Channels : "AR" \in dmac.ch[c].flags
  /\ dmac.irq = \E c \in Channels : ChannelInterrupts(dmac.ch[c])
  /\ msc.irq = (msc.ready /\ ~msc.masked)

LoadsBesideFlags ==
  \E c \in Channels :
    /\ dmac'.ch[c].flags # {} /\ c \notin dmac'.ddb
    /\ dmac'.ch[c].dda \in DOMAIN Descriptor
    /\ dmac'.ch[c].dcm = Descriptor[dmac'.ch[c].dda].dcm

LoadDesyncs == ~LinesAgree' => ~LinesAgree \/ LoadsBesideFlags
=============================================================================
