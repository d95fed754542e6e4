------------------------------ MODULE Display ------------------------------
(***************************************************************************)
(* From the frame buffer to the host: the JZ4740 LCD controller            *)
(* (hw/display/jz4740_lcd.c), the status register of the panel             *)
(* (bbk9588_panel.c) and the host bridge (bbk9588_host_bridge.c), whose    *)
(* timer copies the frame, compares it with the last one and sends it to   *)
(* the client of the frame chardev.                                        *)
(*                                                                         *)
(* Times are milliseconds until something may happen.  A frame is one      *)
(* value per buffer, since frames are only compared and copied.            *)
(***************************************************************************)
EXTENDS Naturals

CONSTANTS
  Descriptor,    \* address -> [next, fid, sof, eof]; 0 is no address
  Buffers,       \* frame buffers in RAM
  Bad,           \* a source that is not in RAM
  Pictures,
  Period,        \* refresh period in ms
  Clients,       \* of the frame chardev, which serves one at a time
  EnableSets,    \* interrupt masks the guest writes
  Arms,          \* <<channel, address>> it writes to DA0 and DA1
  Moves          \* <<address, source>> it writes to a descriptor

VARIABLES
  lcd,           \* ena, masks, state, iid, da, fid, cmd, desc, buffer, irq
  panelDone,     \* FRAME_DONE of the panel's status
  source,        \* the source word of each descriptor in memory
  pixels,        \* what each buffer holds
  host,          \* last, sent (frame_chardev_sent_valid), timer, hold
  client         \* who is connected, and the picture it shows

vars == <<lcd, panelDone, source, pixels, host, client>>

Channels == {0, 1}
None == "none"
Connected == client.who # None
NoCommand == [sof |-> FALSE, eof |-> FALSE, len |-> FALSE]

(* jz4740_lcd_reset_hold *)
ResetLcd ==
  [ena |-> FALSE, masks |-> {}, state |-> {}, iid |-> 0,
   da |-> [c \in Channels |-> 0], fid |-> [c \in Channels |-> 0],
   cmd |-> [c \in Channels |-> NoCommand], desc |-> 0, buffer |-> None,
   irq |-> FALSE]

(* bbk9588_host_bridge_start *)
Init ==
  /\ lcd = ResetLcd /\ panelDone = FALSE
  /\ \E b \in Buffers, p \in Pictures :
       /\ source = [d \in DOMAIN Descriptor |-> b]
       /\ pixels = [x \in Buffers |-> p]
  /\ host = [last |-> None, sent |-> FALSE, timer |-> Period, hold |-> 0]
  /\ client = [who |-> None, shows |-> None]

----------------------------------------------------------------------------
(* jz4740_lcd_irq_pending; a mask here enables its interrupt. *)
Pending(l) == l.state \cap l.masks # {}

(* jz4740_lcd_update_irq *)
UpdateIrq(l) == [l EXCEPT !.irq = Pending(l)]

(* jz4740_lcd_latch_iid: the frame of the first interrupt that is pending. *)
(* A fault: of the last one.                                                   *)
LatchLast(l, event, fid) ==
  [l EXCEPT !.iid = IF event \in l.masks THEN fid ELSE @,
            !.state = @ \cup {event}]

Latch(l, event, fid) ==
  [l EXCEPT !.iid = IF event \in l.masks /\ ~Pending(l) THEN fid ELSE @,
            !.state = @ \cup {event}]

(* jz4740_lcd_fetch_descriptor: what it changes, and whether it found a frame.  *)
(* Both channels share the one frame buffer that the host shows.                *)
InRam(l, c) == l.da[c] \in DOMAIN Descriptor

Loaded(l, c) ==
  LET d == l.da[c]
      e == Descriptor[d]
      m == [l EXCEPT !.da[c] = e.next, !.fid[c] = e.fid, !.desc = d,
                     !.cmd[c] = [sof |-> e.sof, eof |-> e.eof, len |-> TRUE]]
      n == IF e.sof THEN Latch(m, "SOF", e.fid) ELSE m
  IN  IF source[d] \in Buffers THEN [n EXCEPT !.buffer = source[d]] ELSE n

Fetch(l, c) == IF InRam(l, c) THEN Loaded(l, c) ELSE l

FindsFrame(l, c) == InRam(l, c) /\ source[l.da[c]] \in Buffers

(* jz4740_lcd_finish_channel *)
Finish(l, c) ==
  LET k == l.cmd[c]
      m == [l EXCEPT !.cmd[c].len = FALSE]
      n == IF k.eof THEN Latch(m, "EOF", l.fid[c]) ELSE m
  IN  IF k = NoCommand THEN l ELSE IF n.da[c] # 0 THEN Fetch(n, c) ELSE n

(* jz4740_lcd_signal_frame_done *)
FrameDone(l) ==
  LET m == Finish(l, 0)
  IN  IF ~l.ena THEN l
      ELSE UpdateIrq(IF m.da[1] # 0 \/ m.cmd[1] # NoCommand THEN Finish(m, 1) ELSE m)

(* host_frame_source_changed: a new source holds the scan-out for a period. *)
SourceChanged ==
  /\ panelDone' = TRUE
  /\ host' = [host EXCEPT !.sent = FALSE, !.hold = Period, !.timer = 1]

Written(l, changed) ==
  /\ lcd' = UpdateIrq(l)
  /\ IF changed THEN SourceChanged ELSE UNCHANGED <<panelDone, host>>
  /\ UNCHANGED <<source, pixels, client>>

(* jz4740_lcd_write: CTRL *)
WriteControl(ena, dis, masks) ==
  LET on == ena /\ ~dis
      l == [lcd EXCEPT !.ena = on, !.masks = masks,
                       !.state = (IF on THEN @ \ {"LDD", "QD"} ELSE @) \cup
                         (IF dis THEN {"LDD"}
                          ELSE IF lcd.ena /\ ~on THEN {"QD"} ELSE {})]
      m == Fetch(l, 0)
  IN  IF ~on THEN Written(l, FALSE)
      ELSE IF m.da[1] = 0 THEN Written(m, FindsFrame(l, 0))
      ELSE Written(Fetch(m, 1), FindsFrame(l, 0) \/ FindsFrame(m, 1))

WriteState(clear) == Written([lcd EXCEPT !.state = @ \ clear], FALSE)

WriteDescriptor(c, d) ==
  LET l == [lcd EXCEPT !.da[c] = d]
  IN  IF l.ena THEN Written(Fetch(l, c), FindsFrame(l, c)) ELSE Written(l, FALSE)

(* panel_write: the status register *)
AckPanel ==
  panelDone' = FALSE /\ UNCHANGED <<lcd, source, pixels, host, client>>

(* The guest draws, or points a descriptor elsewhere. *)
Draw(b, p) ==
  /\ pixels' = [pixels EXCEPT ![b] = p]
  /\ UNCHANGED <<lcd, panelDone, source, host, client>>

Repoint(d, b) ==
  /\ source' = [source EXCEPT ![d] = b]
  /\ UNCHANGED <<lcd, panelDone, pixels, host, client>>

----------------------------------------------------------------------------
(* host_copy_framebuffer with jz4740_lcd_refresh_frame_source: the source word  *)
(* is read again from the descriptor that was fetched last.                     *)
Refreshed(l) ==
  IF l.desc # 0 /\ source[l.desc] \in Buffers
  THEN [l EXCEPT !.buffer = source[l.desc]] ELSE l

(* host_copy_framebuffer: what it copies from the guest's memory.               *)
Copied(l) == pixels[l.buffer]

(* host_gfx_update, after the copy: only a picture that differs from the last   *)
(* ends the frame for the panel and the controller.                            *)
Update(sentTimer, unsentTimer) ==
  LET l == Refreshed(lcd)
      picture == Copied(l)
      changed == picture # host.last
      sent == (host.sent /\ ~changed) \/ Connected
      Timer(s) == IF s THEN sentTimer ELSE unsentTimer
  IN  IF l.buffer = None
      THEN /\ lcd' = l /\ host' = [host EXCEPT !.timer = Timer(host.sent)]
           /\ UNCHANGED <<panelDone, client>>
      ELSE /\ lcd' = IF changed THEN FrameDone(l) ELSE l
           /\ panelDone' = (panelDone \/ changed)
           /\ host' = [host EXCEPT !.last = picture, !.sent = sent,
                                   !.timer = Timer(sent)]
           /\ client' = IF Connected /\ (changed \/ ~host.sent)
                        THEN [client EXCEPT !.shows = picture] ELSE client

(* host_refresh_timer_cb: with a frame unsent it comes back in a millisecond.   *)
Refresh ==
  /\ host.timer = 0
  /\ IF host.hold > 0
     THEN /\ host' = [host EXCEPT !.timer = host.hold]
          /\ UNCHANGED <<lcd, panelDone, client>>
     ELSE Update(Period, 1)
  /\ UNCHANGED <<source, pixels>>

(* The display of the console asks for an update of its own. *)
ConsoleUpdate ==
  Update(host.timer, host.timer) /\ UNCHANGED <<source, pixels>>

Tick ==
  /\ host' = [host EXCEPT !.timer = IF @ > 0 THEN @ - 1 ELSE 0,
                          !.hold = IF @ > 0 THEN @ - 1 ELSE 0]
  /\ UNCHANGED <<lcd, panelDone, source, pixels, client>>

Connect(w) ==
  /\ ~Connected /\ client' = [who |-> w, shows |-> None]
  /\ UNCHANGED <<lcd, panelDone, source, pixels, host>>

Disconnect ==
  /\ client' = [client EXCEPT !.who = None]
  /\ UNCHANGED <<lcd, panelDone, source, pixels, host>>

(* A reset leaves the bridge, and so the last picture it compares with.        *)
Reset ==
  /\ lcd' = ResetLcd /\ panelDone' = FALSE
  /\ UNCHANGED <<source, pixels, host, client>>

(* jz4740_lcd_post_load *)
Restore ==
  lcd' = UpdateIrq(lcd) /\ UNCHANGED <<panelDone, source, pixels, host, client>>

Next ==
  \/ \E e, d \in BOOLEAN, m \in EnableSets : WriteControl(e, d, m)
  \/ \E s \in {{"SOF"}, {"SOF", "EOF", "LDD", "QD"}} : WriteState(s)
  \/ \E a \in Arms : WriteDescriptor(a[1], a[2])
  \/ \E b \in Buffers, p \in Pictures : Draw(b, p)
  \/ \E m \in Moves : Repoint(m[1], m[2])
  \/ AckPanel \/ Refresh \/ ConsoleUpdate \/ Tick
  \/ (\E w \in Clients : Connect(w)) \/ Disconnect \/ Reset \/ Restore

(* Time goes on and QEMU serves a timer that expired. *)
Spec == Init /\ [][Next]_vars /\ WF_vars(Tick) /\ WF_vars(Refresh)

----------------------------------------------------------------------------
TypeOK ==
  /\ lcd.masks \cup lcd.state \subseteq {"EOF", "SOF", "LDD", "QD"}
  /\ lcd.buffer \in Buffers \cup {None} /\ lcd.desc \in DOMAIN Descriptor \cup {0}
  /\ \A c \in Channels : lcd.da[c] \in DOMAIN Descriptor \cup {0}
  /\ {lcd.ena, lcd.irq, panelDone, host.sent} \subseteq BOOLEAN
  /\ client.who \in Clients \cup {None} /\ client.shows \in Pictures \cup {None}
  /\ host.last \in Pictures \cup {None} /\ {host.timer, host.hold} \subseteq 0 .. Period

(* The interrupt output is what the state register and its masks say. *)
LineAgrees == lcd.irq = Pending(lcd)

(* The frame that IID names is kept until its interrupt is over.  Only a write  *)
(* of CTRL may name another while the output stays high.                       *)
IidHeld ==
  lcd.irq /\ lcd'.irq /\ lcd'.iid # lcd.iid =>
    \E e, d \in BOOLEAN, m \in EnableSets : WriteControl(e, d, m)

(* A connected client shows the picture that the bridge believes sent, unless   *)
(* it came after that picture: then it waits for the next change.              *)
Behind == Connected /\ host.sent /\ client.shows # host.last

OnlyLateClientsMiss == Behind' => Behind \/ \E w \in Clients : Connect(w)

(* An unsent picture reaches a client that stays, unless the guest switches its *)
(* source again before each period is over.                                    *)
Unsent == Connected /\ ~host.sent /\ Refreshed(lcd).buffer # None

FramesArrive == []<>~Unsent \/ []<>(host.hold = Period)
=============================================================================
