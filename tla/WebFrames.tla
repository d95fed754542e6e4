------------------------------ MODULE WebFrames ------------------------------
(***************************************************************************)
(* The picture from QEMU to the pages: the frame reader of                 *)
(* emu/qemu/system.py, latest_ws_frame_after() and dump_ws_frame() of      *)
(* emu/web/frontend_state.py, and the loop that serves one page in         *)
(* emu/web/frontend_server.py.                                             *)
(*                                                                         *)
(* A page is sent the newest frame when its sequence number is not the one *)
(* it had; the packed frame is kept and shared.  The numbers start again   *)
(* with every QEMU process, what is kept and what the pages remember does  *)
(* not.  A picture here is <<process, number>>.                            *)
(***************************************************************************)
EXTENDS Naturals

CONSTANTS
  Pages,        \* the pages of the browsers
  MaxFrames,    \* bound on the frames of one QEMU process
  MaxProcesses  \* bound on the processes

VARIABLES
  qemu,      \* up, gen (which process), drawn (frames sent), count (received)
  wire,      \* frames on their way, of this process or of one that is gone
  latest,    \* latest_frame_chardev
  cached,    \* cached_ws_frame_bytes under qemu_last_ws_frame_seq
  recent,    \* frame_push_min_interval has not passed since the last packing
  page,      \* what each page last had, and shows
  dump,      \* the read that holds frame_io_lock, and for which page
  crossed    \* a picture has come under a number that is not its own, see Crosses

vars == <<qemu, wire, latest, cached, recent, page, dump, crossed>>

NoFrame == [seq |-> 0, pic |-> <<0, 0>>]        \* no frame
Placeholder == <<0, 1>>
Clock == MaxFrames + 1                        \* a number made from the time

Pictures == {<<0, 0>>, Placeholder} \cup (1 .. MaxProcesses) \X (0 .. MaxFrames)
Frames == [seq : 0 .. Clock, pic : Pictures]
Frame(g, n) == [seq |-> n, pic |-> <<g, n>>]

Away == [state |-> "off", last |-> 0, shown |-> <<0, 0>>]
Free == [page |-> "none", raw |-> NoFrame.pic]

TypeOK ==
  /\ qemu \in [up : BOOLEAN, gen : 1 .. MaxProcesses, drawn : 0 .. MaxFrames,
               count : 0 .. MaxFrames + MaxProcesses]
  /\ wire \subseteq Frames
  /\ latest \in Frames /\ cached \in Frames
  /\ recent \in BOOLEAN /\ crossed \in BOOLEAN
  /\ page \in [Pages -> [state : {"off", "new", "on", "dumping"}, last : 0 .. Clock,
                         shown : Pictures]]
  /\ dump \in [page : Pages \cup {"none"}, raw : Pictures]

Init ==
  /\ qemu = [up |-> TRUE, gen |-> 1, drawn |-> 0, count |-> 0]
  /\ wire = {} /\ latest = NoFrame /\ cached = NoFrame
  /\ recent = FALSE /\ crossed = FALSE
  /\ page = [c \in Pages |-> Away]
  /\ dump = Free

----------------------------------------------------------------------------
(* QEMU and the reader of its socket. *)

(* The LCD model sends a frame when the picture changes; one at a time here.      *)
Draw ==
  /\ qemu.up /\ qemu.drawn < MaxFrames
  /\ \A f \in wire : f.pic[1] # qemu.gen
  /\ qemu' = [qemu EXCEPT !.drawn = @ + 1]
  /\ wire' = wire \cup {Frame(qemu.gen, qemu.drawn + 1)}
  /\ UNCHANGED <<latest, cached, recent, page, dump, crossed>>

(* _frame_reader: whatever process the frame is from.                             *)
Receive(f) ==
  /\ f \in wire
  /\ wire' = wire \ {f}
  /\ latest' = f
  /\ qemu' = [qemu EXCEPT !.count = @ + 1]
  /\ crossed' = (crossed \/ f.pic[1] # qemu.gen)
  /\ UNCHANGED <<cached, recent, page, dump>>

(* The process ends.  Its frames are lost with the socket, except one that the    *)
(* reader already has and for which it waits for the lock.                       *)
Exit ==
  /\ qemu.up /\ qemu.gen < MaxProcesses
  /\ qemu' = [qemu EXCEPT !.up = FALSE]
  /\ \E w \in {wire, {}} : wire' = w
  /\ UNCHANGED <<latest, cached, recent, page, dump, crossed>>

Fresh == [up |-> TRUE, gen |-> qemu.gen + 1, drawn |-> 0, count |-> 0]

(* start() of an exited backend, for run_start() or an input.                     *)
Restart ==
  /\ ~qemu.up /\ qemu.gen < MaxProcesses
  /\ qemu' = Fresh
  /\ latest' = NoFrame
  /\ UNCHANGED <<wire, cached, recent, page, dump, crossed>>

(* reset(): a new backend, of which nothing is kept, and which the old reader     *)
(* does not reach.                                                              *)
Reset ==
  /\ qemu.gen < MaxProcesses
  /\ qemu' = Fresh
  /\ latest' = NoFrame /\ cached' = NoFrame /\ recent' = FALSE
  /\ wire' = {}
  /\ UNCHANGED <<page, dump, crossed>>

----------------------------------------------------------------------------
(* latest_ws_frame_after(last): the frame to send, or NoFrame. *)

KeepsAny == cached # NoFrame
Keeps == cached # NoFrame /\ cached.seq = latest.seq
Throttled == cached # NoFrame /\ recent

FrameAfter(last) ==
  IF latest = NoFrame \/ last = latest.seq THEN NoFrame
  ELSE IF Keeps THEN [seq |-> latest.seq, pic |-> cached.pic]
  ELSE IF Throttled THEN NoFrame
  ELSE latest

(* The packed frame replaces the one that was kept.                               *)
Packed(f) ==
  IF f # NoFrame /\ ~Keeps THEN cached' = f /\ recent' = TRUE
  ELSE UNCHANGED <<cached, recent>>

Sent(c, f) == page' = [page EXCEPT ![c] = [state |-> "on", last |-> f.seq, shown |-> f.pic]]

(* What is sent without its number being remembered.                              *)
Shown(c, pic) == page' = [page EXCEPT ![c] = [@ EXCEPT !.state = "on", !.shown = pic]]

Connect(c) ==
  /\ page[c].state = "off"
  /\ page' = [page EXCEPT ![c] = [Away EXCEPT !.state = "new"]]
  /\ UNCHANGED <<qemu, wire, latest, cached, recent, dump, crossed>>

Leave(c) ==
  /\ page[c].state \in {"new", "on"}
  /\ page' = [page EXCEPT ![c] = Away]
  /\ UNCHANGED <<qemu, wire, latest, cached, recent, dump, crossed>>

(* The first thing a page is sent: the newest frame, or the one that is kept, or  *)
(* when QEMU is not running a dump.                                              *)
Greet(c) ==
  /\ page[c].state = "new"
  /\ LET f == FrameAfter(0)
     IN /\ Packed(f)
        /\ IF f # NoFrame THEN Sent(c, f)
           ELSE IF cached # NoFrame THEN Shown(c, cached.pic)
           ELSE page' = [page EXCEPT ![c].state = IF qemu.up THEN "on" ELSE "dumping"]
  /\ UNCHANGED <<qemu, wire, latest, dump, crossed>>

(* A turn of the loop of _handle_ws.  It turns at least every quarter second,     *)
(* and at once when something was notified.                                      *)
Turn(c) ==
  /\ page[c].state = "on"
  /\ LET f == FrameAfter(page[c].last)
     IN f # NoFrame /\ Packed(f) /\ Sent(c, f)
  /\ UNCHANGED <<qemu, wire, latest, dump, crossed>>

Elapse ==
  /\ recent
  /\ recent' = FALSE
  /\ UNCHANGED <<qemu, wire, latest, cached, page, dump, crossed>>

----------------------------------------------------------------------------
(* dump_ws_frame() *)

Keep(f) == cached' = f

(* QEMU is started; with a frame of it or one that is kept there is nothing to    *)
(* read.                                                                        *)
DumpStart(c) ==
  /\ page[c].state = "dumping" /\ dump.page # c
  /\ \/ /\ ~qemu.up /\ qemu.gen < MaxProcesses
        /\ qemu' = Fresh /\ latest' = NoFrame
        /\ UNCHANGED <<cached, page, dump>>
     \/ /\ qemu.up /\ latest # NoFrame
        /\ Keep(latest) /\ Shown(c, latest.pic)
        /\ UNCHANGED <<qemu, latest, dump>>
     \/ /\ qemu.up /\ latest = NoFrame /\ cached # NoFrame
        /\ Shown(c, cached.pic)
        /\ UNCHANGED <<qemu, latest, cached, dump>>
     \/ /\ qemu.up /\ latest = NoFrame /\ cached = NoFrame
        /\ IF dump = Free
           THEN /\ dump' = [page |-> c, raw |-> NoFrame.pic]
                /\ UNCHANGED <<cached, page>>
           ELSE /\ Keep([seq |-> Clock, pic |-> Placeholder]) /\ Shown(c, Placeholder)
                /\ UNCHANGED dump
        /\ UNCHANGED <<qemu, latest>>
  /\ UNCHANGED <<wire, recent, crossed>>

(* read_display_rgb565_frame: a frame that came meanwhile, or a screendump.        *)
DumpRead ==
  /\ dump # Free /\ dump.raw = NoFrame.pic
  /\ dump' = [dump EXCEPT !.raw = IF latest # NoFrame THEN latest.pic
                                   ELSE IF qemu.up THEN <<qemu.gen, qemu.drawn>>
                                   ELSE Placeholder]
  /\ UNCHANGED <<qemu, wire, latest, cached, recent, page, crossed>>

(* The picture is kept under the number of frames received by now.                *)
DumpNumber == IF dump.raw = Placeholder \/ qemu.count = 0 \/ qemu.count > MaxFrames THEN Clock
              ELSE qemu.count

Crosses == DumpNumber # Clock /\ dump.raw # <<qemu.gen, DumpNumber>>

DumpEnd ==
  /\ dump # Free /\ dump.raw # NoFrame.pic
  /\ Keep([seq |-> DumpNumber, pic |-> dump.raw])
  /\ Shown(dump.page, dump.raw)
  /\ crossed' = (crossed \/ Crosses)
  /\ dump' = Free
  /\ UNCHANGED <<qemu, wire, latest, recent>>

Serve(c) == Greet(c) \/ Turn(c) \/ DumpStart(c)

Next ==
  \/ Draw \/ Exit \/ Restart \/ Reset \/ Elapse
  \/ \E f \in wire : Receive(f)
  \/ \E c \in Pages : Connect(c) \/ Leave(c) \/ Serve(c)
  \/ DumpRead \/ DumpEnd

----------------------------------------------------------------------------
(* Properties *)

On(c) == page[c].state = "on"

(* A page that has the number of the newest frame and a picture of the same      *)
(* process shows that frame, also when several pages share what one of them had *)
(* packed; until a number is given to a picture that is not its own.            *)
NumbersName ==
  ~crossed => \A c \in Pages :
    On(c) /\ latest # NoFrame /\ page[c].last = latest.seq /\ page[c].shown[1] = latest.pic[1]
      => page[c].shown = latest.pic

(* The picture of a page goes back only to another process or to a dump: frames   *)
(* reach it in the order in which they were drawn.                               *)
PicturesForward ==
  \A c \in Pages :
    /\ ~crossed' /\ On(c) /\ page'[c].state = "on"
    /\ page'[c].shown[1] = page[c].shown[1] /\ page[c].shown[1] # 0
    => page'[c].shown[2] >= page[c].shown[2]

(* A page took the newest frame for one it has: it shows one of the same number   *)
(* that another process drew.                                                    *)
Skips(c) == page[c].last = latest.seq /\ page[c].shown[1] # latest.pic[1]

Current(c) == page[c].shown[1] = latest.pic[1] /\ page[c].shown[2] >= latest.seq

(* A frame that was received reaches every page that stays, or a later one does,  *)
(* unless QEMU is started again or a number is used twice.                        *)
Behind(c) == On(c) /\ latest # NoFrame /\ ~Current(c) /\ ~Skips(c) /\ ~crossed
=============================================================================
