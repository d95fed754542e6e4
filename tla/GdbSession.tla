------------------------------ MODULE GdbSession ------------------------------
(***************************************************************************)
(* The debugger side of QemuProcessBackend (emu/qemu/system.py): reading   *)
(* and writing the guest, calling one of its functions and watching its    *)
(* memory through QEMU's GDB stub.                                         *)
(*                                                                         *)
(* Each operation holds the backend's lock: it interrupts the guest, does  *)
(* its exchanges, and finally lets the guest go.  Every answer is waited   *)
(* for with a timeout; one that comes later stays in the stream, and the   *)
(* next exchange meets it.  The stream is of acknowledgements, packets     *)
(* and what is left of a packet whose first byte was taken for one.        *)
(*                                                                         *)
(* The stub is QEMU's own: any byte stops a running guest and does nothing *)
(* more, and only a stopped guest takes packets.                           *)
(***************************************************************************)
EXTENDS Naturals, Sequences

CONSTANTS
  Values,   \* of a register
  Kinds,    \* the operations: read, write, call, watch, watches, trace
  MaxPipe,  \* bound on what is left in the stream when the guest is let go
  MaxSlow   \* bound on the answers that come too late

VARIABLES
  vm,      \* the guest: runs, heard (its stop will be told), pc, reg, watched
  sent,    \* what the stub has still to read, with the pc to give back
  pipe,    \* what the backend has still to read
  op,      \* the operation, see Resting
  slow     \* answers that came too late

vars == <<vm, sent, pipe, op, slow>>

(* Exchanges: the interrupt; p or m, whose failure is swallowed or not (peek, read) *)
(* or whose answer is kept (save); P or M; the P of a call that sets the pc and the *)
(* one that gives it back; s; Z and z; a c whose stop is waited for; the last c.   *)
Asking == {"peek", "read", "save"}
Telling == {"write", "take", "give", "set", "clear"}
Exchanges == Asking \cup Telling \cup {"int", "step", "wait", "go"}

Fn == "function"                      \* the pc during a call
Packets == {"stop", "ok", Fn} \cup Values
Tokens == {"+", "junk"} \cup Packets

ReadBody == <<"int", "read">>
WriteBody == <<"int", "write">>
CallBody == <<"int", "save", "take", "step", "read">>
WatchBody == <<"int", "set", "wait", "peek", "read">>
WatchesBody == <<"int", "set", "wait", "peek", "clear", "step", "set", "wait", "read">>
TraceBody == <<"int", "set", "wait", "read", "clear", "step", "set">>

Body(kind) ==
  CASE kind = "read"  -> ReadBody
    [] kind = "write" -> WriteBody
    [] kind = "call"  -> CallBody
    [] kind = "watch" -> WatchBody
    [] kind = "watches" -> WatchesBody
    [] kind = "trace" -> TraceBody

(* kind; todo, the exchanges to come; at, the one that is on; for, what it waits   *)
(* for; last, whether the finally blocks are reached; undo, what they have to do;  *)
(* saved, the pc; got, the value it read; told, whether it left an error; clean,   *)
(* whether it found everything in order and passed over nothing.                  *)
Resting == [kind |-> "none", todo |-> <<>>, at |-> "none", for |-> "none", last |-> FALSE,
            undo |-> "nothing", saved |-> "none", got |-> "none", told |-> FALSE, clean |-> FALSE]

TypeOK ==
  /\ vm \in [runs : BOOLEAN, heard : BOOLEAN, pc : Values \cup {Fn}, reg : Values,
             watched : BOOLEAN]
  /\ sent \in Seq(Exchanges \X (Values \cup {"none", Fn})) /\ pipe \in Seq(Tokens)
  /\ op.kind \in Kinds \cup {"none"} /\ op.at \in Exchanges \cup {"none"}
  /\ op.for \in {"none", "ack", "packet"}
  /\ op.undo \in {"nothing", "clear", "give"}
  /\ op.got \in Values \cup {"none", Fn} /\ op.saved \in Values \cup {"none", Fn}
  /\ slow \in 0 .. MaxSlow

Init ==
  /\ vm \in [runs : {TRUE}, heard : {TRUE}, pc : Values, reg : Values, watched : {FALSE}]
  /\ sent = <<>> /\ pipe = <<>>
  /\ op = Resting
  /\ slow = 0

----------------------------------------------------------------------------
(* The stub. *)

Says(ts) == pipe' = pipe \o ts

\* A stop is told if a c or an s came from here; when the other monitor had let
\* the guest go that is for the stub to say.
Stops == /\ vm' = [vm EXCEPT !.runs = FALSE]
         /\ \E ts \in {<<"stop">>} \cup IF vm.heard THEN {} ELSE {<<>>} : Says(ts)

Told(x, saved) ==
  CASE x = "take"  -> [vm EXCEPT !.pc = Fn]
    [] x = "give"  -> [vm EXCEPT !.pc = saved]
    [] x = "set"   -> [vm EXCEPT !.watched = TRUE]
    [] x = "clear" -> [vm EXCEPT !.watched = FALSE]
    [] OTHER       -> vm

\* The guest moves on; in a call it is the function that runs.
Moves(runs) ==
  \E v, w \in Values :
    vm' = [vm EXCEPT !.runs = runs, !.heard = TRUE, !.reg = v,
                     !.pc = IF @ = Fn THEN Fn ELSE w]

Take ==
  /\ sent # <<>>
  /\ sent' = Tail(sent)
  /\ LET x == Head(sent)[1]
     IN IF vm.runs THEN Stops
        ELSE \/ x = "int" /\ UNCHANGED <<vm, pipe>>
             \/ x = "read" /\ Says(<<"+", vm.reg>>) /\ UNCHANGED vm
             \/ x \in {"peek", "save"} /\ Says(<<"+", vm.pc>>) /\ UNCHANGED vm
             \/ x \in Telling /\ Says(<<"+", "ok">>) /\ vm' = Told(x, Head(sent)[2])
             \/ x = "step" /\ Says(<<"+", "stop">>) /\ Moves(FALSE)
             \/ x \in {"wait", "go"} /\ Says(<<"+">>) /\ Moves(TRUE)
  /\ UNCHANGED <<op, slow>>

\* The guest writes what is watched.
Hit ==
  /\ vm.runs /\ vm.watched
  /\ Stops
  /\ UNCHANGED <<sent, op, slow>>

\* refresh() finds the guest paused and lets it go over the other monitor.
Refresh ==
  /\ op.kind = "none" /\ ~vm.runs /\ Len(pipe) < MaxPipe
  /\ vm' = [vm EXCEPT !.runs = TRUE, !.heard = FALSE]
  /\ UNCHANGED <<sent, pipe, op, slow>>

----------------------------------------------------------------------------
(* An operation. *)

InOrder == vm.runs /\ sent = <<>> /\ pipe = <<>> /\ ~vm.watched /\ vm.pc # Fn

Begin(kind) ==
  /\ op.kind = "none"
  /\ op' = [Resting EXCEPT !.kind = kind, !.todo = Body(kind), !.clean = InOrder]
  /\ UNCHANGED <<vm, sent, pipe, slow>>

Send ==
  /\ op.kind # "none" /\ op.at = "none" /\ op.todo # <<>>
  /\ LET x == Head(op.todo)
     IN /\ sent' = Append(sent, <<x, op.saved>>)
        /\ op' = [op EXCEPT !.at = x, !.todo = Tail(@),
                            !.for = IF x = "int" THEN "packet" ELSE "ack"]
  /\ UNCHANGED <<vm, pipe, slow>>

Return ==
  /\ op.kind # "none" /\ op.at = "none" /\ op.todo = <<>>
  /\ op' = Resting
  /\ UNCHANGED <<vm, sent, pipe, slow>>

\* The finally blocks: what was set is cleared, or what was saved given back, and
\* the guest is let go.
Release(undo) == <<"go">>
Cleanup(undo) == IF undo = "nothing" THEN <<"go">> ELSE <<undo, "go">>

Rest(o) == [o EXCEPT !.at = "none", !.for = "none"]

Finally(o, first) == [Rest(o) EXCEPT !.last = TRUE, !.todo = first \o Cleanup(o.undo)]

\* A watch that ran out of time, a trace only when it waited for a breakpoint,
\* interrupts the guest before anything else.
Interrupts(o) == o.kind \in {"watch", "watches"} \/ (o.kind = "trace" /\ o.at = "wait")

\* A pc that a watch does not get is passed over in silence, and what it reads next
\* may be that pc; so is a breakpoint that a trace does not get rid of at last.
Silent(o) == o.at = "peek" \/ (o.kind = "trace" /\ o.last /\ o.at = "clear")

\* A failure ends the body.  In the finally blocks the next one is gone on to.
Fail(o, timeout) ==
  IF Silent(o) THEN [Rest(o) EXCEPT !.clean = FALSE]
  ELSE IF o.last THEN [Rest(o) EXCEPT !.told = TRUE]
  ELSE [Finally(o, IF timeout /\ Interrupts(o) THEN <<"int">> ELSE <<>>)
          EXCEPT !.told = TRUE]

\* What was answered.  The answers to Z and z in the middle of a watch go unread.
Good(x, p) ==
  CASE x \in Asking -> p \in Values \cup {Fn}
    [] x \in {"write", "take", "give"} -> p = "ok"
    [] x = "set" -> p = "ok" \/ op.undo = "clear"
    [] x = "clear" -> p = "ok" \/ op.kind # "trace"
    [] OTHER -> TRUE

Undone(o) ==
  CASE o.at = "set"  -> "clear"
    [] o.at = "clear" /\ o.kind = "trace" -> "nothing"
    [] o.at = "save" -> "give"
    [] OTHER         -> o.undo

Kept(o, p) ==
  CASE o.at = "read" -> [o EXCEPT !.got = p]
    [] o.at = "save" -> [o EXCEPT !.saved = p]
    [] OTHER         -> o

Succeed(o, p) ==
  LET n == [Kept(o, p) EXCEPT !.undo = Undone(o)]
  IN IF n.todo = <<>> /\ ~n.last THEN Finally(n, <<>>) ELSE Rest(n)

\* recv(1) for the acknowledgement: what is not one is an error, and loses a packet
\* its first byte.
Ack ==
  /\ op.for = "ack" /\ pipe # <<>>
  /\ IF Head(pipe) = "+"
     THEN /\ pipe' = Tail(pipe)
          /\ op' = IF op.at = "go" THEN Rest(op) ELSE [op EXCEPT !.for = "packet"]
     ELSE /\ pipe' = [pipe EXCEPT ![1] = "junk"]
          /\ op' = Fail(op, FALSE)
  /\ UNCHANGED <<vm, sent, slow>>

IsPacket(t) == t \in Packets
Ahead == {i \in 1 .. Len(pipe) : IsPacket(pipe[i])}
First == CHOOSE i \in Ahead : \A j \in Ahead : i <= j

\* _gdb_read_packet skips what comes before the packet, whichever it answers.
Packet ==
  /\ op.for = "packet" /\ Ahead # {}
  /\ pipe' = SubSeq(pipe, First + 1, Len(pipe))
  /\ op' = IF Good(op.at, pipe[First]) THEN Succeed(op, pipe[First]) ELSE Fail(op, FALSE)
  /\ UNCHANGED <<vm, sent, slow>>

\* An answer is late, or there is none to come: the guest does not come to a stop,
\* or it was stopped when it was interrupted.
Timeout ==
  /\ (op.for = "ack" /\ pipe = <<>>) \/ (op.for = "packet" /\ Ahead = {})
  /\ \/ sent # <<>> /\ slow < MaxSlow /\ slow' = slow + 1
     \/ sent = <<>> /\ UNCHANGED slow
  /\ pipe' = <<>>
  /\ op' = Fail(op, TRUE)
  /\ UNCHANGED <<vm, sent>>

Next ==
  \/ Take \/ Hit \/ Refresh
  \/ \E kind \in Kinds : Begin(kind)
  \/ Send \/ Ack \/ Packet \/ Timeout \/ Return

----------------------------------------------------------------------------
(* Properties *)

\* An operation that finds a guest that runs and nothing left in the stream reads
\* what the register holds in this very pause, however late its answers are.
ReadsTrue ==
  op.clean /\ op'.got # op.got /\ op'.got # "none" => ~vm.runs /\ op'.got = vm.reg

\* Such an operation leaves everything as it found it, or an error: no value of the
\* guest's pc lost, no watchpoint set, no guest stopped and nothing in the stream.
LeavesOrder ==
  op.clean /\ ~op.told /\ op'.kind = "none" /\ op.kind # "none" => InOrder
=============================================================================
