------------------------------ MODULE QemuProcess ------------------------------
(***************************************************************************)
(* One QemuProcessBackend of emu/qemu/system.py: the QEMU process, the     *)
(* threads that read what it says, and why it ended; with the safe         *)
(* shutdown of emu/web/frontend_state.py, which believes that reason.      *)
(*                                                                         *)
(* start(), the readers and the record of an exit each hold the backend's  *)
(* lock; stop() lets it go while it waits.  A backend whose process ended  *)
(* is started again, so a thread may meet the process after the one it     *)
(* was for.                                                                *)
(***************************************************************************)
EXTENDS Naturals

CONSTANT MaxProcesses   \* bound on the processes of the backend

VARIABLES
  proc,      \* the process: gen, state, vm, asked (its guest asked to shut down), cause
  open,      \* the sockets that are connected
  qmp,       \* the processes to which a QMP connection was made
  said,      \* what the processes said and no reader has handled, <<gen, what>>
  reason,    \* exit_reason
  stopping,  \* stop_requested
  stopper,   \* the process that a stop() waits for, or 0
  request,   \* the safe shutdown
  late       \* a thread has met a later process than its own, see Late

vars == <<proc, open, qmp, said, reason, stopping, stopper, request, late>>

Sockets == {"hmp", "input"}
Events == {"guest-shutdown", "guest-reset", "host-qmp-quit"}
Marker == "marker"                   \* the line QEMU_BBK_GUEST_SHUTDOWN_MARKER
Reasons == Events \cup {"none", "user-stop", "process-error", "process-exit"}

Running == proc.state = "running"
Ended == proc.state = "ended"

TypeOK ==
  /\ proc \in [gen : 0 .. MaxProcesses, state : {"none", "running", "ended"},
               vm : {"paused", "running"}, asked : BOOLEAN,
               cause : {"none", "guest-shutdown", "guest-reset", "stop", "crash"}]
  /\ open \subseteq Sockets
  /\ qmp \subseteq 1 .. MaxProcesses
  /\ said \subseteq (1 .. MaxProcesses) \X (Events \cup {Marker})
  /\ reason \in Reasons
  /\ stopping \in BOOLEAN /\ late \in BOOLEAN
  /\ stopper \in 0 .. MaxProcesses
  /\ request \in {"idle", "asked", "complete", "failed"}

Init ==
  /\ proc = [gen |-> 0, state |-> "none", vm |-> "paused", asked |-> FALSE, cause |-> "none"]
  /\ open = {} /\ qmp = {} /\ said = {}
  /\ reason = "none" /\ stopping = FALSE /\ stopper = 0
  /\ request = "idle" /\ late = FALSE

----------------------------------------------------------------------------
Uncleared == stopping' = FALSE /\ UNCHANGED reason
Cleared == stopping' = FALSE /\ reason' = "none"

(* Each of the sockets may not be had in time.                                  *)
Connections == SUBSET Sockets

(* The guest waits behind -S; it is let go over the monitor, if that says in time *)
(* that it is paused.                                                          *)
LetGo(o) == IF "hmp" \in o THEN {"paused", "running"} ELSE {"paused"}

(* start(): everything known of the process before is forgotten, but not what its *)
(* readers have still to say.                                                  *)
Start ==
  /\ ~Running /\ proc.gen < MaxProcesses
  /\ \E o \in Connections, q \in SUBSET {proc.gen + 1} : \E v \in LetGo(o) :
       /\ proc' = [gen |-> proc.gen + 1, state |-> "running", vm |-> v,
                   asked |-> FALSE, cause |-> "none"]
       /\ open' = o
       /\ qmp' = qmp \cup q
  /\ Cleared
  /\ UNCHANGED <<said, stopper, request, late>>

----------------------------------------------------------------------------
(* The process itself. *)

Runs == Running /\ proc.vm = "running"

\* hcr.PD of the RTC: the line on stderr, and a request to QEMU's main loop.
GuestAsks ==
  /\ Runs /\ ~proc.asked
  /\ proc' = [proc EXCEPT !.asked = TRUE]
  /\ said' = said \cup {<<proc.gen, Marker>>}
  /\ UNCHANGED <<open, qmp, reason, stopping, stopper, request, late>>

Ends(cause, event) ==
  /\ proc' = [proc EXCEPT !.state = "ended", !.cause = cause]
  /\ said' = IF event # "none" /\ proc.gen \in qmp
             THEN said \cup {<<proc.gen, event>>} ELSE said
  /\ UNCHANGED <<open, qmp, reason, stopping, stopper, request, late>>

Exit ==
  /\ Running
  /\ \/ proc.asked /\ Ends("guest-shutdown", "guest-shutdown")
     \/ Runs /\ Ends("guest-reset", "guest-reset")
     \/ stopping /\ \E event \in {"host-qmp-quit", "none"} : Ends("stop", event)
     \/ Ends("crash", "none")

----------------------------------------------------------------------------
(* Under the lock. *)

\* What a reason of its own is made from, when none has been told.
Made(asked, code) ==
  IF asked THEN "user-stop" ELSE IF code # 0 THEN "process-error" ELSE "process-exit"

Code == IF proc.cause = "crash" THEN {1} ELSE IF proc.cause = "stop" THEN {0, 1} ELSE {0}

\* _record_process_exit_locked.
Remade(r, made) == made
Known(r, made) == IF r = "none" THEN made ELSE r

Record(code) ==
  /\ reason' = Known(reason, Made(stopping, code))
  /\ open' = {}

Recorded == IF Ended THEN \E c \in Code : Record(c) ELSE UNCHANGED <<reason, open>>

\* snapshot(refresh=False)
Snapshot ==
  /\ Recorded
  /\ UNCHANGED <<proc, qmp, said, stopping, stopper, request, late>>

\* refresh(): before an input is sent or a run started.  It lets a paused guest go.
Refresh ==
  /\ Recorded
  /\ \/ UNCHANGED proc
     \/ Running /\ "hmp" \in open /\ proc' = [proc EXCEPT !.vm = "running"]
  /\ UNCHANGED <<qmp, said, stopping, stopper, request, late>>

\* A send fails and the socket is closed.
SendFails ==
  /\ Running /\ "input" \in open
  /\ open' = open \ {"input"}
  /\ UNCHANGED <<proc, qmp, said, reason, stopping, stopper, request, late>>

Late(g) == late' = (late \/ g # proc.gen)

\* _reader has a line, or _qmp_reader an event.
HeardAlways(what) == IF what = Marker THEN "guest-shutdown" ELSE what
Heard(what) == IF stopping THEN reason
               ELSE IF what = Marker THEN "guest-shutdown" ELSE what

Read(g, what) ==
  /\ <<g, what>> \in said
  /\ said' = said \ {<<g, what>>}
  /\ reason' = Heard(what)
  /\ Late(g)
  /\ UNCHANGED <<proc, open, qmp, stopping, stopper, request>>

Reader == \E g \in 1 .. MaxProcesses, what \in Events \cup {Marker} : Read(g, what)

----------------------------------------------------------------------------
(* stop(): it asks, waits without the lock, and records. *)

StopAsk ==
  /\ stopper = 0 /\ proc.gen > 0
  /\ stopper' = proc.gen
  /\ stopping' = (stopping \/ Running)
  /\ UNCHANGED <<proc, open, qmp, said, reason, request, late>>

\* The process is gone.  If another one has been started meanwhile, that one's
\* sockets are closed and a reason is put down for it; closing its job handle
\* ends it where there is one.
StopRecord ==
  /\ stopper # 0
  /\ stopper' = 0
  /\ Late(stopper)
  /\ \/ /\ stopper = proc.gen /\ Ended
        /\ Recorded
        /\ UNCHANGED proc
     \/ /\ stopper # proc.gen
        /\ \E c \in {0, 1} : Record(c)
        /\ \/ UNCHANGED proc
           \/ Running /\ proc' = [proc EXCEPT !.state = "ended", !.cause = "crash"]
  /\ UNCHANGED <<qmp, said, stopping, request>>

\* The process outlived its kill for as long as stop() waits.
StopGivesUp ==
  /\ stopper = proc.gen /\ Running
  /\ stopper' = 0
  /\ UNCHANGED <<proc, open, qmp, said, reason, stopping, request, late>>

----------------------------------------------------------------------------
(* _request_guest_shutdown_locked: the power key has been held, and the process  *)
(* is watched until it ends as it should or the time is up.                    *)

ShutdownAsk ==
  /\ request # "asked" /\ Running
  /\ request' = "asked"
  /\ UNCHANGED <<proc, open, qmp, said, reason, stopping, stopper, late>>

BelievedToo(r) == r \in {"guest-shutdown", "process-exit"}
Believed(r) == r = "guest-shutdown"

ShutdownEnds ==
  /\ request = "asked"
  /\ Recorded
  /\ \/ Ended /\ Believed(reason') /\ request' = "complete"
     \/ (Running \/ ~Believed(reason')) /\ request' = "failed"
  /\ UNCHANGED <<proc, qmp, said, stopping, stopper, late>>

Next ==
  \/ Start \/ GuestAsks \/ Exit
  \/ Snapshot \/ Refresh \/ SendFails
  \/ Reader
  \/ StopAsk \/ StopRecord \/ StopGivesUp
  \/ ShutdownAsk \/ ShutdownEnds

----------------------------------------------------------------------------
(* Properties *)

\* The reason is that of the process it is kept for: a guest shutdown of one whose
\* guest asked for it, a reason of the backend's own making of one that has ended;
\* until a thread meets a later process.
ReasonTrue ==
  ~late =>
    /\ reason = "guest-shutdown" => proc.asked
    /\ reason = "user-stop" => Ended /\ stopping
    /\ reason \in Reasons \ {"none", "guest-shutdown"} => Ended
    /\ reason # "host-qmp-quit"

\* A safe shutdown is complete only if the firmware asked for it and QEMU ended.
Complete ==
  request' = "complete" /\ request = "asked" /\ ~late => proc.asked /\ Ended

\* A process that runs keeps its sockets, but for one whose send failed, unless a
\* stop() of the process before comes in late.
SocketsKept ==
  Running /\ Running' /\ proc'.gen = proc.gen /\ "hmp" \in open =>
    "hmp" \in open' \/ late'

\* A shutdown by the guest is told as such, however the record of the exit, the
\* line and the event fall, unless a stop was asked for or the backend is started again.
Untold ==
  proc.cause = "guest-shutdown" /\ ~stopping /\ reason # "guest-shutdown" /\ ~late
=============================================================================
