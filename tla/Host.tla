-------------------------------- MODULE Host --------------------------------
(***************************************************************************)
(* The front end on its host.  A behaviour is one of one unit: the         *)
(* lifecycle of several emulators ("life"), or one emulator's keys,        *)
(* pictures, sound, QEMU process or debugger, which hold nothing in common *)
(* but the process that each of them models for itself.                    *)
(***************************************************************************)
EXTENDS FrontendLifecycle, Naturals, Sequences

CONSTANTS
  Presses, Power,                    \* WebKeys
  MaxFrames,                         \* WebFrames
  Depth, Batch, MaxPackets,          \* WebAudio
  MaxProcesses,                      \* WebFrames, QemuProcess
  Values, Kinds, MaxPipe, MaxSlow    \* GdbSession

ASSUME HostAssumption ==
  /\ MaxFrames \in Nat /\ MaxProcesses \in Nat /\ MaxProcesses > 0
  /\ Depth \in Nat /\ Batch \in Nat /\ Batch > 0 /\ MaxPackets \in Nat
  /\ MaxPipe \in Nat /\ MaxSlow \in Nat

VARIABLES
  unit,
  keyLeases, ripe, active, keyQemu, wish, shut, from, pages,         \* WebKeys
  frameQemu, wire, latest, cached, recent, page, dump, crossed,      \* WebFrames
  packets, delivered, dropped, listener,                             \* WebAudio
  proc, open, qmp, said, reason, stopping, stopper, request, late,   \* QemuProcess
  vm, sent, pipe, op, slow                                           \* GdbSession

keysVars == <<keyLeases, ripe, active, keyQemu, wish, shut, from, pages>>
framesVars == <<frameQemu, wire, latest, cached, recent, page, dump, crossed>>
audioVars == <<packets, delivered, dropped, listener>>
processVars == <<proc, open, qmp, said, reason, stopping, stopper, request, late>>
debuggerVars == <<vm, sent, pipe, op, slow>>
hostVars == <<unit, vars, keysVars, framesVars, audioVars, processVars, debuggerVars>>

Units == {"life", "keys", "frames", "audio", "process", "debugger"}

(* The pages bear the names of the emulators (a unit of pages has only one emulator). *)
Browsers == Emulators

Keys == INSTANCE WebKeys WITH
  Pages <- Browsers, leases <- keyLeases, qemu <- keyQemu

Frames == INSTANCE WebFrames WITH Pages <- Browsers, qemu <- frameQemu

Audio == INSTANCE WebAudio WITH Pages <- Browsers

Process == INSTANCE QemuProcess

Debugger == INSTANCE GdbSession

(* The pc of a call's function is none of the values that stand for other pcs.    *)
ASSUME DebuggerAssumption ==
  /\ Kinds \subseteq {"read", "write", "call", "watch", "watches", "trace"}
  /\ Debugger!Fn \notin Values

----------------------------------------------------------------------------
(* The units that do not run are in one state each.                              *)
OneValue == CHOOSE v \in Values : TRUE

HostInit ==
  /\ unit \in Units
  /\ Init /\ Keys!Init /\ Frames!Init /\ Audio!Init /\ Process!Init /\ Debugger!Init
  /\ unit # "keys" => ~keyQemu.sock
  /\ unit # "debugger" => vm.pc = OneValue /\ vm.reg = OneValue

Only(u) ==
  /\ unit = u /\ UNCHANGED unit
  /\ IF u = "life" THEN TRUE ELSE UNCHANGED vars
  /\ IF u = "keys" THEN TRUE ELSE UNCHANGED keysVars
  /\ IF u = "frames" THEN TRUE ELSE UNCHANGED framesVars
  /\ IF u = "audio" THEN TRUE ELSE UNCHANGED audioVars
  /\ IF u = "process" THEN TRUE ELSE UNCHANGED processVars
  /\ IF u = "debugger" THEN TRUE ELSE UNCHANGED debuggerVars

HostNext ==
  \/ Only("life") /\ Next
  \/ Only("keys") /\ Keys!Next
  \/ Only("frames") /\ Frames!Next
  \/ Only("audio") /\ Audio!Next
  \/ Only("process") /\ Process!Next
  \/ Only("debugger") /\ Debugger!Next

(* What goes on by itself: the steps of a command (every wait of one has a         *)
(* timeout), snapshots for the pages that are connected and the time of a lease,   *)
(* the time a picture takes and the loop that serves each page, the threads that   *)
(* read what QEMU says.  Only the unit that runs has anything to do.              *)
HostFairness ==
  /\ \A e \in Emulators : WF_vars(unit = "life" /\ Proceed(e) /\ UNCHANGED strayed)
  /\ WF_keysVars(unit = "keys" /\ Keys!Snapshot)
  /\ \A l \in Presses : WF_keysVars(unit = "keys" /\ Keys!Ripen(l))
  /\ WF_framesVars(unit = "frames" /\ Frames!Elapse)
  /\ \A c \in Browsers : WF_framesVars(unit = "frames" /\ Frames!Serve(c))
  /\ WF_processVars(unit = "process" /\ Process!Reader)

HostSpec == HostInit /\ [][HostNext]_hostVars /\ HostFairness

----------------------------------------------------------------------------
(* The types of the sessions. *)
SessionTypes ==
  CASE unit = "life"     -> TypeOK
    [] unit = "keys"     -> Keys!TypeOK
    [] unit = "frames"   -> Frames!TypeOK
    [] unit = "audio"    -> Audio!TypeOK
    [] unit = "process"  -> Process!TypeOK
    [] unit = "debugger" -> Debugger!TypeOK

(* What the front end keeps of a session agrees with itself: the active keys with  *)
(* the leases, a page's picture with its number, a batch of sound with what was   *)
(* sent before it, the reason of an exit with the process it is kept for.         *)
SessionsAgree ==
  /\ unit = "keys" => Keys!LeasedActive
  /\ unit = "frames" => Frames!NumbersName
  /\ unit = "audio" => Audio!BatchesFollow
  /\ unit = "process" => Process!ReasonTrue

(* A switch that fails changes nothing; and what QEMU holds parts from what the     *)
(* pages see in the known ways only: a key, the USB power, a picture, sound, the    *)
(* end of a safe shutdown, what a debugger reads.                                  *)
SessionSteps ==
  [][/\ unit = "life" => FailedSwitchKeeps
     /\ unit = "keys" => /\ Keys!OnlyInterrupted /\ Keys!RenewalsNeverHeal
                         /\ Keys!HoldKept /\ Keys!UsbFollows
     /\ unit = "frames" => Frames!PicturesForward
     /\ unit = "audio" => Audio!CatchesUp
     /\ unit = "process" => Process!Complete /\ Process!SocketsKept
     /\ unit = "debugger" => Debugger!ReadsTrue /\ Debugger!LeavesOrder]_hostVars

(* What somebody waits for comes: the answer to a command, the end of the lease of *)
(* a page that is gone, the newest picture, the reason of a shutdown by the guest. *)
Awaits(i) ==
  CASE unit = "life"    -> Busy(i)
    [] unit = "keys"    -> Keys!Orphan(i) /\ pages # {}
    [] unit = "frames"  -> Frames!Behind(i)
    [] unit = "process" -> Process!Untold
    [] OTHER            -> FALSE

Delivered == \A i \in Emulators : Awaits(i) ~> ~Awaits(i)
=============================================================================
