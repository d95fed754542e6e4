------------------------- MODULE FrontendLifecycle -------------------------
(***************************************************************************)
(* The Web front end's ownership of the raw NAND image                     *)
(* (emu/web/frontend_state.py, emu/qemu/nand_lock.py, emu/qemu/system.py). *)
(*                                                                         *)
(* Several emulator processes share one host.  Each runs at most one QEMU, *)
(* which writes its image in place, and may itself rewrite that image (the *)
(* file manager, the import at launch).  An advisory OS lock per image,    *)
(* taken without waiting, keeps them apart.                                *)
(*                                                                         *)
(* Inside a process every command runs under one re-entrant lifecycle      *)
(* lock, so a process is in the middle of at most one command: phase says  *)
(* which one and how far.  What moves under it meanwhile is its guest,     *)
(* which may power off, its tick thread, the other processes, and its own  *)
(* input and picture requests: those start an exited backend again and     *)
(* take only the state lock (Wake).                                        *)
(***************************************************************************)
EXTENDS FiniteSets

CONSTANTS
  Emulators,    \* the emulator processes of one host
  Images,       \* the raw NAND files
  None          \* no image, or no owner

ASSUME NoneAssumption == None \notin Emulators \cup Images

VARIABLES
  owner,        \* who holds each image's OS lock
  path,         \* nand_image_lease.path
  spare,        \* the replacement lease of a switch in progress
  image,        \* args.nand_image, the image a reset would run
  config,       \* the image the current backend was configured with
  qemu,         \* the backend's process
  worker,       \* the tick thread is alive
  cancelled,    \* cancel_run is set
  phase,        \* the command in progress
  strayed       \* one of the stray steps has been taken, see Stray

vars == <<owner, path, spare, image, config, qemu, worker, cancelled, phase, strayed>>

leases  == <<owner, path, spare>>
threads == <<worker, cancelled>>

QemuStates == {"none", "new", "running", "exited"}
Switching  == {"switch", "switchonly"}
Phases     == Switching \cup
              {"off", "closed", "idle", "import", "importing", "claim", "mutate",
               "reset", "lease", "start"}

TypeOK ==
  /\ owner \in [Images -> Emulators \cup {None}]
  /\ path \in [Emulators -> Images \cup {None}]
  /\ spare \in [Emulators -> Images \cup {None}]
  /\ image \in [Emulators -> Images \cup {None}]
  /\ config \in [Emulators -> Images \cup {None}]
  /\ qemu \in [Emulators -> QemuStates]
  /\ worker \in [Emulators -> BOOLEAN]
  /\ cancelled \in [Emulators -> BOOLEAN]
  /\ phase \in [Emulators -> Phases]
  /\ strayed \in BOOLEAN

Init ==
  /\ owner = [i \in Images |-> None]
  /\ path = [e \in Emulators |-> None]
  /\ spare = [e \in Emulators |-> None]
  /\ image = [e \in Emulators |-> None]
  /\ config = [e \in Emulators |-> None]
  /\ qemu = [e \in Emulators |-> "none"]
  /\ worker = [e \in Emulators |-> FALSE]
  /\ cancelled = [e \in Emulators |-> FALSE]
  /\ phase = [e \in Emulators |-> "off"]
  /\ strayed = FALSE

Goto(e, p) == phase' = [phase EXCEPT ![e] = p]

Running(e) == qemu[e] = "running"

----------------------------------------------------------------------------
(* The lease: NandImageLease of nand_lock.py. *)

\* The lock is to be had: by path, or because nobody holds it.
BlindLock(e, i) == TRUE
Obtainable(e, i) == path[e] = i \/ owner[i] = None

AcquireOwner(e, i) ==
  /\ Obtainable(e, i)
  /\ owner' = [owner EXCEPT ![i] = i]
  /\ path' = [path EXCEPT ![e] = i]
  /\ UNCHANGED spare

\* acquire() succeeds: the lease is this image's already, or the lock is free
\* and is swapped for the one held before.
Acquire(e, i) ==
  /\ Obtainable(e, i)
  /\ owner' = [j \in Images |-> IF j = i THEN e
                                ELSE IF j = path[e] THEN None ELSE owner[j]]
  /\ path' = [path EXCEPT ![e] = i]
  /\ UNCHANGED spare

\* acquire() raises NandImageInUseError.
AlwaysFree(e, i) == FALSE
InUse(e, i) == path[e] # i /\ owner[i] # None

\* The locks a process holds are dropped when it releases its leases or dies.
Drop(e) ==
  /\ owner' = [i \in Images |-> IF owner[i] = e THEN None ELSE owner[i]]
  /\ path' = [path EXCEPT ![e] = None]
  /\ spare' = [spare EXCEPT ![e] = None]

----------------------------------------------------------------------------
(* Stopping and starting QEMU. *)

\* cancel_run.set() and join(timeout=2.0), which may give up on the thread.
CancelWorker(e) ==
  /\ cancelled' = [cancelled EXCEPT ![e] = TRUE]
  /\ \E left \in {FALSE, worker[e]} : worker' = [worker EXCEPT ![e] = left]

\* The backend's process is gone, whether it was running or not.
Halt(e) == qemu' = [qemu EXCEPT ![e] = IF @ = "running" THEN "exited" ELSE @]

StopThreadOnly(e) == CancelWorker(e) /\ UNCHANGED qemu

\* stop() returns: QEMU was not running, or the firmware shut it down.
StopReturns(e) == Halt(e) /\ CancelWorker(e)

\* stop() raises: the firmware did not answer, or QEMU ended in another way.
StopRaises(e) ==
  /\ Running(e)
  /\ \E end \in {"running", "exited"} : qemu' = [qemu EXCEPT ![e] = end]
  /\ UNCHANGED threads

\* The process is spawned, takes the USB power state and is watched.
Launched(e) ==
  /\ qemu' = [qemu EXCEPT ![e] = "running"]
  /\ worker' = [worker EXCEPT ![e] = TRUE]

\* The process is spawned but does not take the USB power state: it runs on,
\* the caller gives up before it starts the tick thread.
Unanswered(e) ==
  /\ qemu' = [qemu EXCEPT ![e] = "running"]
  /\ UNCHANGED worker

----------------------------------------------------------------------------
(* FrontendState.__init__ *)

Launch(e, i) ==
  /\ phase[e] = "off"
  /\ image' = [image EXCEPT ![e] = i]
  /\ \E p \in {"import", "reset"} : Goto(e, p)
  /\ UNCHANGED <<leases, config, qemu, threads>>

\* The state of a process that is not there.
Vanish(e) ==
  /\ Drop(e)
  /\ image' = [image EXCEPT ![e] = None]
  /\ config' = [config EXCEPT ![e] = None]
  /\ qemu' = [qemu EXCEPT ![e] = "none"]
  /\ worker' = [worker EXCEPT ![e] = FALSE]
  /\ cancelled' = [cancelled EXCEPT ![e] = FALSE]
  /\ Goto(e, "off")

ImportClaim(e) ==
  /\ phase[e] = "import"
  /\ \/ /\ Acquire(e, image[e])
        /\ Goto(e, "importing")
        /\ UNCHANGED <<image, config, qemu, threads>>
     \/ InUse(e, image[e]) /\ Vanish(e)

ImportEnd(e) ==
  /\ phase[e] = "importing"
  /\ \/ Goto(e, "reset") /\ UNCHANGED <<leases, image, config, qemu, threads>>
     \/ Vanish(e)

----------------------------------------------------------------------------
(* set_nand_image() *)

SelectImage(e, i, reset) ==
  /\ phase[e] = "idle"
  /\ \/ /\ path[e] = i
        /\ image' = [image EXCEPT ![e] = i]
        /\ Goto(e, IF reset THEN "reset" ELSE "idle")
        /\ UNCHANGED leases
     \/ /\ path[e] # i
        /\ owner[i] = None
        /\ owner' = [owner EXCEPT ![i] = e]
        /\ spare' = [spare EXCEPT ![e] = i]
        /\ Goto(e, IF reset THEN "switch" ELSE "switchonly")
        /\ UNCHANGED <<path, image>>
  /\ UNCHANGED <<config, qemu, threads>>

\* replacement.release()
ForgetSpare(e) == spare' = [spare EXCEPT ![e] = None] /\ UNCHANGED owner
ReleaseWrong(e) ==
  /\ owner' = [i \in Images |-> IF i = path[e] THEN None ELSE owner[i]]
  /\ spare' = [spare EXCEPT ![e] = None]
ReleaseSpare(e) ==
  /\ owner' = [owner EXCEPT ![spare[e]] = None]
  /\ spare' = [spare EXCEPT ![e] = None]

\* The new image is not valid, or the guest would not stop.
SwitchFails(e) ==
  /\ phase[e] \in Switching
  /\ StopRaises(e) \/ UNCHANGED <<qemu, threads>>
  /\ ReleaseSpare(e)
  /\ Goto(e, "idle")
  /\ UNCHANGED <<path, image, config>>

SwitchSwaps(e) ==
  /\ phase[e] \in Switching
  /\ StopReturns(e)
  /\ owner' = [i \in Images |-> IF i = path[e] THEN None ELSE owner[i]]
  /\ path' = [path EXCEPT ![e] = spare[e]]
  /\ spare' = [spare EXCEPT ![e] = None]
  /\ image' = [image EXCEPT ![e] = spare[e]]
  /\ Goto(e, IF phase[e] = "switch" THEN "reset" ELSE "idle")
  /\ UNCHANGED config

----------------------------------------------------------------------------
(* _mutate_nand_files() *)

Mutate(e) ==
  /\ phase[e] = "idle"
  /\ \/ StopReturns(e) /\ Goto(e, "claim")
     \/ StopRaises(e) /\ UNCHANGED phase
  /\ UNCHANGED <<leases, image, config>>

MutateClaim(e) ==
  /\ phase[e] = "claim"
  /\ \/ Acquire(e, image[e]) /\ Goto(e, "mutate")
     \/ InUse(e, image[e]) /\ Goto(e, "idle") /\ UNCHANGED leases
  /\ UNCHANGED <<image, config, qemu, threads>>

\* Both a successful and a failed mutation end in reset().
MutateEnd(e) ==
  /\ phase[e] = "mutate"
  /\ Goto(e, "reset")
  /\ UNCHANGED <<leases, image, config, qemu, threads>>

----------------------------------------------------------------------------
(* reset() *)

Reset(e) ==
  /\ phase[e] = "idle"
  /\ Goto(e, "reset")
  /\ UNCHANGED <<leases, image, config, qemu, threads>>

\* The old guest is shut down, or its QEMU told to quit when that fails.
ResetStop(e) ==
  /\ phase[e] = "reset"
  /\ StopReturns(e)
  /\ Goto(e, "lease")
  /\ UNCHANGED <<leases, image, config>>

\* A command whose lock is another's just fails; __init__ gives everything
\* back.
ResetLease(e) ==
  /\ phase[e] = "lease"
  /\ \/ /\ Acquire(e, image[e])
        /\ Goto(e, "start")
        /\ UNCHANGED <<image, config, qemu, threads>>
     \/ /\ qemu[e] # "none"
        /\ InUse(e, image[e])
        /\ Goto(e, "idle")
        /\ UNCHANGED <<leases, image, config, qemu, threads>>
     \/ /\ qemu[e] = "none"
        /\ InUse(e, image[e])
        /\ Vanish(e)

\* The lock is taken, and the migration of a legacy checkpoint fails.
MigrationFails(e) ==
  /\ phase[e] = "lease"
  /\ \/ /\ qemu[e] # "none"
        /\ Acquire(e, image[e])
        /\ Goto(e, "idle")
        /\ UNCHANGED <<image, config, qemu, threads>>
     \/ /\ qemu[e] = "none"
        /\ Vanish(e)

ResetStart(e) ==
  /\ phase[e] = "start"
  /\ cancelled' = [cancelled EXCEPT ![e] = FALSE]
  /\ config' = [config EXCEPT ![e] = image[e]]
  /\ \/ Launched(e)
     \/ Unanswered(e)
     \/ qemu' = [qemu EXCEPT ![e] = "new"] /\ UNCHANGED worker
  /\ Goto(e, "idle")
  /\ UNCHANGED <<leases, image>>

----------------------------------------------------------------------------
(* run_start(), stop(), force_stop(), close() *)

\* An exited backend is started again as it was configured; one that never
\* ran is left alone.  cancel_run stays as it was.
RunStart(e) ==
  /\ phase[e] = "idle"
  /\ \/ qemu[e] = "exited" /\ (Launched(e) \/ Unanswered(e))
     \/ /\ qemu[e] \in {"new", "running"}
        /\ worker' = [worker EXCEPT ![e] = TRUE]
        /\ UNCHANGED qemu
  /\ UNCHANGED <<leases, image, config, cancelled, phase>>

\* A key, a touch, a USB switch or a picture asked for while a command is
\* halfway, or after close(): the exited backend is started as it was
\* configured, without the lifecycle lock.  A QEMU that reset() then replaces
\* is left running and no longer followed here.
Wake(e) ==
  /\ phase[e] # "idle"
  /\ qemu[e] = "exited"
  /\ Launched(e) \/ Unanswered(e)
  /\ UNCHANGED <<leases, image, config, cancelled, phase>>

Stop(e) ==
  /\ phase[e] = "idle"
  /\ StopReturns(e) \/ StopRaises(e)
  /\ UNCHANGED <<leases, image, config, phase>>

ForceStop(e) ==
  /\ phase[e] = "idle"
  /\ cancelled' = [cancelled EXCEPT ![e] = TRUE]
  /\ Halt(e)
  /\ UNCHANGED <<leases, image, config, worker, phase>>

\* stop(), or force_stop() when that raises, and the lease is given up.  A
\* request that waits for the lifecycle lock meanwhile is served afterwards.
Close(e, late) ==
  /\ phase[e] = "idle"
  /\ StopReturns(e)
  /\ Drop(e)
  /\ Goto(e, IF late THEN "idle" ELSE "closed")
  /\ UNCHANGED <<image, config>>

----------------------------------------------------------------------------
(* What happens by itself. *)

\* The guest powers off, or QEMU ends in another way.
GuestExit(e) ==
  /\ Running(e)
  /\ Halt(e)
  /\ UNCHANGED <<leases, image, config, threads, phase>>

\* A turn of the tick thread that ends it.
WorkerTick(e) ==
  /\ worker[e]
  /\ cancelled[e] \/ ~Running(e)
  /\ worker' = [worker EXCEPT ![e] = FALSE]
  /\ UNCHANGED <<leases, image, config, qemu, cancelled, phase>>

\* The process ends or is killed.  The host drops its locks, and the
\* kill-on-close job takes its QEMU with it.
Die(e) == phase[e] # "off" /\ Vanish(e)

\* What the thread holding the lifecycle lock does next.
Proceed(e) ==
  \/ ImportClaim(e) \/ ImportEnd(e)
  \/ SwitchFails(e) \/ SwitchSwaps(e)
  \/ MutateClaim(e) \/ MutateEnd(e)
  \/ ResetStop(e) \/ ResetLease(e) \/ ResetStart(e)

Command(e) ==
  \/ \E i \in Images : Launch(e, i) \/ SelectImage(e, i, TRUE)
  \/ Mutate(e) \/ Reset(e) \/ RunStart(e)
  \/ Stop(e) \/ ForceStop(e) \/ Close(e, FALSE)

Ordinary(e) ==
  Command(e) \/ Proceed(e) \/ GuestExit(e) \/ WorkerTick(e) \/ Die(e)

\* The steps after which a process may run QEMU without its lock, or under a
\* command that has just stopped it: set-nand-image with reset=false, a failing
\* migration, a command served after close(), a request in the middle of a
\* command.
Stray(e) ==
  \/ \E i \in Images : SelectImage(e, i, FALSE)
  \/ MigrationFails(e)
  \/ Close(e, TRUE)
  \/ Wake(e)

Next ==
  \E e \in Emulators :
    \/ Ordinary(e) /\ UNCHANGED strayed
    \/ Stray(e) /\ strayed' = TRUE

Spec == Init /\ [][Next]_vars

----------------------------------------------------------------------------
(* Properties *)

\* No image is open in two emulators: README.md says two of them cannot open
\* the same NAND, because a second QEMU would write the file under the first.
Exclusive ==
  \A e, f \in Emulators :
    e # f /\ Running(e) /\ Running(f) => config[e] # config[f]

\* A QEMU only ever runs on the image its own process has locked.
RunsLeased == \A e \in Emulators : Running(e) => path[e] = config[e]

\* Until a stray step is taken, no QEMU runs unleased and no image is open in
\* two emulators, whatever the commands are and wherever they fail.
ServiceExclusive == ~strayed => RunsLeased /\ Exclusive

\* Until then, a process that overwrites an image (an import, a file-manager
\* change) holds that image's lock, its own QEMU is down and no other one is
\* on it.
OverwritesAlone ==
  ~strayed => \A e \in Emulators : phase[e] \in {"importing", "mutate"} =>
    /\ owner[image[e]] = e
    /\ ~Running(e)
    /\ \A f \in Emulators : Running(f) => config[f] # image[e]

\* The locks the host holds for a process are those its leases name, whatever
\* failed on the way: none is leaked by a failed switch, none is believed held
\* that is not.
LocksAreLeases ==
  \A e \in Emulators, i \in Images : owner[i] = e <=> i \in {path[e], spare[e]}

\* Until then, QEMU is down whenever its process trades one lease for another,
\* so that there is never a guest writing an image whose lock was just given
\* away.
TradesStopped ==
  [][\A e \in Emulators : ~strayed' /\ path'[e] # path[e] => qemu'[e] # "running"]_vars

\* No image is overwritten while the process that does it runs QEMU: the docs
\* have one lifecycle lock serialise stopping, changing files and restarting.
StoppedWhileChanged ==
  \A e \in Emulators : phase[e] \in {"importing", "mutate"} => ~Running(e)

\* A switch of images that fails leaves everything where it was: the old lease
\* held, the old image selected, the new one free again.
FailedSwitchKeeps ==
  \A e \in Emulators :
       phase[e] \in Switching /\ phase'[e] = "idle" /\ path'[e] # spare[e] =>
         /\ <<path'[e], image'[e], config'[e]>> = <<path[e], image[e], config[e]>>
         /\ path[e] # None => owner'[path[e]] = e
         /\ owner'[spare[e]] # e

\* A command is in progress.  None waits for another process: see MCHost.Delivered.
Busy(e) == phase[e] \notin {"off", "idle", "closed"}
=============================================================================
