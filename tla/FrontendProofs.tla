--------------------------- MODULE FrontendProofs ---------------------------
(***************************************************************************)
(* Proofs about the front end on its host.  First FrontendLifecycle:       *)
(* whatever the commands do and wherever they fail, and for any number of  *)
(* processes and images, until a stray step is taken a QEMU runs only on   *)
(* the image its process has locked, so no image is open in two emulators  *)
(* and none is overwritten under a guest.  Then an invariant of each of    *)
(* the sessions of a process (keys, pictures, sound, QEMU itself, the      *)
(* debugger) and what follows from it, and last the host they make up.     *)
(***************************************************************************)
EXTENDS Host, SequenceTheorems, WellFoundedInduction, FiniteSetTheorems, TLAPS

----------------------------------------------------------------------------
(* The inductive invariant.  Base holds whatever steps are taken; Service  *)
(* holds until one of the stray ones is.                                   *)

SettledPhases == Switching \cup {"idle"}
UpPhases      == SettledPhases \cup {"reset"}
WorkPhases    == {"reset", "lease", "claim"}

\* A spare lease exists only during a switch, for an image other than the
\* current one.
Spares ==
  \A e \in Emulators :
    IF phase[e] \in Switching THEN spare[e] \in Images \ {path[e]}
    ELSE spare[e] = None

\* Until a stray step QEMU is up only between commands, before a switch commits
\* or before reset() has stopped it.
Up == ~strayed => \A e \in Emulators : Running(e) => phase[e] \in UpPhases

\* A process has selected an image from launch on.
Selected == \A e \in Emulators : phase[e] # "off" => image[e] \in Images

Base ==
  /\ TypeOK
  /\ LocksAreLeases
  /\ Spares
  /\ Up
  /\ Selected

\* Between commands, and until a switch commits, the lease, the selected image
\* and the image of the backend are one.
Settled ==
  \A e \in Emulators : phase[e] \in SettledPhases =>
    /\ qemu[e] # "none"
    /\ path[e] = image[e]
    /\ qemu[e] \in {"running", "exited"} => path[e] = config[e]

\* A command in progress has the lease of the selected image, except at launch
\* until it is first taken.
Leased ==
  \A e \in Emulators :
    /\ phase[e] \in WorkPhases /\ qemu[e] # "none" => path[e] = image[e]
    /\ phase[e] \in {"importing", "mutate", "start"} => path[e] = image[e]

\* There is a backend once the first reset is over, and every switch goes on to
\* a reset.
Steady ==
  \A e \in Emulators :
    /\ phase[e] \in {"claim", "mutate"} => qemu[e] # "none"
    /\ phase[e] \in {"off", "import", "importing"} => qemu[e] = "none"
    /\ phase[e] # "switchonly"

Service ==
  /\ Settled
  /\ Leased
  /\ RunsLeased
  /\ Steady

----------------------------------------------------------------------------
(* What the operations the actions share do to the type invariant *)

\* Stopping a backend leaves it in a state of a backend.
LEMMA HaltType ==
  ASSUME TypeOK, NEW e \in Emulators, Halt(e)
  PROVE  qemu' \in [Emulators -> QemuStates]
BY DEF TypeOK, Halt, QemuStates

\* Cancelling the tick thread, whether the join succeeds or gives up.
LEMMA CancelType ==
  ASSUME TypeOK, NEW e \in Emulators, CancelWorker(e)
  PROVE  /\ worker' \in [Emulators -> BOOLEAN]
         /\ cancelled' \in [Emulators -> BOOLEAN]
<1>1. PICK left \in {FALSE, worker[e]} : worker' = [worker EXCEPT ![e] = left]
  BY DEF CancelWorker
<1>2. left \in BOOLEAN
  BY <1>1 DEF TypeOK
<1>3. worker' \in [Emulators -> BOOLEAN]
  BY <1>1, <1>2 DEF TypeOK
<1>4. cancelled' \in [Emulators -> BOOLEAN]
  BY DEF TypeOK, CancelWorker
<1> QED BY <1>3, <1>4

\* Both outcomes of a guest shutdown.
LEMMA StopType ==
  ASSUME TypeOK, NEW e \in Emulators, StopReturns(e) \/ StopRaises(e)
  PROVE  /\ qemu' \in [Emulators -> QemuStates]
         /\ worker' \in [Emulators -> BOOLEAN]
         /\ cancelled' \in [Emulators -> BOOLEAN]
<1>1. CASE StopReturns(e)
  BY <1>1, HaltType, CancelType DEF StopReturns
<1>2. CASE StopRaises(e)
  BY <1>2 DEF StopRaises, TypeOK, QemuStates, threads
<1> QED BY <1>1, <1>2

\* Taking a lease, and giving every lease up.
LEMMA LeaseType ==
  ASSUME TypeOK, NEW e \in Emulators,
         Drop(e) \/ (\E i \in Images : Acquire(e, i)) \/ UNCHANGED leases
  PROVE  /\ owner' \in [Images -> Emulators \cup {None}]
         /\ path' \in [Emulators -> Images \cup {None}]
         /\ spare' \in [Emulators -> Images \cup {None}]
<1>1. CASE Drop(e)
  BY <1>1 DEF Drop, TypeOK
<1>2. CASE \E i \in Images : Acquire(e, i)
  BY <1>2 DEF Acquire, TypeOK
<1>3. CASE UNCHANGED leases
  BY <1>3 DEF leases, TypeOK
<1> QED BY <1>1, <1>2, <1>3

\* A process that is gone leaves the state of one that never was.
LEMMA VanishType ==
  ASSUME TypeOK, NEW e \in Emulators, Vanish(e), strayed' \in BOOLEAN
  PROVE  TypeOK'
BY LeaseType DEF Vanish, Goto, TypeOK, QemuStates, Phases

\* Starting a backend, with or without its tick thread.
LEMMA StartType ==
  ASSUME TypeOK, NEW e \in Emulators, Launched(e) \/ Unanswered(e)
  PROVE  /\ qemu' \in [Emulators -> QemuStates]
         /\ worker' \in [Emulators -> BOOLEAN]
BY DEF Launched, Unanswered, TypeOK, QemuStates

----------------------------------------------------------------------------
(* The invariant is inductive *)

\* Every step keeps the part of the invariant that no command can break.
LEMMA BaseStep ==
  ASSUME Base, NEW e \in Emulators,
         (Ordinary(e) /\ UNCHANGED strayed) \/ (Stray(e) /\ strayed' = TRUE),
         strayed' \in BOOLEAN, strayed => strayed'
  PROVE  Base'
<1> USE NoneAssumption
<1>1. ASSUME NEW i \in Images, Launch(e, i)
     PROVE  Base'
  <2>1. TypeOK'
    BY <1>1 DEF Base, TypeOK, Selected, Spares, Launch, Goto,
      Phases, Switching, QemuStates, leases, threads
  <2>2. LocksAreLeases'
    BY <1>1 DEF Base, TypeOK, LocksAreLeases, Spares,
      leases, Launch
  <2>3. Spares'
    BY <1>1 DEF Base, TypeOK, Spares, Goto, Switching, leases,
      Launch
  <2>4. Up'
    BY <1>1 DEF Base, TypeOK, Up, Running, UpPhases, SettledPhases,
      Switching, Goto, Launch
  <2>5. Selected'
    BY <1>1 DEF Base, TypeOK, Selected, Goto, Launch
  <2> QED BY <2>1, <2>2, <2>3, <2>4, <2>5 DEF Base
<1>2. CASE ImportClaim(e)
  <2>1. TypeOK'
    BY <1>2, LeaseType, VanishType DEF Base, TypeOK, Selected,
      Spares, ImportClaim, Goto, Phases, Switching, QemuStates, leases,
      threads, Obtainable, InUse
  <2>2. LocksAreLeases'
    BY <1>2 DEF Base, TypeOK, LocksAreLeases, Spares,
      leases, ImportClaim, Acquire, Obtainable, InUse, Vanish, Drop, Selected
  <2>3. Spares'
    BY <1>2 DEF Base, TypeOK, Spares, Goto, Switching, leases,
      ImportClaim, Acquire, Obtainable, InUse, Vanish, Drop
  <2>4. Up'
    BY <1>2 DEF Base, TypeOK, Up, Running, UpPhases, SettledPhases,
      Switching, Goto, ImportClaim, Vanish
  <2>5. Selected'
    BY <1>2 DEF Base, TypeOK, Selected, Goto, ImportClaim,
      Vanish
  <2> QED BY <2>1, <2>2, <2>3, <2>4, <2>5 DEF Base
<1>3. CASE ImportEnd(e)
  <2>1. TypeOK'
    BY <1>3, VanishType DEF Base, TypeOK, Selected, Spares,
      ImportEnd, Goto, Phases, Switching, QemuStates, leases, threads
  <2>2. LocksAreLeases'
    BY <1>3 DEF Base, TypeOK, LocksAreLeases, Spares,
      leases, ImportEnd, Vanish, Drop
  <2>3. Spares'
    BY <1>3 DEF Base, TypeOK, Spares, Goto, Switching, leases,
      ImportEnd, Vanish, Drop
  <2>4. Up'
    BY <1>3 DEF Base, TypeOK, Up, Running, UpPhases, SettledPhases,
      Switching, Goto, ImportEnd, Vanish
  <2>5. Selected'
    BY <1>3 DEF Base, TypeOK, Selected, Goto, ImportEnd,
      Vanish
  <2> QED BY <2>1, <2>2, <2>3, <2>4, <2>5 DEF Base
<1>4. ASSUME NEW i \in Images, NEW reset \in BOOLEAN, SelectImage(e, i, reset)
     PROVE  Base'
  <2>1. TypeOK'
    BY <1>4 DEF Base, TypeOK, Selected, Spares, SelectImage,
      Goto, Phases, Switching, QemuStates, leases, threads
  <2>2. LocksAreLeases'
    BY <1>4 DEF Base, TypeOK, LocksAreLeases, Spares,
      leases, SelectImage, Switching
  <2>3. Spares'
    BY <1>4 DEF Base, TypeOK, Spares, Goto, Switching, leases,
      SelectImage
  <2>4. Up'
    BY <1>4 DEF Base, TypeOK, Up, Running, UpPhases, SettledPhases,
      Switching, Goto, SelectImage
  <2>5. Selected'
    BY <1>4 DEF Base, TypeOK, Selected, Goto, SelectImage
  <2> QED BY <2>1, <2>2, <2>3, <2>4, <2>5 DEF Base
<1>5. CASE SwitchFails(e)
  <2>1. TypeOK'
    BY <1>5, StopType DEF Base, TypeOK, Selected, Spares,
      SwitchFails, Goto, Phases, Switching, QemuStates, leases, threads,
      ReleaseSpare
  <2>2. LocksAreLeases'
    BY <1>5 DEF Base, TypeOK, LocksAreLeases, Spares,
      leases, SwitchFails, ReleaseSpare
  <2>3. Spares'
    BY <1>5 DEF Base, TypeOK, Spares, Goto, Switching, leases,
      SwitchFails, ReleaseSpare
  <2>4. Up'
    BY <1>5 DEF Base, TypeOK, Up, Running, UpPhases, SettledPhases,
      Switching, Goto, SwitchFails, StopRaises
  <2>5. Selected'
    BY <1>5 DEF Base, TypeOK, Selected, Goto, SwitchFails,
      Switching
  <2> QED BY <2>1, <2>2, <2>3, <2>4, <2>5 DEF Base
<1>6. CASE SwitchSwaps(e)
  <2>1. TypeOK'
    BY <1>6, StopType DEF Base, TypeOK, Selected, Spares,
      SwitchSwaps, Goto, Phases, Switching, QemuStates, leases, threads
  <2>2. LocksAreLeases'
    BY <1>6 DEF Base, TypeOK, LocksAreLeases, Spares,
      leases, SwitchSwaps
  <2>3. Spares'
    BY <1>6 DEF Base, TypeOK, Spares, Goto, Switching, leases,
      SwitchSwaps
  <2>4. Up'
    BY <1>6 DEF Base, TypeOK, Up, Running, UpPhases, SettledPhases,
      Switching, Goto, SwitchSwaps, StopReturns, Halt
  <2>5. Selected'
    BY <1>6 DEF Base, TypeOK, Selected, Goto, SwitchSwaps,
      Spares, Switching
  <2> QED BY <2>1, <2>2, <2>3, <2>4, <2>5 DEF Base
<1>7. CASE Mutate(e)
  <2>1. TypeOK'
    BY <1>7, StopType DEF Base, TypeOK, Selected, Spares,
      Mutate, Goto, Phases, Switching, QemuStates, leases, threads
  <2>2. LocksAreLeases'
    BY <1>7 DEF Base, TypeOK, LocksAreLeases, Spares,
      leases, Mutate
  <2>3. Spares'
    BY <1>7 DEF Base, TypeOK, Spares, Goto, Switching, leases,
      Mutate
  <2>4. Up'
    BY <1>7 DEF Base, TypeOK, Up, Running, UpPhases, SettledPhases,
      Switching, Goto, Mutate, StopReturns, Halt, StopRaises
  <2>5. Selected'
    BY <1>7 DEF Base, TypeOK, Selected, Goto, Mutate
  <2> QED BY <2>1, <2>2, <2>3, <2>4, <2>5 DEF Base
<1>8. CASE MutateClaim(e)
  <2>1. TypeOK'
    BY <1>8, LeaseType DEF Base, TypeOK, Selected, Spares,
      MutateClaim, Goto, Phases, Switching, QemuStates, leases, threads,
      Obtainable, InUse
  <2>2. LocksAreLeases'
    BY <1>8 DEF Base, TypeOK, LocksAreLeases, Spares,
      leases, MutateClaim, Acquire, Obtainable, InUse, Selected
  <2>3. Spares'
    BY <1>8 DEF Base, TypeOK, Spares, Goto, Switching, leases,
      MutateClaim, Acquire, Obtainable, InUse
  <2>4. Up'
    BY <1>8 DEF Base, TypeOK, Up, Running, UpPhases, SettledPhases,
      Switching, Goto, MutateClaim
  <2>5. Selected'
    BY <1>8 DEF Base, TypeOK, Selected, Goto, MutateClaim
  <2> QED BY <2>1, <2>2, <2>3, <2>4, <2>5 DEF Base
<1>9. CASE MutateEnd(e)
  <2>1. TypeOK'
    BY <1>9 DEF Base, TypeOK, Selected, Spares, MutateEnd,
      Goto, Phases, Switching, QemuStates, leases, threads
  <2>2. LocksAreLeases'
    BY <1>9 DEF Base, TypeOK, LocksAreLeases, Spares,
      leases, MutateEnd
  <2>3. Spares'
    BY <1>9 DEF Base, TypeOK, Spares, Goto, Switching, leases,
      MutateEnd
  <2>4. Up'
    BY <1>9 DEF Base, TypeOK, Up, Running, UpPhases, SettledPhases,
      Switching, Goto, MutateEnd
  <2>5. Selected'
    BY <1>9 DEF Base, TypeOK, Selected, Goto, MutateEnd
  <2> QED BY <2>1, <2>2, <2>3, <2>4, <2>5 DEF Base
<1>10. CASE Reset(e)
  <2>1. TypeOK'
    BY <1>10 DEF Base, TypeOK, Selected, Spares, Reset, Goto,
      Phases, Switching, QemuStates, leases, threads
  <2>2. LocksAreLeases'
    BY <1>10 DEF Base, TypeOK, LocksAreLeases, Spares,
      leases, Reset
  <2>3. Spares'
    BY <1>10 DEF Base, TypeOK, Spares, Goto, Switching, leases,
      Reset
  <2>4. Up'
    BY <1>10 DEF Base, TypeOK, Up, Running, UpPhases,
      SettledPhases, Switching, Goto, Reset
  <2>5. Selected'
    BY <1>10 DEF Base, TypeOK, Selected, Goto, Reset
  <2> QED BY <2>1, <2>2, <2>3, <2>4, <2>5 DEF Base
<1>11. CASE ResetStop(e)
  <2>1. TypeOK'
    BY <1>11, StopType DEF Base, TypeOK, Selected, Spares,
      ResetStop, Goto, Phases, Switching, QemuStates, leases, threads
  <2>2. LocksAreLeases'
    BY <1>11 DEF Base, TypeOK, LocksAreLeases, Spares,
      leases, ResetStop
  <2>3. Spares'
    BY <1>11 DEF Base, TypeOK, Spares, Goto, Switching, leases,
      ResetStop
  <2>4. Up'
    BY <1>11 DEF Base, TypeOK, Up, Running, UpPhases,
      SettledPhases, Switching, Goto, ResetStop, StopReturns, Halt
  <2>5. Selected'
    BY <1>11 DEF Base, TypeOK, Selected, Goto, ResetStop
  <2> QED BY <2>1, <2>2, <2>3, <2>4, <2>5 DEF Base
<1>12. CASE ResetLease(e)
  <2>1. TypeOK'
    BY <1>12, LeaseType, VanishType DEF Base, TypeOK, Selected,
      Spares, ResetLease, Goto, Phases, Switching, QemuStates, leases, threads,
      Obtainable, InUse
  <2>2. LocksAreLeases'
    BY <1>12 DEF Base, TypeOK, LocksAreLeases, Spares,
      leases, ResetLease, Acquire, Obtainable, InUse, Vanish, Drop, Selected
  <2>3. Spares'
    BY <1>12 DEF Base, TypeOK, Spares, Goto, Switching, leases,
      ResetLease, Acquire, Obtainable, InUse, Vanish, Drop
  <2>4. Up'
    BY <1>12 DEF Base, TypeOK, Up, Running, UpPhases,
      SettledPhases, Switching, Goto, ResetLease, Vanish
  <2>5. Selected'
    BY <1>12 DEF Base, TypeOK, Selected, Goto, ResetLease,
      Vanish
  <2> QED BY <2>1, <2>2, <2>3, <2>4, <2>5 DEF Base
<1>13. CASE ResetStart(e)
  <2>1. TypeOK'
    BY <1>13, StartType DEF Base, TypeOK, Selected, Spares,
      ResetStart, Goto, Phases, Switching, QemuStates, leases, threads
  <2>2. LocksAreLeases'
    BY <1>13 DEF Base, TypeOK, LocksAreLeases, Spares,
      leases, ResetStart
  <2>3. Spares'
    BY <1>13 DEF Base, TypeOK, Spares, Goto, Switching, leases,
      ResetStart
  <2>4. Up'
    BY <1>13 DEF Base, TypeOK, Up, Running, UpPhases,
      SettledPhases, Switching, Goto, ResetStart, Launched, Unanswered
  <2>5. Selected'
    BY <1>13 DEF Base, TypeOK, Selected, Goto, ResetStart
  <2> QED BY <2>1, <2>2, <2>3, <2>4, <2>5 DEF Base
<1>14. CASE RunStart(e)
  <2>1. TypeOK'
    BY <1>14, StartType DEF Base, TypeOK, Selected, Spares,
      RunStart, Goto, Phases, Switching, QemuStates, leases, threads
  <2>2. LocksAreLeases'
    BY <1>14 DEF Base, TypeOK, LocksAreLeases, Spares,
      leases, RunStart
  <2>3. Spares'
    BY <1>14 DEF Base, TypeOK, Spares, Goto, Switching, leases,
      RunStart
  <2>4. Up'
    BY <1>14 DEF Base, TypeOK, Up, Running, UpPhases,
      SettledPhases, Switching, Goto, RunStart, Launched, Unanswered
  <2>5. Selected'
    BY <1>14 DEF Base, TypeOK, Selected, Goto, RunStart
  <2> QED BY <2>1, <2>2, <2>3, <2>4, <2>5 DEF Base
<1>15. CASE Stop(e)
  <2>1. TypeOK'
    BY <1>15, StopType DEF Base, TypeOK, Selected, Spares,
      Stop, Goto, Phases, Switching, QemuStates, leases, threads
  <2>2. LocksAreLeases'
    BY <1>15 DEF Base, TypeOK, LocksAreLeases, Spares,
      leases, Stop
  <2>3. Spares'
    BY <1>15 DEF Base, TypeOK, Spares, Goto, Switching, leases,
      Stop
  <2>4. Up'
    BY <1>15 DEF Base, TypeOK, Up, Running, UpPhases,
      SettledPhases, Switching, Goto, Stop, StopReturns, StopRaises, Halt
  <2>5. Selected'
    BY <1>15 DEF Base, TypeOK, Selected, Goto, Stop
  <2> QED BY <2>1, <2>2, <2>3, <2>4, <2>5 DEF Base
<1>16. CASE ForceStop(e)
  <2>1. TypeOK'
    BY <1>16, HaltType DEF Base, TypeOK, Selected, Spares,
      ForceStop, Goto, Phases, Switching, QemuStates, leases, threads
  <2>2. LocksAreLeases'
    BY <1>16 DEF Base, TypeOK, LocksAreLeases, Spares,
      leases, ForceStop
  <2>3. Spares'
    BY <1>16 DEF Base, TypeOK, Spares, Goto, Switching, leases,
      ForceStop
  <2>4. Up'
    BY <1>16 DEF Base, TypeOK, Up, Running, UpPhases,
      SettledPhases, Switching, Goto, ForceStop, Halt
  <2>5. Selected'
    BY <1>16 DEF Base, TypeOK, Selected, Goto, ForceStop
  <2> QED BY <2>1, <2>2, <2>3, <2>4, <2>5 DEF Base
<1>17. ASSUME NEW r \in BOOLEAN, Close(e, r)
     PROVE  Base'
  <2>1. TypeOK'
    BY <1>17, StopType, LeaseType DEF Base, TypeOK, Selected,
      Spares, Close, Goto, Phases, Switching, QemuStates, leases, threads
  <2>2. LocksAreLeases'
    BY <1>17 DEF Base, TypeOK, LocksAreLeases, Spares,
      leases, Close, Drop
  <2>3. Spares'
    BY <1>17 DEF Base, TypeOK, Spares, Goto, Switching, leases,
      Close, Drop
  <2>4. Up'
    BY <1>17 DEF Base, TypeOK, Up, Running, UpPhases,
      SettledPhases, Switching, Goto, Close, StopReturns, Halt
  <2>5. Selected'
    BY <1>17 DEF Base, TypeOK, Selected, Goto, Close
  <2> QED BY <2>1, <2>2, <2>3, <2>4, <2>5 DEF Base
<1>18. CASE GuestExit(e)
  <2>1. TypeOK'
    BY <1>18, HaltType DEF Base, TypeOK, Selected, Spares,
      GuestExit, Goto, Phases, Switching, QemuStates, leases, threads
  <2>2. LocksAreLeases'
    BY <1>18 DEF Base, TypeOK, LocksAreLeases, Spares,
      leases, GuestExit
  <2>3. Spares'
    BY <1>18 DEF Base, TypeOK, Spares, Goto, Switching, leases,
      GuestExit
  <2>4. Up'
    BY <1>18 DEF Base, TypeOK, Up, Running, UpPhases,
      SettledPhases, Switching, Goto, GuestExit, Halt
  <2>5. Selected'
    BY <1>18 DEF Base, TypeOK, Selected, Goto, GuestExit
  <2> QED BY <2>1, <2>2, <2>3, <2>4, <2>5 DEF Base
<1>19. CASE WorkerTick(e)
  <2>1. TypeOK'
    BY <1>19 DEF Base, TypeOK, Selected, Spares, WorkerTick,
      Goto, Phases, Switching, QemuStates, leases, threads
  <2>2. LocksAreLeases'
    BY <1>19 DEF Base, TypeOK, LocksAreLeases, Spares,
      leases, WorkerTick
  <2>3. Spares'
    BY <1>19 DEF Base, TypeOK, Spares, Goto, Switching, leases,
      WorkerTick
  <2>4. Up'
    BY <1>19 DEF Base, TypeOK, Up, Running, UpPhases,
      SettledPhases, Switching, Goto, WorkerTick
  <2>5. Selected'
    BY <1>19 DEF Base, TypeOK, Selected, Goto, WorkerTick
  <2> QED BY <2>1, <2>2, <2>3, <2>4, <2>5 DEF Base
<1>20. CASE Die(e)
  <2>1. TypeOK'
    BY <1>20, VanishType DEF Base, TypeOK, Selected, Spares,
      Die, Goto, Phases, Switching, QemuStates, leases, threads
  <2>2. LocksAreLeases'
    BY <1>20 DEF Base, TypeOK, LocksAreLeases, Spares,
      leases, Die, Vanish, Drop
  <2>3. Spares'
    BY <1>20 DEF Base, TypeOK, Spares, Goto, Switching, leases,
      Die, Vanish, Drop
  <2>4. Up'
    BY <1>20 DEF Base, TypeOK, Up, Running, UpPhases,
      SettledPhases, Switching, Goto, Die, Vanish
  <2>5. Selected'
    BY <1>20 DEF Base, TypeOK, Selected, Goto, Die, Vanish
  <2> QED BY <2>1, <2>2, <2>3, <2>4, <2>5 DEF Base
<1>21. CASE MigrationFails(e)
  <2>1. TypeOK'
    BY <1>21, LeaseType, VanishType DEF Base, TypeOK, Selected,
      Spares, MigrationFails, Goto, Phases, Switching, QemuStates, leases,
      threads, Obtainable
  <2>2. LocksAreLeases'
    BY <1>21 DEF Base, TypeOK, LocksAreLeases, Spares,
      leases, MigrationFails, Acquire, Obtainable, Vanish, Drop, Selected
  <2>3. Spares'
    BY <1>21 DEF Base, TypeOK, Spares, Goto, Switching, leases,
      MigrationFails, Acquire, Obtainable, Vanish, Drop
  <2>4. Up'
    BY <1>21 DEF Base, TypeOK, Up, Running, UpPhases,
      SettledPhases, Switching, Goto, MigrationFails, Vanish
  <2>5. Selected'
    BY <1>21 DEF Base, TypeOK, Selected, Goto, MigrationFails,
      Vanish
  <2> QED BY <2>1, <2>2, <2>3, <2>4, <2>5 DEF Base
<1>22. ASSUME Wake(e), strayed'
      PROVE  Base'
  <2>1. TypeOK'
    BY <1>22, StartType DEF Base, TypeOK, Wake, leases
  <2>2. LocksAreLeases' /\ Spares' /\ Selected'
    BY <1>22 DEF Base, LocksAreLeases, Spares, Selected, Wake, leases
  <2>3. Up'
    BY <1>22 DEF Up
  <2> QED BY <2>1, <2>2, <2>3 DEF Base
<1> QED BY <1>1, <1>2, <1>3, <1>4, <1>5, <1>6, <1>7, <1>8, <1>9, <1>10, <1>11,
           <1>12, <1>13, <1>14, <1>15, <1>16, <1>17, <1>18, <1>19, <1>20, <1>21,
           <1>22
        DEF Command, Proceed, Ordinary, Stray

\* Every step but the stray ones keeps the rest of it too.
LEMMA ServiceStep ==
  ASSUME Base, Service, ~strayed, UNCHANGED strayed,
         NEW e \in Emulators, Ordinary(e)
  PROVE  Service'
<1> USE NoneAssumption
<1>1. ASSUME NEW i \in Images, Launch(e, i)
     PROVE  Service'
  <2>1. Settled'
    BY <1>1 DEF Base, Service, TypeOK, Settled, Leased,
      SettledPhases, Switching, WorkPhases, Goto, leases, Launch
  <2>2. Leased'
    BY <1>1 DEF Base, Service, TypeOK, Settled, Leased,
      SettledPhases, WorkPhases, Goto, leases, Launch, Steady
  <2>3. RunsLeased'
    BY <1>1 DEF Base, Service, TypeOK, RunsLeased, Up,
      Running, UpPhases, SettledPhases, Switching, leases, Launch
  <2>4. Steady'
    BY <1>1 DEF Base, Service, TypeOK, Steady, Switching, Goto,
      Launch
  <2> QED BY <2>1, <2>2, <2>3, <2>4 DEF Service
<1>2. CASE ImportClaim(e)
  <2>1. Settled'
    BY <1>2 DEF Base, Service, TypeOK, Settled, Leased,
      SettledPhases, Switching, WorkPhases, Goto, leases, ImportClaim, Acquire,
      Obtainable, InUse, Vanish, Drop
  <2>2. Leased'
    BY <1>2 DEF Base, Service, TypeOK, Settled, Leased,
      SettledPhases, WorkPhases, Goto, leases, ImportClaim, Acquire,
      Obtainable, InUse, Vanish, Drop
  <2>3. RunsLeased'
    BY <1>2 DEF Base, Service, TypeOK, RunsLeased, Up,
      Running, UpPhases, SettledPhases, Switching, leases, ImportClaim,
      Acquire, Obtainable, InUse, Vanish, Drop
  <2>4. Steady'
    BY <1>2 DEF Base, Service, TypeOK, Steady, Switching, Goto,
      ImportClaim, Vanish
  <2> QED BY <2>1, <2>2, <2>3, <2>4 DEF Service
<1>3. CASE ImportEnd(e)
  <2>1. Settled'
    BY <1>3 DEF Base, Service, TypeOK, Settled, Leased,
      SettledPhases, Switching, WorkPhases, Goto, leases, ImportEnd, Vanish,
      Drop
  <2>2. Leased'
    BY <1>3 DEF Base, Service, TypeOK, Settled, Leased,
      SettledPhases, WorkPhases, Goto, leases, ImportEnd, Vanish, Drop
  <2>3. RunsLeased'
    BY <1>3 DEF Base, Service, TypeOK, RunsLeased, Up,
      Running, UpPhases, SettledPhases, Switching, leases, ImportEnd, Vanish,
      Drop
  <2>4. Steady'
    BY <1>3 DEF Base, Service, TypeOK, Steady, Switching, Goto,
      ImportEnd, Vanish
  <2> QED BY <2>1, <2>2, <2>3, <2>4 DEF Service
<1>4. ASSUME NEW i \in Images, SelectImage(e, i, TRUE)
     PROVE  Service'
  <2>1. Settled'
    BY <1>4 DEF Base, Service, TypeOK, Settled, Leased,
      SettledPhases, Switching, WorkPhases, Goto, leases, SelectImage
  <2>2. Leased'
    BY <1>4 DEF Base, Service, TypeOK, Settled, Leased,
      SettledPhases, WorkPhases, Goto, leases, SelectImage
  <2>3. RunsLeased'
    BY <1>4 DEF Base, Service, TypeOK, RunsLeased, Up,
      Running, UpPhases, SettledPhases, Switching, leases, SelectImage
  <2>4. Steady'
    BY <1>4 DEF Base, Service, TypeOK, Steady, Switching, Goto,
      SelectImage
  <2> QED BY <2>1, <2>2, <2>3, <2>4 DEF Service
<1>5. CASE SwitchFails(e)
  <2>1. Settled'
    BY <1>5 DEF Base, Service, TypeOK, Settled, Leased,
      SettledPhases, Switching, WorkPhases, Goto, leases, SwitchFails,
      StopRaises, ReleaseSpare, Spares, Running, RunsLeased
  <2>2. Leased'
    BY <1>5 DEF Base, Service, TypeOK, Settled, Leased,
      SettledPhases, WorkPhases, Goto, leases, SwitchFails, StopRaises,
      ReleaseSpare
  <2>3. RunsLeased'
    BY <1>5 DEF Base, Service, TypeOK, RunsLeased, Up,
      Running, UpPhases, SettledPhases, Switching, leases, SwitchFails,
      StopRaises, ReleaseSpare
  <2>4. Steady'
    BY <1>5 DEF Base, Service, TypeOK, Steady, Switching, Goto,
      SwitchFails, StopRaises
  <2> QED BY <2>1, <2>2, <2>3, <2>4 DEF Service
<1>6. CASE SwitchSwaps(e)
  <2>1. Settled'
    BY <1>6 DEF Base, Service, TypeOK, Settled, Leased,
      SettledPhases, Switching, WorkPhases, Goto, leases, SwitchSwaps,
      StopReturns, Halt, Steady
  <2>2. Leased'
    BY <1>6 DEF Base, Service, TypeOK, Settled, Leased,
      SettledPhases, WorkPhases, Goto, leases, SwitchSwaps, StopReturns, Halt
  <2>3. RunsLeased'
    BY <1>6 DEF Base, Service, TypeOK, RunsLeased, Up,
      Running, UpPhases, SettledPhases, Switching, leases, SwitchSwaps,
      StopReturns, Halt
  <2>4. Steady'
    BY <1>6 DEF Base, Service, TypeOK, Steady, Switching, Goto,
      SwitchSwaps, StopReturns, Halt
  <2> QED BY <2>1, <2>2, <2>3, <2>4 DEF Service
<1>7. CASE Mutate(e)
  <2>1. Settled'
    BY <1>7 DEF Base, Service, TypeOK, Settled, Leased,
      SettledPhases, Switching, WorkPhases, Goto, leases, Mutate, StopReturns,
      Halt, StopRaises, Running, RunsLeased
  <2>2. Leased'
    BY <1>7 DEF Base, Service, TypeOK, Settled, Leased,
      SettledPhases, WorkPhases, Goto, leases, Mutate, StopReturns, Halt,
      StopRaises
  <2>3. RunsLeased'
    BY <1>7 DEF Base, Service, TypeOK, RunsLeased, Up,
      Running, UpPhases, SettledPhases, Switching, leases, Mutate, StopReturns,
      Halt, StopRaises
  <2>4. Steady'
    BY <1>7 DEF Base, Service, TypeOK, Steady, Switching, Goto,
      Mutate, StopReturns, Halt, StopRaises, Settled, SettledPhases
  <2> QED BY <2>1, <2>2, <2>3, <2>4 DEF Service
<1>8. CASE MutateClaim(e)
  <2>1. Settled'
    BY <1>8 DEF Base, Service, TypeOK, Settled, Leased,
      SettledPhases, Switching, WorkPhases, Goto, leases, MutateClaim, Acquire,
      Obtainable, InUse, Steady
  <2>2. Leased'
    BY <1>8 DEF Base, Service, TypeOK, Settled, Leased,
      SettledPhases, WorkPhases, Goto, leases, MutateClaim, Acquire,
      Obtainable, InUse
  <2>3. RunsLeased'
    BY <1>8 DEF Base, Service, TypeOK, RunsLeased, Up,
      Running, UpPhases, SettledPhases, Switching, leases, MutateClaim,
      Acquire, Obtainable, InUse
  <2>4. Steady'
    BY <1>8 DEF Base, Service, TypeOK, Steady, Switching, Goto,
      MutateClaim
  <2> QED BY <2>1, <2>2, <2>3, <2>4 DEF Service
<1>9. CASE MutateEnd(e)
  <2>1. Settled'
    BY <1>9 DEF Base, Service, TypeOK, Settled, Leased,
      SettledPhases, Switching, WorkPhases, Goto, leases, MutateEnd
  <2>2. Leased'
    BY <1>9 DEF Base, Service, TypeOK, Settled, Leased,
      SettledPhases, WorkPhases, Goto, leases, MutateEnd
  <2>3. RunsLeased'
    BY <1>9 DEF Base, Service, TypeOK, RunsLeased, Up,
      Running, UpPhases, SettledPhases, Switching, leases, MutateEnd
  <2>4. Steady'
    BY <1>9 DEF Base, Service, TypeOK, Steady, Switching, Goto,
      MutateEnd
  <2> QED BY <2>1, <2>2, <2>3, <2>4 DEF Service
<1>10. CASE Reset(e)
  <2>1. Settled'
    BY <1>10 DEF Base, Service, TypeOK, Settled, Leased,
      SettledPhases, Switching, WorkPhases, Goto, leases, Reset
  <2>2. Leased'
    BY <1>10 DEF Base, Service, TypeOK, Settled, Leased,
      SettledPhases, WorkPhases, Goto, leases, Reset
  <2>3. RunsLeased'
    BY <1>10 DEF Base, Service, TypeOK, RunsLeased, Up,
      Running, UpPhases, SettledPhases, Switching, leases, Reset
  <2>4. Steady'
    BY <1>10 DEF Base, Service, TypeOK, Steady, Switching,
      Goto, Reset
  <2> QED BY <2>1, <2>2, <2>3, <2>4 DEF Service
<1>11. CASE ResetStop(e)
  <2>1. Settled'
    BY <1>11 DEF Base, Service, TypeOK, Settled, Leased,
      SettledPhases, Switching, WorkPhases, Goto, leases, ResetStop,
      StopReturns, Halt
  <2>2. Leased'
    BY <1>11 DEF Base, Service, TypeOK, Settled, Leased,
      SettledPhases, WorkPhases, Goto, leases, ResetStop, StopReturns, Halt
  <2>3. RunsLeased'
    BY <1>11 DEF Base, Service, TypeOK, RunsLeased, Up,
      Running, UpPhases, SettledPhases, Switching, leases, ResetStop,
      StopReturns, Halt
  <2>4. Steady'
    BY <1>11 DEF Base, Service, TypeOK, Steady, Switching,
      Goto, ResetStop, StopReturns, Halt
  <2> QED BY <2>1, <2>2, <2>3, <2>4 DEF Service
<1>12. CASE ResetLease(e)
  <2>1. Settled'
    BY <1>12 DEF Base, Service, TypeOK, Settled, Leased,
      SettledPhases, Switching, WorkPhases, Goto, leases, ResetLease, Acquire,
      Obtainable, InUse, Vanish, Drop
  <2>2. Leased'
    BY <1>12 DEF Base, Service, TypeOK, Settled, Leased,
      SettledPhases, WorkPhases, Goto, leases, ResetLease, Acquire, Obtainable,
      InUse, Vanish, Drop
  <2>3. RunsLeased'
    BY <1>12 DEF Base, Service, TypeOK, RunsLeased, Up,
      Running, UpPhases, SettledPhases, Switching, leases, ResetLease, Acquire,
      Obtainable, InUse, Vanish, Drop
  <2>4. Steady'
    BY <1>12 DEF Base, Service, TypeOK, Steady, Switching,
      Goto, ResetLease, Vanish
  <2> QED BY <2>1, <2>2, <2>3, <2>4 DEF Service
<1>13. CASE ResetStart(e)
  <2>1. Settled'
    BY <1>13 DEF Base, Service, TypeOK, Settled, Leased,
      SettledPhases, Switching, WorkPhases, Goto, leases, ResetStart, Launched,
      Unanswered
  <2>2. Leased'
    BY <1>13 DEF Base, Service, TypeOK, Settled, Leased,
      SettledPhases, WorkPhases, Goto, leases, ResetStart, Launched,
      Unanswered
  <2>3. RunsLeased'
    BY <1>13 DEF Base, Service, TypeOK, RunsLeased, Up,
      Running, UpPhases, SettledPhases, Switching, leases, ResetStart,
      Launched, Unanswered, Leased
  <2>4. Steady'
    BY <1>13 DEF Base, Service, TypeOK, Steady, Switching,
      Goto, ResetStart, Launched, Unanswered
  <2> QED BY <2>1, <2>2, <2>3, <2>4 DEF Service
<1>14. CASE RunStart(e)
  <2>1. Settled'
    BY <1>14 DEF Base, Service, TypeOK, Settled, Leased,
      SettledPhases, Switching, WorkPhases, Goto, leases, RunStart, Launched,
      Unanswered
  <2>2. Leased'
    BY <1>14 DEF Base, Service, TypeOK, Settled, Leased,
      SettledPhases, WorkPhases, Goto, leases, RunStart, Launched, Unanswered
  <2>3. RunsLeased'
    BY <1>14 DEF Base, Service, TypeOK, RunsLeased, Up,
      Running, UpPhases, SettledPhases, Switching, leases, RunStart, Launched,
      Unanswered, Settled
  <2>4. Steady'
    BY <1>14 DEF Base, Service, TypeOK, Steady, Switching,
      Goto, RunStart, Launched, Unanswered
  <2> QED BY <2>1, <2>2, <2>3, <2>4 DEF Service
<1>15. CASE Stop(e)
  <2>1. Settled'
    BY <1>15 DEF Base, Service, TypeOK, Settled, Leased,
      SettledPhases, Switching, WorkPhases, Goto, leases, Stop, StopReturns,
      StopRaises, Halt, Running, RunsLeased
  <2>2. Leased'
    BY <1>15 DEF Base, Service, TypeOK, Settled, Leased,
      SettledPhases, WorkPhases, Goto, leases, Stop, StopReturns, StopRaises,
      Halt
  <2>3. RunsLeased'
    BY <1>15 DEF Base, Service, TypeOK, RunsLeased, Up,
      Running, UpPhases, SettledPhases, Switching, leases, Stop, StopReturns,
      StopRaises, Halt
  <2>4. Steady'
    BY <1>15 DEF Base, Service, TypeOK, Steady, Switching,
      Goto, Stop, StopReturns, StopRaises, Halt
  <2> QED BY <2>1, <2>2, <2>3, <2>4 DEF Service
<1>16. CASE ForceStop(e)
  <2>1. Settled'
    BY <1>16 DEF Base, Service, TypeOK, Settled, Leased,
      SettledPhases, Switching, WorkPhases, Goto, leases, ForceStop, Halt
  <2>2. Leased'
    BY <1>16 DEF Base, Service, TypeOK, Settled, Leased,
      SettledPhases, WorkPhases, Goto, leases, ForceStop, Halt
  <2>3. RunsLeased'
    BY <1>16 DEF Base, Service, TypeOK, RunsLeased, Up,
      Running, UpPhases, SettledPhases, Switching, leases, ForceStop, Halt
  <2>4. Steady'
    BY <1>16 DEF Base, Service, TypeOK, Steady, Switching,
      Goto, ForceStop, Halt
  <2> QED BY <2>1, <2>2, <2>3, <2>4 DEF Service
<1>17. CASE Close(e, FALSE)
  <2>1. Settled'
    BY <1>17 DEF Base, Service, TypeOK, Settled, Leased,
      SettledPhases, Switching, WorkPhases, Goto, leases, Close, StopReturns,
      Halt, Drop
  <2>2. Leased'
    BY <1>17 DEF Base, Service, TypeOK, Settled, Leased,
      SettledPhases, WorkPhases, Goto, leases, Close, StopReturns, Halt, Drop
  <2>3. RunsLeased'
    BY <1>17 DEF Base, Service, TypeOK, RunsLeased, Up,
      Running, UpPhases, SettledPhases, Switching, leases, Close, StopReturns,
      Halt, Drop
  <2>4. Steady'
    BY <1>17 DEF Base, Service, TypeOK, Steady, Switching,
      Goto, Close, StopReturns, Halt
  <2> QED BY <2>1, <2>2, <2>3, <2>4 DEF Service
<1>18. CASE GuestExit(e)
  <2>1. Settled'
    BY <1>18 DEF Base, Service, TypeOK, Settled, Leased,
      SettledPhases, Switching, WorkPhases, Goto, leases, GuestExit, Halt
  <2>2. Leased'
    BY <1>18 DEF Base, Service, TypeOK, Settled, Leased,
      SettledPhases, WorkPhases, Goto, leases, GuestExit, Halt
  <2>3. RunsLeased'
    BY <1>18 DEF Base, Service, TypeOK, RunsLeased, Up,
      Running, UpPhases, SettledPhases, Switching, leases, GuestExit, Halt
  <2>4. Steady'
    BY <1>18 DEF Base, Service, TypeOK, Steady, Switching,
      Goto, GuestExit, Halt
  <2> QED BY <2>1, <2>2, <2>3, <2>4 DEF Service
<1>19. CASE WorkerTick(e)
  <2>1. Settled'
    BY <1>19 DEF Base, Service, TypeOK, Settled, Leased,
      SettledPhases, Switching, WorkPhases, Goto, leases, WorkerTick
  <2>2. Leased'
    BY <1>19 DEF Base, Service, TypeOK, Settled, Leased,
      SettledPhases, WorkPhases, Goto, leases, WorkerTick
  <2>3. RunsLeased'
    BY <1>19 DEF Base, Service, TypeOK, RunsLeased, Up,
      Running, UpPhases, SettledPhases, Switching, leases, WorkerTick
  <2>4. Steady'
    BY <1>19 DEF Base, Service, TypeOK, Steady, Switching,
      Goto, WorkerTick
  <2> QED BY <2>1, <2>2, <2>3, <2>4 DEF Service
<1>20. CASE Die(e)
  <2>1. Settled'
    BY <1>20 DEF Base, Service, TypeOK, Settled, Leased,
      SettledPhases, Switching, WorkPhases, Goto, leases, Die, Vanish, Drop
  <2>2. Leased'
    BY <1>20 DEF Base, Service, TypeOK, Settled, Leased,
      SettledPhases, WorkPhases, Goto, leases, Die, Vanish, Drop
  <2>3. RunsLeased'
    BY <1>20 DEF Base, Service, TypeOK, RunsLeased, Up,
      Running, UpPhases, SettledPhases, Switching, leases, Die, Vanish, Drop
  <2>4. Steady'
    BY <1>20 DEF Base, Service, TypeOK, Steady, Switching,
      Goto, Die, Vanish
  <2> QED BY <2>1, <2>2, <2>3, <2>4 DEF Service
<1> QED BY <1>1, <1>2, <1>3, <1>4, <1>5, <1>6, <1>7, <1>8, <1>9, <1>10, <1>11,
           <1>12, <1>13, <1>14, <1>15, <1>16, <1>17, <1>18, <1>19, <1>20
        DEF Command, Proceed, Ordinary

\* The host starts with no emulator on it.
LEMMA Initial == Init => Base /\ Service
<1> SUFFICES ASSUME Init
             PROVE  Base /\ Service
  OBVIOUS
<1> USE NoneAssumption DEF Init
<1>1. TypeOK
  BY DEF TypeOK, Phases, QemuStates
<1>2. LocksAreLeases
  BY DEF LocksAreLeases
<1>3. Spares /\ Up /\ Selected
  BY DEF Spares, Up, Selected, Running, Switching
<1>4. Service
  BY DEF Service, Settled, Leased, RunsLeased, Steady, Running, Switching,
         SettledPhases, WorkPhases
<1> QED BY <1>1, <1>2, <1>3, <1>4 DEF Base

\* A step that changes nothing keeps both parts.
LEMMA Stutter ==
  ASSUME UNCHANGED vars
  PROVE  (Base => Base') /\ (Service => Service')
BY DEF vars, Base, TypeOK, LocksAreLeases, Spares, Up, Selected,
       Service, Settled, Leased, RunsLeased, Steady, Running

\* Base holds throughout every behaviour.
LEMMA BaseInvariant == Spec => []Base
<1>1. Init => Base
  BY Initial
<1>2. ASSUME Base, Next
      PROVE  Base'
  <2>1. PICK e \in Emulators : (Ordinary(e) /\ UNCHANGED strayed) \/ (Stray(e) /\ strayed' = TRUE)
    BY <1>2 DEF Next
  <2>2. strayed' \in BOOLEAN
    BY <1>2, <2>1 DEF Base, TypeOK
  <2>3. strayed => strayed'
    BY <2>1
  <2> QED BY <1>2, <2>1, <2>2, <2>3, BaseStep
<1>3. Base /\ UNCHANGED vars => Base'
  BY Stutter
<1> QED BY <1>1, <1>2, <1>3, PTL DEF Spec

\* Service holds throughout every behaviour until a stray step is taken.
LEMMA ServiceInvariant == Spec => [](Base /\ (~strayed => Service))
<1> DEFINE Inv == ~strayed => Service
<1>1. Init => Inv
  BY Initial
<1>2. ASSUME Base, Inv, Next
      PROVE  Inv'
  <2>1. PICK e \in Emulators : (Ordinary(e) /\ UNCHANGED strayed) \/ (Stray(e) /\ strayed' = TRUE)
    BY <1>2 DEF Next
  <2> QED BY <1>2, <2>1, ServiceStep
<1>3. Inv /\ UNCHANGED vars => Inv'
  BY Stutter DEF vars
<1>4. Spec => []Base
  BY BaseInvariant
<1> QED BY <1>1, <1>2, <1>3, <1>4, PTL DEF Spec

----------------------------------------------------------------------------
(* What follows *)

\* The variables keep their types.
THEOREM TypeCorrect == Spec => []TypeOK
BY BaseInvariant, PTL DEF Base

\* Whatever fails, the OS locks of a process are exactly those of its leases.
THEOREM LocksFollowLeases == Spec => []LocksAreLeases
BY BaseInvariant, PTL DEF Base

\* Until a stray step a lease is only traded, taken or given up with QEMU down.
THEOREM LeaseTradedStopped == Spec => TradesStopped
<1>1. ASSUME Base, [Next]_vars
      PROVE  [\A e \in Emulators : ~strayed' /\ path'[e] # path[e] => qemu'[e] # "running"]_vars
  <2> SUFFICES ASSUME NEW f \in Emulators, Next, ~strayed', path'[f] # path[f]
               PROVE  qemu'[f] # "running"
    BY <1>1
  <2> USE <1>1 DEF Base, TypeOK, leases, Up, Running, UpPhases, SettledPhases, Switching
  <2>1. PICK e \in Emulators : Ordinary(e) /\ ~strayed
    BY DEF Next
  <2>2. CASE ImportClaim(e) \/ MutateClaim(e) \/ ResetLease(e)
    BY <2>1, <2>2 DEF ImportClaim, MutateClaim, ResetLease, Acquire,
                      Vanish, Drop, threads
  <2>3. CASE ImportEnd(e) \/ Die(e)
    BY <2>3 DEF ImportEnd, Die, Vanish, Drop
  <2>4. CASE SwitchSwaps(e) \/ Close(e, FALSE)
    BY <2>4 DEF SwitchSwaps, Close, StopReturns, Halt, Drop
  <2>5. UNCHANGED path \/ ImportClaim(e) \/ MutateClaim(e) \/ ResetLease(e)
          \/ ImportEnd(e) \/ Die(e) \/ SwitchSwaps(e) \/ Close(e, FALSE)
    BY <2>1 DEF Ordinary, Command, Proceed, GuestExit, WorkerTick, Launch,
                SelectImage, Mutate, Reset, RunStart, Stop, ForceStop, SwitchFails,
                MutateEnd, ResetStop, ResetStart
  <2> QED BY <2>2, <2>3, <2>4, <2>5
<1> QED BY <1>1, BaseInvariant, PTL DEF Spec, TradesStopped

\* Two QEMUs that run each on the image its process has locked run on
\* different ones, as both would own the one lock.
LEMMA LeaseIsExclusive ==
  ASSUME Base, Service, ~strayed
  PROVE  Exclusive
<1> SUFFICES ASSUME NEW e \in Emulators, NEW f \in Emulators, Running(e), Running(f),
                    config[e] = config[f]
             PROVE  e = f
  BY DEF Exclusive
<1>1. path[e] = config[e] /\ path[f] = config[f]
  BY DEF Service, RunsLeased
<1>2. phase[e] # "off"
  BY DEF Base, Up, UpPhases, SettledPhases, Switching
<1>3. path[e] = image[e]
  BY DEF Base, Up, UpPhases, SettledPhases, Service, Settled, Leased,
         WorkPhases, Running
<1>4. owner[path[e]] = e /\ owner[path[e]] = f
  BY <1>1, <1>2, <1>3 DEF Base, Selected, LocksAreLeases
<1> QED BY <1>4

\* Until a stray step a QEMU runs only on the image its process has locked,
\* and no image is open in two emulators.
THEOREM OneEmulatorPerImage == Spec => []ServiceExclusive
<1>1. Base /\ (~strayed => Service) => ServiceExclusive
  BY LeaseIsExclusive DEF Service, ServiceExclusive
<1> QED BY <1>1, ServiceInvariant, PTL

\* Until a stray step a process overwrites an image only with its lock held,
\* its own QEMU down and no other emulator's QEMU on it.
THEOREM NoOverwriteUnderGuest == Spec => []OverwritesAlone
<1>1. ASSUME Base, ~strayed => Service
      PROVE  OverwritesAlone
  <2> SUFFICES ASSUME ~strayed, Service, NEW e \in Emulators, phase[e] \in {"importing", "mutate"}
               PROVE  /\ owner[image[e]] = e
                      /\ ~Running(e)
                      /\ \A f \in Emulators : Running(f) => config[f] # image[e]
    BY <1>1 DEF OverwritesAlone
  <2>1. ~Running(e)
    BY <1>1 DEF Base, Up, UpPhases, SettledPhases, Switching
  <2>2. path[e] = image[e] /\ image[e] \in Images
    BY <1>1 DEF Base, Selected, Service, Leased
  <2>3. owner[image[e]] = e
    BY <1>1, <2>2 DEF Base, LocksAreLeases
  <2>4. ASSUME NEW f \in Emulators, Running(f), config[f] = image[e]
        PROVE  FALSE
    <3>1. path[f] = image[e]
      BY <2>4 DEF Service, RunsLeased
    <3>2. owner[image[e]] = f
      BY <1>1, <2>2, <3>1 DEF Base, LocksAreLeases
    <3> QED BY <2>1, <2>3, <2>4, <3>2
  <2> QED BY <2>1, <2>3, <2>4
<1> QED BY <1>1, ServiceInvariant, PTL

----------------------------------------------------------------------------
(***************************************************************************)
(* Keys and USB power.  The states a request leaves are states of a        *)
(* process, which holds nothing when it is down, and the active codes are  *)
(* those of the leases after every handler, as each computes both from the *)
(* leases that did not run out.                                            *)
(***************************************************************************)
KeyRecords ==
  [up : BOOLEAN, sock : BOOLEAN, held : SUBSET Keys!Keys, usb : BOOLEAN, starting : BOOLEAN]

KeyProcesses == {q \in KeyRecords : q.up \/ q = Keys!Down}

KeysInv == Keys!TypeOK /\ Keys!LeasedActive /\ keyQemu \in KeyProcesses

LEMMA KeyReply ==
  ASSUME NEW r, NEW q, NEW ok \in BOOLEAN, r = <<q, ok>>, q \in KeyProcesses
  PROVE  r[1] \in KeyProcesses /\ r[2] \in BOOLEAN
<1> HIDE DEF KeyProcesses
<1> QED OBVIOUS

\* What the requests do to the process.
LEMMA KeyRequests ==
  ASSUME NEW q \in KeyProcesses
  PROVE  /\ \A k \in Keys!Keys, down \in BOOLEAN : \A r \in Keys!Apply(q, k, down) :
              r[1] \in KeyProcesses /\ r[2] \in BOOLEAN
         /\ \A on \in BOOLEAN : \A r \in Keys!SetUsb(q, on) :
              r[1] \in KeyProcesses /\ r[2] \in BOOLEAN
         /\ \A r \in Keys!Expired(q) : r \in KeyProcesses
<1>1. ASSUME NEW k \in Keys!Keys, NEW down \in BOOLEAN, NEW r \in Keys!Apply(q, k, down)
      PROVE  r[1] \in KeyProcesses /\ r[2] \in BOOLEAN
  <2>1. q.up => Keys!Held(q, k, down) \in KeyProcesses
    BY DEF Keys!Held, KeyProcesses, KeyRecords
  <2>2. q.up => [q EXCEPT !.sock = FALSE] \in KeyProcesses
    BY DEF KeyProcesses, KeyRecords
  <2>3. \/ r = <<q, FALSE>>
        \/ q.up /\ r = <<Keys!Held(q, k, down), TRUE>>
        \/ q.up /\ r = <<[q EXCEPT !.sock = FALSE], FALSE>>
    BY <1>1 DEF Keys!Apply
  <2>4. CASE r = <<q, FALSE>>  BY <2>4, KeyReply
  <2>5. CASE q.up /\ r = <<Keys!Held(q, k, down), TRUE>>  BY <2>1, <2>5, KeyReply
  <2>6. CASE q.up /\ r = <<[q EXCEPT !.sock = FALSE], FALSE>>  BY <2>2, <2>6, KeyReply
  <2> QED BY <2>3, <2>4, <2>5, <2>6
<1>2. ASSUME NEW on \in BOOLEAN, NEW r \in Keys!SetUsb(q, on)
      PROVE  r[1] \in KeyProcesses /\ r[2] \in BOOLEAN
  <2>1. q.up => [q EXCEPT !.usb = on] \in KeyProcesses
    BY DEF KeyProcesses, KeyRecords
  <2>2. r = <<q, FALSE>> \/ (q.up /\ r = <<[q EXCEPT !.usb = on], TRUE>>)
    BY <1>2 DEF Keys!SetUsb
  <2>3. CASE r = <<q, FALSE>>  BY <2>3, KeyReply
  <2>4. CASE q.up /\ r = <<[q EXCEPT !.usb = on], TRUE>>  BY <2>1, <2>4, KeyReply
  <2> QED BY <2>2, <2>3, <2>4
<1>3. ASSUME NEW r \in Keys!Expired(q)
      PROVE  r \in KeyProcesses
  <2>1. ASSUME NEW ks \in SUBSET Keys!Lapsed
        PROVE  q.up => [q EXCEPT !.held = @ \ ks, !.sock = (ks = Keys!Lapsed)] \in KeyProcesses
    BY DEF KeyProcesses, KeyRecords
  <2> QED BY <1>3, <2>1 DEF Keys!Expired
<1> QED BY <1>1, <1>2, <1>3

\* A process that has just been started, or was there.
LEMMA KeyStarts ==
  ASSUME KeysInv
  PROVE  /\ Keys!Started \subseteq KeyProcesses
         /\ \A e \in Keys!Ensured : e[1] \in KeyProcesses /\ e[2] \in BOOLEAN
         /\ Keys!Down \in KeyProcesses
<1>1. Keys!Started \subseteq KeyProcesses
  <2>1. ASSUME NEW s \in BOOLEAN
        PROVE  [up |-> TRUE, sock |-> s, held |-> IF s THEN {Power} ELSE {}, usb |-> TRUE,
                starting |-> s] \in KeyProcesses
    <3>1. (IF s THEN {Power} ELSE {}) \in SUBSET Keys!Keys  BY DEF Keys!Keys
    <3> QED BY <3>1 DEF KeyProcesses, KeyRecords
  <2> QED BY <2>1 DEF Keys!Started
<1>2. keyQemu \in KeyProcesses /\ wish \in BOOLEAN
  BY DEF KeysInv, Keys!TypeOK
<1>3. \A e \in Keys!Ensured : e[1] \in KeyProcesses /\ e[2] \in BOOLEAN
  <2> SUFFICES ASSUME NEW e \in Keys!Ensured
               PROVE  e[1] \in KeyProcesses /\ e[2] \in BOOLEAN
    OBVIOUS
  <2>1. e = <<keyQemu, TRUE>> \/ \E q \in Keys!Started : e \in Keys!SetUsb(q, wish)
    BY DEF Keys!Ensured
  <2>2. CASE e = <<keyQemu, TRUE>>
    BY <1>2, <2>2
  <2>3. ASSUME NEW q \in Keys!Started, e \in Keys!SetUsb(q, wish)
        PROVE  e[1] \in KeyProcesses /\ e[2] \in BOOLEAN
    <3>1. q \in KeyProcesses  BY <1>1
    <3> QED BY <1>2, <2>3, <3>1, KeyRequests
  <2> QED BY <2>1, <2>2, <2>3
<1>4. Keys!Down \in KeyProcesses
  BY DEF Keys!Down, KeyProcesses, KeyRecords
<1> QED BY <1>1, <1>3, <1>4

\* The leases that live, and what is active once the others have run out.
LEMMA KeyExpiry ==
  ASSUME KeysInv
  PROVE  /\ Keys!Living \subseteq Presses
         /\ Keys!AfterExpiry = Keys!Codes(Keys!Living)
<1>1. Keys!Living \subseteq Presses
  BY DEF KeysInv, Keys!TypeOK, Keys!Living
<1>2. ripe = {} => Keys!Living = keyLeases
  BY DEF Keys!Living
<1>3. active = Keys!Codes(keyLeases)
  BY DEF KeysInv, Keys!LeasedActive
<1> QED BY <1>1, <1>2, <1>3 DEF Keys!AfterExpiry

\* Leases on what may be pressed are on keys; without those of one key they are on
\* the other ones.
LEMMA KeyCodes ==
  ASSUME NEW ls \in SUBSET Presses
  PROVE  /\ Keys!Codes(ls) \subseteq Keys!Keys
         /\ \A k : Keys!Codes({l \in ls : l[2] # k}) = Keys!Codes(ls) \ {k}
BY DEF Keys!Codes, Keys!Keys

\* A step that leaves leases and process as they may be keeps the invariant.
LEMMA KeysKept ==
  ASSUME KeysInv,
         keyLeases' \subseteq Presses, ripe' \subseteq keyLeases',
         active' = Keys!Codes(keyLeases'),
         keyQemu' \in KeyProcesses, wish' \in BOOLEAN, pages' \subseteq Browsers,
         shut' \in [state : Keys!Settled \cup Keys!Underway, restore : BOOLEAN],
         from' \in {"none", "page", "api", "expired", "shutdown"}
  PROVE  KeysInv'
BY KeyCodes DEF KeysInv, Keys!TypeOK, Keys!LeasedActive, KeyProcesses, KeyRecords

LEMMA KeysStep ==
  ASSUME KeysInv, Keys!Next
  PROVE  KeysInv'
<1> DEFINE Rest == /\ wish' \in BOOLEAN /\ pages' \subseteq Browsers
                   /\ shut' \in [state : Keys!Settled \cup Keys!Underway, restore : BOOLEAN]
                   /\ from' \in {"none", "page", "api", "expired", "shutdown"}
           Leases == /\ keyLeases' \subseteq Presses /\ ripe' \subseteq keyLeases'
                     /\ active' = Keys!Codes(keyLeases')
<1>1. /\ keyLeases \subseteq Presses /\ ripe \subseteq keyLeases
      /\ active = Keys!Codes(keyLeases)
      /\ keyQemu \in KeyProcesses /\ wish \in BOOLEAN /\ pages \subseteq Browsers
      /\ shut \in [state : Keys!Settled \cup Keys!Underway, restore : BOOLEAN]
      /\ shut.restore \in BOOLEAN
      /\ from \in {"none", "page", "api", "expired", "shutdown"}
      /\ Power \in Keys!Keys
  BY DEF KeysInv, Keys!TypeOK, Keys!LeasedActive, Keys!Keys
<1>2. ASSUME Leases, Rest, keyQemu' \in KeyProcesses
      PROVE  KeysInv'
  BY <1>2, KeysKept
<1>3. UNCHANGED <<keyLeases, ripe, active>> => Leases
  BY <1>1
<1> HIDE DEF Leases
<1>4. CASE Keys!Unanswered
  <2>1. keyQemu' \in KeyProcesses  BY <1>4, KeyStarts DEF Keys!Unanswered
  <2> QED BY <1>4, <1>1, <1>2, <1>3, <2>1 DEF Keys!Unanswered
<1>5. ASSUME NEW l \in Presses, NEW down \in BOOLEAN, Keys!Key(l, down)
      PROVE  KeysInv'
  <2>1. l[2] \in Keys!Keys  BY DEF Keys!Keys
  <2>2. Leases  BY <1>5, KeyExpiry DEF Leases, Keys!Key, Keys!Renewed
  <2>3. keyQemu' \in KeyProcesses
    <3> DEFINE is == l[2] \in active'
    <3>1. PICK e \in Keys!Ensured :
            \E q \in Keys!Expired(e[1]) :
              keyQemu' = q \/ \E r \in Keys!Apply(q, l[2], is) : keyQemu' = r[1]
      BY <1>5 DEF Keys!Key
    <3>2. e[1] \in KeyProcesses  BY KeyStarts
    <3>3. PICK q \in Keys!Expired(e[1]) :
            keyQemu' = q \/ \E r \in Keys!Apply(q, l[2], is) : keyQemu' = r[1]
      BY <3>1
    <3>4. q \in KeyProcesses  BY <3>2, KeyRequests
    <3>5. is \in BOOLEAN  OBVIOUS
    <3> HIDE DEF is
    <3> QED BY <2>1, <3>3, <3>4, <3>5, KeyRequests
  <2> QED BY <1>5, <1>1, <1>2, <2>2, <2>3 DEF Keys!Key
<1>6. ASSUME NEW k \in Keys!Keys, NEW down \in BOOLEAN, Keys!ApiKey(k, down)
      PROVE  KeysInv'
  <2>1. Leases  BY <1>6, KeyExpiry, KeyCodes DEF Leases, Keys!ApiKey
  <2>2. keyQemu' \in KeyProcesses
    BY <1>6, KeyStarts, KeyRequests DEF Keys!ApiKey
  <2> QED BY <1>6, <1>1, <1>2, <2>1, <2>2 DEF Keys!ApiKey
<1>7. ASSUME NEW on \in BOOLEAN, Keys!SetPower(on)
      PROVE  KeysInv'
  <2>1. keyQemu' \in KeyProcesses
    BY <1>7, KeyStarts, KeyRequests DEF Keys!SetPower
  <2>2. wish' \in BOOLEAN  BY <1>7, <1>1 DEF Keys!SetPower, Keys!Wished
  <2> QED BY <1>7, <1>1, <1>2, <1>3, <2>1, <2>2 DEF Keys!SetPower
<1>8. CASE Keys!Snapshot
  <2>1. Leases  BY <1>8, KeyExpiry DEF Leases, Keys!Snapshot
  <2>2. keyQemu' \in KeyProcesses  BY <1>8, <1>1, KeyRequests DEF Keys!Snapshot
  <2> QED BY <1>8, <1>1, <1>2, <2>1, <2>2 DEF Keys!Snapshot
<1>9. ASSUME NEW l \in Presses, Keys!Ripen(l)
      PROVE  KeysInv'
  <2>1. Leases  BY <1>9, <1>1 DEF Leases, Keys!Ripen, Keys!Living
  <2> QED BY <1>9, <1>1, <1>2, <2>1 DEF Keys!Ripen
<1>10. ASSUME NEW p \in Browsers, Keys!Connect(p) \/ Keys!Leave(p)
      PROVE  KeysInv'
  BY <1>10, <1>1, <1>2, <1>3 DEF Keys!Connect, Keys!Leave
<1>11. CASE Keys!Exit
  BY <1>11, <1>1, <1>2, <1>3, KeyStarts DEF Keys!Exit
<1>12. CASE Keys!Reset
  <2>1. Leases  BY <1>12 DEF Leases, Keys!Reset, Keys!Codes
  <2>2. keyQemu' \in KeyProcesses
    BY <1>12, <1>1, KeyStarts, KeyRequests DEF Keys!Reset
  <2> QED BY <1>12, <1>1, <1>2, <2>1, <2>2 DEF Keys!Reset, Keys!Settled
<1>13. CASE Keys!ReleaseStart
  <2>1. [keyQemu EXCEPT !.starting = FALSE] \in KeyProcesses
    <3>1. keyQemu.starting  BY <1>13 DEF Keys!ReleaseStart
    <3>2. keyQemu.up  BY <1>1, <3>1 DEF Keys!Down, KeyProcesses
    <3> QED BY <1>1, <3>2 DEF KeyProcesses, KeyRecords
  <2>2. keyQemu' \in KeyProcesses
    BY <1>13, <1>1, <2>1, KeyRequests DEF Keys!ReleaseStart
  <2> QED BY <1>13, <1>1, <1>2, <1>3, <2>2 DEF Keys!ReleaseStart
<1>14. CASE Keys!ShutdownPower
  <2>1. keyQemu' \in KeyProcesses  BY <1>14, <1>1, KeyRequests DEF Keys!ShutdownPower
  <2>2. shut' \in [state : Keys!Settled \cup Keys!Underway, restore : BOOLEAN]
    BY <1>14, <1>1 DEF Keys!ShutdownPower, Keys!Settled, Keys!Underway
  <2> QED BY <1>14, <1>1, <1>2, <1>3, <2>1, <2>2 DEF Keys!ShutdownPower
<1>15. CASE Keys!ShutdownPress
  <2>1. Leases  BY <1>15, <1>1, KeyCodes DEF Leases, Keys!ShutdownPress, Keys!Left
  <2>2. keyQemu' \in KeyProcesses
    <3>1. PICK r \in Keys!Apply(keyQemu, Power, TRUE) :
            keyQemu' = r[1] \/ \E u \in Keys!SetUsb(r[1], TRUE) : keyQemu' = u[1]
      BY <1>15 DEF Keys!ShutdownPress
    <3>2. r[1] \in KeyProcesses  BY <1>1, KeyRequests
    <3> QED BY <3>1, <3>2, KeyRequests
  <2>3. shut' \in [state : Keys!Settled \cup Keys!Underway, restore : BOOLEAN]
    BY <1>15, <1>1 DEF Keys!ShutdownPress, Keys!Settled, Keys!Underway
  <2> QED BY <1>15, <1>1, <1>2, <2>1, <2>2, <2>3 DEF Keys!ShutdownPress
<1>16. CASE Keys!ShutdownRelease
  <2>1. keyQemu' \in KeyProcesses  BY <1>16, <1>1, KeyRequests DEF Keys!ShutdownRelease
  <2>2. shut' \in [state : Keys!Settled \cup Keys!Underway, restore : BOOLEAN]
    BY <1>16, <1>1 DEF Keys!ShutdownRelease, Keys!Settled, Keys!Underway
  <2> QED BY <1>16, <1>1, <1>2, <1>3, <2>1, <2>2 DEF Keys!ShutdownRelease
<1>17. CASE Keys!ShutdownEnd
  <2>1. keyQemu' \in KeyProcesses  BY <1>17, <1>1, KeyRequests DEF Keys!ShutdownEnd
  <2>2. shut' \in [state : Keys!Settled \cup Keys!Underway, restore : BOOLEAN]
    BY <1>17, <1>1 DEF Keys!ShutdownEnd, Keys!Settled, Keys!Underway
  <2> QED BY <1>17, <1>1, <1>2, <1>3, <2>1, <2>2 DEF Keys!ShutdownEnd
<1> QED BY <1>4, <1>5, <1>6, <1>7, <1>8, <1>9, <1>10, <1>11, <1>12, <1>13, <1>14, <1>15,
           <1>16, <1>17 DEF Keys!Next, Keys!Shutdown

\* What a request leaves alone, and what it does to the keys.
Alike(q, r) == r.up = q.up /\ r.usb = q.usb /\ r.starting = q.starting

Pressed(q, r, k, down) ==
  /\ Alike(q, r) /\ (r.sock => q.sock /\ (k \in r.held <=> down))
  /\ \A j : j # k => (j \in r.held <=> j \in q.held)
  /\ down => q.held \subseteq r.held
  /\ ~down => r.held \subseteq q.held

Released(q, r) ==
  /\ Alike(q, r) /\ r.held \subseteq q.held /\ q.held \ r.held \subseteq Keys!Lapsed
  /\ r.sock => q.sock /\ r.held = q.held \ Keys!Lapsed

Switched(q, r, on, ok) ==
  /\ r.up = q.up /\ r.starting = q.starting /\ r.held = q.held /\ r.sock = q.sock
  /\ r.usb = IF ok THEN on ELSE q.usb

LEMMA ReplyParts ==
  ASSUME NEW r, NEW q, NEW ok \in BOOLEAN, r = <<q, ok>>
  PROVE  r[1] = q /\ r[2] = ok
OBVIOUS

LEMMA KeyEffects ==
  ASSUME NEW q \in KeyProcesses
  PROVE  /\ \A k : \A down \in BOOLEAN : \A r \in Keys!Apply(q, k, down) : Pressed(q, r[1], k, down)
         /\ \A on \in BOOLEAN : \A r \in Keys!SetUsb(q, on) : Switched(q, r[1], on, r[2])
         /\ \A r \in Keys!Expired(q) : Released(q, r)
<1>1. q \in KeyRecords /\ (~q.up => ~q.sock)
  BY DEF KeyProcesses, Keys!Down
<1>2. ASSUME NEW k, NEW down \in BOOLEAN, NEW r \in Keys!Apply(q, k, down)
      PROVE  Pressed(q, r[1], k, down)
  <2> DEFINE w == r[1]
  <2>1. CASE ~q.up \/ ~q.sock
    <3>1. r = <<q, FALSE>> /\ ~q.sock  BY <1>1, <1>2, <2>1 DEF Keys!Apply
    <3>2. w = q  BY <3>1, ReplyParts
    <3> HIDE DEF w
    <3>3. Pressed(q, w, k, down)  BY <3>1, <3>2 DEF Pressed, Alike
    <3> QED BY <3>3 DEF w
  <2>2. CASE q.up /\ q.sock /\ r = <<Keys!Held(q, k, down), TRUE>>
    <3>1. w = [q EXCEPT !.held = IF down THEN q.held \cup {k} ELSE q.held \ {k}]
      BY <2>2 DEF Keys!Held
    <3> HIDE DEF w
    <3>2. /\ w.held = (IF down THEN q.held \cup {k} ELSE q.held \ {k})
          /\ w.up = q.up /\ w.usb = q.usb /\ w.starting = q.starting /\ w.sock = q.sock
      BY <1>1, <3>1 DEF KeyRecords
    <3>3. Pressed(q, w, k, down)  BY <2>2, <3>2 DEF Pressed, Alike
    <3> QED BY <3>3 DEF w
  <2>3. CASE q.up /\ q.sock /\ r = <<[q EXCEPT !.sock = FALSE], FALSE>>
    <3>1. w = [q EXCEPT !.sock = FALSE]  BY <2>3
    <3> HIDE DEF w
    <3>2. /\ w.held = q.held /\ w.sock = FALSE
          /\ w.up = q.up /\ w.usb = q.usb /\ w.starting = q.starting
      BY <1>1, <3>1 DEF KeyRecords
    <3>3. Pressed(q, w, k, down)  BY <3>2 DEF Pressed, Alike
    <3> QED BY <3>3 DEF w
  <2> QED BY <1>2, <2>1, <2>2, <2>3 DEF Keys!Apply
<1>3. ASSUME NEW on \in BOOLEAN, NEW r \in Keys!SetUsb(q, on)
      PROVE  Switched(q, r[1], on, r[2])
  <2> DEFINE w == r[1]
             ok == r[2]
  <2>1. (w = q /\ ok = FALSE) \/ (w = [q EXCEPT !.usb = on] /\ ok = TRUE)
    <3>1. r = <<q, FALSE>> \/ r = <<[q EXCEPT !.usb = on], TRUE>>
      BY <1>3 DEF Keys!SetUsb
    <3> QED BY <3>1, ReplyParts
  <2> HIDE DEF w, ok
  <2>2. Switched(q, w, on, ok)  BY <1>1, <2>1 DEF Switched, KeyRecords
  <2> QED BY <2>2 DEF w, ok
<1>4. ASSUME NEW r \in Keys!Expired(q)
      PROVE  Released(q, r)
  <2>1. CASE ~q.up \/ ~q.sock
    BY <1>1, <1>4, <2>1 DEF Keys!Expired, Released, Alike
  <2>2. CASE q.up /\ q.sock
    <3>1. PICK ks \in SUBSET Keys!Lapsed :
            r = [q EXCEPT !.held = @ \ ks, !.sock = (ks = Keys!Lapsed)]
      BY <1>4, <2>2 DEF Keys!Expired
    <3>2. /\ r.held = q.held \ ks /\ (r.sock <=> ks = Keys!Lapsed)
          /\ r.up = q.up /\ r.usb = q.usb /\ r.starting = q.starting
      BY <1>1, <3>1 DEF KeyRecords
    <3> QED BY <2>2, <3>2 DEF Released, Alike
  <2> QED BY <2>1, <2>2
<1> QED BY <1>2, <1>3, <1>4

Powered(q, r) ==
  r.up = q.up /\ r.starting = q.starting /\ r.held = q.held /\ r.sock = q.sock

\* The same of the requests that are always of the one kind.
LEMMA KeySends ==
  ASSUME NEW q \in KeyProcesses
  PROVE  /\ \A r \in Keys!Apply(q, Power, TRUE) : r[1] \in KeyProcesses /\ Pressed(q, r[1], Power, TRUE)
         /\ \A r \in Keys!Apply(q, Power, FALSE) : r[1] \in KeyProcesses /\ Pressed(q, r[1], Power, FALSE)
         /\ \A r \in Keys!SetUsb(q, TRUE) : Powered(q, r[1])
         /\ \A r \in Keys!SetUsb(q, FALSE) : Powered(q, r[1])
<1>1. Power \in Keys!Keys  BY DEF Keys!Keys
<1>2. ASSUME NEW b \in BOOLEAN
      PROVE  /\ \A r \in Keys!Apply(q, Power, b) : r[1] \in KeyProcesses /\ Pressed(q, r[1], Power, b)
             /\ \A r \in Keys!SetUsb(q, b) : Powered(q, r[1])
  <2>1. \A r \in Keys!Apply(q, Power, b) : r[1] \in KeyProcesses  BY <1>1, KeyRequests
  <2>2. \A r \in Keys!Apply(q, Power, b) : Pressed(q, r[1], Power, b)  BY KeyEffects
  <2>3. \A r \in Keys!SetUsb(q, b) : Powered(q, r[1])
    BY KeyEffects DEF Switched, Powered
  <2> QED BY <2>1, <2>2, <2>3
<1>3. TRUE \in BOOLEAN /\ FALSE \in BOOLEAN  OBVIOUS
<1> QED BY <1>2, <1>3, Zenon

\* A process that was started holds at most the power key.
LEMMA KeyStarted ==
  ASSUME KeysInv, NEW e \in Keys!Ensured
  PROVE  /\ keyQemu.up => e[1] = keyQemu /\ e[2] = TRUE
         /\ ~keyQemu.up => e[1].held \subseteq {Power} /\ keyQemu.held = {} /\ ~keyQemu.sock
<1>1. CASE keyQemu.up
  <2>1. e = <<keyQemu, TRUE>>  BY <1>1 DEF Keys!Ensured
  <2>2. e[1] = keyQemu /\ e[2] = TRUE  BY <2>1, ReplyParts
  <2> QED BY <1>1, <2>2
<1>2. CASE ~keyQemu.up
  <2>1. keyQemu = Keys!Down  BY <1>2 DEF KeysInv, KeyProcesses
  <2>2. PICK q \in Keys!Started : e \in Keys!SetUsb(q, wish)
    BY <1>2 DEF Keys!Ensured
  <2>3. q \in KeyProcesses /\ wish \in BOOLEAN
    BY KeyStarts DEF KeysInv, Keys!TypeOK
  <2>4. q.held \subseteq {Power}  BY DEF Keys!Started
  <2>5. e[1].held = q.held  BY <2>2, <2>3, KeyEffects DEF Switched
  <2> QED BY <1>2, <2>1, <2>4, <2>5 DEF Keys!Down
<1> QED BY <1>1, <1>2

\* A message of a page, about the code c: what lapsed is released, and the code sent if
\* it is active no longer, or now.
PageSends(e, q, c) ==
  LET was == c \in Keys!Codes(Keys!Living)
      is == c \in active'
  IN /\ e \in Keys!Ensured /\ Released(e[1], q)
     /\ \/ (was <=> is) /\ keyQemu' = q
        \/ ~(was <=> is) /\ Pressed(q, keyQemu', c, is)
     /\ \A j : j # c => (j \in active' <=> j \in Keys!Codes(Keys!Living))

LEMMA KeyPage ==
  ASSUME KeysInv, NEW l \in Presses, NEW down \in BOOLEAN, Keys!Key(l, down)
  PROVE  \E e, q : PageSends(e, q, l[2])
<1> DEFINE c == l[2]
           was == c \in Keys!Codes(Keys!Living)
           is == c \in active'
<1>1. /\ active' = Keys!Codes(Keys!Renewed(l, down))
      /\ \E e \in Keys!Ensured : \E q \in Keys!Expired(e[1]) :
           IF was = is THEN keyQemu' = q ELSE \E r \in Keys!Apply(q, c, is) : keyQemu' = r[1]
  BY KeyExpiry DEF Keys!Key
<1>2. PICK e \in Keys!Ensured : \E q \in Keys!Expired(e[1]) :
        IF was = is THEN keyQemu' = q ELSE \E r \in Keys!Apply(q, c, is) : keyQemu' = r[1]
  BY <1>1
<1>3. PICK q \in Keys!Expired(e[1]) :
        IF was = is THEN keyQemu' = q ELSE \E r \in Keys!Apply(q, c, is) : keyQemu' = r[1]
  BY <1>2
<1>4. was \in BOOLEAN /\ is \in BOOLEAN  OBVIOUS
<1>5. \A j : j # c => (j \in active' <=> j \in Keys!Codes(Keys!Living))
  BY <1>1 DEF Keys!Codes, Keys!Renewed
<1>6. e[1] \in KeyProcesses  BY KeyStarts
<1>7. q \in KeyProcesses /\ Released(e[1], q)  BY <1>3, <1>6, KeyRequests, KeyEffects
<1>8. \/ (was <=> is) /\ keyQemu' = q
      \/ ~(was <=> is) /\ Pressed(q, keyQemu', c, is)
  <2> HIDE DEF was, is, c
  <2>1. CASE was = is  BY <1>3, <1>4, <2>1
  <2>2. CASE was # is
    <3>1. PICK r \in Keys!Apply(q, c, is) : keyQemu' = r[1]  BY <1>3, <2>2, Zenon
    <3>2. Pressed(q, r[1], c, is)  BY <1>4, <1>7, KeyEffects
    <3> QED BY <1>4, <2>2, <3>1, <3>2
  <2> QED BY <2>1, <2>2
<1>9. PageSends(e, q, l[2])  BY <1>2, <1>5, <1>7, <1>8 DEF PageSends
<1> QED BY <1>9

LEMMA KeyLiving ==
  ASSUME KeysInv
  PROVE  /\ Keys!Codes(Keys!Living) \subseteq active
         /\ Keys!Lapsed = active \ Keys!Codes(Keys!Living)
         /\ \A k \in Keys!Lapsed : \E l \in ripe : l[2] = k
BY DEF KeysInv, Keys!LeasedActive, Keys!Codes, Keys!Living, Keys!Lapsed

\* A code that is active and not held is pressed by no message of a page that holds it.
LEMMA KeysRenew ==
  ASSUME KeysInv, Keys!Next \/ UNCHANGED keysVars
  PROVE  Keys!RenewalsNeverHeal
<1> SUFFICES ASSUME NEW k \in active, k \notin keyQemu.held, k \in keyQemu'.held
             PROVE  \/ from' = "api"
                    \/ \E l \in ripe : l[2] = k
                    \/ k = Power /\ (~keyQemu.up \/ shut' # shut \/ from' = "none")
  BY DEF Keys!RenewalsNeverHeal
<1>1. keyQemu \in KeyProcesses /\ wish \in BOOLEAN /\ Keys!Started \subseteq KeyProcesses
  BY KeyStarts DEF KeysInv, Keys!TypeOK
<1>2. \A e \in Keys!Ensured : k \in e[1].held => k = Power /\ ~keyQemu.up
  BY KeyStarted
<1>3. CASE Keys!Unanswered
  BY <1>2, <1>3 DEF Keys!Unanswered
<1>4. ASSUME NEW l \in Presses, NEW down \in BOOLEAN, Keys!Key(l, down)
      PROVE  (\E m \in ripe : m[2] = k) \/ (k = Power /\ ~keyQemu.up)
  <2>1. PICK e, q : PageSends(e, q, l[2])  BY <1>4, KeyPage
  <2>2. q.held \subseteq e[1].held /\ e \in Keys!Ensured  BY <2>1 DEF PageSends, Released
  <2>3. CASE k \in q.held
    BY <1>2, <2>2, <2>3
  <2>4. CASE k \notin q.held
    <3>1. k = l[2] /\ ~(k \in Keys!Codes(Keys!Living))
      BY <2>1, <2>4 DEF PageSends, Pressed
    <3>2. k \in Keys!Lapsed  BY <3>1, KeyLiving
    <3> QED BY <3>2, KeyLiving
  <2> QED BY <2>3, <2>4
<1>5. ASSUME NEW c \in Keys!Keys, NEW down \in BOOLEAN, Keys!ApiKey(c, down)
      PROVE  from' = "api"
  BY <1>5 DEF Keys!ApiKey
<1>6. ASSUME NEW on \in BOOLEAN, Keys!SetPower(on)
      PROVE  k = Power /\ ~keyQemu.up
  <2>1. PICK e \in Keys!Ensured : \E r \in Keys!SetUsb(e[1], on) : keyQemu' = r[1]
    BY <1>6 DEF Keys!SetPower
  <2>2. keyQemu'.held = e[1].held
    BY <2>1, KeyStarts, KeyEffects DEF Switched
  <2> QED BY <1>2, <2>2
<1>7. CASE Keys!Snapshot
  BY <1>1, <1>7, KeyEffects DEF Keys!Snapshot, Released
<1>8. ASSUME \/ \E l \in Presses : Keys!Ripen(l)
             \/ \E p \in Browsers : Keys!Connect(p) \/ Keys!Leave(p)
             \/ UNCHANGED keysVars
      PROVE  FALSE
  BY <1>8 DEF Keys!Ripen, Keys!Connect, Keys!Leave, keysVars
<1>9. CASE Keys!Exit
  BY <1>9 DEF Keys!Exit, Keys!Down
<1>10. CASE Keys!Reset
  <2>1. from' = "none" /\ \E q \in Keys!Started : \E r \in Keys!SetUsb(q, wish) : keyQemu' = r[1]
    BY <1>10 DEF Keys!Reset
  <2>2. PICK q \in Keys!Started : \E r \in Keys!SetUsb(q, wish) : keyQemu' = r[1]
    BY <2>1
  <2>3. keyQemu'.held = q.held  BY <1>1, <2>2, KeyEffects DEF Switched
  <2>4. q.held \subseteq {Power}  BY DEF Keys!Started
  <2> QED BY <2>1, <2>3, <2>4
<1>11. CASE Keys!ReleaseStart
  <2> DEFINE q == [keyQemu EXCEPT !.starting = FALSE]
  <2>1. q \in KeyProcesses /\ q.held = keyQemu.held
    <3>1. keyQemu.starting  BY <1>11 DEF Keys!ReleaseStart
    <3>2. keyQemu.up  BY <1>1, <3>1 DEF Keys!Down, KeyProcesses
    <3> QED BY <1>1, <3>2 DEF KeyProcesses, KeyRecords
  <2>2. \E r \in Keys!Apply(q, Power, FALSE) : keyQemu' = r[1]
    BY <1>11 DEF Keys!ReleaseStart
  <2> HIDE DEF q
  <2>3. keyQemu'.held \subseteq q.held
    BY <2>1, <2>2, KeySends DEF Pressed
  <2> QED BY <2>1, <2>3
<1>12. CASE Keys!ShutdownPower
  <2>1. PICK r \in Keys!SetUsb(keyQemu, FALSE) : keyQemu' = r[1]
    BY <1>12 DEF Keys!ShutdownPower
  <2>2. Powered(keyQemu, keyQemu')  BY <1>1, <2>1, KeySends
  <2> QED BY <2>2 DEF Powered
<1>13. CASE Keys!ShutdownPress
  <2>1. shut' # shut
    BY <1>13 DEF Keys!ShutdownPress, KeysInv, Keys!TypeOK
  <2>2. PICK r \in Keys!Apply(keyQemu, Power, TRUE) :
          keyQemu' = r[1] \/ \E u \in Keys!SetUsb(r[1], TRUE) : keyQemu' = u[1]
    BY <1>13 DEF Keys!ShutdownPress
  <2>3. r[1] \in KeyProcesses /\ Pressed(keyQemu, r[1], Power, TRUE)
    BY <1>1, KeySends
  <2>4. keyQemu'.held = r[1].held  BY <2>2, <2>3, KeySends DEF Powered
  <2>5. k = Power  BY <2>3, <2>4 DEF Pressed
  <2> QED BY <2>1, <2>5
<1>14. CASE Keys!ShutdownRelease
  <2>1. keyQemu' = keyQemu \/ \E r \in Keys!Apply(keyQemu, Power, FALSE) : keyQemu' = r[1]
    BY <1>14 DEF Keys!ShutdownRelease
  <2> QED BY <1>1, <2>1, KeySends DEF Pressed
<1>15. CASE Keys!ShutdownEnd
  <2>1. CASE keyQemu' = keyQemu  BY <2>1
  <2>2. CASE keyQemu' # keyQemu
    <3>1. PICK u \in Keys!SetUsb(keyQemu, TRUE) : keyQemu' = u[1]
      BY <1>15, <2>2 DEF Keys!ShutdownEnd
    <3>2. Powered(keyQemu, keyQemu')  BY <1>1, <3>1, KeySends
    <3> QED BY <3>2 DEF Powered
  <2> QED BY <2>1, <2>2
<1> QED BY <1>3, <1>4, <1>5, <1>6, <1>7, <1>8, <1>9, <1>10, <1>11, <1>12, <1>13, <1>14, <1>15
        DEF Keys!Next, Keys!Shutdown

\* A step that changes neither what is active nor what is held, or neither USB switch.
LEMMA KeysQuiet ==
  ASSUME active' = active, keyQemu'.held = keyQemu.held
  PROVE  Keys!OnlyInterrupted /\ Keys!HoldKept
BY DEF Keys!OnlyInterrupted, Keys!HoldKept, Keys!Agree

LEMMA UsbQuiet ==
  ASSUME keyQemu'.usb = keyQemu.usb, wish' = wish
  PROVE  Keys!UsbFollows
BY DEF Keys!UsbFollows

\* What is held and the active codes still agree once what lapsed has been released.
LEMMA KeyAgrees ==
  ASSUME KeysInv, NEW q, Released(keyQemu, q), NEW k, Keys!Agree(k)
  PROVE  q.sock => (k \in q.held <=> k \in Keys!Codes(Keys!Living))
BY KeyLiving DEF Released, Keys!Agree

\* The power switch turned on again by a shutdown that failed.
UsbRestored(q, r, on) == r.usb = q.usb \/ (on = TRUE /\ r.usb = TRUE)

LEMMA KeyRestores ==
  ASSUME NEW q \in KeyProcesses, NEW on \in BOOLEAN, NEW r,
         IF on THEN \E u \in Keys!SetUsb(q, TRUE) : r = u[1] ELSE r = q
  PROVE  Powered(q, r) /\ UsbRestored(q, r, on)
<1>1. CASE on = TRUE
  <2>1. PICK u \in Keys!SetUsb(q, TRUE) : r = u[1]  BY <1>1
  <2>2. Powered(q, r)  BY <2>1, KeySends
  <2>3. r.usb = q.usb \/ r.usb = TRUE
    <3> DEFINE b == TRUE
    <3>1. b \in BOOLEAN /\ b = TRUE  OBVIOUS
    <3>2. u \in Keys!SetUsb(q, b)  BY <2>1
    <3> HIDE DEF b
    <3>3. Switched(q, u[1], b, u[2])  BY <3>1, <3>2, KeyEffects
    <3>4. u[1].usb = q.usb \/ u[1].usb = b  BY <3>3 DEF Switched
    <3> QED BY <2>1, <3>1, <3>4
  <2> QED BY <1>1, <2>2, <2>3 DEF UsbRestored
<1>2. CASE on = FALSE
  BY <1>2 DEF Powered, UsbRestored
<1> QED BY <1>1, <1>2

\* QEMU parts from the pages in the known ways.
LEMMA KeysPart ==
  ASSUME KeysInv, keyQemu.up, Keys!Next \/ UNCHANGED keysVars
  PROVE  Keys!OnlyInterrupted /\ Keys!HoldKept /\ Keys!UsbFollows
<1> DEFINE Goal == Keys!OnlyInterrupted /\ Keys!HoldKept /\ Keys!UsbFollows
<1>1. /\ keyQemu \in KeyProcesses /\ keyQemu \in KeyRecords /\ wish \in BOOLEAN
      /\ shut \in [state : Keys!Settled \cup Keys!Underway, restore : BOOLEAN]
      /\ shut.restore \in BOOLEAN
      /\ Keys!Started \subseteq KeyProcesses
  BY KeyStarts DEF KeysInv, Keys!TypeOK, KeyProcesses
<1>2. \A e \in Keys!Ensured : e[1] = keyQemu /\ e[2] = TRUE
  BY KeyStarted
<1>3. CASE Keys!Unanswered
  BY <1>2, <1>3 DEF Keys!Unanswered
<1>4. ASSUME NEW l \in Presses, NEW down \in BOOLEAN, Keys!Key(l, down)
      PROVE  Goal
  <2> DEFINE c == l[2]
             was == c \in Keys!Codes(Keys!Living)
             is == c \in active'
  <2>1. PICK e, q : PageSends(e, q, l[2])  BY <1>4, KeyPage
  <2>2. e \in Keys!Ensured /\ Released(e[1], q)  BY <2>1 DEF PageSends
  <2>3. Released(keyQemu, q)  BY <1>2, <2>2
  <2>4. /\ \/ (was <=> is) /\ keyQemu' = q
           \/ ~(was <=> is) /\ Pressed(q, keyQemu', c, is)
        /\ \A j : j # c => (j \in active' <=> j \in Keys!Codes(Keys!Living))
    BY <2>1 DEF PageSends
  <2> HIDE DEF c
  <2>5. Keys!OnlyInterrupted
    <3> SUFFICES ASSUME NEW k \in Keys!Keys, Keys!Agree(k), keyQemu'.sock
                 PROVE  k \in active' <=> k \in keyQemu'.held
      BY DEF Keys!OnlyInterrupted, Keys!Agree
    <3>1. q.sock => (k \in q.held <=> k \in Keys!Codes(Keys!Living))
      BY <2>3, KeyAgrees
    <3> QED BY <2>4, <3>1 DEF Pressed
  <2>6. Keys!HoldKept
    <3>1. keyQemu.held \ q.held \subseteq active  BY <2>3, KeyLiving DEF Released
    <3>2. Power \in q.held /\ Power \notin keyQemu'.held => Power \in active
      BY <2>4, KeyLiving DEF Pressed
    <3> QED BY <3>1, <3>2 DEF Keys!HoldKept
  <2>7. keyQemu'.usb = keyQemu.usb  BY <2>3, <2>4 DEF Released, Pressed, Alike
  <2>8. wish' = wish  BY <1>4 DEF Keys!Key
  <2> QED BY <2>5, <2>6, <2>7, <2>8, UsbQuiet
<1>5. ASSUME NEW c \in Keys!Keys, NEW down \in BOOLEAN, Keys!ApiKey(c, down)
      PROVE  Goal
  <2>1. /\ from' = "api" /\ wish' = wish /\ active' = Keys!Codes(Keys!Living) \ {c}
        /\ \E e \in Keys!Ensured : \E q \in Keys!Expired(e[1]) :
             \E r \in Keys!Apply(q, c, down) : keyQemu' = r[1]
    BY <1>5, KeyExpiry DEF Keys!ApiKey
  <2>2. PICK q \in Keys!Expired(keyQemu) : \E r \in Keys!Apply(q, c, down) : keyQemu' = r[1]
    BY <1>2, <2>1
  <2>3. q \in KeyProcesses /\ Released(keyQemu, q)  BY <1>1, KeyRequests, KeyEffects
  <2>4. Pressed(q, keyQemu', c, down)  BY <2>2, <2>3, KeyEffects
  <2>5. Keys!OnlyInterrupted
    <3> SUFFICES ASSUME NEW k \in Keys!Keys, Keys!Agree(k), keyQemu'.sock,
                        k \notin keyQemu'.held
                 PROVE  k \notin active'
      BY <2>1 DEF Keys!OnlyInterrupted, Keys!Agree
    <3>1. q.sock => (k \in q.held <=> k \in Keys!Codes(Keys!Living))
      BY <2>3, KeyAgrees
    <3> QED BY <2>1, <2>4, <3>1 DEF Pressed
  <2>6. Keys!HoldKept  BY <2>1 DEF Keys!HoldKept
  <2>7. keyQemu'.usb = keyQemu.usb  BY <2>3, <2>4 DEF Released, Pressed, Alike
  <2> QED BY <2>1, <2>5, <2>6, <2>7, UsbQuiet
<1>6. ASSUME NEW on \in BOOLEAN, Keys!SetPower(on)
      PROVE  Goal
  <2>1. PICK r \in Keys!SetUsb(keyQemu, on) : keyQemu' = r[1] /\ wish' = Keys!Wished(on, r[2])
    BY <1>2, <1>6 DEF Keys!SetPower
  <2>2. Switched(keyQemu, keyQemu', on, r[2]) /\ r[2] \in BOOLEAN
    BY <1>1, <2>1, KeyEffects, KeyRequests
  <2>3. Keys!UsbFollows  BY <2>1, <2>2 DEF Keys!UsbFollows, Keys!Wished, Switched
  <2>4. keyQemu'.held = keyQemu.held /\ active' = active
    BY <1>6, <2>2 DEF Switched, Keys!SetPower
  <2> QED BY <2>3, <2>4, KeysQuiet
<1>7. CASE Keys!Snapshot
  <2>1. /\ active' = Keys!Codes(Keys!Living) /\ wish' = wish
        /\ Released(keyQemu, keyQemu')
    BY <1>1, <1>7, KeyExpiry, KeyEffects DEF Keys!Snapshot
  <2>2. Keys!OnlyInterrupted
    <3> SUFFICES ASSUME NEW k \in Keys!Keys, Keys!Agree(k), keyQemu'.sock
                 PROVE  k \in active' <=> k \in keyQemu'.held
      BY DEF Keys!OnlyInterrupted, Keys!Agree
    <3> DEFINE q == keyQemu'
    <3>1. Released(keyQemu, q) /\ q.sock  BY <2>1
    <3> HIDE DEF q
    <3>2. k \in q.held <=> k \in Keys!Codes(Keys!Living)  BY <3>1, KeyAgrees
    <3> QED BY <2>1, <3>2 DEF q
  <2>3. Keys!HoldKept  BY <2>1, KeyLiving DEF Keys!HoldKept, Released
  <2>4. keyQemu'.usb = keyQemu.usb  BY <2>1 DEF Released, Alike
  <2> QED BY <2>1, <2>2, <2>3, <2>4, UsbQuiet
<1>8. ASSUME \/ \E l \in Presses : Keys!Ripen(l)
             \/ \E p \in Browsers : Keys!Connect(p) \/ Keys!Leave(p)
             \/ UNCHANGED keysVars
      PROVE  Goal
  <2>1. active' = active /\ keyQemu' = keyQemu /\ wish' = wish
    BY <1>8 DEF Keys!Ripen, Keys!Connect, Keys!Leave, keysVars
  <2> QED BY <2>1, KeysQuiet, UsbQuiet
<1>9. CASE Keys!Exit
  <2>1. ~keyQemu'.up /\ ~keyQemu'.sock  BY <1>9 DEF Keys!Exit, Keys!Down
  <2> QED BY <2>1 DEF Keys!OnlyInterrupted, Keys!HoldKept, Keys!UsbFollows
<1>10. CASE Keys!Reset
  <2>1. /\ from' = "none" /\ active' = {} /\ shut.state \in Keys!Settled
        /\ shut'.state = "idle"
        /\ \E q \in Keys!Started : \E r \in Keys!SetUsb(q, wish) : keyQemu' = r[1]
    BY <1>10 DEF Keys!Reset
  <2>2. PICK q \in Keys!Started : \E r \in Keys!SetUsb(q, wish) : keyQemu' = r[1]
    BY <2>1
  <2>3. keyQemu'.held = q.held  BY <1>1, <2>2, KeyEffects DEF Switched
  <2>4. q.held \subseteq {Power}  BY DEF Keys!Started
  <2>5. Keys!OnlyInterrupted  BY <2>1, <2>3, <2>4 DEF Keys!OnlyInterrupted, Keys!Agree
  <2>6. Keys!HoldKept  BY <2>1 DEF Keys!HoldKept, Keys!Settled
  <2>7. Keys!UsbFollows  BY <2>1 DEF Keys!UsbFollows
  <2> QED BY <2>5, <2>6, <2>7
<1>11. CASE Keys!ReleaseStart
  <2> DEFINE q == [keyQemu EXCEPT !.starting = FALSE]
  <2>1. /\ q \in KeyProcesses /\ q.held = keyQemu.held /\ q.usb = keyQemu.usb
        /\ q.starting = FALSE
    BY <1>1 DEF KeyProcesses, KeyRecords
  <2>2. /\ keyQemu.starting /\ active' = active /\ wish' = wish
        /\ \E r \in Keys!Apply(q, Power, FALSE) : keyQemu' = r[1]
    BY <1>11 DEF Keys!ReleaseStart
  <2> HIDE DEF q
  <2>3. Pressed(q, keyQemu', Power, FALSE)  BY <2>1, <2>2, KeySends
  <2>4. /\ keyQemu'.starting # keyQemu.starting /\ keyQemu'.usb = keyQemu.usb
        /\ \A j : j # Power => (j \in keyQemu'.held <=> j \in keyQemu.held)
    BY <2>1, <2>2, <2>3 DEF Pressed, Alike
  <2>5. Keys!OnlyInterrupted  BY <2>2, <2>4 DEF Keys!OnlyInterrupted, Keys!Agree
  <2>6. Keys!HoldKept  BY <2>4 DEF Keys!HoldKept
  <2> QED BY <2>2, <2>4, <2>5, <2>6, UsbQuiet
<1>12. CASE Keys!ShutdownPower
  <2>1. /\ active' = active /\ wish' = wish
        /\ \E r \in Keys!SetUsb(keyQemu, FALSE) :
             /\ keyQemu' = r[1]
             /\ shut' = [state |-> IF r[2] THEN "requesting" ELSE "failed", restore |-> wish]
    BY <1>12 DEF Keys!ShutdownPower
  <2> DEFINE b == FALSE
  <2>2. b \in BOOLEAN  OBVIOUS
  <2>3. PICK r \in Keys!SetUsb(keyQemu, b) :
          /\ keyQemu' = r[1]
          /\ shut' = [state |-> IF r[2] THEN "requesting" ELSE "failed", restore |-> wish]
    BY <2>1
  <2> HIDE DEF b
  <2>4. Switched(keyQemu, keyQemu', b, r[2]) /\ r[2] \in BOOLEAN
    BY <1>1, <2>2, <2>3, KeyEffects, KeyRequests
  <2>5. keyQemu'.held = keyQemu.held  BY <2>4 DEF Switched
  <2>6. keyQemu'.usb = keyQemu.usb \/ shut'.state = "requesting"
    BY <2>3, <2>4 DEF Switched
  <2>7. Keys!UsbFollows  BY <2>1, <2>6 DEF Keys!UsbFollows
  <2> QED BY <2>1, <2>5, <2>7, KeysQuiet
<1>13. CASE Keys!ShutdownPress
  <2>1. /\ shut.state = "requesting" /\ shut.state # shut'.state
        /\ active' = active \ {Power} /\ wish' = wish
    BY <1>1, <1>13 DEF Keys!ShutdownPress
  <2>2. PICK r \in Keys!Apply(keyQemu, Power, TRUE) :
          IF r[2] THEN keyQemu' = r[1] /\ shut' = [shut EXCEPT !.state = "holding"]
          ELSE /\ shut' = [shut EXCEPT !.state = "failed"]
               /\ IF shut.restore THEN \E u \in Keys!SetUsb(r[1], TRUE) : keyQemu' = u[1]
                  ELSE keyQemu' = r[1]
    BY <1>13 DEF Keys!ShutdownPress
  <2> DEFINE w == r[1]
  <2>3. w \in KeyProcesses /\ Pressed(keyQemu, w, Power, TRUE)
    BY <1>1, KeySends
  <2> HIDE DEF w
  <2>4. \/ keyQemu' = w
        \/ /\ shut'.state = "failed" /\ Powered(w, keyQemu')
           /\ UsbRestored(w, keyQemu', shut.restore)
    <3>1. keyQemu' = w \/ (shut'.state = "failed" /\ shut.restore
                            /\ \E u \in Keys!SetUsb(w, TRUE) : keyQemu' = u[1])
      BY <1>1, <2>2 DEF w
    <3>2. ASSUME shut.restore, \E u \in Keys!SetUsb(w, TRUE) : keyQemu' = u[1]
          PROVE  Powered(w, keyQemu') /\ UsbRestored(w, keyQemu', shut.restore)
      <4> DEFINE on == shut.restore
                 s == keyQemu'
      <4>1. on \in BOOLEAN /\ IF on THEN \E u \in Keys!SetUsb(w, TRUE) : s = u[1] ELSE s = w
        BY <1>1, <3>2
      <4> HIDE DEF on, s
      <4>2. Powered(w, s) /\ UsbRestored(w, s, on)  BY <2>3, <4>1, KeyRestores
      <4> QED BY <4>2 DEF on, s
    <3> QED BY <3>1, <3>2
  <2>5. keyQemu'.held = w.held  BY <2>4 DEF Powered
  <2>6. Keys!OnlyInterrupted
    BY <2>1, <2>3, <2>5 DEF Keys!OnlyInterrupted, Keys!Agree, Pressed
  <2>7. Keys!HoldKept  BY <2>1 DEF Keys!HoldKept
  <2>8. w.usb = keyQemu.usb  BY <2>3 DEF Pressed, Alike
  <2>9. Keys!UsbFollows
    BY <1>1, <2>1, <2>4, <2>8 DEF Keys!UsbFollows, UsbRestored, Keys!Underway
  <2> QED BY <2>6, <2>7, <2>9
<1>14. CASE Keys!ShutdownRelease
  <2>1. /\ active' = active /\ wish' = wish
        /\ shut.state = "holding" /\ shut'.state = "waiting"
        /\ \/ keyQemu' = keyQemu
           \/ \E r \in Keys!Apply(keyQemu, Power, FALSE) : keyQemu' = r[1]
    BY <1>1, <1>14 DEF Keys!ShutdownRelease
  <2>2. keyQemu' = keyQemu \/ Pressed(keyQemu, keyQemu', Power, FALSE)
    BY <1>1, <2>1, KeySends
  <2>3. /\ keyQemu'.usb = keyQemu.usb
        /\ \A j : j # Power => (j \in keyQemu'.held <=> j \in keyQemu.held)
    BY <2>2 DEF Pressed, Alike
  <2>4. Keys!OnlyInterrupted  BY <2>1, <2>3 DEF Keys!OnlyInterrupted, Keys!Agree
  <2>5. Keys!HoldKept  BY <2>1 DEF Keys!HoldKept
  <2> QED BY <2>1, <2>3, <2>4, <2>5, UsbQuiet
<1>15. CASE Keys!ShutdownEnd
  <2>1. /\ active' = active /\ wish' = wish /\ shut.state = "waiting"
        /\ shut' = [shut EXCEPT !.state = "failed"]
        /\ IF shut.restore THEN \E u \in Keys!SetUsb(keyQemu, TRUE) : keyQemu' = u[1]
           ELSE keyQemu' = keyQemu
    BY <1>15 DEF Keys!ShutdownEnd
  <2>2. Powered(keyQemu, keyQemu') /\ UsbRestored(keyQemu, keyQemu', shut.restore)
    <3> DEFINE on == shut.restore
               s == keyQemu'
    <3>1. on \in BOOLEAN /\ IF on THEN \E u \in Keys!SetUsb(keyQemu, TRUE) : s = u[1]
                            ELSE s = keyQemu
      BY <1>1, <2>1
    <3> HIDE DEF on, s
    <3>2. Powered(keyQemu, s) /\ UsbRestored(keyQemu, s, on)  BY <1>1, <3>1, KeyRestores
    <3> QED BY <3>2 DEF on, s
  <2>3. keyQemu'.held = keyQemu.held  BY <2>2 DEF Powered
  <2>4. shut'.state = "failed"  BY <1>1, <2>1
  <2>5. Keys!UsbFollows
    BY <1>1, <2>1, <2>2, <2>4 DEF Keys!UsbFollows, UsbRestored, Keys!Underway
  <2> QED BY <2>1, <2>3, <2>5, KeysQuiet
<1> QED BY <1>3, <1>4, <1>5, <1>6, <1>7, <1>8, <1>9, <1>10, <1>11, <1>12, <1>13, <1>14, <1>15
        DEF Keys!Next, Keys!Shutdown

LEMMA KeysActs ==
  ASSUME KeysInv, Keys!Next \/ UNCHANGED keysVars
  PROVE  /\ Keys!OnlyInterrupted /\ Keys!RenewalsNeverHeal
         /\ Keys!HoldKept /\ Keys!UsbFollows
<1>1. CASE keyQemu.up  BY <1>1, KeysRenew, KeysPart
<1>2. CASE ~keyQemu.up
  <2>1. keyQemu.held = {}  BY <1>2 DEF KeysInv, KeyProcesses, Keys!Down
  <2> QED BY <1>2, <2>1, KeysRenew DEF Keys!OnlyInterrupted, Keys!HoldKept, Keys!UsbFollows
<1> QED BY <1>1, <1>2

----------------------------------------------------------------------------
(***************************************************************************)
(* Pictures.  Until a number is given to a picture that is not its own,    *)
(* the frames received are those of this process in their order, and a     *)
(* number below Clock is that of the picture that is kept under it.        *)
(***************************************************************************)
Senders == {f.pic[1] : f \in wire}

\* Each process has left at most one frame on its way.
OnTheWire ==
  /\ \A f \in wire : \E g \in 1 .. frameQemu.gen, n \in 1 .. MaxFrames : f = Frames!Frame(g, n)
  /\ \A f, h \in wire : f.pic[1] = h.pic[1] => f = h
  /\ frameQemu.count + Cardinality(Senders) <= frameQemu.drawn + frameQemu.gen - 1

\* The newest frame is one, and no picture is of a process that is still to come.
OfTheProcesses ==
  /\ latest = Frames!NoFrame \/ (latest.seq \in 1 .. MaxFrames /\ latest.pic[2] = latest.seq
                                  /\ latest.pic[1] >= 1)
  /\ \A p \in {latest.pic, cached.pic, dump.raw} : p[1] <= frameQemu.gen
  /\ \A c \in Browsers : page[c].shown[1] <= frameQemu.gen

\* A page has a number only once it was sent one, and waits for the dump that is
\* made for it.
Turns ==
  /\ \A c \in Browsers : page[c].state # "on" => page[c].last = 0
  /\ dump # Frames!Free => dump.page \in Browsers /\ page[dump.page].state = "dumping"

\* The frames received are those of this process, in their order.
Counted ==
  /\ frameQemu.count <= frameQemu.drawn
  /\ \A f \in wire : f.pic[1] = frameQemu.gen =>
       f.seq = frameQemu.count + 1 /\ frameQemu.drawn = frameQemu.count + 1
  /\ frameQemu.up /\ frameQemu.gen \notin Senders => frameQemu.drawn = frameQemu.count
  /\ latest = IF frameQemu.count = 0 THEN Frames!NoFrame
              ELSE Frames!Frame(frameQemu.gen, frameQemu.count)

\* A picture of this process is not ahead of the frames received, but for the first.
Reached(p) == p[1] = frameQemu.gen => p[2] <= frameQemu.count \/ p[2] <= 1

\* A number is that of its picture, and no page is ahead of the packed frame.
Numbered ==
  /\ \A p \in {cached.pic, dump.raw} : Reached(p)
  /\ cached.seq \in 1 .. MaxFrames => cached.pic[2] = cached.seq /\ cached.pic[1] >= 1
  /\ \A c \in Browsers :
       /\ Reached(page[c].shown)
       /\ page[c].last # 0 => page[c].shown[2] = page[c].last
       /\ cached.seq \in 1 .. MaxFrames /\ page[c].shown[1] = cached.pic[1] =>
            page[c].shown[2] <= cached.seq

FramesInv ==
  /\ Frames!TypeOK /\ OnTheWire /\ OfTheProcesses /\ Turns
  /\ ~crossed => Counted /\ Numbered

PageStates == [state : {"off", "new", "on", "dumping"}, last : 0 .. Frames!Clock,
               shown : Frames!Pictures]
Dumps == [page : Browsers \cup {"none"}, raw : Frames!Pictures]
FrameProcesses ==
  [up : BOOLEAN, gen : 1 .. MaxProcesses, drawn : 0 .. MaxFrames,
   count : 0 .. MaxFrames + MaxProcesses]

\* What a page may show, what may be kept for all, and what a page may be in while k
\* is kept; with x, whether a number is now that of another picture.
PictureOK(p) ==
  p \in Frames!Pictures /\ p[1] <= frameQemu.gen /\ (~crossed => Reached(p))

CacheOK(k, x) ==
  /\ k \in Frames!Frames /\ PictureOK(k.pic)
  /\ ~x /\ k.seq \in 1 .. MaxFrames =>
       /\ k.pic[2] = k.seq /\ k.pic[1] >= 1
       /\ \A c \in Browsers : page[c].shown[1] = k.pic[1] => page[c].shown[2] <= k.seq

PageOK(r, k, x) ==
  /\ r \in PageStates /\ PictureOK(r.shown)
  /\ r.state # "on" => r.last = 0
  /\ ~x => /\ r.last # 0 => r.shown[2] = r.last
           /\ k.seq \in 1 .. MaxFrames /\ r.shown[1] = k.pic[1] => r.shown[2] <= k.seq

\* The types, spelled out.
LEMMA FrameFacts ==
  ASSUME FramesInv
  PROVE  /\ frameQemu \in FrameProcesses
         /\ frameQemu.gen \in 1 .. MaxProcesses /\ frameQemu.gen \in Nat
         /\ frameQemu.drawn \in 0 .. MaxFrames /\ frameQemu.drawn \in Nat
         /\ frameQemu.count \in Nat /\ frameQemu.up \in BOOLEAN
         /\ wire \subseteq Frames!Frames /\ latest \in Frames!Frames /\ cached \in Frames!Frames
         /\ recent \in BOOLEAN /\ crossed \in BOOLEAN
         /\ page \in [Browsers -> PageStates] /\ dump \in Dumps
         /\ MaxFrames \in Nat /\ MaxProcesses \in Nat /\ MaxProcesses > 0
BY HostAssumption DEF FramesInv, Frames!TypeOK, FrameProcesses, PageStates, Dumps

LEMMA PictureFacts ==
  /\ Frames!NoFrame \in Frames!Frames
  /\ Frames!NoFrame.seq = 0 /\ Frames!NoFrame.pic = <<0, 0>>
  /\ <<0, 0>> \in Frames!Pictures /\ Frames!Placeholder \in Frames!Pictures
  /\ \A g \in 1 .. MaxProcesses, n \in 0 .. MaxFrames :
       /\ <<g, n>> \in Frames!Pictures /\ Frames!Frame(g, n) \in Frames!Frames
       /\ Frames!Frame(g, n).seq = n /\ Frames!Frame(g, n).pic = <<g, n>>
  /\ \A p \in Frames!Pictures : p[1] \in 0 .. MaxProcesses /\ p[2] \in Nat /\ p = <<p[1], p[2]>>
  /\ \A f \in Frames!Frames :
       /\ f.seq \in 0 .. Frames!Clock /\ f.pic \in Frames!Pictures
       /\ f = [seq |-> f.seq, pic |-> f.pic]
  /\ Frames!Clock \in Nat /\ Frames!Clock = MaxFrames + 1
<1> USE HostAssumption
<1>1. /\ Frames!Clock \in Nat /\ Frames!Clock = MaxFrames + 1
      /\ 0 \in 0 .. Frames!Clock /\ \A n \in 0 .. MaxFrames : n \in 0 .. Frames!Clock
  BY DEF Frames!Clock
<1>2. <<0, 0>> \in Frames!Pictures /\ Frames!Placeholder \in Frames!Pictures
  BY DEF Frames!Pictures
<1>3. ASSUME NEW g \in 1 .. MaxProcesses, NEW n \in 0 .. MaxFrames
      PROVE  <<g, n>> \in Frames!Pictures
  BY DEF Frames!Pictures
<1>4. ASSUME NEW p \in Frames!Pictures
      PROVE  p[1] \in 0 .. MaxProcesses /\ p[2] \in Nat /\ p = <<p[1], p[2]>>
  BY DEF Frames!Pictures, Frames!Placeholder
<1>5. ASSUME NEW f \in Frames!Frames
      PROVE  /\ f.seq \in 0 .. Frames!Clock /\ f.pic \in Frames!Pictures
             /\ f = [seq |-> f.seq, pic |-> f.pic]
  BY DEF Frames!Frames
<1> HIDE DEF Frames!Pictures
<1>6. Frames!NoFrame \in Frames!Frames /\ Frames!NoFrame.seq = 0 /\ Frames!NoFrame.pic = <<0, 0>>
  BY <1>1, <1>2 DEF Frames!NoFrame, Frames!Frames
<1>7. ASSUME NEW g \in 1 .. MaxProcesses, NEW n \in 0 .. MaxFrames
      PROVE  /\ Frames!Frame(g, n) \in Frames!Frames
             /\ Frames!Frame(g, n).seq = n /\ Frames!Frame(g, n).pic = <<g, n>>
  BY <1>1, <1>3 DEF Frames!Frame, Frames!Frames
<1> QED BY <1>1, <1>2, <1>3, <1>4, <1>5, <1>6, <1>7

\* What is there may be kept and shown.
LEMMA FramesAreOK ==
  ASSUME FramesInv, NEW x \in BOOLEAN, crossed => x
  PROVE  /\ PictureOK(latest.pic) /\ PictureOK(cached.pic) /\ PictureOK(dump.raw)
         /\ CacheOK(cached, x) /\ CacheOK(latest, x)
         /\ \A c \in Browsers : PictureOK(page[c].shown) /\ PageOK(page[c], cached, x)
<1> USE FrameFacts, PictureFacts
<1>1. \A c \in Browsers : page[c] \in PageStates /\ page[c].shown \in Frames!Pictures
  BY DEF PageStates
<1>2. dump.raw \in Frames!Pictures
  BY DEF Dumps
<1>3. PictureOK(latest.pic)
  <2>1. ~crossed => Reached(latest.pic)
    BY DEF FramesInv, Counted, Reached, Frames!Frame
  <2> QED BY <2>1 DEF FramesInv, OfTheProcesses, PictureOK
<1>4. PictureOK(cached.pic) /\ PictureOK(dump.raw)
  BY <1>2 DEF FramesInv, OfTheProcesses, Numbered, PictureOK
<1>5. \A c \in Browsers : PictureOK(page[c].shown)
  BY <1>1 DEF FramesInv, OfTheProcesses, Numbered, PictureOK
<1>6. CacheOK(cached, x)
  BY <1>4 DEF CacheOK, FramesInv, Numbered
<1>7. \A c \in Browsers : PageOK(page[c], cached, x)
  BY <1>1, <1>5 DEF PageOK, FramesInv, Numbered, Turns
<1>8. CacheOK(latest, x)
  <2> SUFFICES ASSUME ~x, latest.seq \in 1 .. MaxFrames
               PROVE  /\ latest.pic[2] = latest.seq /\ latest.pic[1] >= 1
                      /\ \A c \in Browsers : page[c].shown[1] = latest.pic[1] =>
                           page[c].shown[2] <= latest.seq
    BY <1>3 DEF CacheOK
  <2>1. frameQemu.count # 0 /\ latest = Frames!Frame(frameQemu.gen, frameQemu.count)
    BY DEF FramesInv, Counted
  <2>2. latest.seq = frameQemu.count /\ latest.pic = <<frameQemu.gen, frameQemu.count>>
    BY <2>1 DEF Frames!Frame
  <2>3. ASSUME NEW c \in Browsers, page[c].shown[1] = latest.pic[1]
        PROVE  page[c].shown[2] <= latest.seq
    <3>1. Reached(page[c].shown)  BY <1>5 DEF PictureOK
    <3> QED BY <1>1, <2>1, <2>2, <2>3, <3>1 DEF Reached
  <2> QED BY <2>2, <2>3
<1> QED BY <1>3, <1>4, <1>5, <1>6, <1>7, <1>8

\* What changes at one page, in what is kept and in the dump, with QEMU left alone.
LEMMA OnePage ==
  ASSUME FramesInv, UNCHANGED <<frameQemu, wire, latest>>,
         crossed' \in BOOLEAN, crossed => crossed', recent' \in BOOLEAN,
         NEW c \in Browsers, NEW r, page' = [page EXCEPT ![c] = r],
         CacheOK(cached', crossed'), PageOK(r, cached', crossed'),
         \A b \in Browsers \ {c} : PageOK(page[b], cached', crossed'),
         dump' \in Dumps, PictureOK(dump'.raw),
         dump' # Frames!Free =>
           /\ dump'.page \in Browsers
           /\ IF dump'.page = c THEN r.state = "dumping" ELSE page[dump'.page].state = "dumping"
  PROVE  FramesInv'
<1> USE FrameFacts
<1>0. page' \in [Browsers -> PageStates] /\ \A b \in Browsers : PageOK(page'[b], cached', crossed')
  BY DEF PageOK
<1>1. Frames!TypeOK'
  BY <1>0 DEF FramesInv, Frames!TypeOK, CacheOK, PageStates, Dumps
<1>2. OnTheWire'
  BY DEF FramesInv, OnTheWire, Senders
<1>3. OfTheProcesses'
  BY <1>0 DEF FramesInv, OfTheProcesses, CacheOK, PageOK, PictureOK
<1>4. Turns'
  <2>1. \A b \in Browsers : page'[b].state # "on" => page'[b].last = 0
    BY <1>0 DEF PageOK
  <2>2. dump' # Frames!Free => dump'.page \in Browsers /\ page'[dump'.page].state = "dumping"
    OBVIOUS
  <2> QED BY <2>1, <2>2 DEF Turns
<1>5. ASSUME ~crossed' PROVE Counted' /\ Numbered'
  <2>1. Counted'  BY <1>5 DEF FramesInv, Counted, Senders
  <2>2. \A p \in {cached'.pic, dump'.raw} : Reached(p)'
    BY <1>5 DEF CacheOK, PictureOK, Reached
  <2>3. \A b \in Browsers : Reached(page[b].shown)'
    BY <1>5, <1>0 DEF PageOK, PictureOK, Reached
  <2> QED BY <1>5, <1>0, <2>1, <2>2, <2>3 DEF Numbered, CacheOK, PageOK
<1> QED BY <1>1, <1>2, <1>3, <1>4, <1>5 DEF FramesInv

\* The frame a page is sent is the one that is then kept.
LEMMA FrameIsKept ==
  ASSUME FramesInv, NEW last, NEW f, f = Frames!FrameAfter(last), Frames!Packed(f)
  PROVE  /\ recent' \in BOOLEAN
         /\ f = Frames!NoFrame => cached' = cached
         /\ f # Frames!NoFrame =>
              /\ cached' = f /\ f \in {cached, latest}
              /\ latest # Frames!NoFrame /\ f.seq = latest.seq
<1> USE FrameFacts, PictureFacts
<1>1. CASE f = Frames!NoFrame
  BY <1>1 DEF Frames!Packed
<1>2. CASE f # Frames!NoFrame
  <2>1. latest # Frames!NoFrame
    BY <1>2 DEF Frames!FrameAfter
  <2>2. CASE Frames!Keeps
    <3>1. f = [seq |-> latest.seq, pic |-> cached.pic]
      BY <1>2, <2>2 DEF Frames!FrameAfter
    <3>2. f = cached  BY <2>2, <3>1 DEF Frames!Keeps
    <3>3. cached' = cached /\ recent' = recent  BY <2>2 DEF Frames!Packed
    <3> QED BY <2>1, <2>2, <3>2, <3>3 DEF Frames!Keeps
  <2>3. CASE ~Frames!Keeps
    <3>1. f = latest  BY <1>2, <2>3 DEF Frames!FrameAfter
    <3>2. cached' = f /\ recent' = TRUE  BY <1>2, <2>3 DEF Frames!Packed
    <3> QED BY <2>1, <3>1, <3>2
  <2> QED BY <2>2, <2>3
<1> QED BY <1>1, <1>2

\* A page that is sent a frame, and the others, are as they may be.
LEMMA SentOK ==
  ASSUME FramesInv, NEW f \in {cached, latest}, latest # Frames!NoFrame, f.seq = latest.seq
  PROVE  /\ PageOK([state |-> "on", last |-> f.seq, shown |-> f.pic], f, crossed)
         /\ CacheOK(f, crossed)
         /\ \A c \in Browsers : PageOK(page[c], f, crossed)
<1> USE FrameFacts, PictureFacts
<1>1. CacheOK(cached, crossed) /\ CacheOK(latest, crossed)
      /\ \A c \in Browsers : PageOK(page[c], cached, crossed)
  BY FramesAreOK
<1>2. latest.seq \in 1 .. MaxFrames
  BY DEF FramesInv, OfTheProcesses
<1>3. CacheOK(f, crossed)
  BY <1>1
<1>4. f \in Frames!Frames /\ f.seq \in 0 .. Frames!Clock /\ f.seq \in Nat /\ f.pic \in Frames!Pictures
  BY <1>2
<1> DEFINE r == [state |-> "on", last |-> f.seq, shown |-> f.pic]
<1>5. r \in PageStates /\ r.state = "on" /\ r.last = f.seq /\ r.shown = f.pic
  BY <1>4 DEF PageStates
<1> HIDE DEF r
<1>6. ASSUME ~crossed PROVE f.pic[2] = f.seq
  BY <1>2, <1>3, <1>6 DEF CacheOK
<1>7. PageOK(r, f, crossed)
  BY <1>3, <1>4, <1>5, <1>6 DEF PageOK, CacheOK
<1>8. ASSUME NEW c \in Browsers PROVE PageOK(page[c], f, crossed)
  BY <1>1, <1>3, <1>8 DEF PageOK, CacheOK
<1> QED BY <1>3, <1>7, <1>8 DEF r

\* A new process is started, of which there is nothing yet.
LEMMA NewProcess ==
  ASSUME FramesInv, frameQemu.gen < MaxProcesses, frameQemu' = Frames!Fresh,
         latest' = Frames!NoFrame, wire' = wire \/ wire' = {},
         cached' = cached \/ cached' = Frames!NoFrame, recent' \in BOOLEAN,
         UNCHANGED <<page, dump, crossed>>
  PROVE  FramesInv'
<1> USE FrameFacts, PictureFacts
<1>1. /\ frameQemu' \in FrameProcesses /\ frameQemu'.gen = frameQemu.gen + 1
      /\ frameQemu'.count = 0 /\ frameQemu'.drawn = 0
  <2>1. frameQemu.gen + 1 \in 1 .. MaxProcesses  OBVIOUS
  <2>2. 0 \in 0 .. MaxFrames /\ 0 \in 0 .. MaxFrames + MaxProcesses  OBVIOUS
  <2> QED BY <2>1, <2>2 DEF Frames!Fresh, FrameProcesses
<1>2. Frames!TypeOK'
  BY <1>1 DEF Frames!TypeOK, FrameProcesses, PageStates, Dumps
<1>3. OnTheWire'
  <2>1. \A f \in wire' : \E g \in 1 .. frameQemu'.gen, n \in 1 .. MaxFrames : f = Frames!Frame(g, n)
    <3>1. \A g \in 1 .. frameQemu.gen : g \in 1 .. frameQemu'.gen  BY <1>1
    <3> QED BY <3>1 DEF FramesInv, OnTheWire
  <2>2. \A f, h \in wire' : f.pic[1] = h.pic[1] => f = h
    BY DEF FramesInv, OnTheWire
  <2>3. Senders' \subseteq 1 .. frameQemu.gen
    BY DEF FramesInv, OnTheWire, Senders, Frames!Frame
  <2>4. Cardinality(Senders') <= frameQemu.gen /\ Cardinality(Senders') \in Nat
    <3>1. IsFiniteSet(1 .. frameQemu.gen) /\ Cardinality(1 .. frameQemu.gen) = frameQemu.gen
      <4>1. /\ IsFiniteSet(1 .. frameQemu.gen)
            /\ Cardinality(1 .. frameQemu.gen) = IF 1 > frameQemu.gen THEN 0 ELSE frameQemu.gen - 1 + 1
        <5>1. 1 \in Int /\ frameQemu.gen \in Int  OBVIOUS
        <5> HIDE FrameFacts, PictureFacts
        <5> QED BY <5>1, FS_Interval
      <4> QED BY <4>1
    <3>2. IsFiniteSet(Senders') /\ Cardinality(Senders') <= Cardinality(1 .. frameQemu.gen)
      BY <2>3, <3>1, FS_Subset
    <3>3. Cardinality(Senders') \in Nat
      BY <3>2, FS_CardinalityType
    <3> QED BY <3>1, <3>2, <3>3
  <2>5. frameQemu'.count + Cardinality(Senders') <= frameQemu'.drawn + frameQemu'.gen - 1
    BY <1>1, <2>4
  <2> QED BY <2>1, <2>2, <2>5 DEF OnTheWire
<1>4. OfTheProcesses'
  <2>1. \A p \in {latest.pic, cached.pic, dump.raw} : p[1] <= frameQemu.gen
    BY DEF FramesInv, OfTheProcesses
  <2>2. latest.pic[1] \in Nat /\ cached.pic[1] \in Nat /\ dump.raw[1] \in Nat
        /\ \A c \in Browsers : page[c].shown[1] \in Nat
    BY DEF Dumps, PageStates
  <2>3. Frames!NoFrame.pic[1] = 0  OBVIOUS
  <2>4. \A p \in {latest'.pic, cached'.pic, dump'.raw} : p[1] <= frameQemu'.gen
    BY <1>1, <2>1, <2>2, <2>3
  <2>5. \A c \in Browsers : page'[c].shown[1] <= frameQemu'.gen
    BY <1>1, <2>2 DEF FramesInv, OfTheProcesses
  <2> QED BY <2>4, <2>5 DEF OfTheProcesses
<1>5. Turns'
  BY DEF FramesInv, Turns
<1>6. ASSUME ~crossed' PROVE Counted' /\ Numbered'
  <2>1. \A f \in wire' : f.pic[1] # frameQemu'.gen
    <3> SUFFICES ASSUME NEW f \in wire PROVE f.pic[1] # frameQemu.gen + 1
      BY <1>1
    <3>1. PICK g \in 1 .. frameQemu.gen, n \in 1 .. MaxFrames : f = Frames!Frame(g, n)
      BY DEF FramesInv, OnTheWire
    <3>2. f.pic[1] = g  BY <3>1 DEF Frames!Frame
    <3> QED BY <3>2
  <2>2. Counted'
    BY <1>1, <2>1 DEF Counted
  <2>3. \A p \in {cached'.pic, dump'.raw} : Reached(p)'
    <3>1. cached.pic[1] <= frameQemu.gen /\ dump.raw[1] <= frameQemu.gen
          /\ cached.pic[1] \in Nat /\ dump.raw[1] \in Nat
      BY DEF FramesInv, OfTheProcesses, Dumps
    <3>2. Frames!NoFrame.pic[1] = 0  OBVIOUS
    <3> QED BY <1>1, <3>1, <3>2 DEF Reached
  <2>4. ASSUME NEW c \in Browsers PROVE Reached(page[c].shown)'
    <3>1. page[c].shown[1] <= frameQemu.gen /\ page[c].shown[1] \in Nat
      BY DEF FramesInv, OfTheProcesses, PageStates
    <3> QED BY <1>1, <3>1 DEF Reached
  <2>5. cached'.seq \in 1 .. MaxFrames => cached' = cached
    OBVIOUS
  <2>6. Numbered
    BY <1>6 DEF FramesInv
  <2> QED BY <2>2, <2>3, <2>4, <2>5, <2>6 DEF Numbered
<1> QED BY <1>2, <1>3, <1>4, <1>5, <1>6 DEF FramesInv

\* No more processes have frames on their way than there were.
LEMMA SendersFinite ==
  ASSUME FramesInv
  PROVE  Senders \subseteq 1 .. frameQemu.gen /\ IsFiniteSet(Senders)
<1>1. Senders \subseteq 1 .. frameQemu.gen
  BY FrameFacts DEF FramesInv, OnTheWire, Senders, Frames!Frame
<1>2. 1 \in Int /\ frameQemu.gen \in Int  BY FrameFacts
<1>3. IsFiniteSet(1 .. frameQemu.gen)  BY <1>2, FS_Interval
<1> QED BY <1>1, <1>3, FS_Subset

LEMMA DrawStep ==
  ASSUME FramesInv, Frames!Draw
  PROVE  FramesInv'
<1> USE FrameFacts, PictureFacts
<1> DEFINE f == Frames!Frame(frameQemu.gen, frameQemu.drawn + 1)
<1>1. /\ frameQemu.up /\ frameQemu.drawn < MaxFrames
      /\ frameQemu.gen \notin Senders
      /\ wire' = wire \cup {f}
      /\ UNCHANGED <<latest, cached, recent, page, dump, crossed>>
  BY DEF Frames!Draw, Senders
<1>2. /\ frameQemu' \in FrameProcesses
      /\ frameQemu'.gen = frameQemu.gen /\ frameQemu'.count = frameQemu.count
      /\ frameQemu'.drawn = frameQemu.drawn + 1 /\ frameQemu'.up = frameQemu.up
  <2>1. frameQemu.drawn + 1 \in 0 .. MaxFrames  BY <1>1
  <2> QED BY <2>1 DEF Frames!Draw, FrameProcesses
<1>3. frameQemu.drawn + 1 \in 1 .. MaxFrames /\ frameQemu.drawn + 1 \in 0 .. MaxFrames
  BY <1>1
<1>4. f \in Frames!Frames /\ f.seq = frameQemu.drawn + 1 /\ f.pic = <<frameQemu.gen, frameQemu.drawn + 1>>
      /\ f.pic[1] = frameQemu.gen
  BY <1>3 DEF Frames!Frame
<1>5. Frames!TypeOK'
  BY <1>1, <1>2, <1>4 DEF Frames!TypeOK, FrameProcesses, PageStates, Dumps
<1>6. Senders' = Senders \cup {frameQemu.gen}
  BY <1>1, <1>4 DEF Senders
<1>7. OnTheWire'
  <2>1. f = Frames!Frame(frameQemu.gen, frameQemu.drawn + 1) /\ frameQemu.gen \in 1 .. frameQemu.gen
    OBVIOUS
  <2> HIDE DEF f
  <2>2. \A h \in wire' : \E g \in 1 .. frameQemu'.gen, n \in 1 .. MaxFrames : h = Frames!Frame(g, n)
    BY <1>1, <1>2, <1>3, <2>1 DEF FramesInv, OnTheWire
  <2>3. \A h, j \in wire' : h.pic[1] = j.pic[1] => h = j
    BY <1>1, <1>4 DEF FramesInv, OnTheWire, Senders
  <2>4. IsFiniteSet(Senders)  BY SendersFinite
  <2>5. Cardinality(Senders') = Cardinality(Senders) + 1 /\ Cardinality(Senders) \in Nat
    BY <1>1, <1>6, <2>4, FS_AddElement, FS_CardinalityType
  <2>6. frameQemu.count + Cardinality(Senders) <= frameQemu.drawn + frameQemu.gen - 1
    BY DEF FramesInv, OnTheWire
  <2>7. frameQemu'.count + Cardinality(Senders') <= frameQemu'.drawn + frameQemu'.gen - 1
    BY <1>2, <2>5, <2>6
  <2> QED BY <2>2, <2>3, <2>7 DEF OnTheWire
<1>8. OfTheProcesses' /\ Turns'
  BY <1>1, <1>2 DEF FramesInv, OfTheProcesses, Turns
<1>9. ASSUME ~crossed' PROVE Counted' /\ Numbered'
  <2>1. Counted /\ Numbered  BY <1>1, <1>9 DEF FramesInv
  <2>2. frameQemu.drawn = frameQemu.count  BY <1>1, <2>1 DEF Counted
  <2>3. \A h \in wire : h.pic[1] # frameQemu.gen  BY <1>1 DEF Senders
  <2>4. Counted'
    <3>1. frameQemu'.count <= frameQemu'.drawn  BY <1>2, <2>2
    <3>2. \A h \in wire' : h.pic[1] = frameQemu'.gen =>
            h.seq = frameQemu'.count + 1 /\ frameQemu'.drawn = frameQemu'.count + 1
      BY <1>1, <1>2, <1>4, <2>2, <2>3
    <3>3. frameQemu'.gen \in Senders'  BY <1>2, <1>6
    <3> QED BY <1>1, <1>2, <2>1, <3>1, <3>2, <3>3 DEF Counted
  <2>5. Numbered'  BY <1>1, <1>2, <2>1 DEF Numbered, Reached
  <2> QED BY <2>4, <2>5
<1> QED BY <1>5, <1>7, <1>8, <1>9 DEF FramesInv

LEMMA ReceiveStep ==
  ASSUME FramesInv, NEW f \in wire, Frames!Receive(f)
  PROVE  FramesInv'
<1> USE FrameFacts, PictureFacts
<1>1. /\ wire' = wire \ {f} /\ latest' = f
      /\ frameQemu' = [frameQemu EXCEPT !.count = @ + 1]
      /\ crossed' = (crossed \/ f.pic[1] # frameQemu.gen)
      /\ UNCHANGED <<cached, recent, page, dump>>
  BY DEF Frames!Receive
<1>2. PICK g \in 1 .. frameQemu.gen, n \in 1 .. MaxFrames : f = Frames!Frame(g, n)
  BY DEF FramesInv, OnTheWire
<1>3. /\ f.seq = n /\ f.pic = <<g, n>> /\ f.pic[1] = g /\ f.pic[2] = n /\ f \in Frames!Frames
      /\ g \in 1 .. MaxProcesses /\ n \in Nat
  BY <1>2 DEF Frames!Frame
<1>4. Senders' = Senders \ {g} /\ g \in Senders
  BY <1>1, <1>3 DEF FramesInv, OnTheWire, Senders
<1>5. IsFiniteSet(Senders)  BY SendersFinite
<1>6. Cardinality(Senders') = Cardinality(Senders) - 1 /\ Cardinality(Senders') \in Nat
      /\ Cardinality(Senders) \in Nat
  <2>1. Cardinality(Senders') = Cardinality(Senders) - 1 /\ IsFiniteSet(Senders')
    BY <1>4, <1>5, FS_RemoveElement
  <2> QED BY <1>5, <2>1, FS_CardinalityType
<1>7. frameQemu.count + Cardinality(Senders) <= frameQemu.drawn + frameQemu.gen - 1
  BY DEF FramesInv, OnTheWire
<1>8. /\ frameQemu' \in FrameProcesses
      /\ frameQemu'.gen = frameQemu.gen /\ frameQemu'.drawn = frameQemu.drawn
      /\ frameQemu'.count = frameQemu.count + 1 /\ frameQemu'.up = frameQemu.up
  <2>1. frameQemu.count + 1 \in 0 .. MaxFrames + MaxProcesses  BY <1>6, <1>7
  <2> QED BY <1>1, <2>1 DEF FrameProcesses
<1>9. Frames!TypeOK'
  <2>1. crossed' \in BOOLEAN  BY <1>1
  <2> QED BY <1>1, <1>3, <1>8, <2>1 DEF Frames!TypeOK, FrameProcesses, PageStates, Dumps
<1>10. OnTheWire'
  <2>1. frameQemu'.count + Cardinality(Senders') <= frameQemu'.drawn + frameQemu'.gen - 1
    BY <1>6, <1>7, <1>8
  <2> QED BY <1>1, <1>8, <2>1 DEF FramesInv, OnTheWire
<1>11. OfTheProcesses'
  BY <1>1, <1>3, <1>8 DEF FramesInv, OfTheProcesses
<1>12. Turns'
  BY <1>1 DEF FramesInv, Turns
<1>13. ASSUME ~crossed' PROVE Counted' /\ Numbered'
  <2>1. Counted /\ Numbered /\ g = frameQemu.gen
    BY <1>1, <1>3, <1>13 DEF FramesInv
  <2>2. n = frameQemu.count + 1 /\ frameQemu.drawn = frameQemu.count + 1
    BY <1>3, <2>1 DEF Counted
  <2>3. \A h \in wire' : h.pic[1] # frameQemu.gen
    BY <1>1, <1>3, <2>1 DEF FramesInv, OnTheWire
  <2>4. Counted'
    <3>1. latest' = Frames!Frame(frameQemu'.gen, frameQemu'.count) /\ frameQemu'.count # 0
      BY <1>1, <1>2, <1>8, <2>1, <2>2
    <3> QED BY <1>8, <2>2, <2>3, <3>1 DEF Counted
  <2>5. ASSUME NEW p \in Frames!Pictures, Reached(p) PROVE Reached(p)'
    BY <1>8, <2>5 DEF Reached
  <2>6. \A c \in Browsers : page[c].shown \in Frames!Pictures  BY DEF PageStates
  <2>7. cached.pic \in Frames!Pictures /\ dump.raw \in Frames!Pictures  BY DEF Dumps
  <2>8. Numbered'
    BY <1>1, <2>1, <2>5, <2>6, <2>7 DEF Numbered, Reached
  <2> QED BY <2>4, <2>8
<1> QED BY <1>9, <1>10, <1>11, <1>12, <1>13 DEF FramesInv

LEMMA ExitStep ==
  ASSUME FramesInv, Frames!Exit
  PROVE  FramesInv'
<1> USE FrameFacts, PictureFacts
<1>1. /\ wire' = wire \/ wire' = {}
      /\ UNCHANGED <<latest, cached, recent, page, dump, crossed>>
  BY DEF Frames!Exit
<1>2. /\ frameQemu' \in FrameProcesses
      /\ frameQemu'.gen = frameQemu.gen /\ frameQemu'.drawn = frameQemu.drawn
      /\ frameQemu'.count = frameQemu.count /\ frameQemu'.up = FALSE
  BY DEF Frames!Exit, FrameProcesses
<1>3. Frames!TypeOK'
  BY <1>1, <1>2 DEF Frames!TypeOK, FrameProcesses, PageStates, Dumps
<1>4. OnTheWire'
  <2>1. IsFiniteSet(Senders)  BY SendersFinite
  <2>2. Cardinality(Senders') <= Cardinality(Senders) /\ Cardinality(Senders) \in Nat
        /\ Cardinality(Senders') \in Nat
    <3>1. Senders' \subseteq Senders  BY <1>1 DEF Senders
    <3>2. IsFiniteSet(Senders') /\ Cardinality(Senders') <= Cardinality(Senders)
      BY <2>1, <3>1, FS_Subset
    <3> QED BY <2>1, <3>2, FS_CardinalityType
  <2>3. frameQemu.count + Cardinality(Senders) <= frameQemu.drawn + frameQemu.gen - 1
    BY DEF FramesInv, OnTheWire
  <2>4. frameQemu'.count + Cardinality(Senders') <= frameQemu'.drawn + frameQemu'.gen - 1
    BY <1>2, <2>2, <2>3
  <2> QED BY <1>1, <1>2, <2>4 DEF FramesInv, OnTheWire
<1>5. OfTheProcesses' /\ Turns'
  BY <1>1, <1>2 DEF FramesInv, OfTheProcesses, Turns
<1>6. ASSUME ~crossed' PROVE Counted' /\ Numbered'
  <2>1. Counted /\ Numbered  BY <1>1, <1>6 DEF FramesInv
  <2>2. Counted'  BY <1>1, <1>2, <2>1 DEF Counted
  <2>3. Numbered'  BY <1>1, <1>2, <2>1 DEF Numbered, Reached
  <2> QED BY <2>2, <2>3
<1> QED BY <1>3, <1>4, <1>5, <1>6 DEF FramesInv

LEMMA ConnectStep ==
  ASSUME FramesInv, NEW c \in Browsers, Frames!Connect(c) \/ Frames!Leave(c)
  PROVE  FramesInv'
<1> USE FrameFacts, PictureFacts
<1> DEFINE r == IF Frames!Leave(c) THEN Frames!Away ELSE [Frames!Away EXCEPT !.state = "new"]
<1>1. /\ page' = [page EXCEPT ![c] = r]
      /\ page[c].state # "dumping"
      /\ UNCHANGED <<frameQemu, wire, latest, cached, recent, dump, crossed>>
  BY DEF Frames!Connect, Frames!Leave
<1>2. r \in PageStates /\ r.last = 0 /\ r.shown = <<0, 0>>
  <2>1. 0 \in 0 .. Frames!Clock  OBVIOUS
  <2> QED BY <2>1 DEF Frames!Away, PageStates
<1> HIDE DEF r
<1>3. PictureOK(<<0, 0>>)
  BY DEF PictureOK, Reached
<1>4. PageOK(r, cached, crossed)
  BY <1>2, <1>3 DEF PageOK
<1>5. CacheOK(cached, crossed) /\ PictureOK(dump.raw)
      /\ \A b \in Browsers : PageOK(page[b], cached, crossed)
  BY FramesAreOK
<1>6. dump # Frames!Free => dump.page \in Browsers /\ page[dump.page].state = "dumping"
  BY DEF FramesInv, Turns
<1> QED BY <1>1, <1>4, <1>5, <1>6, OnePage

LEMMA GreetStep ==
  ASSUME FramesInv, NEW c \in Browsers, Frames!Greet(c)
  PROVE  FramesInv'
<1> USE FrameFacts, PictureFacts
<1> DEFINE f == Frames!FrameAfter(0)
<1>1. /\ page[c].state = "new" /\ Frames!Packed(f)
      /\ IF f # Frames!NoFrame THEN Frames!Sent(c, f)
         ELSE IF cached # Frames!NoFrame THEN Frames!Shown(c, cached.pic)
         ELSE page' = [page EXCEPT ![c].state = IF frameQemu.up THEN "on" ELSE "dumping"]
      /\ UNCHANGED <<frameQemu, wire, latest, dump, crossed>>
  BY DEF Frames!Greet
<1>2. /\ recent' \in BOOLEAN
      /\ f = Frames!NoFrame => cached' = cached
      /\ f # Frames!NoFrame =>
           /\ cached' = f /\ f \in {cached, latest}
           /\ latest # Frames!NoFrame /\ f.seq = latest.seq
  BY <1>1, FrameIsKept
<1> HIDE DEF f
<1>3. /\ CacheOK(cached, crossed) /\ PictureOK(dump.raw) /\ PictureOK(cached.pic)
      /\ \A b \in Browsers : PageOK(page[b], cached, crossed)
  BY FramesAreOK
<1>4. dump # Frames!Free => dump.page \in Browsers /\ page[dump.page].state = "dumping"
  BY DEF FramesInv, Turns
<1>5. dump # Frames!Free => dump.page # c
  BY <1>1, <1>4
<1>6. CASE f # Frames!NoFrame
  <2>1. page' = [page EXCEPT ![c] = [state |-> "on", last |-> f.seq, shown |-> f.pic]]
    BY <1>1, <1>6 DEF Frames!Sent
  <2>2. /\ PageOK([state |-> "on", last |-> f.seq, shown |-> f.pic], f, crossed)
        /\ CacheOK(f, crossed)
        /\ \A b \in Browsers : PageOK(page[b], f, crossed)
    BY <1>2, <1>6, SentOK
  <2>3. cached' = f /\ crossed' = crossed /\ dump' = dump
        /\ UNCHANGED <<frameQemu, wire, latest>>
    BY <1>1, <1>2, <1>6
  <2> DEFINE r == [state |-> "on", last |-> f.seq, shown |-> f.pic]
  <2>4. PageOK(r, cached', crossed') /\ CacheOK(cached', crossed') /\ page' = [page EXCEPT ![c] = r]
        /\ \A b \in Browsers : PageOK(page[b], cached', crossed')
    BY <2>1, <2>2, <2>3
  <2> HIDE DEF r
  <2>5. crossed' \in BOOLEAN /\ (crossed => crossed') /\ dump' \in Dumps /\ PictureOK(dump'.raw)
    BY <1>3, <2>3
  <2>6. dump' # Frames!Free => dump'.page \in Browsers /\ dump'.page # c
                               /\ page[dump'.page].state = "dumping"
    BY <1>4, <1>5, <2>3
  <2> QED BY <1>2, <2>3, <2>4, <2>5, <2>6, OnePage
<1>7. CASE f = Frames!NoFrame
  <2>1. page[c] \in PageStates /\ page[c].last = 0  BY <1>1 DEF FramesInv, Turns
  <2>2. PICK r \in PageStates : /\ page' = [page EXCEPT ![c] = r]
                                /\ r.last = 0 /\ (r.shown = page[c].shown \/ r.shown = cached.pic)
    <3>1. CASE cached # Frames!NoFrame
      <4>1. page' = [page EXCEPT ![c] = [page[c] EXCEPT !.state = "on", !.shown = cached.pic]]
        BY <1>1, <1>7, <3>1 DEF Frames!Shown
      <4>2. [page[c] EXCEPT !.state = "on", !.shown = cached.pic] \in PageStates
        BY <2>1 DEF PageStates
      <4> QED BY <2>1, <4>1, <4>2 DEF PageStates
    <3>2. CASE cached = Frames!NoFrame
      <4>1. PICK st \in {"on", "dumping"} : page' = [page EXCEPT ![c] = [page[c] EXCEPT !.state = st]]
        BY <1>1, <1>7, <3>2
      <4>2. [page[c] EXCEPT !.state = st] \in PageStates
        BY <2>1 DEF PageStates
      <4> QED BY <2>1, <4>1, <4>2 DEF PageStates
    <3> QED BY <3>1, <3>2
  <2>3. PageOK(r, cached, crossed)
    <3>1. PageOK(page[c], cached, crossed)  BY <1>3
    <3>2. PictureOK(r.shown)  BY <1>3, <2>2, <3>1 DEF PageOK
    <3>3. CASE r.shown = page[c].shown
      BY <2>2, <3>1, <3>2, <3>3 DEF PageOK
    <3>4. CASE r.shown = cached.pic
      <4>1. ASSUME ~crossed, cached.seq \in 1 .. MaxFrames
            PROVE  r.shown[2] <= cached.seq
        <5>1. cached.pic[2] = cached.seq /\ cached.seq \in Nat
          BY <1>3, <4>1 DEF CacheOK
        <5> QED BY <3>4, <5>1
      <4> QED BY <2>2, <3>2, <4>1 DEF PageOK
    <3> QED BY <2>2, <3>3, <3>4
  <2>4. cached' = cached /\ crossed' = crossed /\ dump' = dump
        /\ UNCHANGED <<frameQemu, wire, latest>>
    BY <1>1, <1>2, <1>7
  <2>5. PageOK(r, cached', crossed') /\ CacheOK(cached', crossed')
        /\ \A b \in Browsers : PageOK(page[b], cached', crossed')
    BY <1>3, <2>3, <2>4
  <2>6. crossed' \in BOOLEAN /\ (crossed => crossed') /\ dump' \in Dumps /\ PictureOK(dump'.raw)
    BY <1>3, <2>4
  <2>7. dump' # Frames!Free => dump'.page \in Browsers /\ dump'.page # c
                               /\ page[dump'.page].state = "dumping"
    BY <1>4, <1>5, <2>4
  <2> HIDE FrameFacts, PictureFacts
  <2> QED BY <1>2, <2>2, <2>4, <2>5, <2>6, <2>7, OnePage
<1> QED BY <1>6, <1>7

LEMMA TurnStep ==
  ASSUME FramesInv, NEW c \in Browsers, Frames!Turn(c)
  PROVE  FramesInv'
<1> USE FrameFacts, PictureFacts
<1> DEFINE f == Frames!FrameAfter(page[c].last)
<1>1. /\ page[c].state = "on" /\ Frames!Packed(f) /\ f # Frames!NoFrame
      /\ page' = [page EXCEPT ![c] = [state |-> "on", last |-> f.seq, shown |-> f.pic]]
      /\ UNCHANGED <<frameQemu, wire, latest, dump, crossed>>
  BY DEF Frames!Turn, Frames!Sent
<1>2. /\ recent' \in BOOLEAN /\ cached' = f /\ f \in {cached, latest}
      /\ latest # Frames!NoFrame /\ f.seq = latest.seq
  BY <1>1, FrameIsKept
<1> HIDE DEF f
<1>3. /\ PageOK([state |-> "on", last |-> f.seq, shown |-> f.pic], f, crossed)
      /\ CacheOK(f, crossed)
      /\ \A b \in Browsers : PageOK(page[b], f, crossed)
  BY <1>2, SentOK
<1>4. PictureOK(dump.raw)
  BY FramesAreOK
<1>5. dump # Frames!Free => dump.page \in Browsers /\ page[dump.page].state = "dumping" /\ dump.page # c
  BY <1>1 DEF FramesInv, Turns
<1> QED BY <1>1, <1>2, <1>3, <1>4, <1>5, OnePage

LEMMA ElapseStep ==
  ASSUME FramesInv, Frames!Elapse
  PROVE  FramesInv'
BY FrameFacts DEF Frames!Elapse, FramesInv, Frames!TypeOK, OnTheWire, Senders, OfTheProcesses, Turns,
  Counted, Numbered, Reached

\* A page shows a picture and waits for its dump no longer; and a picture without a
\* number, or the newest frame, may be kept.
LEMMA ShownOK ==
  ASSUME FramesInv, NEW c \in Browsers, page[c].state = "dumping", NEW p, PictureOK(p), NEW k,
         NEW x \in BOOLEAN, CacheOK(k, x), p = k.pic
  PROVE  PageOK([page[c] EXCEPT !.state = "on", !.shown = p], k, x)
<1> USE FrameFacts, PictureFacts
<1> DEFINE r == [page[c] EXCEPT !.state = "on", !.shown = p]
<1>1. page[c] \in PageStates /\ page[c].last = 0
  BY DEF FramesInv, Turns
<1>2. r \in PageStates /\ r.state = "on" /\ r.last = 0 /\ r.shown = p
  BY <1>1 DEF PictureOK, PageStates
<1> HIDE DEF r
<1>3. PageOK(r, k, x)
  BY <1>2 DEF PageOK, CacheOK
<1> QED BY <1>3 DEF r

LEMMA OthersOK ==
  ASSUME FramesInv, NEW x \in BOOLEAN, crossed => x, NEW k, CacheOK(k, x)
  PROVE  \A c \in Browsers : PageOK(page[c], k, x)
<1>1. \A c \in Browsers : PageOK(page[c], cached, x)
  BY FramesAreOK
<1> QED BY <1>1 DEF PageOK, CacheOK

LEMMA ClockOK ==
  ASSUME FramesInv, NEW p, PictureOK(p), NEW x \in BOOLEAN
  PROVE  CacheOK([seq |-> Frames!Clock, pic |-> p], x)
<1> USE FrameFacts, PictureFacts
<1> DEFINE k == [seq |-> Frames!Clock, pic |-> p]
<1>1. k.seq = Frames!Clock /\ k.pic = p  OBVIOUS
<1>2. k \in Frames!Frames
  BY DEF PictureOK, Frames!Frames
<1>3. k.seq \notin 1 .. MaxFrames  BY <1>1
<1> QED BY <1>1, <1>2, <1>3 DEF CacheOK

LEMMA DumpStartStep ==
  ASSUME FramesInv, NEW c \in Browsers, Frames!DumpStart(c)
  PROVE  FramesInv'
<1> USE FrameFacts, PictureFacts
<1>1. page[c].state = "dumping" /\ dump.page # c /\ UNCHANGED <<wire, recent, crossed>>
  BY DEF Frames!DumpStart
<1>2. /\ PictureOK(latest.pic) /\ PictureOK(cached.pic) /\ PictureOK(dump.raw)
      /\ CacheOK(cached, crossed) /\ CacheOK(latest, crossed)
      /\ \A b \in Browsers : PageOK(page[b], cached, crossed)
  BY FramesAreOK
<1>9. ASSUME NEW k, CacheOK(k, crossed), PictureOK(k.pic)
          PROVE  PageOK([page[c] EXCEPT !.state = "on", !.shown = k.pic], k, crossed)
  <2>1. page[c].state = "dumping" /\ crossed \in BOOLEAN  BY <1>1
  <2> DEFINE p == k.pic
  <2>2. PictureOK(p) /\ p = k.pic  BY <1>9
  <2> HIDE FrameFacts, PictureFacts
  <2> HIDE DEF p
  <2>3. PageOK([page[c] EXCEPT !.state = "on", !.shown = p], k, crossed)
    BY <1>9, <2>1, <2>2, ShownOK
  <2> QED BY <2>2, <2>3
<1>3. dump # Frames!Free => dump.page \in Browsers /\ page[dump.page].state = "dumping"
  BY DEF FramesInv, Turns
<1>4. CASE /\ ~frameQemu.up /\ frameQemu.gen < MaxProcesses
           /\ frameQemu' = Frames!Fresh /\ latest' = Frames!NoFrame
           /\ UNCHANGED <<cached, page, dump>>
  BY <1>1, <1>4, NewProcess
<1>5. CASE /\ frameQemu.up /\ latest # Frames!NoFrame
           /\ Frames!Keep(latest) /\ Frames!Shown(c, latest.pic)
           /\ UNCHANGED <<frameQemu, latest, dump>>
  <2>1. cached' = latest
        /\ page' = [page EXCEPT ![c] = [page[c] EXCEPT !.state = "on", !.shown = latest.pic]]
    BY <1>5 DEF Frames!Keep, Frames!Shown
  <2>2. PageOK([page[c] EXCEPT !.state = "on", !.shown = latest.pic], latest, crossed)
    BY <1>2, <1>9
  <2>3. \A b \in Browsers : PageOK(page[b], latest, crossed)
    BY <1>2, OthersOK
  <2> QED BY <1>1, <1>2, <1>3, <1>5, <2>1, <2>2, <2>3, OnePage
<1>6. CASE /\ frameQemu.up /\ latest = Frames!NoFrame /\ cached # Frames!NoFrame
           /\ Frames!Shown(c, cached.pic)
           /\ UNCHANGED <<frameQemu, latest, cached, dump>>
  <2>1. page' = [page EXCEPT ![c] = [page[c] EXCEPT !.state = "on", !.shown = cached.pic]]
    BY <1>6 DEF Frames!Shown
  <2>2. PageOK([page[c] EXCEPT !.state = "on", !.shown = cached.pic], cached, crossed)
    BY <1>2, <1>9
  <2> QED BY <1>1, <1>2, <1>3, <1>6, <2>1, <2>2, OnePage
<1>7. CASE /\ dump = Frames!Free /\ dump' = [page |-> c, raw |-> Frames!NoFrame.pic]
           /\ UNCHANGED <<cached, page, frameQemu, latest>>
  <2>1. page' = [page EXCEPT ![c] = page[c]]
    BY <1>7
  <2>2. dump' \in Dumps /\ dump'.page = c /\ dump'.raw = <<0, 0>>
    BY <1>7 DEF Dumps
  <2>3. PictureOK(<<0, 0>>)
    BY DEF PictureOK, Reached
  <2> QED BY <1>1, <1>2, <1>7, <2>1, <2>2, <2>3, OnePage
<1>8. CASE /\ Frames!Keep([seq |-> Frames!Clock, pic |-> Frames!Placeholder])
           /\ Frames!Shown(c, Frames!Placeholder)
           /\ UNCHANGED <<dump, frameQemu, latest>>
  <2> DEFINE k == [seq |-> Frames!Clock, pic |-> Frames!Placeholder]
  <2>1. cached' = k
        /\ page' = [page EXCEPT ![c] = [page[c] EXCEPT !.state = "on", !.shown = Frames!Placeholder]]
    BY <1>8 DEF Frames!Keep, Frames!Shown
  <2>2. PictureOK(Frames!Placeholder)
    BY DEF PictureOK, Reached, Frames!Placeholder
  <2>3. CacheOK(k, crossed) /\ k.pic = Frames!Placeholder
    BY <2>2, ClockOK
  <2> HIDE DEF k
  <2>4. PageOK([page[c] EXCEPT !.state = "on", !.shown = Frames!Placeholder], k, crossed)
    BY <2>2, <2>3, <1>9
  <2>5. \A b \in Browsers : PageOK(page[b], k, crossed)
    BY <2>3, OthersOK
  <2> QED BY <1>1, <1>2, <1>3, <1>8, <2>1, <2>3, <2>4, <2>5, OnePage
<1> QED BY <1>4, <1>5, <1>6, <1>7, <1>8 DEF Frames!DumpStart

LEMMA DumpReadStep ==
  ASSUME FramesInv, Frames!DumpRead
  PROVE  FramesInv'
<1> USE FrameFacts, PictureFacts
<1> DEFINE p == IF latest # Frames!NoFrame THEN latest.pic
                ELSE IF frameQemu.up THEN <<frameQemu.gen, frameQemu.drawn>>
                ELSE Frames!Placeholder
<1>1. /\ dump # Frames!Free /\ dump' = [dump EXCEPT !.raw = p]
      /\ UNCHANGED <<frameQemu, wire, latest, cached, recent, page, crossed>>
  BY DEF Frames!DumpRead
<1>2. PictureOK(p)
  <2>1. CASE latest # Frames!NoFrame
    BY <2>1, FramesAreOK
  <2>2. CASE latest = Frames!NoFrame /\ frameQemu.up
    <3>1. p = <<frameQemu.gen, frameQemu.drawn>> /\ p \in Frames!Pictures
      BY <2>2
    <3>2. ASSUME ~crossed PROVE frameQemu.drawn <= 1
      <4>1. Counted  BY <3>2 DEF FramesInv
      <4>2. frameQemu.count = 0
        BY <2>2, <4>1 DEF Counted, Frames!Frame
      <4>3. CASE frameQemu.gen \notin Senders
        BY <2>2, <4>1, <4>2, <4>3 DEF Counted
      <4>4. CASE frameQemu.gen \in Senders
        BY <4>1, <4>2, <4>4 DEF Counted, Senders
      <4> QED BY <4>3, <4>4
    <3> QED BY <3>1, <3>2 DEF PictureOK, Reached
  <2>3. CASE latest = Frames!NoFrame /\ ~frameQemu.up
    BY <2>3 DEF PictureOK, Reached, Frames!Placeholder
  <2> QED BY <2>1, <2>2, <2>3
<1>3. dump.page \in Browsers /\ page[dump.page].state = "dumping"
  BY <1>1 DEF FramesInv, Turns
<1> HIDE DEF p
<1>4. dump' \in Dumps /\ dump'.page = dump.page /\ dump'.raw = p
  BY <1>1, <1>2 DEF Dumps, PictureOK
<1>5. page' = [page EXCEPT ![dump.page] = page[dump.page]]
  BY <1>1, <1>3
<1>6. CacheOK(cached, crossed) /\ \A b \in Browsers : PageOK(page[b], cached, crossed)
  BY FramesAreOK
<1> QED BY <1>1, <1>2, <1>3, <1>4, <1>5, <1>6, OnePage

LEMMA DumpEndStep ==
  ASSUME FramesInv, Frames!DumpEnd
  PROVE  FramesInv'
<1> USE FrameFacts, PictureFacts
<1> DEFINE k == [seq |-> Frames!DumpNumber, pic |-> dump.raw]
           c == dump.page
<1>1. /\ dump # Frames!Free /\ cached' = k
      /\ page' = [page EXCEPT ![c] = [page[c] EXCEPT !.state = "on", !.shown = dump.raw]]
      /\ crossed' = (crossed \/ Frames!Crosses)
      /\ dump' = Frames!Free
      /\ UNCHANGED <<frameQemu, wire, latest, recent>>
  BY DEF Frames!DumpEnd, Frames!Keep, Frames!Shown
<1>2. c \in Browsers /\ page[c].state = "dumping"
  BY <1>1 DEF FramesInv, Turns
<1>3. PictureOK(dump.raw)
  BY FramesAreOK
<1>4. Frames!DumpNumber \in 0 .. Frames!Clock
  BY DEF Frames!DumpNumber
<1>5. CacheOK(k, crossed')
  <2>1. k \in Frames!Frames /\ k.seq = Frames!DumpNumber /\ k.pic = dump.raw
    BY <1>3, <1>4 DEF PictureOK, Frames!Frames
  <2>2. ASSUME ~crossed', k.seq \in 1 .. MaxFrames
        PROVE  /\ k.pic[2] = k.seq /\ k.pic[1] >= 1
               /\ \A b \in Browsers : page[b].shown[1] = k.pic[1] => page[b].shown[2] <= k.seq
    <3>1. ~crossed /\ dump.raw = <<frameQemu.gen, k.seq>>
      <4>1. ~crossed /\ ~Frames!Crosses  BY <1>1, <2>2
      <4>2. Frames!DumpNumber # Frames!Clock  BY <2>1, <2>2
      <4> QED BY <2>1, <4>1, <4>2 DEF Frames!Crosses
    <3>2. k.seq = frameQemu.count /\ frameQemu.count >= 1
      BY <2>1, <2>2 DEF Frames!DumpNumber
    <3>3. ASSUME NEW b \in Browsers, page[b].shown[1] = frameQemu.gen
          PROVE  page[b].shown[2] <= k.seq
      <4>1. Reached(page[b].shown) /\ page[b].shown[2] \in Nat
        BY <3>1 DEF FramesInv, Numbered, PageStates
      <4> QED BY <3>2, <3>3, <4>1 DEF Reached
    <3> QED BY <2>1, <3>1, <3>2, <3>3
  <2> QED BY <1>3, <2>1, <2>2 DEF CacheOK
<1>6. crossed' \in BOOLEAN /\ (crossed => crossed')
  BY <1>1
<1>7. k.pic = dump.raw  OBVIOUS
<1> HIDE DEF k
<1>8. PageOK([page[c] EXCEPT !.state = "on", !.shown = dump.raw], k, crossed')
  BY <1>2, <1>3, <1>5, <1>6, <1>7, ShownOK
<1>9. \A b \in Browsers : PageOK(page[b], k, crossed')
  BY <1>5, <1>6, OthersOK
<1>10. Frames!Free \in Dumps /\ PictureOK(Frames!Free.raw)
  BY DEF Frames!Free, Dumps, PictureOK, Reached
<1> HIDE DEF c
<1> QED BY <1>1, <1>2, <1>5, <1>6, <1>8, <1>9, <1>10, OnePage

LEMMA FramesStep ==
  ASSUME FramesInv, Frames!Next
  PROVE  FramesInv'
<1>1. CASE Frames!Restart \/ Frames!Reset
  BY <1>1, NewProcess, FrameFacts DEF Frames!Restart, Frames!Reset
<1> QED BY <1>1, DrawStep, ReceiveStep, ExitStep, ConnectStep, GreetStep, TurnStep, ElapseStep,
           DumpStartStep, DumpReadStep, DumpEndStep DEF Frames!Next, Frames!Serve

\* A page that has the newest number and a picture of its process has that frame.
LEMMA FramesStates ==
  ASSUME FramesInv PROVE Frames!TypeOK /\ Frames!NumbersName
<1> USE FrameFacts, PictureFacts
<1>1. ASSUME ~crossed, NEW c \in Browsers, latest # Frames!NoFrame,
             page[c].last = latest.seq, page[c].shown[1] = latest.pic[1]
      PROVE  page[c].shown = latest.pic
  <2>1. page[c].shown \in Frames!Pictures /\ latest.pic \in Frames!Pictures
    BY DEF PageStates
  <2>2. latest.seq \in 1 .. MaxFrames /\ latest.pic[2] = latest.seq
    BY <1>1 DEF FramesInv, OfTheProcesses
  <2>3. page[c].shown[2] = page[c].last
    BY <1>1, <2>2 DEF FramesInv, Numbered
  <2>4. /\ page[c].shown = <<page[c].shown[1], page[c].shown[2]>>
        /\ latest.pic = <<latest.pic[1], latest.pic[2]>>
    BY <2>1
  <2> QED BY <1>1, <2>2, <2>3, <2>4
<1> QED BY <1>1 DEF FramesInv, Frames!NumbersName, Frames!On

\* Only a turn of its loop changes the picture of a page that stays on.
LEMMA FramesActs ==
  ASSUME FramesInv, Frames!Next \/ UNCHANGED framesVars
  PROVE  Frames!PicturesForward
<1> USE FrameFacts, PictureFacts
<1> SUFFICES ASSUME NEW c \in Browsers, ~crossed', page[c].state = "on", page'[c].state = "on",
                    page'[c].shown[1] = page[c].shown[1]
             PROVE  page'[c].shown[2] >= page[c].shown[2]
  BY DEF Frames!PicturesForward, Frames!On
<1>1. page[c].shown \in Frames!Pictures /\ page[c].shown[2] \in Nat
  BY DEF PageStates
<1>2. CASE page'[c] = page[c]
  BY <1>1, <1>2
<1>3. ASSUME Frames!Turn(c) PROVE page'[c].shown[2] >= page[c].shown[2]
  <2> DEFINE f == Frames!FrameAfter(page[c].last)
  <2>1. /\ Frames!Packed(f) /\ f # Frames!NoFrame /\ crossed' = crossed
        /\ page' = [page EXCEPT ![c] = [state |-> "on", last |-> f.seq, shown |-> f.pic]]
    BY <1>3 DEF Frames!Turn, Frames!Sent
  <2>2. f \in {cached, latest} /\ latest # Frames!NoFrame /\ f.seq = latest.seq
    BY <2>1, FrameIsKept
  <2> HIDE DEF f
  <2>3. CacheOK(f, crossed) /\ ~crossed
    BY <2>1, <2>2, FramesAreOK
  <2>4. latest.seq \in 1 .. MaxFrames
    BY <2>2 DEF FramesInv, OfTheProcesses
  <2>5. page'[c].shown = f.pic
    BY <2>1
  <2>6. f.pic[2] = f.seq /\ page[c].shown[2] <= f.seq
    BY <2>2, <2>3, <2>4, <2>5 DEF CacheOK
  <2> QED BY <1>1, <2>2, <2>4, <2>5, <2>6
<1>4. ASSUME NEW b \in Browsers, b # c, NEW r, page' = [page EXCEPT ![b] = r]
      PROVE  page'[c] = page[c]
  BY <1>4
<1>5. ASSUME NEW b \in Browsers, Frames!Connect(b) \/ Frames!Leave(b) PROVE page'[c] = page[c]
  <2>1. PICK r : page' = [page EXCEPT ![b] = r]
    BY <1>5 DEF Frames!Connect, Frames!Leave
  <2>2. b # c  BY <1>5 DEF Frames!Connect, Frames!Leave, Frames!Away
  <2> QED BY <1>4, <2>1, <2>2
<1>6. ASSUME NEW b \in Browsers, Frames!Greet(b) PROVE page'[c] = page[c]
  <2>1. b # c  BY <1>6 DEF Frames!Greet
  <2> QED BY <1>6, <2>1 DEF Frames!Greet, Frames!Sent, Frames!Shown
<1>7. ASSUME NEW b \in Browsers, b # c, Frames!Turn(b) PROVE page'[c] = page[c]
  BY <1>7 DEF Frames!Turn, Frames!Sent
<1>8. ASSUME NEW b \in Browsers, Frames!DumpStart(b) PROVE page'[c] = page[c]
  <2>1. b # c  BY <1>8 DEF Frames!DumpStart
  <2> QED BY <1>8, <2>1 DEF Frames!DumpStart, Frames!Shown
<1>9. ASSUME Frames!DumpEnd PROVE page'[c] = page[c]
  <2>1. dump.page \in Browsers /\ dump.page # c
    BY <1>9 DEF Frames!DumpEnd, FramesInv, Turns
  <2> QED BY <1>9, <2>1 DEF Frames!DumpEnd, Frames!Shown
<1>10. ASSUME Frames!Draw \/ Frames!Exit \/ Frames!Restart \/ Frames!Reset \/ Frames!Elapse
              \/ Frames!DumpRead \/ UNCHANGED framesVars \/ \E f \in wire : Frames!Receive(f)
       PROVE  page'[c] = page[c]
  BY <1>10 DEF Frames!Draw, Frames!Exit, Frames!Restart, Frames!Reset, Frames!Elapse,
       Frames!DumpRead, Frames!Receive, framesVars
<1> QED BY <1>2, <1>3, <1>5, <1>6, <1>7, <1>8, <1>9, <1>10 DEF Frames!Next, Frames!Serve

----------------------------------------------------------------------------
(* Some arithmetic for the packets of sound.                               *)

LEMMA LeastIn ==
  ASSUME NEW R, IsWellFoundedOn(R, Nat), \A x, y \in Nat : y < x => <<y, x>> \in R,
         NEW S \in SUBSET Nat, NEW m \in S
  PROVE  \E k \in S : \A j \in S : k <= j
<1>1. S \subseteq Nat /\ S # {}  OBVIOUS
<1>2. PICK k \in S : \A j \in S : ~(<<j, k>> \in R)
  BY <1>1, WFMin
<1>3. ASSUME NEW j \in S PROVE k <= j
  <2>1. k \in Nat /\ j \in Nat OBVIOUS
  <2>2. ~(j < k) BY <1>2, <2>1
  <2> QED BY <2>1, <2>2
<1> QED BY <1>3

\* A set of natural numbers has a least element.
LEMMA LeastOf ==
  ASSUME NEW S \in SUBSET Nat, NEW m \in S
  PROVE  \E k \in S : \A j \in S : k <= j
<1> DEFINE R == OpToRel(<, Nat)
<1>1. IsWellFoundedOn(R, Nat)  BY NatLessThanWellFounded
<1>2. \A x, y \in Nat : y < x => <<y, x>> \in R  BY DEF OpToRel
<1> HIDE DEF R
<1> QED BY <1>1, <1>2, LeastIn

\* Induction up to N, over a set of numbers.
LEMMA UpTo ==
  ASSUME NEW N \in Nat, NEW D \in SUBSET (0 .. N), 0 \in D,
         \A n \in 1 .. N : n - 1 \in D => n \in D
  PROVE  \A n \in 0 .. N : n \in D
<1> DEFINE M == (0 .. N) \ D
<1>1. SUFFICES ASSUME NEW m \in M PROVE FALSE
  OBVIOUS
<1>2. M \in SUBSET Nat  OBVIOUS
<1>3. PICK k \in M : \A j \in M : k <= j
  <2> HIDE DEF M
  <2> QED BY <1>2, LeastOf
<1>4. k # 0 /\ k \in 1 .. N /\ k - 1 \in 0 .. N
  OBVIOUS
<1>5. k - 1 \in D
  <2>1. k - 1 \notin M  BY <1>3, <1>4
  <2> QED BY <1>4, <2>1
<1> QED BY <1>4, <1>5

(***************************************************************************)
(* Sound.  The deque and every batch hold numbers without a gap, the deque *)
(* up to the newest one; so what is newer than a number is the end of the  *)
(* deque.                                                                  *)
(***************************************************************************)
RunsTo(s, e) ==
  /\ s \in Seq(1 .. MaxPackets)
  /\ Len(s) <= e
  /\ \A i \in 1 .. Len(s) : s[i] = e - Len(s) + i

Listeners == [on : BOOLEAN, last : Nat, batch : Seq(1 .. MaxPackets)]

\* A batch is newer than what was sent.
Follows(l) ==
  /\ l.last <= delivered
  /\ Len(l.batch) <= Batch
  /\ \E e \in 0 .. delivered :
       RunsTo(l.batch, e) /\ (l.batch # <<>> => l.last <= e - Len(l.batch))

AudioInv ==
  /\ delivered \in 0 .. MaxPackets
  /\ dropped \in 0 .. MaxPackets
  /\ RunsTo(packets, delivered) /\ Len(packets) <= Depth
  /\ listener \in [Browsers -> Listeners]
  /\ \A c \in Browsers : Follows(listener[c])

LEMMA NewestRuns ==
  ASSUME NEW e \in Nat, NEW s, RunsTo(s, e), NEW n \in Nat
  PROVE  /\ RunsTo(Audio!Newest(s, n), e)
         /\ Len(Audio!Newest(s, n)) = IF Len(s) <= n THEN Len(s) ELSE n
<1>1. CASE Len(s) <= n
  BY <1>1 DEF Audio!Newest
<1>2. CASE ~(Len(s) <= n)
  <2> DEFINE a == Len(s) - n + 1
             t == SubSeq(s, a, Len(s))
  <2>1. s \in Seq(1 .. MaxPackets) /\ Len(s) \in Nat /\ a \in Int /\ a > 1
    BY <1>2 DEF RunsTo
  <2>2. \A i \in a .. Len(s) : s[i] \in 1 .. MaxPackets
    <3>1. ASSUME NEW i \in a .. Len(s) PROVE i \in 1 .. Len(s)  BY <2>1
    <3> QED BY <2>1, <3>1, ElementOfSeq
  <2>3. /\ t \in Seq(1 .. MaxPackets)
        /\ Len(t) = IF a <= Len(s) THEN Len(s) - a + 1 ELSE 0
        /\ \A i \in 1 .. Len(s) - a + 1 : t[i] = s[a + i - 1]
    <3> HIDE DEF a
    <3> QED BY <2>1, <2>2, SubSeqProperties
  <2>4. Len(t) = n
    BY <1>2, <2>1, <2>3
  <2>5. ASSUME NEW i \in 1 .. n PROVE t[i] = e - n + i
    <3>1. t[i] = s[Len(s) - n + i]  BY <2>1, <2>3
    <3>2. Len(s) - n + i \in 1 .. Len(s)  BY <1>2, <2>1
    <3>3. s[Len(s) - n + i] = e - Len(s) + (Len(s) - n + i)  BY <3>2 DEF RunsTo
    <3> QED BY <2>1, <3>1, <3>3
  <2>6. Audio!Newest(s, n) = t
    BY <1>2 DEF Audio!Newest
  <2> HIDE DEF t
  <2>7. n <= e  BY <1>2, <2>1 DEF RunsTo
  <2> QED BY <1>2, <2>3, <2>4, <2>5, <2>6, <2>7 DEF RunsTo
<1> QED BY <1>1, <1>2

LEMMA AppendRuns ==
  ASSUME NEW e \in Nat, NEW s, RunsTo(s, e), e + 1 \in 1 .. MaxPackets
  PROVE  RunsTo(Append(s, e + 1), e + 1)
<1>1. s \in Seq(1 .. MaxPackets) /\ Len(s) \in Nat
  BY DEF RunsTo
<1> DEFINE t == Append(s, e + 1)
<1>2. /\ t \in Seq(1 .. MaxPackets) /\ Len(t) = Len(s) + 1
      /\ \A i \in 1 .. Len(s) : t[i] = s[i]
      /\ t[Len(s) + 1] = e + 1
  BY <1>1, AppendProperties
<1> HIDE DEF t
<1>3. ASSUME NEW i \in 1 .. Len(t) PROVE t[i] = (e + 1) - Len(t) + i
  <2>1. i \in 1 .. Len(s) \/ i = Len(s) + 1  BY <1>1, <1>2
  <2> QED BY <1>1, <1>2, <2>1 DEF RunsTo
<1>4. Len(s) + 1 <= e + 1  BY <1>1 DEF RunsTo
<1>5. RunsTo(t, e + 1)  BY <1>2, <1>3, <1>4 DEF RunsTo
<1> QED BY <1>5 DEF t

LEMMA TailRuns ==
  ASSUME NEW e \in Nat, NEW s, RunsTo(s, e), s # <<>>
  PROVE  /\ Len(s) \in Nat \ {0}
         /\ Head(s) = e - Len(s) + 1
         /\ RunsTo(Tail(s), e) /\ Len(Tail(s)) = Len(s) - 1
<1>1. s \in Seq(1 .. MaxPackets) /\ Len(s) \in Nat \ {0}
  BY EmptySeq DEF RunsTo
<1>2. Head(s) = e - Len(s) + 1
  BY <1>1 DEF RunsTo
<1>3. /\ Tail(s) \in Seq(1 .. MaxPackets) /\ Len(Tail(s)) = Len(s) - 1
      /\ \A i \in 1 .. Len(Tail(s)) : Tail(s)[i] = s[i + 1]
  BY <1>1, HeadTailProperties
<1>4. ASSUME NEW i \in 1 .. Len(Tail(s)) PROVE Tail(s)[i] = e - Len(Tail(s)) + i
  <2>1. i + 1 \in 1 .. Len(s)  BY <1>1, <1>3
  <2>2. s[i + 1] = e - Len(s) + (i + 1)  BY <2>1 DEF RunsTo
  <2> QED BY <1>1, <1>3, <2>2
<1>5. Len(Tail(s)) <= e  BY <1>1, <1>3 DEF RunsTo
<1> QED BY <1>1, <1>2, <1>3, <1>4, <1>5 DEF RunsTo

\* What is newer than a number is the end of the deque.
LEMMA AfterRuns ==
  ASSUME AudioInv, NEW last \in Nat, last <= delivered
  PROVE  /\ RunsTo(Audio!After(last), delivered)
         /\ Len(Audio!After(last)) =
              IF Len(packets) <= delivered - last THEN Len(packets) ELSE delivered - last
<1> DEFINE N == Len(packets)
           keep == IF N <= delivered - last THEN N ELSE delivered - last
           k == N - keep
           E(f) == f = [n \in 0 .. N |->
                          IF n = 0 THEN <<>>
                          ELSE IF packets[n] > last THEN Append(f[n - 1], packets[n]) ELSE f[n - 1]]
           upTo == CHOOSE f : E(f)
           F == [n \in 0 .. N |-> SubSeq(packets, k + 1, n)]
<1>1. /\ packets \in Seq(1 .. MaxPackets) /\ N \in Nat /\ delivered \in Nat /\ N <= delivered
      /\ \A i \in 1 .. N : packets[i] = delivered - N + i
  BY DEF AudioInv, RunsTo
<1>2. Audio!After(last) = upTo[N]
  BY DEF Audio!After
<1>3. keep \in Nat /\ k \in Nat /\ k <= N /\ keep <= N
  BY <1>1
<1>4. \A n \in 1 .. N : packets[n] > last <=> n > k
  <2> SUFFICES ASSUME NEW n \in 1 .. N PROVE packets[n] > last <=> n > k
    OBVIOUS
  <2>1. packets[n] = delivered - N + n  BY <1>1
  <2> QED BY <1>1, <2>1
<1> HIDE DEF k
<1>5. ASSUME NEW n \in 1 .. N
      PROVE  F[n] = IF packets[n] > last THEN Append(F[n - 1], packets[n]) ELSE F[n - 1]
  <2>1. n - 1 \in 0 .. N /\ n \in 0 .. N  BY <1>1
  <2>2. CASE n > k
    <3>1. k + 1 \in 1 .. N /\ n \in k + 1 .. N  BY <1>1, <1>3, <2>2
    <3>2. SubSeq(packets, k + 1, n) = SubSeq(packets, k + 1, n - 1) \o <<packets[n]>>
      BY <1>1, <3>1, SubSeqRecursiveSecond
    <3>3. SubSeq(packets, k + 1, n - 1) \in Seq(1 .. MaxPackets)
      <4>1. \A i \in k + 1 .. n - 1 : packets[i] \in 1 .. MaxPackets
        <5>1. ASSUME NEW i \in k + 1 .. n - 1 PROVE i \in 1 .. N  BY <1>1, <1>3
        <5> QED BY <1>1, <5>1, ElementOfSeq
      <4> QED BY <1>1, <1>3, <4>1, SubSeqProperties
    <3>4. packets[n] \in 1 .. MaxPackets  BY <1>1, ElementOfSeq
    <3>5. SubSeq(packets, k + 1, n) = Append(SubSeq(packets, k + 1, n - 1), packets[n])
      BY <3>2, <3>3, <3>4, AppendIsConcat
    <3> QED BY <1>4, <2>1, <2>2, <3>5
  <2>3. CASE ~(n > k)
    <3>1. n < k + 1 /\ n - 1 < k + 1  BY <1>3, <2>3
    <3>2. SubSeq(packets, k + 1, n) = <<>> /\ SubSeq(packets, k + 1, n - 1) = <<>>
      BY <1>3, <3>1, SubSeqEmpty
    <3> QED BY <1>4, <2>1, <2>3, <3>2
  <2> QED BY <2>2, <2>3
<1>6. F[0] = <<>>
  <2>1. 0 < k + 1  BY <1>3
  <2>2. SubSeq(packets, k + 1, 0) = <<>>  BY <1>3, <2>1, SubSeqEmpty
  <2> QED BY <1>1, <2>2
<1>7. \A n \in 0 .. N : n = 0 \/ n \in 1 .. N  BY <1>1
<1>8. E(F)
  <2>1. F = [n \in 0 .. N |-> F[n]]  OBVIOUS
  <2> HIDE DEF F
  <2> QED BY <1>5, <1>6, <1>7, <2>1
<1>9. E(upTo)
  <2> HIDE DEF F
  <2> QED BY <1>8
<1> HIDE DEF upTo
<1>10. upTo[0] = <<>> /\ \A n \in 1 .. N :
         upTo[n] = IF packets[n] > last THEN Append(upTo[n - 1], packets[n]) ELSE upTo[n - 1]
  <2>1. 0 \in 0 .. N /\ \A n \in 1 .. N : n \in 0 .. N /\ n # 0  BY <1>1
  <2> HIDE DEF N
  <2>2. upTo[0] = <<>>  BY <1>9, <2>1
  <2>3. ASSUME NEW n \in 1 .. N
        PROVE  upTo[n] = IF packets[n] > last THEN Append(upTo[n - 1], packets[n]) ELSE upTo[n - 1]
    BY <1>9, <2>1
  <2> QED BY <2>2, <2>3
<1>11. upTo[N] = F[N]
  <2> HIDE DEF F, N
  <2> DEFINE D == {n \in 0 .. N : upTo[n] = F[n]}
  <2>1. 0 \in D  BY <1>1, <1>6, <1>10
  <2>2. ASSUME NEW n \in 1 .. N, n - 1 \in D PROVE n \in D
    <3>1. n \in 0 .. N  BY <1>1
    <3>2. upTo[n - 1] = F[n - 1]  BY <2>2
    <3>3. F[n] = IF packets[n] > last THEN Append(F[n - 1], packets[n]) ELSE F[n - 1]
      BY <1>5
    <3>4. upTo[n] = IF packets[n] > last THEN Append(upTo[n - 1], packets[n]) ELSE upTo[n - 1]
      BY <1>10
    <3>5. upTo[n] = F[n]  BY <3>2, <3>3, <3>4
    <3> QED BY <3>1, <3>5
  <2>3. N \in D
    <3>1. D \in SUBSET (0 .. N) /\ N \in 0 .. N  BY <1>1
    <3> HIDE DEF D
    <3> QED BY <1>1, <2>1, <2>2, <3>1, UpTo
  <2> QED BY <2>3
<1>12. F[N] = SubSeq(packets, k + 1, N)
  <2>1. N \in 0 .. N  BY <1>1
  <2> HIDE DEF N
  <2> QED BY <2>1
<1> DEFINE t == SubSeq(packets, k + 1, N)
<1>13. \A i \in k + 1 .. N : packets[i] \in 1 .. MaxPackets
  <2>1. ASSUME NEW i \in k + 1 .. N PROVE i \in 1 .. N  BY <1>1, <1>3
  <2> QED BY <1>1, <2>1, ElementOfSeq
<1>14. /\ t \in Seq(1 .. MaxPackets)
       /\ Len(t) = IF k + 1 <= N THEN N - (k + 1) + 1 ELSE 0
       /\ \A i \in 1 .. N - (k + 1) + 1 : t[i] = packets[(k + 1) + i - 1]
  BY <1>1, <1>3, <1>13, SubSeqProperties
<1>15. N - k = keep  BY <1>1, <1>3 DEF k
<1> HIDE DEF t, F, keep
<1>16. Len(t) = keep  BY <1>1, <1>3, <1>14, <1>15
<1>17. ASSUME NEW i \in 1 .. Len(t) PROVE t[i] = delivered - Len(t) + i
  <2>1. i \in 1 .. N - (k + 1) + 1 /\ k + i \in 1 .. N /\ (k + 1) + i - 1 = k + i
    BY <1>1, <1>3, <1>15, <1>16
  <2>2. t[i] = packets[k + i]  BY <1>14, <2>1
  <2>3. packets[k + i] = delivered - N + (k + i)  BY <1>1, <2>1
  <2> QED BY <1>1, <1>3, <1>15, <1>16, <2>2, <2>3
<1>18. RunsTo(t, delivered)
  <2>1. Len(t) <= delivered  BY <1>1, <1>3, <1>16
  <2> QED BY <1>14, <1>17, <2>1 DEF RunsTo
<1>19. Audio!After(last) = t  BY <1>2, <1>11, <1>12 DEF t
<1> QED BY <1>16, <1>18, <1>19 DEF keep

LEMMA BatchFollows ==
  ASSUME NEW l \in Listeners, NEW e \in 0 .. delivered, delivered \in Nat,
         l.last <= delivered, Len(l.batch) <= Batch, RunsTo(l.batch, e),
         l.batch # <<>> => l.last <= e - Len(l.batch)
  PROVE  Follows(l)
BY DEF Follows

LEMMA AudioStep ==
  ASSUME AudioInv, Audio!Next
  PROVE  AudioInv'
<1> USE HostAssumption
<1>t. /\ delivered \in 0 .. MaxPackets /\ delivered \in Nat /\ dropped \in 0 .. MaxPackets
      /\ RunsTo(packets, delivered) /\ Len(packets) <= Depth
      /\ listener \in [Browsers -> Listeners]
      /\ \A c \in Browsers : Follows(listener[c])
  BY DEF AudioInv
<1>e. RunsTo(<<>>, delivered) /\ Len(<<>>) = 0 /\ <<>> \in Seq(1 .. MaxPackets)
  BY <1>t, EmptySeq DEF RunsTo
<1>0. Audio!Away \in Listeners /\ Follows(Audio!Away)
  <2>1. Audio!Away \in Listeners  BY <1>e DEF Audio!Away, Listeners
  <2>2. Audio!Away.last = 0 /\ Audio!Away.batch = <<>>  BY DEF Audio!Away
  <2> QED BY <1>t, <1>e, <2>1, <2>2, BatchFollows
<1>a. ASSUME UNCHANGED delivered, dropped' \in 0 .. MaxPackets, UNCHANGED packets \/ packets' = <<>>,
             NEW c \in Browsers, NEW l \in Listeners, Follows(l),
             listener' = [listener EXCEPT ![c] = l]
      PROVE  AudioInv'
  <2>1. listener' \in [Browsers -> Listeners]  BY <1>a, <1>t
  <2>2. ASSUME NEW b \in Browsers PROVE Follows(listener'[b])
    BY <1>a, <1>t
  <2>3. \A b \in Browsers : Follows(listener[b])'
    BY <1>a, <2>2 DEF Follows, RunsTo
  <2>4. (RunsTo(packets, delivered) /\ Len(packets) <= Depth)'
    <3>1. CASE UNCHANGED packets
      BY <1>a, <1>t, <3>1 DEF RunsTo
    <3>2. CASE packets' = <<>>
      <4>1. RunsTo(packets', delivered) /\ Len(packets') <= Depth  BY <1>e, <3>2
      <4> QED BY <1>a, <4>1 DEF RunsTo
    <3> QED BY <1>a, <3>1, <3>2
  <2> QED BY <1>a, <1>t, <2>1, <2>3, <2>4 DEF AudioInv
<1>1. CASE Audio!Arrives
  <2>1. /\ delivered' = delivered + 1 /\ delivered + 1 \in 1 .. MaxPackets
        /\ packets' = Audio!Newest(Append(packets, delivered + 1), Depth)
        /\ UNCHANGED <<dropped, listener>>
    BY <1>1, <1>t DEF Audio!Arrives
  <2>2. RunsTo(Append(packets, delivered + 1), delivered + 1)
    BY <1>t, <2>1, AppendRuns
  <2>3. RunsTo(packets', delivered') /\ Len(packets') <= Depth
    <3>1. delivered + 1 \in Nat /\ Depth \in Nat  BY <1>t
    <3>2. /\ RunsTo(packets', delivered + 1)
          /\ Len(packets') = IF Len(Append(packets, delivered + 1)) <= Depth
                             THEN Len(Append(packets, delivered + 1)) ELSE Depth
      BY <2>1, <2>2, <3>1, NewestRuns
    <3> QED BY <2>1, <3>1, <3>2
  <2>4. ASSUME NEW c \in Browsers PROVE Follows(listener[c])'
    <3>1. PICK e \in 0 .. delivered : RunsTo(listener[c].batch, e)
            /\ (listener[c].batch # <<>> => listener[c].last <= e - Len(listener[c].batch))
      BY <1>t DEF Follows
    <3>2. e \in 0 .. delivered'  BY <1>t, <2>1
    <3>3. listener[c].last <= delivered'  BY <1>t, <2>1 DEF Follows, Listeners
    <3> QED BY <1>t, <2>1, <3>1, <3>2, <3>3 DEF Follows, RunsTo
  <2>5. (RunsTo(packets, delivered) /\ Len(packets) <= Depth)'
    BY <2>3 DEF RunsTo
  <2> QED BY <1>t, <2>1, <2>4, <2>5 DEF AudioInv
<1>2. CASE Audio!Reset
  <2>1. packets' = <<>> /\ dropped' = 0 /\ UNCHANGED <<delivered, listener>>
    BY <1>2 DEF Audio!Reset
  <2>2. (RunsTo(packets, delivered) /\ Len(packets) <= Depth)'
    BY <2>1, <1>t, <1>e DEF RunsTo
  <2>3. ASSUME NEW c \in Browsers PROVE Follows(listener[c])'
    BY <2>1, <1>t DEF Follows, RunsTo
  <2> QED BY <1>t, <2>1, <2>2, <2>3 DEF AudioInv
<1>3. ASSUME NEW c \in Browsers, Audio!Connect(c)
      PROVE  AudioInv'
  <2> DEFINE l == [on |-> TRUE, last |-> delivered, batch |-> <<>>]
  <2>1. l \in Listeners  BY <1>t, <1>e DEF Listeners
  <2>2. Follows(l)
    <3>1. l.last = delivered /\ l.batch = <<>>  OBVIOUS
    <3> HIDE DEF l
    <3> QED BY <1>t, <1>e, <2>1, <3>1, BatchFollows
  <2>3. listener' = [listener EXCEPT ![c] = l] /\ UNCHANGED <<packets, delivered, dropped>>
    BY <1>3 DEF Audio!Connect
  <2> HIDE DEF l
  <2> QED BY <1>a, <1>t, <2>1, <2>2, <2>3
<1>4. ASSUME NEW c \in Browsers, Audio!Leave(c)
      PROVE  AudioInv'
  <2>1. listener' = [listener EXCEPT ![c] = Audio!Away] /\ UNCHANGED <<packets, delivered, dropped>>
    BY <1>4 DEF Audio!Leave
  <2> QED BY <1>a, <1>t, <1>0, <2>1
<1>5. ASSUME NEW c \in Browsers, Audio!Fetch(c)
      PROVE  AudioInv'
  <2> DEFINE new == Audio!After(listener[c].last)
             b == Audio!Taken(new)
             l == [listener[c] EXCEPT !.batch = b]
             d == dropped + Len(new) - Len(b)
  <2>1. /\ listener' = [listener EXCEPT ![c].batch = b]
        /\ dropped' = IF d <= MaxPackets THEN d ELSE MaxPackets
        /\ UNCHANGED <<packets, delivered>>
    BY <1>5 DEF Audio!Fetch
  <2>2. listener[c] \in Listeners /\ Follows(listener[c])  BY <1>t
  <2>3. listener[c].last \in Nat /\ listener[c].last <= delivered
    BY <2>2 DEF Listeners, Follows
  <2>4. /\ RunsTo(new, delivered)
        /\ Len(new) = IF Len(packets) <= delivered - listener[c].last THEN Len(packets)
                      ELSE delivered - listener[c].last
    BY <2>3, AfterRuns
  <2>5. RunsTo(b, delivered) /\ Len(b) = IF Len(new) <= Batch THEN Len(new) ELSE Batch
    BY <1>t, <2>4, NewestRuns DEF Audio!Taken
  <2>6. l \in Listeners /\ l.last = listener[c].last /\ l.batch = b
    BY <2>2, <2>5 DEF Listeners, RunsTo
  <2>7. listener' = [listener EXCEPT ![c] = l]  BY <2>1, <1>t
  <2> HIDE DEF b, new, l
  <2>8. Len(new) \in Nat /\ Len(packets) \in Nat /\ Len(b) \in Nat /\ Len(b) <= Len(new)
    BY <1>t, <2>4, <2>5, LenProperties DEF RunsTo
  <2>9. Follows(l)
    <3>1. l.last <= delivered - Len(b)  BY <1>t, <2>3, <2>4, <2>6, <2>8
    <3>2. Len(b) <= Batch  BY <2>5, <2>8
    <3>3. delivered \in 0 .. delivered  BY <1>t
    <3> QED BY <1>t, <2>3, <2>5, <2>6, <3>1, <3>2, <3>3, BatchFollows
  <2>10. dropped' \in 0 .. MaxPackets  BY <1>t, <2>1, <2>8
  <2> QED BY <1>a, <2>1, <2>6, <2>7, <2>9, <2>10
<1>6. ASSUME NEW c \in Browsers, Audio!Send(c)
      PROVE  AudioInv'
  <2> DEFINE b == listener[c].batch
             l == [listener[c] EXCEPT !.last = Head(b), !.batch = Tail(b)]
  <2>1. /\ b # <<>>
        /\ listener' = [listener EXCEPT ![c].last = Head(b), ![c].batch = Tail(b)]
        /\ UNCHANGED <<packets, delivered, dropped>>
    BY <1>6, <1>t DEF Audio!Send
  <2>2. listener[c] \in Listeners /\ Follows(listener[c])  BY <1>t
  <2>3. PICK e \in 0 .. delivered : RunsTo(b, e) /\ listener[c].last <= e - Len(b)
    BY <2>1, <2>2 DEF Follows
  <2>4. /\ e \in Nat /\ Len(b) \in Nat \ {0} /\ Len(b) <= e
        /\ Head(b) = e - Len(b) + 1
        /\ RunsTo(Tail(b), e) /\ Len(Tail(b)) = Len(b) - 1
    <3>1. e \in Nat  BY <1>t
    <3>2. Len(b) <= e  BY <2>3 DEF RunsTo
    <3> QED BY <2>1, <2>3, <3>1, <3>2, TailRuns
  <2>5. l \in Listeners /\ l.last = Head(b) /\ l.batch = Tail(b)
    <3>h. e - Len(b) + 1 \in Nat  BY <2>4
    <3>1. Head(b) \in Nat /\ Tail(b) \in Seq(1 .. MaxPackets)  BY <2>4, <3>h DEF RunsTo
    <3> HIDE DEF b
    <3> QED BY <2>2, <3>1 DEF Listeners
  <2>6. listener' = [listener EXCEPT ![c] = l]  BY <2>1, <1>t
  <2>7. Len(b) <= Batch  BY <2>2 DEF Follows
  <2> HIDE DEF l, b
  <2>8. Follows(l)
    <3>1. l.last <= delivered /\ l.last <= e - Len(Tail(b)) /\ Len(Tail(b)) <= Batch
      BY <1>t, <2>3, <2>4, <2>5, <2>7
    <3> QED BY <1>t, <2>4, <2>5, <3>1, BatchFollows
  <2> QED BY <1>a, <1>t, <2>1, <2>5, <2>6, <2>8
<1> QED BY <1>1, <1>2, <1>3, <1>4, <1>5, <1>6 DEF Audio!Next

LEMMA AudioStates ==
  ASSUME AudioInv
  PROVE  Audio!TypeOK /\ Audio!BatchesFollow
<1> USE HostAssumption
<1>1. Audio!TypeOK
  BY DEF AudioInv, Audio!TypeOK, Follows, RunsTo
<1>2. ASSUME NEW c \in Browsers, listener[c].batch # <<>>
      PROVE  LET b == listener[c].batch
             IN  /\ b[1] > listener[c].last /\ b[Len(b)] <= delivered
                 /\ \A i \in 1 .. Len(b) - 1 : b[i + 1] = b[i] + 1
  <2> DEFINE b == listener[c].batch
  <2>1. PICK e \in 0 .. delivered : RunsTo(b, e) /\ listener[c].last <= e - Len(b)
    BY <1>2 DEF AudioInv, Follows
  <2>2. listener[c].last \in Nat /\ delivered \in Nat  BY DEF AudioInv, Listeners
  <2>3. Len(b) \in Nat \ {0}  BY <1>2, <2>1, EmptySeq DEF RunsTo
  <2> HIDE DEF b
  <2>4. \A i \in 1 .. Len(b) : b[i] = e - Len(b) + i  BY <2>1 DEF RunsTo
  <2>5. b[1] = e - Len(b) + 1 /\ b[Len(b)] = e - Len(b) + Len(b)  BY <2>3, <2>4
  <2>6. b[1] > listener[c].last /\ b[Len(b)] <= delivered  BY <2>1, <2>2, <2>3, <2>5
  <2>7. ASSUME NEW i \in 1 .. Len(b) - 1 PROVE b[i + 1] = b[i] + 1
    <3>1. i \in 1 .. Len(b) /\ i + 1 \in 1 .. Len(b)  BY <2>3
    <3>2. b[i] = e - Len(b) + i /\ b[i + 1] = e - Len(b) + (i + 1)  BY <2>4, <3>1
    <3> QED BY <2>2, <2>3, <3>2
  <2> QED BY <2>6, <2>7 DEF b
<1> QED BY <1>1, <1>2 DEF Audio!BatchesFollow

LEMMA AudioActs ==
  ASSUME AudioInv, Audio!Next \/ UNCHANGED audioVars
  PROVE  Audio!CatchesUp
<1> USE HostAssumption
<1>t. /\ delivered \in Nat /\ RunsTo(packets, delivered)
      /\ listener \in [Browsers -> Listeners]
      /\ \A c \in Browsers : Follows(listener[c])
  BY DEF AudioInv
<1> SUFFICES ASSUME NEW c \in Browsers, listener[c].batch = <<>>, listener'[c].batch # <<>>
             PROVE  LET b == listener'[c].batch
                    IN  /\ b[Len(b)] = delivered
                        /\ b[1] # listener[c].last + 1 =>
                             \/ delivered - listener[c].last > Batch
                             \/ listener[c].last + 1 < packets[1]
  BY DEF Audio!CatchesUp
<1>1. Audio!Fetch(c)
  <2>1. ASSUME NEW d \in Browsers, Audio!Connect(d) PROVE FALSE
    BY <2>1, <1>t DEF Audio!Connect
  <2>2. ASSUME NEW d \in Browsers, Audio!Leave(d) PROVE FALSE
    BY <2>2, <1>t DEF Audio!Leave, Audio!Away
  <2>3. ASSUME NEW d \in Browsers, Audio!Send(d) PROVE FALSE
    BY <2>3, <1>t DEF Audio!Send
  <2>4. ASSUME NEW d \in Browsers, Audio!Fetch(d), d # c PROVE FALSE
    BY <2>4, <1>t DEF Audio!Fetch
  <2> QED BY <2>1, <2>2, <2>3, <2>4 DEF Audio!Next, audioVars, Audio!Arrives, Audio!Reset
<1> DEFINE last == listener[c].last
           new == Audio!After(last)
           b == Audio!Taken(new)
<1>2. listener'[c].batch = b
  BY <1>1, <1>t DEF Audio!Fetch
<1>3. last \in Nat /\ last <= delivered
  BY <1>t DEF Listeners, Follows
<1> HIDE DEF last
<1>4. /\ RunsTo(new, delivered)
      /\ Len(new) = IF Len(packets) <= delivered - last THEN Len(packets) ELSE delivered - last
  BY <1>3, AfterRuns
<1>5. RunsTo(b, delivered) /\ Len(b) = IF Len(new) <= Batch THEN Len(new) ELSE Batch
  BY <1>t, <1>4, NewestRuns DEF Audio!Taken
<1> HIDE DEF new, b
<1>6. Len(b) \in Nat \ {0} /\ Len(new) \in Nat /\ Len(packets) \in Nat
  BY <1>2, <1>4, <1>5, <1>t, EmptySeq, LenProperties DEF RunsTo
<1>7. b[1] = delivered - Len(b) + 1 /\ b[Len(b)] = delivered
  <2>1. 1 \in 1 .. Len(b) /\ Len(b) \in 1 .. Len(b)  BY <1>6
  <2>2. \A i \in 1 .. Len(b) : b[i] = delivered - Len(b) + i  BY <1>5 DEF RunsTo
  <2>3. b[1] = delivered - Len(b) + 1 /\ b[Len(b)] = delivered - Len(b) + Len(b)
    BY <2>1, <2>2
  <2> QED BY <1>6, <1>t, <2>3
<1>8. ASSUME b[1] # last + 1, ~(delivered - last > Batch) PROVE last + 1 < packets[1]
  <2>1. Len(b) # delivered - last  BY <1>3, <1>6, <1>7, <1>8, <1>t
  <2>2. Len(packets) < delivered - last  BY <1>3, <1>4, <1>5, <1>6, <1>8, <2>1, <1>t
  <2>3. Len(packets) > 0  BY <1>4, <1>5, <1>6, <2>2
  <2>4. packets[1] = delivered - Len(packets) + 1
    <3>1. 1 \in 1 .. Len(packets)  BY <1>6, <2>3
    <3> QED BY <1>t, <3>1 DEF RunsTo
  <2> QED BY <1>3, <1>6, <1>t, <2>2, <2>4
<1> QED BY <1>2, <1>7, <1>8 DEF last

----------------------------------------------------------------------------
(***************************************************************************)
(* The QEMU process.  What a process has said is true of it for as long as *)
(* no other one is started, so a reader that is not late may believe it.   *)
(***************************************************************************)

\* A line or an event of this process tells what happened to it; that it was told to
\* quit is heard only while it is being stopped.
SaidTrue ==
  \A g \in 1 .. MaxProcesses, what \in Process!Events \cup {Process!Marker} :
    <<g, what>> \in said =>
      /\ g <= proc.gen
      /\ g = proc.gen =>
           /\ what \in {Process!Marker, "guest-shutdown"} => proc.asked
           /\ what \in Process!Events => Process!Ended
           /\ what = "host-qmp-quit" => stopping

\* There is a process from the first start on.
Generations == Process!Running \/ Process!Ended => proc.gen \in 1 .. MaxProcesses

ProcessRecords ==
  [gen : 0 .. MaxProcesses, state : {"none", "running", "ended"},
   vm : {"paused", "running"}, asked : BOOLEAN,
   cause : {"none", "guest-shutdown", "guest-reset", "stop", "crash"}]

ProcessInv == Process!TypeOK /\ SaidTrue /\ Generations /\ Process!ReasonTrue

\* Recording an exit makes up a reason for it only if none is known, and forgets the
\* sockets; nothing else happens to them.
LEMMA Recording ==
  ASSUME ProcessInv, Process!Recorded
  PROVE  /\ reason' \in Process!Reasons /\ open' \subseteq Process!Sockets
         /\ \/ Process!Ended /\ open' = {}
               /\ \/ reason' = reason
                  \/ reason = "none" /\ stopping /\ reason' = "user-stop"
                  \/ reason = "none" /\ reason' \in {"process-error", "process-exit"}
            \/ ~Process!Ended /\ UNCHANGED <<reason, open>>
<1>1. reason \in Process!Reasons /\ open \subseteq Process!Sockets
  BY DEF ProcessInv, Process!TypeOK
<1> QED BY <1>1 DEF Process!Recorded, Process!Record, Process!Known, Process!Made, Process!Reasons

LEMMA ProcessStep ==
  ASSUME ProcessInv, Process!Next
  PROVE  ProcessInv'
<1> USE HostAssumption
<1>t. Process!TypeOK /\ SaidTrue /\ Generations /\ Process!ReasonTrue
  BY DEF ProcessInv
<1> USE DEF Process!Running, Process!Ended
<1>1. CASE Process!Start
  <2>1. Process!TypeOK'
    <3>1. PICK o \in SUBSET Process!Sockets, q \in SUBSET {proc.gen + 1} :
            \E v \in Process!LetGo(o) :
              /\ proc' = [gen |-> proc.gen + 1, state |-> "running", vm |-> v,
                          asked |-> FALSE, cause |-> "none"]
              /\ open' = o /\ qmp' = qmp \cup q
      BY <1>1 DEF Process!Start, Process!Connections
    <3>2. proc.gen + 1 \in 1 .. MaxProcesses
      BY <1>1, <1>t DEF Process!Start, Process!TypeOK
    <3>3. proc' \in ProcessRecords
      BY <3>1, <3>2 DEF Process!LetGo, ProcessRecords
    <3>4. open' \subseteq Process!Sockets /\ qmp' \subseteq 1 .. MaxProcesses
      BY <3>1, <3>2, <1>t DEF Process!TypeOK
    <3>5. reason' \in Process!Reasons /\ stopping' \in BOOLEAN
          /\ UNCHANGED <<said, stopper, request, late>>
      BY <1>1 DEF Process!Start, Process!Cleared, Process!Reasons
    <3> QED BY <3>3, <3>4, <3>5, <1>t DEF Process!TypeOK, ProcessRecords
  <2>2. proc'.gen = proc.gen + 1 /\ proc.gen \in Nat /\ said' = said
    BY <1>1, <1>t DEF Process!Start, Process!TypeOK
  <2>3. SaidTrue'  BY <1>t, <2>2 DEF SaidTrue
  <2>4. Generations'  BY <1>1, <1>t, <2>2 DEF Generations, Process!Start, Process!TypeOK
  <2>5. Process!ReasonTrue'
    BY <1>1 DEF Process!Start, Process!Cleared, Process!ReasonTrue
  <2> QED BY <2>1, <2>3, <2>4, <2>5 DEF ProcessInv
<1>2. CASE Process!GuestAsks
  <2>1. Process!TypeOK'
    <3>1. proc' \in ProcessRecords /\ proc.gen \in 1 .. MaxProcesses
      BY <1>2, <1>t DEF Process!GuestAsks, Process!Runs, Process!TypeOK, Generations, ProcessRecords
    <3>2. <<proc.gen, Process!Marker>> \in (1 .. MaxProcesses) \X (Process!Events \cup {Process!Marker})
      BY <3>1
    <3> QED BY <1>2, <3>1, <3>2, <1>t DEF Process!GuestAsks, Process!TypeOK, ProcessRecords
  <2>2. SaidTrue' /\ Generations'
    BY <1>2, <1>t DEF Process!GuestAsks, Process!Runs, Process!TypeOK, SaidTrue, Generations,
      Process!Events, Process!Marker
  <2>3. Process!ReasonTrue'
    BY <1>2, <1>t DEF Process!GuestAsks, Process!Runs, Process!TypeOK, Process!ReasonTrue
  <2> QED BY <2>1, <2>2, <2>3 DEF ProcessInv
<1>3. CASE Process!Exit
  <2>1. PICK cause \in {"guest-shutdown", "guest-reset", "stop", "crash"},
             event \in {"guest-shutdown", "guest-reset", "host-qmp-quit", "none"} :
          /\ Process!Ends(cause, event) /\ Process!Running
          /\ event = "guest-shutdown" => proc.asked
          /\ event = "host-qmp-quit" => stopping
    BY <1>3 DEF Process!Exit
  <2>2. Process!TypeOK'
    <3>1. proc' \in ProcessRecords /\ proc.gen \in 1 .. MaxProcesses
      BY <2>1, <1>t DEF Process!Ends, Process!TypeOK, Generations, ProcessRecords
    <3>2. event # "none" =>
            <<proc.gen, event>> \in (1 .. MaxProcesses) \X (Process!Events \cup {Process!Marker})
      BY <3>1 DEF Process!Events
    <3>3. said' \subseteq (1 .. MaxProcesses) \X (Process!Events \cup {Process!Marker})
      BY <2>1, <3>2, <1>t DEF Process!Ends, Process!TypeOK
    <3> QED BY <2>1, <3>1, <3>3, <1>t DEF Process!Ends, Process!TypeOK, ProcessRecords
  <2>3. SaidTrue' /\ Generations'
    BY <2>1, <1>t DEF Process!Ends, Process!TypeOK, SaidTrue, Generations,
      Process!Events, Process!Marker
  <2>4. Process!ReasonTrue'
    BY <2>1, <1>t DEF Process!Ends, Process!TypeOK, Process!ReasonTrue
  <2> QED BY <2>2, <2>3, <2>4 DEF ProcessInv
<1>4. CASE Process!Snapshot \/ Process!ShutdownEnds
  <2>1. /\ Process!Recorded /\ UNCHANGED <<proc, qmp, said, stopping, stopper, late>>
        /\ request' \in {"idle", "asked", "complete", "failed"}
    BY <1>4, <1>t DEF Process!Snapshot, Process!ShutdownEnds, Process!TypeOK
  <2>2. Process!TypeOK'
    BY <2>1, <1>t, Recording DEF Process!TypeOK
  <2>3. SaidTrue' /\ Generations'
    BY <2>1, <1>t DEF SaidTrue, Generations
  <2>4. Process!ReasonTrue'
    BY <2>1, <1>t, Recording DEF Process!ReasonTrue, Process!Reasons, Process!Events
  <2> QED BY <2>2, <2>3, <2>4 DEF ProcessInv
<1>5. CASE Process!Refresh
  <2>1. /\ Process!Recorded /\ UNCHANGED <<qmp, said, stopping, stopper, request, late>>
        /\ \/ UNCHANGED proc
           \/ Process!Running /\ proc' = [proc EXCEPT !.vm = "running"]
    BY <1>5 DEF Process!Refresh
  <2>2. proc'.gen = proc.gen /\ proc'.state = proc.state /\ proc'.asked = proc.asked
    BY <2>1, <1>t DEF Process!TypeOK
  <2>3. Process!TypeOK'
    BY <2>1, <1>t, Recording DEF Process!TypeOK
  <2>4. SaidTrue' /\ Generations'
    BY <2>1, <2>2, <1>t DEF SaidTrue, Generations
  <2>5. Process!ReasonTrue'
    BY <2>1, <2>2, <1>t, Recording DEF Process!ReasonTrue, Process!Reasons, Process!Events
  <2> QED BY <2>3, <2>4, <2>5 DEF ProcessInv
<1>6. CASE Process!SendFails \/ Process!StopGivesUp \/ Process!ShutdownAsk
  <2>1. Process!TypeOK'
    <3>1. open' \subseteq open /\ stopper' \in {0, stopper} /\ request' \in {request, "asked"}
          /\ UNCHANGED <<proc, qmp, said, reason, stopping, late>>
      BY <1>6 DEF Process!SendFails, Process!StopGivesUp, Process!ShutdownAsk
    <3>2. stopper' \in 0 .. MaxProcesses /\ open' \subseteq Process!Sockets
      BY <3>1, <1>t DEF Process!TypeOK
    <3>3. request' \in {"idle", "asked", "complete", "failed"}
      BY <3>1, <1>t DEF Process!TypeOK
    <3> QED BY <3>1, <3>2, <3>3, <1>t DEF Process!TypeOK
  <2>2. UNCHANGED <<proc, said, reason, stopping, late>>
    BY <1>6 DEF Process!SendFails, Process!StopGivesUp, Process!ShutdownAsk
  <2>3. SaidTrue' /\ Generations' /\ Process!ReasonTrue'
    BY <2>2, <1>t DEF SaidTrue, Generations, Process!ReasonTrue
  <2> QED BY <2>1, <2>3 DEF ProcessInv
<1>7. ASSUME NEW g \in 1 .. MaxProcesses, NEW what \in Process!Events \cup {Process!Marker},
             Process!Read(g, what)
      PROVE  ProcessInv'
  <2>1. /\ <<g, what>> \in said /\ said' = said \ {<<g, what>>}
        /\ reason' = Process!Heard(what)
        /\ late' = (late \/ g # proc.gen)
        /\ UNCHANGED <<proc, open, qmp, stopping, stopper, request>>
    BY <1>7 DEF Process!Read, Process!Late
  <2>2. Process!TypeOK'
    BY <2>1, <1>t DEF Process!TypeOK, Process!Heard, Process!Reasons, Process!Events
  <2>3. SaidTrue' /\ Generations'
    BY <2>1, <1>t DEF SaidTrue, Generations
  <2>4. Process!ReasonTrue'
    <3>1. CASE late'
      BY <3>1 DEF Process!ReasonTrue
    <3>2. CASE g = proc.gen /\ ~late /\ ~stopping
      BY <3>2, <2>1, <1>t DEF SaidTrue, Process!ReasonTrue, Process!Heard, Process!Reasons,
        Process!Events, Process!Marker
    <3>3. CASE ~late /\ stopping
      BY <3>3, <2>1, <1>t DEF Process!ReasonTrue, Process!Heard
    <3> QED BY <3>1, <3>2, <3>3, <2>1, <1>t DEF Process!TypeOK
  <2> QED BY <2>2, <2>3, <2>4 DEF ProcessInv
<1>8. CASE Process!StopAsk
  <2>1. Process!TypeOK'
    BY <1>8, <1>t DEF Process!StopAsk, Process!TypeOK
  <2>2. SaidTrue' /\ Generations' /\ Process!ReasonTrue'
    BY <1>8, <1>t DEF Process!StopAsk, Process!TypeOK, SaidTrue, Generations, Process!ReasonTrue
  <2> QED BY <2>1, <2>2 DEF ProcessInv
<1>9. CASE Process!StopRecord
  <2>1. UNCHANGED <<qmp, said, stopping, request>> /\ stopper' = 0
        /\ late' = (late \/ stopper # proc.gen)
    BY <1>9 DEF Process!StopRecord, Process!Late
  <2>2. CASE stopper = proc.gen /\ Process!Recorded /\ UNCHANGED proc
    <3>1. Process!TypeOK'
      BY <2>1, <2>2, <1>t, Recording DEF Process!TypeOK
    <3>2. SaidTrue' /\ Generations'
      BY <2>1, <2>2, <1>t DEF SaidTrue, Generations
    <3>3. Process!ReasonTrue'
      BY <2>1, <2>2, <1>t, Recording DEF Process!ReasonTrue, Process!Reasons, Process!Events
    <3> QED BY <3>1, <3>2, <3>3 DEF ProcessInv
  <2>3. CASE /\ stopper # proc.gen /\ \E c \in {0, 1} : Process!Record(c)
             /\ \/ UNCHANGED proc
                \/ Process!Running /\ proc' = [proc EXCEPT !.state = "ended", !.cause = "crash"]
    <3>r. reason' \in Process!Reasons /\ open' \subseteq Process!Sockets
      BY <2>3, <1>t DEF Process!TypeOK, Process!Record, Process!Known, Process!Made, Process!Reasons
    <3>p. proc' \in ProcessRecords
      BY <2>3, <1>t DEF Process!TypeOK, ProcessRecords
    <3>1. Process!TypeOK'
      BY <2>1, <3>r, <3>p, <1>t DEF Process!TypeOK, ProcessRecords
    <3>2. SaidTrue' /\ Generations'
      BY <2>1, <2>3, <1>t DEF SaidTrue, Generations, Process!TypeOK
    <3>3. Process!ReasonTrue'
      BY <2>1, <2>3 DEF Process!ReasonTrue
    <3> QED BY <3>1, <3>2, <3>3 DEF ProcessInv
  <2> QED BY <1>9, <2>2, <2>3 DEF Process!StopRecord
<1> QED BY <1>1, <1>2, <1>3, <1>4, <1>5, <1>6, <1>7, <1>8, <1>9
        DEF Process!Next, Process!Reader

\* Neither property of a step can fail where the invariant holds.
LEMMA ProcessActs ==
  ASSUME ProcessInv, Process!Next \/ UNCHANGED processVars
  PROVE  Process!Complete /\ Process!SocketsKept
<1>t. Process!TypeOK /\ Generations /\ Process!ReasonTrue
  BY DEF ProcessInv
<1> USE DEF Process!Running, Process!Ended
<1>1. Process!Complete
  <2> SUFFICES ASSUME request' = "complete", request = "asked", ~late
               PROVE  proc.asked /\ Process!Ended
    BY DEF Process!Complete
  <2>1. Process!ShutdownEnds
    BY DEF processVars, Process!Next, Process!Start, Process!GuestAsks, Process!Exit, Process!Ends,
      Process!Snapshot, Process!Refresh, Process!SendFails, Process!Reader, Process!Read,
      Process!StopAsk, Process!StopRecord, Process!StopGivesUp, Process!ShutdownAsk
  <2>2. Process!Recorded /\ Process!Ended /\ reason' = "guest-shutdown"
    BY <2>1 DEF Process!ShutdownEnds, Process!Believed
  <2>3. reason = "guest-shutdown"
    BY <2>2, Recording
  <2> QED BY <1>t, <2>2, <2>3 DEF Process!ReasonTrue
<1>2. Process!SocketsKept
  <2> SUFFICES ASSUME Process!Running, Process!Running', proc'.gen = proc.gen, "hmp" \in open, ~late'
               PROVE  "hmp" \in open'
    BY DEF Process!SocketsKept
  <2>1. ~Process!Start
    BY <1>t DEF Process!Start
  <2>2. ~Process!Ended  OBVIOUS
  <2>3. Process!Recorded => open' = open
    BY <2>2 DEF Process!Recorded
  <2>4. CASE Process!StopRecord
    BY <2>3, <2>4 DEF Process!StopRecord, Process!Late
  <2> QED BY <2>1, <2>3, <2>4 DEF processVars, Process!Next, Process!GuestAsks, Process!Exit,
      Process!Ends, Process!Snapshot, Process!Refresh, Process!SendFails, Process!Reader,
      Process!Read, Process!StopAsk, Process!StopGivesUp, Process!ShutdownAsk, Process!ShutdownEnds
<1> QED BY <1>1, <1>2

----------------------------------------------------------------------------
(***************************************************************************)
(* The debugger.  What can be given back was saved; and until something is *)
(* amiss an operation, the stub and the stream between them are in step.   *)
(***************************************************************************)
PCs == Values \cup {Debugger!Fn}

Requests == {m \in Debugger!Exchanges \X (PCs \cup {"none"}) : m[1] = "give" => m[2] \in PCs}

Operations ==
  [kind : Kinds \cup {"none"}, todo : Seq(Debugger!Exchanges),
   at : Debugger!Exchanges \cup {"none"}, for : {"none", "ack", "packet"}, last : BOOLEAN,
   undo : {"nothing", "clear", "give"}, saved : PCs \cup {"none"}, got : PCs \cup {"none"},
   told : BOOLEAN, clean : BOOLEAN]

\* Only a pc that was saved is given back.
Saved(o) ==
  o.saved \in PCs \/
    (o.undo # "give" /\ o.at # "give" /\ o.todo \in Seq(Debugger!Exchanges \ {"give"}))

\* After an error come the finally blocks, which read nothing.
Finals == {"int", "clear", "give", "go"}

Excused(o) ==
  /\ o.told => o.last
  /\ o.last => o.at \in Finals \cup {"none"} /\ o.todo \in Seq(Finals)

\* How far an operation is that found everything in order: it is to interrupt the
\* guest, it is in its body, or in the finally blocks.
Starts(o) ==
  /\ o.undo = "nothing" /\ ~o.last
  /\ \/ o.at = "none" /\ o.todo = Debugger!Body(o.kind)
     \/ o.at = "int" /\ o.todo = Tail(Debugger!Body(o.kind))

Inside == {"read", "write", "set", "wait", "peek", "clear", "step"}
Called == {"take", "step", "read"}

Within(o) ==
  /\ ~o.last /\ (o.at = "none" => o.todo # <<>>)
  /\ \/ /\ o.kind # "call" /\ o.undo \in {"nothing", "clear"}
        /\ o.at \in Inside \cup {"none"} /\ o.todo \in Seq(Inside)
     \/ /\ o.kind = "call" /\ o.undo = "nothing"
        /\ \/ o.at = "none" /\ o.todo = <<"save", "take", "step", "read">>
           \/ o.at = "save" /\ o.todo = <<"take", "step", "read">>
     \/ /\ o.kind = "call" /\ o.undo = "give" /\ o.saved \in Values
        /\ o.at \in Called \cup {"none"} /\ o.todo \in Seq(Called)

\* The finally blocks, u the one before the last exchange.
Ends(o) ==
  /\ o.last
  /\ \/ \E u \in {"clear", "give"} :
          /\ u = "give" => o.saved \in Values
          /\ \/ o.at = "none" /\ o.todo = <<u, "go">>
             \/ o.at = u /\ o.todo = <<"go">>
     \/ o.at = "none" /\ o.todo = <<"go">>
     \/ o.at \in {"go", "none"} /\ o.todo = <<>>

\* What the stub said of an exchange that it took.
Answered(x, p) ==
  CASE x = "int"  -> ~vm.runs /\ (p = <<>> \/ p = <<"stop">>)
    [] x = "wait" -> p = <<>> \/ (~vm.runs /\ p = <<"stop">>)
    [] x = "go"   -> vm.runs /\ p = <<>>
    [] x = "step" -> ~vm.runs /\ p = <<"stop">>
    [] x = "read" -> ~vm.runs /\ p = <<vm.reg>>
    [] x \in {"peek", "save"} -> ~vm.runs /\ p = <<vm.pc>>
    [] OTHER -> ~vm.runs /\ p = <<"ok">>

\* An exchange is on its way, was taken, or is none; the guest runs before the
\* interrupt and after the last exchange.
InStep ==
  \/ /\ op.at = "none" /\ op.for = "none" /\ sent = <<>> /\ pipe = <<>>
     /\ vm.runs <=> (op.todo = <<>> \/ Head(op.todo) = "int")
  \/ /\ op.at # "none" /\ sent = <<<<op.at, op.saved>>>> /\ pipe = <<>>
     /\ op.for = IF op.at = "int" THEN "packet" ELSE "ack"
     /\ vm.runs <=> (op.at = "int")
  \/ /\ op.at \notin {"none", "int"} /\ op.for = "ack" /\ sent = <<>>
     /\ pipe # <<>> /\ Head(pipe) = "+" /\ Answered(op.at, Tail(pipe))
  \/ /\ op.at \notin {"none", "go"} /\ op.for = "packet" /\ sent = <<>>
     /\ Answered(op.at, pipe)

\* What has to be undone.  An exchange that was taken has done its work.
Taken(x) == op.at = x /\ sent = <<>>

Undoes ==
  /\ vm.watched => ~Taken("clear") /\
       IF op.last THEN op.todo = <<"clear", "go">> \/ op.at = "clear"
       ELSE op.undo = "clear" \/ op.at = "set"
  /\ vm.pc = Debugger!Fn => ~Taken("give") /\
       IF op.last THEN op.todo = <<"give", "go">> \/ op.at = "give"
       ELSE op.undo = "give"

Orderly == (Starts(op) \/ Within(op) \/ Ends(op)) /\ InStep /\ Undoes

DebuggerTypes ==
  /\ vm \in [runs : BOOLEAN, heard : BOOLEAN, pc : PCs, reg : Values, watched : BOOLEAN]
  /\ sent \in Seq(Requests) /\ pipe \in Seq(Debugger!Tokens)
  /\ op \in Operations /\ slow \in 0 .. MaxSlow
  /\ Saved(op) /\ Excused(op)
  /\ op.kind = "none" => ~op.clean

DebuggerInv == DebuggerTypes /\ (op.clean /\ ~op.told => Orderly)

Guests == [runs : BOOLEAN, heard : BOOLEAN, pc : PCs, reg : Values, watched : BOOLEAN]

LEMMA DebuggerFacts ==
  ASSUME DebuggerTypes
  PROVE  /\ vm \in Guests /\ vm.pc \in PCs /\ vm.reg \in Values
         /\ sent \in Seq(Requests) /\ pipe \in Seq(Debugger!Tokens)
         /\ op \in Operations /\ slow \in 0 .. MaxSlow /\ MaxSlow \in Nat
BY HostAssumption DEF DebuggerTypes, Guests

\* Every body interrupts the guest first and does not give back what was not saved.
LEMMA Bodies ==
  ASSUME NEW kind \in Kinds
  PROVE  /\ Debugger!Body(kind) \in Seq(Debugger!Exchanges \ {"give"})
         /\ Debugger!Body(kind) # <<>> /\ Head(Debugger!Body(kind)) = "int"
         /\ Tail(Debugger!Body(kind)) # <<>>
         /\ kind # "call" => Tail(Debugger!Body(kind)) \in Seq(Inside)
         /\ kind = "call" => Tail(Debugger!Body(kind)) = <<"save", "take", "step", "read">>
<1> USE DEF Debugger!Body, Debugger!Exchanges, Debugger!Asking, Debugger!Telling, Inside
<1>1. CASE kind = "read"  BY <1>1 DEF Debugger!ReadBody
<1>2. CASE kind = "write"  BY <1>2 DEF Debugger!WriteBody
<1>3. CASE kind = "call"  BY <1>3 DEF Debugger!CallBody
<1>4. CASE kind = "watch"  BY <1>4 DEF Debugger!WatchBody
<1>5. CASE kind = "watches"  BY <1>5 DEF Debugger!WatchesBody
<1>6. CASE kind = "trace"  BY <1>6 DEF Debugger!TraceBody
<1> QED BY <1>1, <1>2, <1>3, <1>4, <1>5, <1>6, DebuggerAssumption

\* The exchanges that are left when a step ends the body, or goes on.
LEMMA Cleanups ==
  ASSUME NEW u \in {"nothing", "clear", "give"}
  PROVE  /\ Debugger!Cleanup(u) \in Seq(Finals) /\ Debugger!Cleanup(u) \in Seq(Debugger!Exchanges)
         /\ u # "give" => Debugger!Cleanup(u) \in Seq(Debugger!Exchanges \ {"give"})
         /\ <<>> \o Debugger!Cleanup(u) = Debugger!Cleanup(u)
         /\ <<"int">> \o Debugger!Cleanup(u) \in Seq(Finals)
         /\ <<"int">> \o Debugger!Cleanup(u) \in Seq(Debugger!Exchanges)
         /\ u # "give" => <<"int">> \o Debugger!Cleanup(u) \in Seq(Debugger!Exchanges \ {"give"})
<1> USE DEF Debugger!Exchanges, Debugger!Asking, Debugger!Telling, Finals
<1>1. <<"int">> \in Seq(Finals) /\ <<"int">> \in Seq(Debugger!Exchanges \ {"give"})
      /\ <<"int">> \in Seq(Debugger!Exchanges)
  OBVIOUS
<1>2. ASSUME NEW S, NEW t \in Seq(S), <<"int">> \in Seq(S)
      PROVE  <<"int">> \o t \in Seq(S) /\ <<>> \o t = t
  BY <1>2
<1>3. /\ Debugger!Cleanup(u) \in Seq(Finals) /\ Debugger!Cleanup(u) \in Seq(Debugger!Exchanges)
      /\ u # "give" => Debugger!Cleanup(u) \in Seq(Debugger!Exchanges \ {"give"})
  <2>1. CASE u = "nothing"
    BY <2>1 DEF Debugger!Cleanup
  <2>2. CASE u # "nothing"
    BY <2>2 DEF Debugger!Cleanup
  <2> QED BY <2>1, <2>2
<1> QED BY <1>1, <1>2, <1>3

LEMMA FailTypes ==
  ASSUME NEW o \in Operations, Saved(o), Excused(o), NEW timeout \in BOOLEAN
  PROVE  LET n == Debugger!Fail(o, timeout)
         IN /\ n \in Operations /\ Saved(n) /\ Excused(n)
            /\ n.kind = o.kind /\ n.got = o.got /\ (n.told \/ ~n.clean)
            /\ n.clean => o.clean
<1> DEFINE n == Debugger!Fail(o, timeout)
<1> SUFFICES /\ n \in Operations /\ Saved(n) /\ Excused(n)
             /\ n.kind = o.kind /\ n.got = o.got /\ (n.told \/ ~n.clean)
             /\ n.clean => o.clean
  OBVIOUS
<1>1. CASE Debugger!Silent(o)
  <2>1. n = [o EXCEPT !.at = "none", !.for = "none", !.clean = FALSE]
    BY <1>1 DEF Debugger!Fail, Debugger!Rest
  <2> HIDE DEF n
  <2> QED BY <2>1 DEF Operations, Saved, Excused
<1>2. CASE ~Debugger!Silent(o) /\ o.last
  <2>1. n = [o EXCEPT !.at = "none", !.for = "none", !.told = TRUE]
    BY <1>2 DEF Debugger!Fail, Debugger!Rest
  <2> HIDE DEF n
  <2> QED BY <1>2, <2>1 DEF Operations, Saved, Excused
<1>3. CASE ~Debugger!Silent(o) /\ ~o.last
  <2>1. o.undo \in {"nothing", "clear", "give"}  BY DEF Operations
  <2>2. PICK t : /\ n = [o EXCEPT !.at = "none", !.for = "none", !.last = TRUE, !.todo = t,
                                  !.told = TRUE]
                 /\ t \in Seq(Finals) /\ t \in Seq(Debugger!Exchanges)
                 /\ o.undo # "give" => t \in Seq(Debugger!Exchanges \ {"give"})
    BY <1>3, <2>1, Cleanups DEF Debugger!Fail, Debugger!Finally, Debugger!Rest
  <2> HIDE DEF n
  <2>3. n \in Operations  BY <2>2 DEF Operations
  <2>4. Saved(n) /\ Excused(n)
    BY <2>2 DEF Operations, Saved, Excused
  <2> QED BY <2>2, <2>3, <2>4 DEF Operations
<1> QED BY <1>1, <1>2, <1>3

\* What an exchange leaves when it succeeds: the rest of its sequence or the finally
\* blocks.
Left(n, o, p) ==
  /\ n \in Operations /\ Saved(n) /\ Excused(n)
  /\ n.kind = o.kind /\ n.told = o.told /\ n.clean = o.clean
  /\ n.got = IF o.at = "read" THEN p ELSE o.got
  /\ n.saved = IF o.at = "save" THEN p ELSE o.saved
  /\ n.undo = Debugger!Undone(o) /\ n.at = "none" /\ n.for = "none"
  /\ o.todo = <<>> /\ ~o.last =>
       n.last = TRUE /\ n.todo = Debugger!Cleanup(Debugger!Undone(o))
  /\ o.todo # <<>> \/ o.last => n.last = o.last /\ n.todo = o.todo

LEMMA SucceedTypes ==
  ASSUME NEW o \in Operations, Saved(o), Excused(o), NEW p,
         o.at \in Debugger!Asking => p \in PCs
  PROVE  Left(Debugger!Succeed(o, p), o, p)
<1> DEFINE u == Debugger!Undone(o)
           m == [Debugger!Kept(o, p) EXCEPT !.undo = u]
           n == Debugger!Succeed(o, p)
<1>1. u \in {"nothing", "clear", "give"} /\ (u = "give" => o.undo = "give" \/ o.at = "save")
  BY DEF Debugger!Undone, Operations
<1>2. /\ m \in Operations /\ m.undo = u /\ m.kind = o.kind /\ m.told = o.told /\ m.clean = o.clean
      /\ m.at = o.at /\ m.todo = o.todo /\ m.last = o.last
      /\ m.got = IF o.at = "read" THEN p ELSE o.got
      /\ m.saved = IF o.at = "save" THEN p ELSE o.saved
  <2> HIDE DEF u
  <2>1. CASE o.at = "read"
    <3>1. m = [o EXCEPT !.got = p, !.undo = u] /\ p \in PCs
      BY <2>1 DEF Debugger!Kept, Debugger!Asking
    <3> HIDE DEF m
    <3> QED BY <1>1, <2>1, <3>1 DEF Operations
  <2>2. CASE o.at = "save"
    <3>1. m = [o EXCEPT !.saved = p, !.undo = u] /\ p \in PCs
      BY <2>2 DEF Debugger!Kept, Debugger!Asking
    <3> HIDE DEF m
    <3> QED BY <1>1, <2>2, <3>1 DEF Operations
  <2>3. CASE o.at \notin {"read", "save"}
    <3>1. m = [o EXCEPT !.undo = u]
      BY <2>3 DEF Debugger!Kept
    <3> HIDE DEF m
    <3> QED BY <1>1, <2>3, <3>1 DEF Operations
  <2> QED BY <2>1, <2>2, <2>3
<1>3. n = IF m.todo = <<>> /\ ~m.last THEN Debugger!Finally(m, <<>>) ELSE Debugger!Rest(m)
  BY DEF Debugger!Succeed
<1>4. m.saved \in PCs \/ (u # "give" /\ o.at # "give" /\ o.todo \in Seq(Debugger!Exchanges \ {"give"}))
  <2> HIDE DEF m
  <2>1. CASE o.at = "save"  BY <1>2, <2>1 DEF Debugger!Asking
  <2>2. CASE o.at # "save"  BY <1>1, <1>2, <2>2 DEF Saved
  <2> QED BY <2>1, <2>2
<1> HIDE DEF m, n, u
<1>5. CASE m.todo = <<>> /\ ~m.last
  <2>1. n = [m EXCEPT !.at = "none", !.for = "none", !.last = TRUE, !.todo = Debugger!Cleanup(u)]
    BY <1>1, <1>2, <1>3, <1>5, Cleanups DEF Debugger!Finally, Debugger!Rest
  <2>2. /\ Debugger!Cleanup(u) \in Seq(Finals) /\ Debugger!Cleanup(u) \in Seq(Debugger!Exchanges)
        /\ u # "give" => Debugger!Cleanup(u) \in Seq(Debugger!Exchanges \ {"give"})
    BY <1>1, Cleanups
  <2>3. n \in Operations  BY <1>2, <2>1, <2>2 DEF Operations
  <2>4. Saved(n) /\ Excused(n)
    BY <1>2, <1>4, <2>1, <2>2 DEF Operations, Saved, Excused
  <2>5. n.kind = m.kind /\ n.told = m.told /\ n.clean = m.clean /\ n.got = m.got
        /\ n.saved = m.saved /\ n.undo = m.undo /\ n.at = "none" /\ n.for = "none"
        /\ n.last = TRUE /\ n.todo = Debugger!Cleanup(u)
    BY <1>2, <2>1 DEF Operations
  <2>6. Left(n, o, p)
    BY <1>2, <1>5, <2>3, <2>4, <2>5 DEF Left, u
  <2> QED BY <2>6 DEF n
<1>6. CASE ~(m.todo = <<>> /\ ~m.last)
  <2>1. n = [m EXCEPT !.at = "none", !.for = "none"]
    BY <1>3, <1>6 DEF Debugger!Rest
  <2>2. n \in Operations  BY <1>2, <2>1 DEF Operations
  <2>3. Saved(n) /\ Excused(n)
    BY <1>2, <1>4, <2>1 DEF Operations, Saved, Excused
  <2>4. n.kind = m.kind /\ n.told = m.told /\ n.clean = m.clean /\ n.got = m.got
        /\ n.saved = m.saved /\ n.undo = m.undo /\ n.at = "none" /\ n.for = "none"
        /\ n.last = m.last /\ n.todo = m.todo
    BY <1>2, <2>1 DEF Operations
  <2>5. Left(n, o, p)
    BY <1>2, <1>6, <2>2, <2>3, <2>4 DEF Left, u
  <2> QED BY <2>5 DEF n
<1> QED BY <1>5, <1>6

\* The first packet in the stream.
LEMMA Firsts ==
  ASSUME NEW q, q \in Seq(Debugger!Tokens), pipe = q, Debugger!Ahead # {}
  PROVE  /\ pipe[Debugger!First] \in Debugger!Packets /\ pipe # <<>>
         /\ SubSeq(pipe, Debugger!First + 1, Len(pipe)) \in Seq(Debugger!Tokens)
         /\ Len(pipe) = 1 => /\ Debugger!First = 1
                             /\ SubSeq(pipe, Debugger!First + 1, Len(pipe)) = <<>>
<1>1. Debugger!Ahead \subseteq 1 .. Len(pipe) /\ Len(pipe) \in Nat
  BY DEF Debugger!Ahead
<1>2. \E i \in Debugger!Ahead : \A j \in Debugger!Ahead : i <= j
  <2>1. PICK m \in Debugger!Ahead : TRUE  OBVIOUS
  <2>2. m \in Nat /\ Debugger!Ahead \subseteq Nat  BY <1>1, <2>1
  <2> QED BY <2>1, <2>2, LeastOf
<1>3. Debugger!First \in Debugger!Ahead
  BY <1>2 DEF Debugger!First
<1>4. Debugger!First \in 1 .. Len(pipe)  BY <1>1, <1>3
<1> HIDE DEF Debugger!First
<1>5. pipe[Debugger!First] \in Debugger!Packets
  BY <1>3 DEF Debugger!Ahead, Debugger!IsPacket
<1>6. SubSeq(pipe, Debugger!First + 1, Len(pipe)) \in Seq(Debugger!Tokens)
  BY <1>1, <1>4
<1>7. ASSUME Len(pipe) = 1
      PROVE  Debugger!First = 1 /\ SubSeq(pipe, Debugger!First + 1, Len(pipe)) = <<>>
  <2>1. Debugger!First = 1  BY <1>4, <1>7
  <2> QED BY <1>7, <2>1
<1> QED BY <1>1, <1>4, <1>5, <1>6, <1>7

\* A step keeps the types, and what it does to the operation.
LEMMA Shorts ==
  ASSUME NEW T
  PROVE  /\ <<>> \in Seq(T) /\ \A a \in T : <<a>> \in Seq(T)
         /\ \A a, b \in T : <<a, b>> \in Seq(T)
OBVIOUS

LEMMA DebuggerKept ==
  ASSUME DebuggerTypes, Debugger!Next
  PROVE  DebuggerTypes'
<1> USE DebuggerFacts
<1>1. ASSUME Debugger!Stops PROVE vm' \in Guests /\ pipe' \in Seq(Debugger!Tokens)
  <2>1. vm' \in Guests  BY <1>1 DEF Debugger!Stops, Guests
  <2>2. PICK ts \in {<<"stop">>, <<>>} : pipe' = pipe \o ts
    BY <1>1 DEF Debugger!Stops, Debugger!Says
  <2>3. ts \in Seq(Debugger!Tokens)
    <3>1. "stop" \in Debugger!Tokens  BY DEF Debugger!Tokens, Debugger!Packets
    <3> QED BY <3>1, Shorts
  <2> QED BY <2>1, <2>2, <2>3
<1>2. CASE Debugger!Take
  <2>1. sent # <<>> /\ sent' = Tail(sent) /\ UNCHANGED <<op, slow>>
    BY <1>2 DEF Debugger!Take
  <2> DEFINE x == Head(sent)[1]
             s == Head(sent)[2]
  <2>2. x \in Debugger!Exchanges /\ (x = "give" => s \in PCs) /\ sent' \in Seq(Requests)
    <3>1. Head(sent) \in Requests /\ Tail(sent) \in Seq(Requests)  BY <2>1
    <3> QED BY <2>1, <3>1 DEF Requests
  <2>3. ASSUME NEW ts, ts \in Seq(Debugger!Tokens), Debugger!Says(ts)
        PROVE  pipe' \in Seq(Debugger!Tokens)
    BY <2>3 DEF Debugger!Says
  <2>4. /\ <<"+", vm.reg>> \in Seq(Debugger!Tokens) /\ <<"+", vm.pc>> \in Seq(Debugger!Tokens)
        /\ <<"+", "ok">> \in Seq(Debugger!Tokens) /\ <<"+", "stop">> \in Seq(Debugger!Tokens)
        /\ <<"+">> \in Seq(Debugger!Tokens)
    <3> DEFINE T == Debugger!Tokens
    <3>1. "+" \in T /\ "ok" \in T /\ "stop" \in T /\ vm.reg \in T /\ vm.pc \in T
      BY DEF Debugger!Tokens, Debugger!Packets, PCs
    <3> HIDE DEF T
    <3>2. /\ <<"+", vm.reg>> \in Seq(T) /\ <<"+", vm.pc>> \in Seq(T)
          /\ <<"+", "ok">> \in Seq(T) /\ <<"+", "stop">> \in Seq(T) /\ <<"+">> \in Seq(T)
      BY <3>1, Shorts
    <3> QED BY <3>2 DEF T
  <2>5. ASSUME NEW r \in BOOLEAN, Debugger!Moves(r) PROVE vm' \in Guests
    BY <2>5 DEF Debugger!Moves, Guests, PCs
  <2>6. ASSUME vm' = Debugger!Told(x, s) PROVE vm' \in Guests
    <3> HIDE DEF x, s
    <3>1. Debugger!Fn \in PCs  BY DEF PCs
    <3> QED BY <2>2, <2>6, <3>1 DEF Debugger!Told, Guests
  <2>7. vm' \in Guests /\ pipe' \in Seq(Debugger!Tokens)
    <3>1. CASE vm.runs  BY <1>1, <1>2, <3>1 DEF Debugger!Take
    <3>2. CASE ~vm.runs
      <4>1. \/ UNCHANGED <<vm, pipe>>
            \/ Debugger!Says(<<"+", vm.reg>>) /\ UNCHANGED vm
            \/ Debugger!Says(<<"+", vm.pc>>) /\ UNCHANGED vm
            \/ Debugger!Says(<<"+", "ok">>) /\ vm' = Debugger!Told(x, s)
            \/ Debugger!Says(<<"+", "stop">>) /\ Debugger!Moves(FALSE)
            \/ Debugger!Says(<<"+">>) /\ Debugger!Moves(TRUE)
        BY <1>2, <3>2 DEF Debugger!Take
      <4> QED BY <2>3, <2>4, <2>5, <2>6, <4>1
    <3> QED BY <3>1, <3>2
  <2> QED BY <2>1, <2>2, <2>7 DEF DebuggerTypes, Guests
<1>3. CASE Debugger!Hit
  BY <1>1, <1>3 DEF Debugger!Hit, DebuggerTypes, Guests
<1>4. CASE Debugger!Refresh
  BY <1>4 DEF Debugger!Refresh, DebuggerTypes, Guests
<1>5. ASSUME NEW kind \in Kinds, Debugger!Begin(kind) PROVE DebuggerTypes'
  <2>1. op' = [Debugger!Resting EXCEPT !.kind = kind, !.todo = Debugger!Body(kind),
                                       !.clean = Debugger!InOrder]
        /\ UNCHANGED <<vm, sent, pipe, slow>>
    BY <1>5 DEF Debugger!Begin
  <2> DEFINE o == Debugger!InOrder
  <2>2. o \in BOOLEAN  BY DEF Debugger!InOrder, Guests
  <2> HIDE DEF o
  <2>3. Debugger!Body(kind) \in Seq(Debugger!Exchanges \ {"give"})
        /\ Debugger!Body(kind) \in Seq(Debugger!Exchanges)
    BY Bodies
  <2>4. op' \in Operations /\ op'.kind = kind
    BY <2>1, <2>2, <2>3 DEF o, Debugger!Resting, Operations
  <2>5. Saved(op)' /\ Excused(op)'
    BY <2>1, <2>3 DEF Debugger!Resting, Saved, Excused
  <2>6. kind # "none"  BY DebuggerAssumption
  <2> QED BY <2>1, <2>4, <2>5, <2>6 DEF DebuggerTypes
<1>6. CASE Debugger!Send
  <2> DEFINE x == Head(op.todo)
  <2>1. /\ op.kind # "none" /\ op.todo # <<>> /\ sent' = Append(sent, <<x, op.saved>>)
        /\ op' = [op EXCEPT !.at = x, !.todo = Tail(op.todo),
                            !.for = IF x = "int" THEN "packet" ELSE "ack"]
        /\ UNCHANGED <<vm, pipe, slow>>
    BY <1>6 DEF Debugger!Send
  <2>2. op.todo \in Seq(Debugger!Exchanges) /\ op.saved \in PCs \cup {"none"}
    BY DEF Operations
  <2>3. x \in Debugger!Exchanges /\ Tail(op.todo) \in Seq(Debugger!Exchanges)
    BY <2>1, <2>2
  <2>4. /\ x = "give" => op.saved \in PCs
        /\ \/ op.saved \in PCs
           \/ /\ op.undo # "give" /\ x # "give"
              /\ Tail(op.todo) \in Seq(Debugger!Exchanges \ {"give"})
    <3>1. CASE op.saved \in PCs  BY <3>1
    <3>2. CASE op.saved \notin PCs
      <4>1. op.todo \in Seq(Debugger!Exchanges \ {"give"}) /\ op.undo # "give"
        BY <3>2 DEF DebuggerTypes, Saved
      <4>2. Head(op.todo) \in Debugger!Exchanges \ {"give"}
            /\ Tail(op.todo) \in Seq(Debugger!Exchanges \ {"give"})
        BY <2>1, <4>1
      <4> QED BY <4>1, <4>2
    <3> QED BY <3>1, <3>2
  <2>5. ASSUME op.last PROVE x \in Finals /\ Tail(op.todo) \in Seq(Finals)
    <3>1. op.todo \in Seq(Finals)  BY <2>5 DEF DebuggerTypes, Excused
    <3> QED BY <2>1, <3>1
  <2> HIDE DEF x
  <2>6. <<x, op.saved>> \in Requests  BY <2>2, <2>3, <2>4 DEF Requests
  <2>7. sent' \in Seq(Requests)  BY <2>1, <2>6
  <2>8. op' \in Operations  BY <2>1, <2>3 DEF Operations
  <2>9. Saved(op)'  BY <2>1, <2>4 DEF Operations, Saved
  <2>10. Excused(op)'  BY <2>1, <2>5 DEF Operations, Excused, DebuggerTypes
  <2>11. op'.kind # "none"  BY <2>1 DEF Operations
  <2> QED BY <2>1, <2>7, <2>8, <2>9, <2>10, <2>11 DEF DebuggerTypes
<1>7. CASE Debugger!Return
  <2>1. op' = Debugger!Resting /\ UNCHANGED <<vm, sent, pipe, slow>>
    BY <1>7 DEF Debugger!Return
  <2>2. Debugger!Resting \in Operations  BY DEF Debugger!Resting, Operations
  <2> QED BY <2>1, <2>2 DEF Debugger!Resting, DebuggerTypes, Saved, Excused
<1>8. CASE op.for = "ack" /\ Debugger!Ack
  <2>1. pipe # <<>> /\ UNCHANGED <<vm, sent, slow>>
    BY <1>8 DEF Debugger!Ack
  <2>2. Saved(op) /\ Excused(op) /\ (op.kind = "none" => ~op.clean)
    BY DEF DebuggerTypes
  <2>3. CASE Head(pipe) = "+"
    <3>1. pipe' = Tail(pipe)
          /\ op' = IF op.at = "go" THEN Debugger!Rest(op) ELSE [op EXCEPT !.for = "packet"]
      BY <1>8, <2>3 DEF Debugger!Ack
    <3>2. pipe' \in Seq(Debugger!Tokens)  BY <2>1, <3>1
    <3>3. op' = [op EXCEPT !.at = "none", !.for = "none"] \/ op' = [op EXCEPT !.for = "packet"]
      BY <3>1 DEF Debugger!Rest
    <3>4. op' \in Operations /\ op'.kind = op.kind /\ op'.clean = op.clean
      BY <3>3 DEF Operations
    <3>5. Saved(op)' /\ Excused(op)'
      BY <2>2, <3>3 DEF Operations, Saved, Excused
    <3> QED BY <2>1, <2>2, <3>2, <3>4, <3>5 DEF DebuggerTypes
  <2>4. CASE Head(pipe) # "+"
    <3>1. pipe' = [pipe EXCEPT ![1] = "junk"] /\ op' = Debugger!Fail(op, FALSE)
      BY <1>8, <2>4 DEF Debugger!Ack
    <3>2. pipe' \in Seq(Debugger!Tokens)
      <4>1. "junk" \in Debugger!Tokens  BY DEF Debugger!Tokens
      <4>2. 1 \in 1 .. Len(pipe)  BY <2>1
      <4> QED BY <3>1, <4>1, <4>2, ExceptSeq
    <3>3. op' \in Operations /\ Saved(op') /\ Excused(op') /\ op'.kind = op.kind
          /\ (op'.clean => op.clean)
      BY <2>2, <3>1, FailTypes
    <3> QED BY <2>1, <2>2, <3>2, <3>3 DEF DebuggerTypes, Saved, Excused
  <2> QED BY <2>3, <2>4
<1>9. CASE Debugger!Packet
  <2>1. /\ Debugger!Ahead # {} /\ UNCHANGED <<vm, sent, slow>>
        /\ pipe' = SubSeq(pipe, Debugger!First + 1, Len(pipe))
        /\ \/ /\ Debugger!Good(op.at, pipe[Debugger!First])
              /\ op' = Debugger!Succeed(op, pipe[Debugger!First])
           \/ op' = Debugger!Fail(op, FALSE)
    BY <1>9 DEF Debugger!Packet
  <2>2. Saved(op) /\ Excused(op) /\ (op.kind = "none" => ~op.clean)
    BY DEF DebuggerTypes
  <2>3. pipe' \in Seq(Debugger!Tokens)  BY <2>1, Firsts
  <2>4. op' \in Operations /\ Saved(op') /\ Excused(op') /\ op'.kind = op.kind
        /\ (op'.clean => op.clean)
    <3>1. CASE op' = Debugger!Fail(op, FALSE)
      BY <2>2, <3>1, FailTypes
    <3>2. CASE /\ Debugger!Good(op.at, pipe[Debugger!First])
               /\ op' = Debugger!Succeed(op, pipe[Debugger!First])
      <4> DEFINE p == pipe[Debugger!First]
      <4>1. op.at \in Debugger!Asking => p \in PCs
        BY <3>2 DEF Debugger!Good, Debugger!Asking, PCs
      <4>2. op' = Debugger!Succeed(op, p)  BY <3>2
      <4>3. op \in Operations  OBVIOUS
      <4> HIDE DebuggerFacts
      <4> HIDE DEF p
      <4> DEFINE n == Debugger!Succeed(op, p)
      <4>4. Left(n, op, p)
        BY <2>2, <4>1, <4>3, SucceedTypes
      <4> HIDE DEF n
      <4>5. op' = n  BY <4>2 DEF n
      <4> QED BY <4>4, <4>5 DEF Left
    <3> QED BY <2>1, <3>1, <3>2
  <2> QED BY <2>1, <2>2, <2>3, <2>4 DEF DebuggerTypes, Saved, Excused
<1>10. CASE Debugger!Timeout
  <2>1. /\ slow' \in 0 .. MaxSlow /\ pipe' = <<>> /\ op' = Debugger!Fail(op, TRUE)
        /\ UNCHANGED <<vm, sent>>
    BY <1>10 DEF Debugger!Timeout
  <2>2. Saved(op) /\ Excused(op) /\ (op.kind = "none" => ~op.clean)
    BY DEF DebuggerTypes
  <2>3. op' \in Operations /\ Saved(op') /\ Excused(op') /\ op'.kind = op.kind
        /\ (op'.clean => op.clean)
    BY <2>1, <2>2, FailTypes
  <2>4. pipe' \in Seq(Debugger!Tokens)  BY <2>1
  <2> QED BY <2>1, <2>2, <2>3, <2>4 DEF DebuggerTypes, Saved, Excused
<1> QED BY <1>2, <1>3, <1>4, <1>5, <1>6, <1>7, <1>8, <1>9, <1>10
        DEF Debugger!Next, Debugger!Ack

\* Of an operation that is in step: nothing runs while it has something to say or to
\* hear, but for the interrupt and for a breakpoint that is waited for.
LEMMA OrderlyTake ==
  ASSUME DebuggerTypes, Orderly, Debugger!Take
  PROVE  Orderly'
<1> USE DebuggerFacts
<1>1. /\ sent # <<>> /\ sent' = Tail(sent) /\ UNCHANGED <<op, slow>>
  BY DEF Debugger!Take
<1>2. /\ op.at # "none" /\ sent = <<<<op.at, op.saved>>>> /\ pipe = <<>>
      /\ op.for = IF op.at = "int" THEN "packet" ELSE "ack"
      /\ vm.runs <=> (op.at = "int")
  BY <1>1 DEF Orderly, InStep
<1>3. sent' = <<>> /\ Head(sent) = <<op.at, op.saved>>
      /\ Head(sent)[1] = op.at /\ Head(sent)[2] = op.saved
  BY <1>1, <1>2
<1>4. CASE op.at = "int"
  <2>1. Debugger!Stops  BY <1>2, <1>4 DEF Debugger!Take
  <2>2. vm' = [vm EXCEPT !.runs = FALSE] /\ (pipe' = <<"stop">> \/ pipe' = <<>>)
    <3>1. \A t \in {<<"stop">>, <<>>} : <<>> \o t = t  OBVIOUS
    <3> QED BY <1>2, <2>1, <3>1 DEF Debugger!Stops, Debugger!Says
  <2>3. vm'.runs = FALSE /\ vm'.watched = vm.watched /\ vm'.pc = vm.pc
    BY <2>2 DEF Guests
  <2>4. InStep'  BY <1>1, <1>2, <1>3, <1>4, <2>2, <2>3 DEF InStep, Answered
  <2>5. Undoes'
    BY <1>1, <1>4, <2>3 DEF Orderly, Undoes, Taken
  <2> QED BY <1>1, <2>4, <2>5 DEF Orderly, Starts, Within, Ends
<1>5. CASE op.at # "int"
  <2> DEFINE x == op.at
  <2>1. ~vm.runs /\ op.for = "ack"  BY <1>2, <1>5
  <2>2. \/ x = "read" /\ Debugger!Says(<<"+", vm.reg>>) /\ UNCHANGED vm
        \/ x \in {"peek", "save"} /\ Debugger!Says(<<"+", vm.pc>>) /\ UNCHANGED vm
        \/ /\ x \in Debugger!Telling /\ Debugger!Says(<<"+", "ok">>)
           /\ vm' = Debugger!Told(x, op.saved)
        \/ x = "step" /\ Debugger!Says(<<"+", "stop">>) /\ Debugger!Moves(FALSE)
        \/ x \in {"wait", "go"} /\ Debugger!Says(<<"+">>) /\ Debugger!Moves(TRUE)
    BY <1>3, <1>5, <2>1 DEF Debugger!Take
  <2>3. ASSUME NEW ts, Debugger!Says(ts), ts \in Seq(Debugger!Tokens) PROVE pipe' = ts
    BY <1>2, <2>3 DEF Debugger!Says
  <2>4. /\ "+" \in Debugger!Tokens /\ "ok" \in Debugger!Tokens /\ "stop" \in Debugger!Tokens
        /\ vm.reg \in Debugger!Tokens /\ vm.pc \in Debugger!Tokens
    BY DEF Debugger!Tokens, Debugger!Packets, PCs
  <2>5. /\ \A a \in Debugger!Tokens : <<"+", a>> \in Seq(Debugger!Tokens)
        /\ <<"+">> \in Seq(Debugger!Tokens)
    BY <2>4, Shorts
  <2>6. /\ \A a : Head(<<"+", a>>) = "+" /\ Tail(<<"+", a>>) = <<a>> /\ <<"+", a>> # <<>>
        /\ Head(<<"+">>) = "+" /\ Tail(<<"+">>) = <<>> /\ <<"+">> # <<>>
    OBVIOUS
  <2>7. pipe' # <<>> /\ Head(pipe') = "+" /\ Answered(x, Tail(pipe))'
    <3>1. CASE x = "read" /\ Debugger!Says(<<"+", vm.reg>>) /\ UNCHANGED vm
      BY <1>1, <2>1, <2>3, <2>4, <2>5, <2>6, <3>1 DEF Answered
    <3>2. CASE x \in {"peek", "save"} /\ Debugger!Says(<<"+", vm.pc>>) /\ UNCHANGED vm
      BY <1>1, <2>1, <2>3, <2>4, <2>5, <2>6, <3>2 DEF Answered
    <3>3. CASE /\ x \in Debugger!Telling /\ Debugger!Says(<<"+", "ok">>)
               /\ vm' = Debugger!Told(x, op.saved)
      <4>1. ~vm'.runs  BY <2>1, <3>3 DEF Debugger!Told, Guests
      <4> QED BY <1>1, <2>3, <2>4, <2>5, <2>6, <3>3, <4>1 DEF Answered, Debugger!Telling
    <3>4. CASE x = "step" /\ Debugger!Says(<<"+", "stop">>) /\ Debugger!Moves(FALSE)
      <4>1. ~vm'.runs  BY <3>4 DEF Debugger!Moves, Guests
      <4> QED BY <1>1, <2>3, <2>4, <2>5, <2>6, <3>4, <4>1 DEF Answered
    <3>5. CASE x \in {"wait", "go"} /\ Debugger!Says(<<"+">>) /\ Debugger!Moves(TRUE)
      <4>1. vm'.runs  BY <3>5 DEF Debugger!Moves, Guests
      <4> QED BY <1>1, <2>3, <2>4, <2>5, <2>6, <3>5, <4>1 DEF Answered
    <3> QED BY <2>2, <3>1, <3>2, <3>3, <3>4, <3>5
  <2>8. InStep'
    BY <1>1, <1>2, <1>3, <1>5, <2>1, <2>7 DEF InStep
  <2>9. /\ vm'.watched => (vm.watched /\ x # "clear") \/ x = "set"
        /\ vm'.pc = Debugger!Fn => \/ vm.pc = Debugger!Fn /\ x # "give"
                                   \/ x = "take"
                                   \/ x = "give" /\ op.saved = Debugger!Fn
    <3>1. CASE UNCHANGED vm /\ x \in {"read", "peek", "save"}  BY <3>1
    <3>2. CASE x \in Debugger!Telling /\ vm' = Debugger!Told(x, op.saved)
      BY <3>2 DEF Debugger!Told, Debugger!Telling, Guests
    <3>3. ASSUME NEW r \in BOOLEAN, Debugger!Moves(r), x \in {"step", "wait", "go"}
          PROVE  /\ vm'.watched = vm.watched
                 /\ vm'.pc = Debugger!Fn => vm.pc = Debugger!Fn
      BY <3>3, DebuggerAssumption DEF Debugger!Moves, Guests
    <3> QED BY <2>2, <3>1, <3>2, <3>3
  <2>10. x = "give" => op.saved # Debugger!Fn
    BY DebuggerAssumption DEF Orderly, Starts, Within, Ends, Inside, Called
  <2>11. x = "set" => ~op.last
    BY DEF Orderly, Starts, Within, Ends
  <2>12. x = "take" => op.undo = "give" /\ ~op.last
    BY DEF Orderly, Starts, Within, Ends, Inside
  <2>13. Undoes'
    BY <1>1, <1>3, <2>9, <2>10, <2>11, <2>12 DEF Orderly, Undoes, Taken
  <2> QED BY <1>1, <2>8, <2>13 DEF Orderly, Starts, Within, Ends
<1> QED BY <1>4, <1>5

LEMMA TailConcat ==
  ASSUME NEW S, NEW q \in Seq(S), NEW t \in Seq(S), q # <<>>
  PROVE  q \o t # <<>> /\ Head(q \o t) = Head(q) /\ Tail(q \o t) = Tail(q) \o t
<1>1. Len(q) \in Nat \ {0} /\ Len(t) \in Nat  BY EmptySeq
<1>2. /\ q \o t \in Seq(S) /\ Len(q \o t) = Len(q) + Len(t)
      /\ \A i \in 1 .. Len(q) + Len(t) : (q \o t)[i] = IF i <= Len(q) THEN q[i] ELSE t[i - Len(q)]
  BY ConcatProperties
<1>3. Tail(q) \in Seq(S) /\ Len(Tail(q)) = Len(q) - 1
      /\ \A i \in 1 .. Len(q) - 1 : Tail(q)[i] = q[i + 1]
  BY <1>1
<1>4. q \o t # <<>>  BY <1>1, <1>2
<1>5. Tail(q \o t) \in Seq(S) /\ Len(Tail(q \o t)) = Len(q) + Len(t) - 1
      /\ \A i \in 1 .. Len(q) + Len(t) - 1 : Tail(q \o t)[i] = (q \o t)[i + 1]
  BY <1>1, <1>2, <1>4
<1>6. /\ Tail(q) \o t \in Seq(S) /\ Len(Tail(q) \o t) = Len(q) - 1 + Len(t)
      /\ \A i \in 1 .. Len(q) - 1 + Len(t) :
           (Tail(q) \o t)[i] = IF i <= Len(q) - 1 THEN Tail(q)[i] ELSE t[i - (Len(q) - 1)]
  BY <1>3, ConcatProperties
<1>7. ASSUME NEW i \in 1 .. Len(q) + Len(t) - 1 PROVE Tail(q \o t)[i] = (Tail(q) \o t)[i]
  <2>1. i + 1 \in 1 .. Len(q) + Len(t) /\ i \in 1 .. Len(q) - 1 + Len(t)  BY <1>1
  <2>2. Tail(q \o t)[i] = IF i + 1 <= Len(q) THEN q[i + 1] ELSE t[i + 1 - Len(q)]
    BY <1>2, <1>5, <2>1
  <2>3. CASE i <= Len(q) - 1
    <3>1. i \in 1 .. Len(q) - 1 /\ i + 1 <= Len(q)  BY <1>1, <2>3
    <3> QED BY <1>3, <1>6, <2>1, <2>2, <2>3, <3>1
  <2>4. CASE ~(i <= Len(q) - 1)
    <3>1. ~(i + 1 <= Len(q)) /\ i + 1 - Len(q) = i - (Len(q) - 1)  BY <1>1, <2>4
    <3> QED BY <1>6, <2>1, <2>2, <2>4, <3>1
  <2> QED BY <2>3, <2>4
<1>8. Tail(q \o t) = Tail(q) \o t
  <2>1. Len(Tail(q \o t)) = Len(Tail(q) \o t)  BY <1>1, <1>5, <1>6
  <2> QED BY <1>5, <1>6, <1>7, <2>1, SeqEqual
<1>9. Head(q \o t) = Head(q)
  <2>1. 1 \in 1 .. Len(q) + Len(t) /\ 1 <= Len(q)  BY <1>1
  <2>2. Head(q \o t) = (q \o t)[1] /\ Head(q) = q[1]  BY <1>2, <1>4
  <2> QED BY <1>2, <2>1, <2>2
<1> QED BY <1>4, <1>8, <1>9

\* The body has no other interrupt than its first.
LEMMA WithinHead ==
  ASSUME NEW o, Within(o), o.at = "none"
  PROVE  o.todo # <<>> /\ Head(o.todo) \in Inside \cup Called \cup {"save"} /\ Head(o.todo) # "int"
<1>1. o.todo # <<>>  BY DEF Within
<1>2. ASSUME NEW S, o.todo \in Seq(S) PROVE Head(o.todo) \in S  BY <1>1, <1>2
<1>3. Head(<<"save", "take", "step", "read">>) = "save"  OBVIOUS
<1>4. Head(o.todo) \in Inside \cup Called \cup {"save"}
  BY <1>2, <1>3 DEF Within
<1> QED BY <1>1, <1>4 DEF Inside, Called

LEMMA OrderlyHit ==
  ASSUME DebuggerTypes, Orderly, Debugger!Hit
  PROVE  Orderly'
<1> USE DebuggerFacts
<1>1. /\ vm.runs /\ vm.watched /\ vm' = [vm EXCEPT !.runs = FALSE]
      /\ UNCHANGED <<sent, op, slow>>
  BY DEF Debugger!Hit, Debugger!Stops
<1>2. PICK ts \in {<<"stop">>, <<>>} : pipe' = pipe \o ts
  BY DEF Debugger!Hit, Debugger!Stops, Debugger!Says
<1>3. vm'.runs = FALSE /\ vm'.watched = vm.watched /\ vm'.pc = vm.pc
  BY <1>1 DEF Guests
<1>4. ~Starts(op)
  <2>1. ASSUME Starts(op) PROVE FALSE
    BY <1>1, <2>1 DEF Orderly, Undoes, Starts
  <2> QED BY <2>1
<1>5. op.at = "wait" /\ sent = <<>>
  <2>1. CASE Within(op)
    <3>1. ~(op.at = "none" /\ (op.todo = <<>> \/ Head(op.todo) = "int"))
      BY <2>1, WithinHead
    <3> QED BY <1>1, <2>1, <3>1 DEF Orderly, InStep, Answered, Within, Inside, Called
  <2>2. CASE Ends(op)
    <3>1. op.todo = <<"clear", "go">> \/ (op.at = "clear" /\ sent # <<>>)
      BY <1>1, <2>2 DEF Orderly, Undoes, Taken, Ends
    <3>2. CASE op.at = "clear" /\ sent # <<>>
      BY <1>1, <3>2 DEF Orderly, InStep
    <3>3. CASE op.todo = <<"clear", "go">>
      <4>1. op.at = "none"  BY <2>2, <3>3 DEF Ends
      <4> QED BY <1>1, <3>3, <4>1 DEF Orderly, InStep
    <3> QED BY <3>1, <3>2, <3>3
  <2> QED BY <1>4, <2>1, <2>2 DEF Orderly
<1>6. \/ op.for = "ack" /\ pipe # <<>> /\ Head(pipe) = "+" /\ Tail(pipe) = <<>>
      \/ op.for = "packet" /\ pipe = <<>>
  BY <1>1, <1>5 DEF Orderly, InStep, Answered
<1>7. InStep'
  <2>1. CASE op.for = "packet" /\ pipe = <<>>
    <3>1. pipe' = <<>> \/ pipe' = <<"stop">>  BY <1>2, <2>1
    <3> QED BY <1>1, <1>3, <1>5, <2>1, <3>1 DEF InStep, Answered
  <2>2. CASE op.for = "ack" /\ pipe # <<>> /\ Head(pipe) = "+" /\ Tail(pipe) = <<>>
    <3>1. ts \in Seq(Debugger!Tokens)
      <4>1. "stop" \in Debugger!Tokens  BY DEF Debugger!Tokens, Debugger!Packets
      <4> QED BY <4>1, Shorts
    <3>2. pipe' # <<>> /\ Head(pipe') = "+" /\ Tail(pipe') = <<>> \o ts
      BY <1>2, <2>2, <3>1, TailConcat
    <3>3. Tail(pipe') = <<>> \/ Tail(pipe') = <<"stop">>
      BY <3>1, <3>2, ConcatEmptySeq
    <3> QED BY <1>1, <1>3, <1>5, <2>2, <3>2, <3>3 DEF InStep, Answered
  <2> QED BY <1>6, <2>1, <2>2
<1>8. Undoes'
  BY <1>1, <1>3 DEF Orderly, Undoes, Taken
<1> QED BY <1>1, <1>7, <1>8 DEF Orderly, Starts, Within, Ends

LEMMA OrderlyBegin ==
  ASSUME DebuggerTypes, NEW kind \in Kinds, Debugger!Begin(kind), op'.clean
  PROVE  Orderly'
<1> USE DebuggerFacts
<1>1. op' = [Debugger!Resting EXCEPT !.kind = kind, !.todo = Debugger!Body(kind),
                                     !.clean = Debugger!InOrder]
      /\ UNCHANGED <<vm, sent, pipe, slow>>
  BY DEF Debugger!Begin
<1>2. /\ op'.kind = kind /\ op'.todo = Debugger!Body(kind) /\ op'.clean = Debugger!InOrder
      /\ op'.at = "none" /\ op'.for = "none" /\ op'.undo = "nothing" /\ op'.last = FALSE
  BY <1>1 DEF Debugger!Resting
<1>3. vm.runs /\ sent = <<>> /\ pipe = <<>> /\ ~vm.watched /\ vm.pc # Debugger!Fn
  BY <1>2 DEF Debugger!InOrder
<1>4. Debugger!Body(kind) # <<>> /\ Head(Debugger!Body(kind)) = "int"  BY Bodies
<1>5. Starts(op)'  BY <1>2 DEF Starts
<1>6. InStep'  BY <1>1, <1>2, <1>3, <1>4 DEF InStep
<1>7. Undoes'  BY <1>1, <1>3 DEF Undoes
<1> QED BY <1>5, <1>6, <1>7 DEF Orderly

LEMMA OrderlySend ==
  ASSUME DebuggerTypes, Orderly, op.kind \in Kinds, Debugger!Send
  PROVE  Orderly'
<1> USE DebuggerFacts
<1> DEFINE x == Head(op.todo)
<1>1. /\ op.at = "none" /\ op.todo # <<>> /\ sent' = Append(sent, <<x, op.saved>>)
      /\ op' = [op EXCEPT !.at = x, !.todo = Tail(op.todo),
                          !.for = IF x = "int" THEN "packet" ELSE "ack"]
      /\ UNCHANGED <<vm, pipe, slow>>
  BY DEF Debugger!Send
<1>2. op.todo \in Seq(Debugger!Exchanges)  BY DEF Operations
<1>3. x # "none"
  <2>1. x \in Debugger!Exchanges  BY <1>1, <1>2
  <2> QED BY <2>1 DEF Debugger!Exchanges, Debugger!Asking, Debugger!Telling
<1>4. sent = <<>> /\ pipe = <<>> /\ (vm.runs <=> x = "int")
  BY <1>1 DEF Orderly, InStep
<1> HIDE DEF x
<1>5. /\ op'.at = x /\ op'.todo = Tail(op.todo) /\ op'.saved = op.saved /\ op'.undo = op.undo
      /\ op'.for = (IF x = "int" THEN "packet" ELSE "ack") /\ op'.last = op.last
      /\ op'.kind = op.kind
  BY <1>1 DEF Operations
<1>6. sent' = <<<<op'.at, op'.saved>>>> /\ sent' # <<>>
  BY <1>1, <1>4, <1>5
<1>7. InStep'  BY <1>1, <1>3, <1>4, <1>5, <1>6 DEF InStep
<1>8. ASSUME NEW a, NEW b, op.todo = <<a, b>> PROVE x = a /\ op'.todo = <<b>>
  BY <1>5, <1>8 DEF x
<1>9. ASSUME NEW a, op.todo = <<a>> PROVE x = a /\ op'.todo = <<>>
  BY <1>5, <1>9 DEF x
<1>10. Starts(op)' \/ Within(op)' \/ Ends(op)'
  <2>1. CASE Starts(op)
    <3>1. op.todo = Debugger!Body(op.kind) /\ x = "int"
      BY <1>1, <2>1, Bodies DEF Starts, x
    <3> QED BY <1>5, <2>1, <3>1 DEF Starts
  <2>2. CASE Within(op)
    <3>1. ASSUME NEW S, op.todo \in Seq(S) PROVE x \in S /\ op'.todo \in Seq(S)
      BY <1>1, <1>5, <3>1 DEF x
    <3>2. op.todo = <<"save", "take", "step", "read">> =>
            x = "save" /\ op'.todo = <<"take", "step", "read">>
      BY <1>5 DEF x
    <3> QED BY <1>1, <1>3, <1>5, <2>2, <3>1, <3>2 DEF Within
  <2>3. CASE Ends(op)
    <3>1. CASE \E u \in {"clear", "give"} : (u = "give" => op.saved \in Values) /\ op.todo = <<u, "go">>
      BY <1>5, <1>8, <2>3, <3>1 DEF Ends
    <3>2. CASE op.todo = <<"go">>
      BY <1>5, <1>9, <2>3, <3>2 DEF Ends
    <3> QED BY <1>1, <2>3, <3>1, <3>2 DEF Ends
  <2> QED BY <2>1, <2>2, <2>3 DEF Orderly
<1>11. Undoes'
  <2>1. \A u : op.todo = <<u, "go">> => op'.at = u  BY <1>5, <1>8
  <2>2. ~op.last => op'.undo = op.undo  BY <1>5
  <2>3. op.at # "clear" /\ op.at # "give" /\ op.at # "set"  BY <1>1
  <2> QED BY <1>1, <1>5, <1>6, <2>1, <2>2, <2>3 DEF Orderly, Undoes, Taken
<1> QED BY <1>7, <1>10, <1>11 DEF Orderly

LEMMA OrderlyAck ==
  ASSUME DebuggerTypes, Orderly, Debugger!Ack, Head(pipe) = "+"
  PROVE  Orderly'
<1> USE DebuggerFacts
<1>1. /\ op.for = "ack" /\ pipe # <<>> /\ pipe' = Tail(pipe) /\ UNCHANGED <<vm, sent, slow>>
      /\ op' = IF op.at = "go" THEN Debugger!Rest(op) ELSE [op EXCEPT !.for = "packet"]
  BY DEF Debugger!Ack
<1>2. op.at \notin {"none", "int"} /\ sent = <<>> /\ Answered(op.at, Tail(pipe))
  BY <1>1 DEF Orderly, InStep
<1>3. CASE op.at = "go"
  <2>1. op' = [op EXCEPT !.at = "none", !.for = "none"]
    BY <1>1, <1>3 DEF Debugger!Rest
  <2>2. /\ op'.at = "none" /\ op'.for = "none" /\ op'.todo = op.todo /\ op'.last = op.last
        /\ op'.undo = op.undo /\ op'.saved = op.saved
    BY <2>1 DEF Operations
  <2>3. op.last /\ op.todo = <<>>
    BY <1>3 DEF Orderly, Starts, Within, Ends, Inside, Called
  <2>4. vm.runs /\ Tail(pipe) = <<>>  BY <1>2, <1>3 DEF Answered
  <2>5. ~vm.watched /\ vm.pc # Debugger!Fn
    BY <1>3, <2>3 DEF Orderly, Undoes
  <2>6. InStep'  BY <1>1, <1>2, <2>2, <2>3, <2>4 DEF InStep
  <2>7. Undoes'  BY <1>1, <2>5 DEF Undoes
  <2>8. Ends(op)'  BY <2>2, <2>3 DEF Ends
  <2> QED BY <2>6, <2>7, <2>8 DEF Orderly
<1>4. CASE op.at # "go"
  <2>1. /\ op'.at = op.at /\ op'.for = "packet" /\ op'.todo = op.todo /\ op'.last = op.last
        /\ op'.undo = op.undo /\ op'.saved = op.saved /\ op'.kind = op.kind
    BY <1>1, <1>4 DEF Operations
  <2>2. InStep'  BY <1>1, <1>2, <1>4, <2>1 DEF InStep, Answered
  <2>3. Undoes'  BY <1>1, <2>1 DEF Orderly, Undoes, Taken
  <2>4. Starts(op)' \/ Within(op)' \/ Ends(op)'
    BY <2>1 DEF Orderly, Starts, Within, Ends
  <2> QED BY <2>2, <2>3, <2>4 DEF Orderly
<1> QED BY <1>3, <1>4

\* The packet that ends an exchange is the answer to it.
LEMMA OneAnswer ==
  ASSUME DebuggerTypes, Orderly, op.for = "packet", pipe # <<>>
  PROVE  /\ op.at \notin {"none", "go"} /\ sent = <<>> /\ ~vm.runs
         /\ Len(pipe) = 1
         /\ op.at = "read" => pipe[1] = vm.reg
         /\ op.at = "save" => pipe[1] = vm.pc
<1> USE DebuggerFacts
<1>1. op.at \notin {"none", "go"} /\ sent = <<>> /\ Answered(op.at, pipe)
  BY DEF Orderly, InStep
<1>2. \A a : Len(<<a>>) = 1 /\ <<a>>[1] = a  OBVIOUS
<1> QED BY <1>1, <1>2 DEF Answered

LEMMA OrderlyPacket ==
  ASSUME DebuggerTypes, Orderly, op.kind \in Kinds, Debugger!Packet, op'.clean, ~op'.told
  PROVE  Orderly'
<1> USE DebuggerFacts
<1> DEFINE p == pipe[Debugger!First]
           u == Debugger!Undone(op)
<1>1. /\ op.for = "packet" /\ Debugger!Ahead # {} /\ UNCHANGED <<vm, sent, slow>>
      /\ pipe' = SubSeq(pipe, Debugger!First + 1, Len(pipe))
      /\ op' = IF Debugger!Good(op.at, p) THEN Debugger!Succeed(op, p) ELSE Debugger!Fail(op, FALSE)
  BY DEF Debugger!Packet
<1>2. Saved(op) /\ Excused(op)  BY DEF DebuggerTypes
<1>3. Debugger!Good(op.at, p) /\ op' = Debugger!Succeed(op, p)
  <2>1. op' # Debugger!Fail(op, FALSE)
    <3>1. LET n == Debugger!Fail(op, FALSE) IN n.told \/ ~n.clean  BY <1>2, FailTypes
    <3> QED BY <3>1
  <2> QED BY <1>1, <2>1
<1>4. /\ pipe # <<>> /\ op.at \notin {"none", "go"} /\ sent = <<>> /\ ~vm.runs /\ Len(pipe) = 1
      /\ pipe' = <<>> /\ Debugger!First = 1
      /\ op.at = "save" => p = vm.pc
  BY <1>1, Firsts, OneAnswer
<1>5. /\ op'.kind = op.kind /\ op'.undo = u /\ op'.at = "none" /\ op'.for = "none"
      /\ op'.saved = (IF op.at = "save" THEN p ELSE op.saved)
      /\ op.todo = <<>> /\ ~op.last => op'.last = TRUE /\ op'.todo = Debugger!Cleanup(u)
      /\ op.todo # <<>> \/ op.last => op'.last = op.last /\ op'.todo = op.todo
  <2>1. op.at \in Debugger!Asking => p \in PCs
    BY <1>3 DEF Debugger!Good, Debugger!Asking, PCs
  <2>2. op \in Operations  OBVIOUS
  <2> HIDE DebuggerFacts
  <2> HIDE DEF p, u
  <2> DEFINE n == Debugger!Succeed(op, p)
  <2>3. Left(n, op, p)
    BY <1>2, <2>1, <2>2, SucceedTypes
  <2> HIDE DEF n
  <2>4. op' = n  BY <1>3 DEF n
  <2> QED BY <2>3, <2>4 DEF Left, u
<1> HIDE DEF p
<1>6. op.at = "int" <=> Starts(op)
  BY <1>4 DEF Orderly, Starts, Within, Ends, Inside, Called
<1>7. /\ vm.watched => op.undo = "clear" \/ op.at = "set" \/ op.last
      /\ vm.pc = Debugger!Fn => op.undo = "give" \/ op.last
      /\ op.at = "clear" => ~vm.watched
      /\ op.at = "give" => vm.pc # Debugger!Fn
  BY <1>4 DEF Orderly, Undoes, Taken
<1>8. /\ op.at = "set" => u = "clear"
      /\ op.at = "save" => u = "give"
      /\ op.at = "clear" => u \in {"nothing", op.undo}
      /\ op.at \notin {"set", "clear", "save"} => u = op.undo
  BY DEF Debugger!Undone
<1>9. CASE op.last
  <2>1. Ends(op)  BY <1>9 DEF Orderly, Starts, Within
  <2>2. /\ op.at \in {"clear", "give"} /\ op.todo = <<"go">>
    BY <1>4, <2>1 DEF Ends
  <2>3. op'.last /\ op'.todo = <<"go">>  BY <1>5, <1>9, <2>2
  <2>4. Head(<<"go">>) = "go" /\ <<"go">> # <<>> /\ <<"go">> # <<"clear", "go">>
        /\ <<"go">> # <<"give", "go">>
    OBVIOUS
  <2>5. ~vm.watched /\ vm.pc # Debugger!Fn
    BY <1>4, <1>9, <2>2, <2>4 DEF Orderly, Undoes, Taken
  <2>6. InStep'  BY <1>1, <1>4, <1>5, <2>3, <2>4 DEF InStep
  <2>7. Undoes'  BY <1>1, <2>5 DEF Undoes
  <2>8. Ends(op)'  BY <1>5, <2>3 DEF Ends
  <2> QED BY <2>6, <2>7, <2>8 DEF Orderly
<1>10. CASE ~op.last /\ op.todo = <<>>
  <2>1. op'.last /\ op'.todo = Debugger!Cleanup(u)  BY <1>5, <1>10
  <2>2. Within(op)
    BY <1>6, <1>10, Bodies DEF Orderly, Ends, Starts
  <2>3. op.at # "save"
    <3>1. <<"take", "step", "read">> # <<>>  OBVIOUS
    <3> QED BY <1>10, <2>2, <3>1 DEF Within, Inside, Called
  <2>4. /\ u \in {"nothing", "clear", "give"}
        /\ u = "give" => op.undo = "give" /\ op.saved \in Values
        /\ vm.watched => u = "clear"
        /\ vm.pc = Debugger!Fn => u = "give"
    BY <1>7, <1>8, <1>10, <2>2, <2>3 DEF Within, Inside, Called
  <2> HIDE DEF u
  <2>5. op'.todo = IF u = "nothing" THEN <<"go">> ELSE <<u, "go">>
    BY <2>1 DEF Debugger!Cleanup
  <2>6. op'.todo # <<>> /\ Head(op'.todo) # "int"
    <3>1. CASE u = "nothing"  BY <2>5, <3>1
    <3>2. CASE u # "nothing"
      <4>1. op'.todo = <<u, "go">> /\ Head(<<u, "go">>) = u  BY <2>5, <3>2
      <4> QED BY <2>4, <4>1
    <3> QED BY <3>1, <3>2
  <2>7. InStep'  BY <1>1, <1>4, <1>5, <2>6 DEF InStep
  <2>8. Undoes'
    BY <1>1, <1>5, <2>1, <2>4, <2>5 DEF Undoes, Taken
  <2>9. Ends(op)'  BY <1>5, <2>1, <2>3, <2>4, <2>5 DEF Ends
  <2> QED BY <2>7, <2>8, <2>9 DEF Orderly
<1>11. CASE ~op.last /\ op.todo # <<>>
  <2>1. op'.last = op.last /\ op'.todo = op.todo  BY <1>5, <1>11
  <2>2. Within(op)'
    <3>1. CASE Starts(op)
      <4>1. op.todo = Tail(Debugger!Body(op.kind)) /\ u = "nothing" /\ op.at = "int"
        BY <1>6, <1>8, <3>1 DEF Starts
      <4> QED BY <1>5, <1>11, <2>1, <4>1, Bodies DEF Within
    <3>2. CASE Within(op)
      <4>1. CASE op.kind # "call"
        <5>1. op.undo \in {"nothing", "clear"} /\ op.at \in Inside /\ op.todo \in Seq(Inside)
          BY <1>4, <3>2, <4>1 DEF Within
        <5>2. u \in {"nothing", "clear"}  BY <1>8, <5>1 DEF Inside
        <5> QED BY <1>5, <1>11, <2>1, <4>1, <5>1, <5>2 DEF Within
      <4>2. CASE op.kind = "call" /\ op.undo = "nothing"
        <5>1. op.at = "save" /\ op.todo = <<"take", "step", "read">>
          BY <1>4, <3>2, <4>2 DEF Within
        <5>2. u = "give" /\ op'.saved = vm.pc  BY <1>4, <1>5, <1>8, <5>1
        <5>3. vm.pc \in Values  BY <1>7, <1>11, <4>2 DEF PCs
        <5>4. <<"take", "step", "read">> \in Seq(Called)  BY DEF Called
        <5> QED BY <1>5, <1>11, <2>1, <4>2, <5>1, <5>2, <5>3, <5>4 DEF Within
      <4>3. CASE op.kind = "call" /\ op.undo = "give"
        <5>1. op.at \in Called /\ op.todo \in Seq(Called) /\ op.saved \in Values
          BY <1>4, <3>2, <4>3 DEF Within
        <5>2. u = "give" /\ op'.saved = op.saved  BY <1>5, <1>8, <4>3, <5>1 DEF Called
        <5> QED BY <1>5, <1>11, <2>1, <4>3, <5>1, <5>2 DEF Within
      <4> QED BY <3>2, <4>1, <4>2, <4>3 DEF Within
    <3> QED BY <1>11, <3>1, <3>2 DEF Orderly, Ends
  <2>3. op'.todo # <<>> /\ Head(op'.todo) # "int"
    BY <1>5, <2>2, WithinHead
  <2>4. InStep'  BY <1>1, <1>4, <1>5, <2>3 DEF InStep
  <2>5. /\ vm.watched => u = "clear"
        /\ vm.pc = Debugger!Fn => u = "give"
    <3>1. /\ op.undo = "give" => op.at # "set" /\ op.at # "clear"
          /\ op.undo = "clear" => op.at # "save"
      BY <1>11 DEF Orderly, Starts, Within, Ends, Called, Inside
    <3> QED BY <1>7, <1>8, <1>11, <3>1
  <2>6. Undoes'  BY <1>1, <1>5, <1>11, <2>1, <2>5 DEF Undoes, Taken
  <2> QED BY <2>2, <2>4, <2>6 DEF Orderly
<1> QED BY <1>9, <1>10, <1>11

LEMMA DebuggerStep ==
  ASSUME DebuggerInv, Debugger!Next
  PROVE  DebuggerInv'
<1> USE DebuggerFacts
<1>1. DebuggerTypes /\ (op.clean /\ ~op.told => Orderly)  BY DEF DebuggerInv
<1>2. DebuggerTypes'  BY <1>1, DebuggerKept
<1>3. ASSUME op'.clean, ~op'.told PROVE Orderly'
  <2>1. op.clean => op.kind \in Kinds
    BY <1>1 DEF DebuggerTypes, Operations
  <2>2. Saved(op) /\ Excused(op)  BY <1>1 DEF DebuggerTypes
  <2>3. \A t \in BOOLEAN : op' # Debugger!Fail(op, t)
    <3>1. ASSUME NEW t \in BOOLEAN PROVE op' # Debugger!Fail(op, t)
      <4>1. LET n == Debugger!Fail(op, t) IN n.told \/ ~n.clean  BY <1>1, <2>2, FailTypes
      <4> QED BY <1>3, <4>1
    <3> QED BY <3>1
  <2>4. CASE Debugger!Take
    <3>1. op' = op  BY <2>4 DEF Debugger!Take
    <3> QED BY <1>1, <1>3, <2>4, <3>1, OrderlyTake
  <2>5. CASE Debugger!Hit
    <3>1. op' = op  BY <2>5 DEF Debugger!Hit
    <3> QED BY <1>1, <1>3, <2>5, <3>1, OrderlyHit
  <2>6. CASE Debugger!Refresh
    BY <1>1, <1>3, <2>6 DEF Debugger!Refresh, DebuggerTypes
  <2>7. ASSUME NEW kind \in Kinds, Debugger!Begin(kind) PROVE Orderly'
    BY <1>1, <1>3, <2>7, OrderlyBegin
  <2>8. CASE Debugger!Send
    <3>1. op'.clean = op.clean /\ op'.told = op.told
      BY <1>1, <2>8 DEF Debugger!Send, Operations
    <3> QED BY <1>1, <1>3, <2>1, <2>8, <3>1, OrderlySend
  <2>9. CASE Debugger!Ack
    <3>1. Head(pipe) = "+"  BY <2>3, <2>9 DEF Debugger!Ack
    <3>2. op' = [op EXCEPT !.at = "none", !.for = "none"] \/ op' = [op EXCEPT !.for = "packet"]
      BY <2>9, <3>1 DEF Debugger!Ack, Debugger!Rest
    <3>3. op'.clean = op.clean /\ op'.told = op.told
      BY <1>1, <3>2 DEF Operations
    <3> QED BY <1>1, <1>3, <2>9, <3>1, <3>3, OrderlyAck
  <2>10. CASE Debugger!Packet
    <3>1. op.clean /\ ~op.told
      <4> DEFINE p == pipe[Debugger!First]
      <4>1. Debugger!Good(op.at, p) /\ op' = Debugger!Succeed(op, p)
        BY <2>3, <2>10 DEF Debugger!Packet
      <4>2. op.at \in Debugger!Asking => p \in PCs
        BY <4>1 DEF Debugger!Good, Debugger!Asking, PCs
      <4>3. op \in Operations  BY <1>1
      <4> HIDE DebuggerFacts
      <4> HIDE DEF p
      <4> DEFINE n == Debugger!Succeed(op, p)
      <4>4. Left(n, op, p)
        BY <2>2, <4>2, <4>3, SucceedTypes
      <4> HIDE DEF n
      <4>5. op' = n  BY <4>1 DEF n
      <4> QED BY <1>3, <4>4, <4>5 DEF Left
    <3> QED BY <1>1, <1>3, <2>1, <2>10, <3>1, OrderlyPacket
  <2>11. CASE Debugger!Timeout
    BY <2>3, <2>11 DEF Debugger!Timeout
  <2>12. CASE Debugger!Return
    BY <1>3, <2>12 DEF Debugger!Return, Debugger!Resting
  <2> QED BY <2>4, <2>5, <2>6, <2>7, <2>8, <2>9, <2>10, <2>11, <2>12 DEF Debugger!Next
<1> QED BY <1>2, <1>3 DEF DebuggerInv

\* The types of the session.
LEMMA DebuggerStates ==
  ASSUME DebuggerInv PROVE Debugger!TypeOK
<1>1. DebuggerTypes  BY DEF DebuggerInv
<1>2. sent \in Seq(Debugger!Exchanges \X (Values \cup {"none", Debugger!Fn}))
  <2>1. Requests \subseteq Debugger!Exchanges \X (Values \cup {"none", Debugger!Fn})
    BY DEF Requests, PCs
  <2> QED BY <1>1, <2>1, SeqMonotonic DEF DebuggerTypes
<1>3. /\ op.kind \in Kinds \cup {"none"} /\ op.at \in Debugger!Exchanges \cup {"none"}
      /\ op.for \in {"none", "ack", "packet"} /\ op.undo \in {"nothing", "clear", "give"}
      /\ op.got \in Values \cup {"none", Debugger!Fn}
      /\ op.saved \in Values \cup {"none", Debugger!Fn}
  BY <1>1 DEF DebuggerTypes, Operations, PCs
<1> QED BY <1>1, <1>2, <1>3 DEF DebuggerTypes, Debugger!TypeOK, PCs

\* What an operation in step reads is what the register holds, and it goes with
\* everything in order.
LEMMA DebuggerActs ==
  ASSUME DebuggerInv, Debugger!Next \/ UNCHANGED debuggerVars
  PROVE  Debugger!ReadsTrue /\ Debugger!LeavesOrder
<1> USE DebuggerFacts
<1>1. DebuggerTypes /\ (op.clean /\ ~op.told => Orderly)  BY DEF DebuggerInv
<1>2. Saved(op) /\ Excused(op) /\ op \in Operations  BY <1>1 DEF DebuggerTypes
<1>3. ASSUME op.clean, op'.got # op.got, op'.got # "none"
      PROVE  ~vm.runs /\ op'.got = vm.reg
  <2>1. \A t \in BOOLEAN : op' # Debugger!Fail(op, t)
    <3>1. ASSUME NEW t \in BOOLEAN PROVE op' # Debugger!Fail(op, t)
      <4>1. LET n == Debugger!Fail(op, t) IN n.got = op.got  BY <1>2, FailTypes
      <4> QED BY <1>3, <4>1
    <3> QED BY <3>1
  <2>2. Debugger!Packet
    <3>1. ~(op' = op)  BY <1>3
    <3>2. ASSUME NEW kind, Debugger!Begin(kind) \/ Debugger!Return PROVE op'.got = "none"
      <4>1. CASE Debugger!Begin(kind)
        <5>1. op' = [Debugger!Resting EXCEPT !.kind = kind, !.todo = Debugger!Body(kind),
                                             !.clean = Debugger!InOrder]
          BY <4>1 DEF Debugger!Begin
        <5> QED BY <5>1 DEF Debugger!Resting
      <4>2. CASE Debugger!Return
        BY <4>2 DEF Debugger!Return, Debugger!Resting
      <4> QED BY <3>2, <4>1, <4>2
    <3>3. ~Debugger!Send
      BY <1>2, <1>3 DEF Debugger!Send, Operations
    <3>4. ~Debugger!Ack
      <4>1. ASSUME Debugger!Ack PROVE FALSE
        <5>1. op' = [op EXCEPT !.at = "none", !.for = "none"] \/ op' = [op EXCEPT !.for = "packet"]
          BY <2>1, <4>1 DEF Debugger!Ack, Debugger!Rest
        <5> QED BY <1>2, <1>3, <5>1 DEF Operations
      <4> QED BY <4>1
    <3>5. ~Debugger!Timeout  BY <2>1 DEF Debugger!Timeout
    <3> QED BY <1>3, <3>1, <3>2, <3>3, <3>4, <3>5
            DEF Debugger!Next, Debugger!Take, Debugger!Hit, Debugger!Refresh, debuggerVars
  <2> DEFINE p == pipe[Debugger!First]
  <2>3. /\ op.for = "packet" /\ Debugger!Ahead # {}
        /\ Debugger!Good(op.at, p) /\ op' = Debugger!Succeed(op, p)
    BY <2>1, <2>2 DEF Debugger!Packet
  <2>4. Left(op', op, p)
    <3>1. op.at \in Debugger!Asking => p \in PCs
      BY <2>3 DEF Debugger!Good, Debugger!Asking, PCs
    <3> DEFINE n == Debugger!Succeed(op, p)
    <3> HIDE DebuggerFacts
    <3> HIDE DEF p
    <3>2. Left(n, op, p)  BY <1>2, <3>1, SucceedTypes
    <3>3. op' = n  BY <2>3
    <3> HIDE DEF n
    <3> QED BY <3>2, <3>3
  <2>5. op.at = "read" /\ op'.got = p  BY <1>3, <2>4 DEF Left
  <2>6. ~op.told  BY <1>2, <2>5 DEF Excused, Finals
  <2>7. pipe # <<>> /\ (Len(pipe) = 1 => Debugger!First = 1)  BY <1>1, <2>3, Firsts
  <2>8. ~vm.runs /\ Len(pipe) = 1 /\ pipe[1] = vm.reg
    BY <1>1, <1>3, <2>3, <2>5, <2>6, <2>7, OneAnswer
  <2> QED BY <2>5, <2>7, <2>8
<1>4. ASSUME op.clean, ~op.told, op'.kind = "none", op.kind # "none" PROVE Debugger!InOrder
  <2>1. \A t \in BOOLEAN : op' # Debugger!Fail(op, t)
    <3>1. ASSUME NEW t \in BOOLEAN PROVE op' # Debugger!Fail(op, t)
      <4>1. LET n == Debugger!Fail(op, t) IN n.kind = op.kind  BY <1>2, FailTypes
      <4> QED BY <1>4, <4>1
    <3> QED BY <3>1
  <2>2. Debugger!Return
    <3>1. ~Debugger!Send
      BY <1>2, <1>4 DEF Debugger!Send, Operations
    <3>2. ~Debugger!Ack
      <4>1. ASSUME Debugger!Ack PROVE FALSE
        <5>1. op' = [op EXCEPT !.at = "none", !.for = "none"] \/ op' = [op EXCEPT !.for = "packet"]
          BY <2>1, <4>1 DEF Debugger!Ack, Debugger!Rest
        <5> QED BY <1>2, <1>4, <5>1 DEF Operations
      <4> QED BY <4>1
    <3>3. ~Debugger!Packet
      <4>1. ASSUME Debugger!Packet PROVE FALSE
        <5> DEFINE p == pipe[Debugger!First]
        <5>1. Debugger!Good(op.at, p) /\ op' = Debugger!Succeed(op, p)
          BY <2>1, <4>1 DEF Debugger!Packet
        <5>2. op.at \in Debugger!Asking => p \in PCs
          BY <5>1 DEF Debugger!Good, Debugger!Asking, PCs
        <5> DEFINE n == Debugger!Succeed(op, p)
        <5> HIDE DebuggerFacts
        <5> HIDE DEF p
        <5>3. Left(n, op, p)  BY <1>2, <5>2, SucceedTypes
        <5>4. op' = n  BY <5>1
        <5> HIDE DEF n
        <5> QED BY <1>4, <5>3, <5>4 DEF Left
      <4> QED BY <4>1
    <3>4. ~Debugger!Timeout  BY <2>1 DEF Debugger!Timeout
    <3>5. ~\E kind \in Kinds : Debugger!Begin(kind)  BY <1>4 DEF Debugger!Begin
    <3> QED BY <1>4, <3>1, <3>2, <3>3, <3>4, <3>5
            DEF Debugger!Next, Debugger!Take, Debugger!Hit, Debugger!Refresh, debuggerVars
  <2>3. op.at = "none" /\ op.todo = <<>>  BY <2>2 DEF Debugger!Return
  <2>4. Orderly /\ op.kind \in Kinds  BY <1>1, <1>2, <1>4 DEF Operations
  <2>5. ~Within(op)  BY <2>3 DEF Within
  <2>6. ~Starts(op)  BY <2>3, <2>4, Bodies DEF Starts
  <2>7. op.last  BY <2>4, <2>5, <2>6 DEF Orderly, Ends
  <2>8. vm.runs /\ sent = <<>> /\ pipe = <<>>  BY <2>3, <2>4 DEF Orderly, InStep
  <2>9. ~vm.watched /\ vm.pc # Debugger!Fn
    BY <2>3, <2>4, <2>7 DEF Orderly, Undoes
  <2> QED BY <2>8, <2>9 DEF Debugger!InOrder
<1> QED BY <1>3, <1>4 DEF Debugger!ReadsTrue, Debugger!LeavesOrder

----------------------------------------------------------------------------
(***************************************************************************)
(* The host.  Each unit keeps its own invariant, whether it runs or is     *)
(* left alone, so a behaviour of the host keeps them all.                  *)
(***************************************************************************)
SessionsInv ==
  unit \in Units /\ KeysInv /\ FramesInv /\ AudioInv /\ ProcessInv /\ DebuggerInv

\* The lifecycle of the host's emulators is one of FrontendLifecycle.
LEMMA HostOwns == HostSpec => Spec
<1>1. HostInit => Init
  BY DEF HostInit
<1>2. [HostNext]_hostVars => [Next]_vars
  BY DEF HostNext, Only, hostVars
<1> QED BY <1>1, <1>2, PTL DEF HostSpec, Spec

\* Each unit starts with nothing under way.
LEMMA KeysInit ==
  ASSUME Keys!Init
  PROVE  KeysInv
<1>1. ASSUME NEW s \in BOOLEAN
      PROVE  [up |-> TRUE, sock |-> s, held |-> IF s THEN {Power} ELSE {}, usb |-> TRUE,
              starting |-> s] \in KeyProcesses
  <2>1. (IF s THEN {Power} ELSE {}) \in SUBSET Keys!Keys  BY DEF Keys!Keys
  <2> QED BY <2>1 DEF KeyProcesses, KeyRecords
<1>2. keyQemu \in KeyProcesses
  BY <1>1 DEF Keys!Init, Keys!Started
<1>3. keyQemu \in KeyRecords  BY <1>2 DEF KeyProcesses
<1>4. Keys!TypeOK
  BY <1>3 DEF Keys!Init, Keys!TypeOK, KeyRecords, Keys!Settled
<1>5. Keys!LeasedActive
  BY DEF Keys!Init, Keys!LeasedActive, Keys!Codes
<1> QED BY <1>2, <1>4, <1>5 DEF KeysInv

LEMMA FramesInit ==
  ASSUME Frames!Init
  PROVE  FramesInv
<1> USE HostAssumption, PictureFacts
<1>1. /\ frameQemu = [up |-> TRUE, gen |-> 1, drawn |-> 0, count |-> 0]
      /\ wire = {} /\ latest = Frames!NoFrame /\ cached = Frames!NoFrame
      /\ recent = FALSE /\ crossed = FALSE
      /\ page = [c \in Browsers |-> Frames!Away] /\ dump = Frames!Free
  BY DEF Frames!Init
<1>2. /\ Frames!Away \in PageStates /\ Frames!Away.state = "off"
      /\ Frames!Away.last = 0 /\ Frames!Away.shown = <<0, 0>>
  BY DEF Frames!Away, PageStates
<1>3. Frames!Free \in Dumps /\ Frames!Free.raw = <<0, 0>>
  BY DEF Frames!Free, Dumps
<1>4. Senders = {} /\ Cardinality(Senders) = 0
  <2>1. Senders = {}  BY <1>1 DEF Senders
  <2> QED BY <2>1, FS_EmptySet
<1>5. frameQemu \in FrameProcesses
  BY <1>1 DEF FrameProcesses
<1>6. Frames!TypeOK
  BY <1>1, <1>2, <1>3, <1>5 DEF Frames!TypeOK, FrameProcesses, PageStates, Dumps
<1>7. OnTheWire
  BY <1>1, <1>4 DEF OnTheWire
<1>8. OfTheProcesses
  BY <1>1, <1>2, <1>3 DEF OfTheProcesses
<1>9. Turns
  BY <1>1, <1>2 DEF Turns
<1>10. Counted
  BY <1>1, <1>4 DEF Counted
<1>11. Numbered
  BY <1>1, <1>2, <1>3 DEF Numbered, Reached
<1> QED BY <1>6, <1>7, <1>8, <1>9, <1>10, <1>11 DEF FramesInv

LEMMA AudioInit ==
  ASSUME Audio!Init
  PROVE  AudioInv
<1> USE HostAssumption
<1>1. /\ packets = <<>> /\ delivered = 0 /\ dropped = 0
      /\ listener = [c \in Browsers |-> Audio!Away]
  BY DEF Audio!Init
<1> DEFINE s == <<>>
<1>2. s \in Seq(1 .. MaxPackets) /\ Len(s) = 0
  BY EmptySeq
<1> HIDE DEF s
<1>3. RunsTo(s, 0)
  BY <1>2 DEF RunsTo
<1>4. /\ Audio!Away \in Listeners /\ Audio!Away.last = 0 /\ Audio!Away.batch = s
  BY <1>2 DEF Audio!Away, Listeners, s
<1>5. s = <<>>  BY DEF s
<1>6. \A c \in Browsers : Follows(listener[c])
  BY <1>1, <1>2, <1>3, <1>4, <1>5 DEF Follows
<1> QED BY <1>1, <1>2, <1>3, <1>4, <1>5, <1>6 DEF AudioInv

LEMMA ProcessInit ==
  ASSUME Process!Init
  PROVE  ProcessInv
<1>1. Process!TypeOK
  <2>1. proc \in ProcessRecords
    BY HostAssumption DEF Process!Init, ProcessRecords
  <2> QED BY <2>1, HostAssumption DEF Process!Init, Process!TypeOK, ProcessRecords,
                                      Process!Reasons
<1>2. SaidTrue
  BY DEF Process!Init, SaidTrue
<1>3. Generations
  BY DEF Process!Init, Generations, Process!Running, Process!Ended
<1>4. Process!ReasonTrue
  BY DEF Process!Init, Process!ReasonTrue
<1> QED BY <1>1, <1>2, <1>3, <1>4 DEF ProcessInv

LEMMA DebuggerInit ==
  ASSUME Debugger!Init
  PROVE  DebuggerInv
<1>1. /\ vm \in [runs : {TRUE}, heard : {TRUE}, pc : Values, reg : Values, watched : {FALSE}]
      /\ sent = <<>> /\ pipe = <<>> /\ op = Debugger!Resting /\ slow = 0
  BY DEF Debugger!Init
<1>2. /\ op.kind = "none" /\ op.todo = <<>> /\ op.at = "none" /\ op.for = "none"
      /\ op.last = FALSE /\ op.undo = "nothing" /\ op.told = FALSE /\ op.clean = FALSE
  BY <1>1 DEF Debugger!Resting
<1>3. op \in Operations
  BY <1>1, EmptySeq DEF Debugger!Resting, Operations
<1>4. Saved(op)
  BY <1>2, EmptySeq DEF Saved
<1>5. Excused(op)
  BY <1>2 DEF Excused
<1>6. vm \in [runs : BOOLEAN, heard : BOOLEAN, pc : PCs, reg : Values, watched : BOOLEAN]
  BY <1>1 DEF PCs
<1>7. sent \in Seq(Requests) /\ pipe \in Seq(Debugger!Tokens)
  BY <1>1, EmptySeq
<1>8. slow \in 0 .. MaxSlow
  BY <1>1, HostAssumption
<1> QED BY <1>2, <1>3, <1>4, <1>5, <1>6, <1>7, <1>8 DEF DebuggerInv, DebuggerTypes

\* A unit that is left alone stays as it is.
LEMMA UnitsKept ==
  /\ KeysInv /\ UNCHANGED keysVars => KeysInv'
  /\ FramesInv /\ UNCHANGED framesVars => FramesInv'
  /\ AudioInv /\ UNCHANGED audioVars => AudioInv'
  /\ ProcessInv /\ UNCHANGED processVars => ProcessInv'
  /\ DebuggerInv /\ UNCHANGED debuggerVars => DebuggerInv'
<1>1. KeysInv /\ UNCHANGED keysVars => KeysInv'
  BY DEF KeysInv, keysVars, Keys!TypeOK, Keys!LeasedActive
<1>2. FramesInv /\ UNCHANGED framesVars => FramesInv'
  BY DEF FramesInv, framesVars, Frames!TypeOK, OnTheWire, OfTheProcesses, Turns, Counted, Numbered,
         Reached, Senders
<1>3. AudioInv /\ UNCHANGED audioVars => AudioInv'
  BY DEF AudioInv, audioVars, Follows
<1>4. ProcessInv /\ UNCHANGED processVars => ProcessInv'
  BY DEF ProcessInv, processVars, Process!TypeOK, SaidTrue, Generations, Process!ReasonTrue,
         Process!Running, Process!Ended
<1>5. DebuggerInv /\ UNCHANGED debuggerVars => DebuggerInv'
  BY DEF DebuggerInv, debuggerVars, DebuggerTypes, Orderly, InStep, Undoes, Taken, Answered
<1> QED BY <1>1, <1>2, <1>3, <1>4, <1>5

LEMMA SessionsInvariant == HostSpec => []SessionsInv
<1>1. HostInit => SessionsInv
  BY KeysInit, FramesInit, AudioInit, ProcessInit, DebuggerInit DEF HostInit, SessionsInv
<1>2. SessionsInv /\ [HostNext]_hostVars => SessionsInv'
  <2> SUFFICES ASSUME SessionsInv, [HostNext]_hostVars
               PROVE  SessionsInv'
    OBVIOUS
  <2>1. unit' \in Units
    BY DEF SessionsInv, HostNext, Only, hostVars
  <2>2. KeysInv'
    <3>1. Keys!Next \/ UNCHANGED keysVars  BY DEF HostNext, Only, hostVars
    <3> QED BY <3>1, KeysStep, UnitsKept DEF SessionsInv
  <2>3. FramesInv'
    <3>1. Frames!Next \/ UNCHANGED framesVars  BY DEF HostNext, Only, hostVars
    <3> QED BY <3>1, FramesStep, UnitsKept DEF SessionsInv
  <2>4. AudioInv'
    <3>1. Audio!Next \/ UNCHANGED audioVars  BY DEF HostNext, Only, hostVars
    <3> QED BY <3>1, AudioStep, UnitsKept DEF SessionsInv
  <2>5. ProcessInv'
    <3>1. Process!Next \/ UNCHANGED processVars  BY DEF HostNext, Only, hostVars
    <3> QED BY <3>1, ProcessStep, UnitsKept DEF SessionsInv
  <2>6. DebuggerInv'
    <3>1. Debugger!Next \/ UNCHANGED debuggerVars  BY DEF HostNext, Only, hostVars
    <3> QED BY <3>1, DebuggerStep, UnitsKept DEF SessionsInv
  <2> QED BY <2>1, <2>2, <2>3, <2>4, <2>5, <2>6 DEF SessionsInv
<1> QED BY <1>1, <1>2, PTL DEF HostSpec

----------------------------------------------------------------------------
(* What follows for the host *)

\* A switch of images that fails, wherever it does and whatever the other processes do
\* meanwhile, leaves the old lease, the old image and its lock, and frees the new one.
LEMMA SwitchKeeps ==
  ASSUME Base, [Next]_vars
  PROVE  FailedSwitchKeeps
<1> SUFFICES ASSUME NEW f \in Emulators, phase[f] \in Switching, phase'[f] = "idle",
                    path'[f] # spare[f]
             PROVE  /\ <<path'[f], image'[f], config'[f]>> = <<path[f], image[f], config[f]>>
                    /\ path[f] # None => owner'[path[f]] = f
                    /\ owner'[spare[f]] # f
  BY DEF FailedSwitchKeeps
<1>1. PICK e \in Emulators : (Ordinary(e) /\ UNCHANGED strayed) \/ (Stray(e) /\ strayed' = TRUE)
  BY DEF Next, vars, Switching
<1>2. spare[f] \in Images \ {path[f]} /\ (path[f] # None => owner[path[f]] = f)
  BY DEF Base, TypeOK, Spares, LocksAreLeases
<1>3. SwitchFails(f)
  <2> USE DEF Switching, Base, TypeOK
  <2>1. CASE e # f
    BY <1>1, <2>1 DEF Ordinary, Stray, Command, Proceed, GuestExit, WorkerTick, Launch,
                SelectImage, Mutate, Reset, RunStart, Stop, ForceStop, SwitchFails, SwitchSwaps,
                MutateEnd, MutateClaim, ResetStop, ResetStart, ResetLease, ImportClaim, ImportEnd,
                Die, Vanish, Close, MigrationFails, Wake, Goto
  <2>2. CASE e = f
    BY <1>1, <2>2 DEF Ordinary, Stray, Command, Proceed, GuestExit, WorkerTick, Launch,
                SelectImage, Mutate, Reset, RunStart, Stop, ForceStop, SwitchSwaps,
                MutateEnd, MutateClaim, ResetStop, ResetStart, ResetLease, ImportClaim, ImportEnd,
                Die, Vanish, Close, MigrationFails, Wake, Goto
  <2> QED BY <2>1, <2>2
<1>4. owner' = [owner EXCEPT ![spare[f]] = None] /\ UNCHANGED <<path, image, config>>
  BY <1>3 DEF SwitchFails, ReleaseSpare
<1>5. None # f  BY NoneAssumption
<1> QED BY <1>2, <1>4, <1>5 DEF Base, TypeOK

\* Whichever unit runs, its types hold.
THEOREM SessionTypesHold == HostSpec => []SessionTypes
<1>1. Base /\ SessionsInv => SessionTypes
  <2> SUFFICES ASSUME Base, SessionsInv
               PROVE  SessionTypes
    OBVIOUS
  <2>1. TypeOK /\ Keys!TypeOK /\ Frames!TypeOK /\ Audio!TypeOK /\ Process!TypeOK /\ Debugger!TypeOK
    BY FramesStates, AudioStates, DebuggerStates DEF Base, SessionsInv, KeysInv, ProcessInv
  <2> HIDE DEF Base
  <2> QED BY <2>1 DEF SessionsInv, SessionTypes, Units
<1>2. HostSpec => []Base
  BY HostOwns, BaseInvariant, PTL
<1> QED BY <1>1, <1>2, SessionsInvariant, PTL

\* What the front end keeps of a session agrees with itself, whatever the pages, QEMU and
\* the readers do and in whichever order.
THEOREM SessionsAgreeHold == HostSpec => []SessionsAgree
<1>1. SessionsInv => SessionsAgree
  BY FramesStates, AudioStates DEF SessionsInv, SessionsAgree, KeysInv, ProcessInv
<1> QED BY <1>1, SessionsInvariant, PTL

\* What QEMU holds parts from what the pages see in the known ways only.
THEOREM SessionStepsHold == HostSpec => SessionSteps
<1> DEFINE Step ==
      /\ unit = "life" => FailedSwitchKeeps
      /\ unit = "keys" => /\ Keys!OnlyInterrupted /\ Keys!RenewalsNeverHeal
                          /\ Keys!HoldKept /\ Keys!UsbFollows
      /\ unit = "frames" => Frames!PicturesForward
      /\ unit = "audio" => Audio!CatchesUp
      /\ unit = "process" => Process!Complete /\ Process!SocketsKept
      /\ unit = "debugger" => Debugger!ReadsTrue /\ Debugger!LeavesOrder
<1>1. Base /\ SessionsInv /\ [HostNext]_hostVars => Step
  <2> SUFFICES ASSUME Base, SessionsInv, [HostNext]_hostVars
               PROVE  Step
    OBVIOUS
  <2>1. /\ Keys!Next \/ UNCHANGED keysVars
        /\ Frames!Next \/ UNCHANGED framesVars
        /\ Audio!Next \/ UNCHANGED audioVars
        /\ Process!Next \/ UNCHANGED processVars
        /\ Debugger!Next \/ UNCHANGED debuggerVars
        /\ [Next]_vars
    BY DEF HostNext, Only, hostVars
  <2>2. FailedSwitchKeeps  BY <2>1, SwitchKeeps
  <2> QED BY <2>1, <2>2, KeysActs, FramesActs, AudioActs, ProcessActs, DebuggerActs
          DEF SessionsInv
<1>2. HostSpec => []Base
  BY HostOwns, BaseInvariant, PTL
<1>3. SessionSteps <=> [][Step]_hostVars
  BY DEF SessionSteps
<1> HIDE DEF Step
<1> QED BY <1>1, <1>2, <1>3, SessionsInvariant, PTL DEF HostSpec

\* What is proved of the images and their locks holds on the host.
THEOREM HostKeepsImages ==
  HostSpec => [](LocksAreLeases /\ ServiceExclusive /\ OverwritesAlone) /\ TradesStopped
BY HostOwns, LocksFollowLeases, OneEmulatorPerImage, NoOverwriteUnderGuest, LeaseTradedStopped, PTL
=============================================================================
