----------------------------- MODULE NandBacking -----------------------------
(***************************************************************************)
(* The write-back layer of the raw NAND device, hw/block/bbk9588_nand.c.   *)
(*                                                                         *)
(* A page program or block erase changes the device's RAM copy and then    *)
(* calls nand_backend_update, which writes the backing file through the    *)
(* block layer (writeback: the data is in the host cache, not yet stable)  *)
(* and counts the write in dirty_generation.  A one-shot realtime timer,   *)
(* armed by the first write that finds it idle, starts an asynchronous     *)
(* flush; its completion records the generation the flush covered and      *)
(* re-arms the timer when later writes are still unflushed.  The shutdown  *)
(* notifier and unrealize flush synchronously.                             *)
(*                                                                         *)
(* A generation is the version of the data: file[p] is the generation of   *)
(* the last write of page p that reached the backing file, disk[p] the     *)
(* generation of the copy that would survive a loss of power.              *)
(***************************************************************************)
EXTENDS Integers

CONSTANTS
  Pages,     \* the pages (or blocks) the guest programs and erases
  Interval,  \* NAND_FLUSH_INTERVAL_MS, in clock ticks
  MaxWrites  \* bound: successful backing writes in one run of the device

Idle == -1

VARIABLES
  writable, \* s->blk && blk_is_writable(s->blk): a writable drive is attached
  dirty,    \* dirty_generation
  flush,    \* flush_generation: the generation the flush in flight covers
  flushed,  \* flushed_generation
  timer,    \* flush_timer: ticks left, or Idle when it is not pending
  acb,      \* flush_acb # NULL
  stale,    \* pages whose RAM copy differs from the file: a blk_pwrite failed
  file,     \* the backing file as other processes read it
  disk,     \* what of it is stable
  seen,     \* the file when the flush in flight was submitted
  wait,     \* ticks since data that no flush covers could first be flushed
  power     \* "on", "stopping" once the shutdown notifier ran, "off" after unrealize

vars == <<writable, dirty, flush, flushed, timer, acb, stale, file, disk, seen,
          wait, power>>

-----------------------------------------------------------------------------
TypeOK ==
  /\ writable \in BOOLEAN
  /\ dirty \in Nat
  /\ flush \in Nat
  /\ flushed \in Nat
  /\ timer \in {Idle} \cup 0 .. Interval
  /\ acb \in BOOLEAN
  /\ stale \in SUBSET Pages
  /\ file \in [Pages -> Nat]
  /\ disk \in [Pages -> Nat]
  /\ seen \in [Pages -> Nat]
  /\ wait \in Nat
  /\ power \in {"on", "stopping", "off"}

(* nand_realize and nand_load_backing: RAM is read back from what is stable. *)
Init ==
  /\ writable \in BOOLEAN
  /\ dirty = 0 /\ flush = 0 /\ flushed = 0
  /\ timer = Idle
  /\ acb = FALSE
  /\ stale = {}
  /\ file = [p \in Pages |-> 0]
  /\ disk = [p \in Pages |-> 0]
  /\ seen = [p \in Pages |-> 0]
  /\ wait = 0
  /\ power = "on"

(* timer_pending *)
Pending(t) == t # Idle

(* Faults: the deadline moves with every write; the wrong generation is      *)
(* compared, so a failed flush is not retried.                               *)
ScheduleFlushDebounced(inFlight, dirtyGen, flushedGen, t) ==
  IF inFlight \/ dirtyGen = flushedGen THEN t ELSE Interval
ScheduleFlushAgainstSubmitted(inFlight, dirtyGen, flushedGen, t) ==
  IF inFlight \/ dirtyGen = flush \/ Pending(t) THEN t ELSE Interval

(* nand_schedule_flush, given the values its caller has just assigned: arm   *)
(* the timer unless a flush is in flight, nothing is dirty or it is armed.   *)
ScheduleFlush(inFlight, dirtyGen, flushedGen, t) ==
  IF inFlight \/ dirtyGen = flushedGen \/ Pending(t) THEN t ELSE Interval

(* The pages a successful flush makes stable: at least what the file held    *)
(* when the flush was submitted, and possibly what was written since.        *)
AfterFlush(submitted) ==
  {d \in [Pages -> 0 .. dirty] :
     \A p \in Pages : d[p] \in {file[p], IF disk[p] < submitted[p]
                                         THEN submitted[p] ELSE disk[p]}}

-----------------------------------------------------------------------------
(* nand_commit_program / nand_commit_erase on page p, then                   *)
(* nand_backend_update: the RAM copy changes in any case; a failing          *)
(* blk_pwrite is only reported, the generation does not move.                *)
Write(p) ==
  /\ power # "off"
  /\ writable
  /\ dirty < MaxWrites
  /\ dirty' = dirty + 1
  /\ file' = [file EXCEPT ![p] = dirty + 1]
  /\ stale' = stale \ {p}
  /\ timer' = ScheduleFlush(acb, dirty + 1, flushed, timer)
  /\ UNCHANGED <<writable, flush, flushed, acb, disk, seen, wait, power>>

WriteFails(p) ==
  /\ power # "off"
  /\ writable
  /\ stale' = stale \cup {p}
  /\ UNCHANGED <<writable, dirty, flush, flushed, timer, acb, file, disk, seen, wait, power>>

(* With no writable drive nand_backend_update returns at once: the image is  *)
(* the RAM copy alone.                                                       *)
WriteRamOnly(p) ==
  /\ power # "off"
  /\ ~writable
  /\ stale' = stale \cup {p}
  /\ UNCHANGED <<writable, dirty, flush, flushed, timer, acb, file, disk, seen, wait, power>>

(* The host writes a cached page back on its own. *)
HostWriteback(p) ==
  /\ disk[p] # file[p]
  /\ disk' = [disk EXCEPT ![p] = file[p]]
  /\ UNCHANGED <<writable, dirty, flush, flushed, timer, acb, stale, file, seen, wait, power>>

(* Realtime passes; the main loop runs an expired timer before it waits.     *)
Tick ==
  /\ power # "off"
  /\ Pending(timer)
  /\ timer > 0
  /\ timer' = timer - 1
  /\ wait' = IF acb \/ dirty = flushed THEN wait ELSE wait + 1
  /\ UNCHANGED <<writable, dirty, flush, flushed, acb, stale, file, disk, seen, power>>

(* nand_flush_timer_cb *)
FlushTimer ==
  /\ timer = 0
  /\ timer' = Idle
  /\ IF ~writable \/ acb \/ dirty = flushed
     THEN UNCHANGED <<flush, acb, seen, wait>>
     ELSE /\ flush' = dirty
          /\ acb' = TRUE
          /\ seen' = file
          /\ wait' = 0
  /\ UNCHANGED <<writable, dirty, flushed, stale, file, disk, power>>

(* What a successful completion records.  Fault: what is dirty by now.       *)
CoveredLatest == dirty
Covered == flush

(* nand_flush_complete *)
FlushDone ==
  /\ acb
  /\ acb' = FALSE
  /\ flushed' = Covered
  /\ disk' \in AfterFlush(seen)
  /\ timer' = ScheduleFlush(FALSE, dirty, Covered, timer)
  /\ wait' = 0
  /\ UNCHANGED <<writable, dirty, flush, stale, file, seen, power>>

FlushFailed ==
  /\ acb
  /\ acb' = FALSE
  /\ timer' = ScheduleFlush(FALSE, dirty, flushed, timer)
  /\ wait' = 0
  /\ UNCHANGED <<writable, dirty, flush, flushed, stale, file, disk, seen, power>>

(* What blk_aio_cancel leaves: it waits for the request, whose callback ran  *)
(* with either outcome before the call returns; flush_now then deletes the   *)
(* timer that callback may have armed.  The result: flushed_generation and   *)
(* the stable pages.                                                         *)
Cancelled ==
  {<<flushed, disk>>} \cup (IF acb THEN {Covered} \X AfterFlush(seen) ELSE {})

(* The timer and the request as nand_flush_now leaves them.  Fault: the      *)
(* timer the cancelled request re-armed is kept.                             *)
TimerKept == IF acb THEN Interval ELSE Idle
TimerAfterStop == Idle
RequestAfterStop == FALSE

(* nand_flush_now, run by the shutdown notifier (to = "stopping") and by     *)
(* nand_unrealize (to = "off").                                              *)
FlushNow(to, ok) ==
  /\ timer' = TimerAfterStop
  /\ acb' = RequestAfterStop
  /\ wait' = 0
  /\ power' = to
  /\ \E c \in Cancelled :
       IF ~writable \/ dirty = c[1] \/ ~ok
       THEN flushed' = c[1] /\ disk' = c[2]
       ELSE flushed' = dirty /\ disk' = file
  /\ UNCHANGED <<writable, dirty, flush, stale, file, seen>>

(* nand_shutdown_notify: vCPUs run until the machine is stopped after it. *)
Shutdown(ok) == power = "on" /\ FlushNow("stopping", ok)

Unrealize(ok) == power # "off" /\ FlushNow("off", ok)

Next ==
  \/ \E p \in Pages : Write(p) \/ WriteFails(p) \/ WriteRamOnly(p) \/ HostWriteback(p)
  \/ Tick
  \/ FlushTimer
  \/ FlushDone
  \/ FlushFailed
  \/ \E ok \in BOOLEAN : Shutdown(ok) \/ Unrealize(ok)

Spec == Init /\ [][Next]_vars

(* The main loop runs expired timers and the block layer ends every request; *)
(* that the host does not fail every flush for ever is an assumption on it.  *)
Fairness ==
  /\ WF_vars(Tick)
  /\ WF_vars(FlushTimer)
  /\ WF_vars(FlushDone \/ FlushFailed)
  /\ SF_vars(FlushDone)

FairSpec == Spec /\ Fairness

-----------------------------------------------------------------------------
(* Every write counted by flushed_generation survives a loss of power: the   *)
(* completion may only take over the generation that was captured when the   *)
(* flush was submitted, not what the guest wrote while it was in flight.     *)
FlushedIsDurable ==
  \A p \in Pages : file[p] <= flushed => disk[p] = file[p]

(* Until the machine stops, unflushed data always has a timer or a flush in  *)
(* flight that will cover it; a failed flush and a write that lands during a *)
(* flush are the cases that could strand it.                                 *)
NeverStranded ==
  power = "on" /\ dirty # flushed => Pending(timer) \/ acb

(* A flush starts at most Interval after the first dirty write that could    *)
(* start one: later writes do not push the deadline back.                    *)
FlushWithinInterval == wait <= Interval

(* After unrealize neither the timer nor a completion can call back into the *)
(* device that is being freed.                                               *)
QuietAfterUnrealize == power = "off" => ~acb /\ ~Pending(timer)

(* flushed_generation never goes back: no completion is late.                *)
FlushedNeverRegresses == [][flushed' >= flushed]_vars

(* Every write is eventually covered by a successful flush, or the machine   *)
(* stops first.                                                              *)
EventuallyFlushed ==
  \A g \in 1 .. MaxWrites : dirty >= g ~> (flushed >= g \/ power # "on")
=============================================================================
