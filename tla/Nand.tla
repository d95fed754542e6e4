--------------------------------- MODULE Nand ---------------------------------
(***************************************************************************)
(* The two layers of the raw NAND.  A behaviour is one of one layer: the   *)
(* command interface, on cells that no power loss touches ("device"), or   *)
(* the write-back of what a commit hands to nand_backend_update, in which  *)
(* the contents of a page are the number of its last write ("backing").    *)
(***************************************************************************)
EXTENDS NandDevice

CONSTANTS
  Layers,     \* the layers a run is about
  Saved,      \* the pages (or blocks) the backing file keeps
  Interval,   \* NAND_FLUSH_INTERVAL_MS, in clock ticks
  MaxWrites   \* bound: successful backing writes in one run of the device

ASSUME NandAssumption ==
  /\ Layers \subseteq {"device", "backing"}
  /\ Interval \in Nat \ {0}
  /\ MaxWrites \in Nat

VARIABLES
  layer,
  writable, dirty, flush, flushed, timer, acb, stale, file, disk, seen, wait, power

backingVars ==
  <<writable, dirty, flush, flushed, timer, acb, stale, file, disk, seen, wait, power>>
nandVars == <<layer, vars, backingVars>>

Backing == INSTANCE NandBacking WITH Pages <- Saved

NandInit ==
  /\ layer \in Layers
  /\ Init /\ Backing!Init
  /\ layer = "device" => ~writable

NandNext ==
  \/ layer = "device" /\ Next /\ UNCHANGED <<layer, backingVars>>
  \/ layer = "backing" /\ Backing!Next /\ UNCHANGED <<layer, vars>>

(* Of the device layer no step of the backing is enabled.                       *)
NandSpec == NandInit /\ [][NandNext]_nandVars /\ Backing!Fairness

-----------------------------------------------------------------------------
(* What the backing file promises, in the terms of NandBacking: what is counted *)
(* as flushed survives a loss of power; dirty data has a timer or a flush that  *)
(* will cover it, within the interval; a freed device is left alone.            *)
FlushedIsDurable == Backing!FlushedIsDurable
NeverStranded == Backing!NeverStranded
FlushWithinInterval == Backing!FlushWithinInterval
QuietAfterUnrealize == Backing!QuietAfterUnrealize

(* And every write is covered in the end.                                       *)
EventuallyFlushed == Backing!EventuallyFlushed
=============================================================================
