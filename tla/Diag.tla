-------------------------------- MODULE Diag --------------------------------
(***************************************************************************)
(* The diagnostic recorder of the board (hw/misc/bbk9588_diag.c), the      *)
(* file-system probe of the translator (mips/tcg/op_helper.c) and what the *)
(* front end's snapshots find (src/emu/qemu/system.py): rings of records   *)
(* in guest RAM, each a header with the newest number and a fixed number   *)
(* of slots.                                                               *)
(*                                                                         *)
(* A recorder of the board runs under the big QEMU lock, so its record is  *)
(* one step.  The probe runs in the vCPU thread without the lock, so the   *)
(* host may read or record between its words; while it runs the guest does *)
(* nothing else.  A record of the touch ring keeps no number; the model    *)
(* numbers them all.                                                       *)
(***************************************************************************)
EXTENDS Naturals, Sequences, FiniteSetsExt, Functions, TLC

CONSTANTS
  Layout,       \* ring -> [base, header, slots, words]; "probe" is the probe's
  Inputs,       \* slots of the input queue, 8 in the code
  LineLimit,    \* panel writes that are reported, 4096 in the code
  Period,       \* whether progress-trace-period-ms is set
  AtStart,      \* the sets of traces QEMU may be started with
  Switches,     \* the traces that qom-set switches in the instance
  MaxRecords    \* bound on the records and the queued events together

VARIABLES
  diag,         \* on, probe (the translator's flag), seq, lines
  queue,        \* the input queue: read, write, count, events, and total so far
  mem,          \* words of the diagnostic area
  probing       \* words the running probe has still to write

vars == <<diag, queue, mem, probing>>

Rings == DOMAIN Layout
Traces == {"storage", "progress", "touch", "graphics"}

(* The trace that a recorder looks at. *)
Trace(r) ==
  CASE r \in {"storage", "msc", "target", "dmac"} -> "storage"
    [] r = "progress" -> "progress"
    [] r = "touch" -> "touch"

(* The addresses of a ring: its header, a slot, the whole of it. *)
Header(r) == Layout[r].base .. Layout[r].base + Layout[r].header - 1

(* Fault: the number is reduced by one slot too few. *)
SlotEarly(r, n) == (n - 1) % Max({1, Layout[r].slots - 1})

Slot(r, n) == (n - 1) % Layout[r].slots

Entry(r, s) == Layout[r].base + Layout[r].header + s * Layout[r].words

EntryWords(r, s) == Entry(r, s) .. Entry(r, s) + Layout[r].words - 1

Area(r) == Layout[r].base .. Entry(r, Layout[r].slots) - 1

Overlap(r, q) == r # q /\ Area(r) \cap Area(q) # {}

Addresses == UNION {Area(r) : r \in Rings}

(* A word that no recorder has written. *)
None == [ring |-> "none", word |-> "none", n |-> 0]

(* diag_write_ring_header and the words of a record: every word tells whose it  *)
(* is, which of the record it is, and the record's number.                     *)
Word(r, k, n) == [ring |-> r, word |-> ToString(k), n |-> n]

HeaderOf(r, n) == [a \in Header(r) |-> Word(r, "header", n)]

EntryOf(r, n) ==
  [a \in EntryWords(r, Slot(r, n)) |-> Word(r, a - Entry(r, Slot(r, n)), n)]

Over(words, memory) ==
  [a \in DOMAIN memory |-> IF a \in DOMAIN words THEN words[a] ELSE memory[a]]

----------------------------------------------------------------------------
(* bbk9588_diag_queue_input: a full queue drops its oldest event. *)
Queued(q) ==
  LET full == q.count = Inputs
  IN  [q EXCEPT !.read = IF full THEN (@ + 1) % Inputs ELSE @,
                !.count = IF full THEN @ ELSE @ + 1,
                !.events = [@ EXCEPT ![q.write] = q.total + 1],
                !.write = (@ + 1) % Inputs,
                !.total = @ + 1]

EmptyQueue ==
  [read |-> 0, write |-> 0, count |-> 0, events |-> [i \in 0 .. Inputs - 1 |-> 0],
   total |-> 0]

(* Each recorder looks at its trace first. *)
Record(s, r) ==
  IF Trace(r) \notin s.on THEN s
  ELSE LET n == s.seq[r] + 1
       IN  [s EXCEPT !.seq[r] = n, !.mem = Over(EntryOf(r, n), Over(HeaderOf(r, n), @))]

(* The number of records and events so far, for the bound. *)
Total == FoldFunction(+, queue.total, diag.seq)

State == [on |-> diag.on, seq |-> diag.seq, mem |-> mem]

Becomes(s) ==
  /\ Total < MaxRecords
  /\ diag' = [diag EXCEPT !.seq = s.seq]
  /\ mem' = s.mem
  /\ UNCHANGED <<queue, probing>>

(* One recorder after the other in one call. *)
Records(r) == Becomes(Record(State, r))
Both(r, q) == Becomes(Record(Record(State, r), q))

Quiet == probing = <<>>

(* What the guest does, by access to a device: bbk9588_nand_event for a page    *)
(* that is loaded, or programmed or erased, which makes the chip ready, on the   *)
(* watched page or not; the bridge for a command of the card, for a transfer,    *)
(* empty or refused or served; the trace of the DMA controller, which the host   *)
(* drives too.                                                                  *)
NandLoad == Quiet /\ Both("storage", "storage")
NandChange == Quiet /\ Both("storage", "touch")
NandTarget ==
  Quiet /\ Becomes(Record(Record(Record(State, "storage"), "target"), "touch"))
CardCommand == Quiet /\ Records("msc")
CardRefused == Records("storage")
CardTransfer == Both("storage", "msc")
DmacEvent == Records("dmac")

(* bbk9588_touch_diag_record, by the guest's accesses to the SADC, by the chip   *)
(* made ready for a read, or by the pen                                         *)
Touch == Records("touch")

(* bbk9588_progress_trace_timer_cb: without a period the timer never runs.      *)
Progress == Period /\ Records("progress")

(* bbk9588_diag_panel_write: reported until the limit. *)
Panel ==
  /\ Quiet /\ "graphics" \in diag.on
  /\ diag' = [diag EXCEPT !.lines = IF @ < LineLimit THEN @ + 1 ELSE @]
  /\ UNCHANGED <<queue, mem, probing>>

(* bbk9588_queue_input_event, for a key that moved a pin *)
Input ==
  /\ Total < MaxRecords
  /\ queue' = Queued(queue)
  /\ UNCHANGED <<diag, mem, probing>>

(* bbk9588_cpu_reset: the machine's reset empties the queue and nothing else. *)
Reset ==
  /\ Quiet /\ queue' = EmptyQueue
  /\ UNCHANGED <<diag, mem, probing>>

(* qom-set of a trace: the flag of the translator is not told. *)
Switch(t, on) ==
  /\ diag' = [diag EXCEPT !.on = IF on THEN @ \cup {t} ELSE @ \ {t},
                          !.lines = IF t = "graphics" THEN 0 ELSE @]
  /\ UNCHANGED <<queue, mem, probing>>

(* helper_bbk9588_fs_probe: the number comes from guest RAM, the words follow. *)
ProbeNumber == mem[Layout["probe"].base].n

Probe ==
  /\ Quiet /\ diag.probe /\ Total < MaxRecords
  /\ LET n == ProbeNumber + 1
     IN  /\ mem' = Over(HeaderOf("probe", n), mem)
         /\ diag' = [diag EXCEPT !.seq["probe"] = n]
         /\ probing' = [k \in 1 .. Layout["probe"].words |->
                       Entry("probe", Slot("probe", n)) + k - 1]
  /\ UNCHANGED queue

ProbeWord ==
  /\ ~Quiet
  /\ LET n == ProbeNumber
         a == Head(probing)
     IN  mem' = [mem EXCEPT ![a] = Word("probe", a - Entry("probe", Slot("probe", n)), n)]
  /\ probing' = Tail(probing)
  /\ UNCHANGED <<diag, queue>>

(* bbk9588_init: the board records the pen once while it is put together. *)
Init ==
  /\ \E on \in AtStart :
       LET s == Record([on |-> on, seq |-> [r \in Rings |-> 0],
                        mem |-> [a \in Addresses |-> None]], "touch")
       IN  /\ diag = [on |-> on, probe |-> "storage" \in on, seq |-> s.seq, lines |-> 0]
           /\ mem = s.mem
  /\ queue = EmptyQueue
  /\ probing = <<>>

Next ==
  \/ NandLoad \/ NandChange \/ NandTarget
  \/ CardCommand \/ CardRefused \/ CardTransfer \/ DmacEvent
  \/ Touch \/ Progress \/ Panel \/ Input \/ Reset
  \/ \E t \in Switches, on \in BOOLEAN : Switch(t, on)
  \/ Probe \/ ProbeWord

Spec == Init /\ [][Next]_vars

----------------------------------------------------------------------------
(* guest_storage_trace_snapshot and its like: a reader finds a record whole when *)
(* every word of its slot is that record's.                                     *)
WholeIn(memory, r, n) ==
  \A a \in EntryWords(r, Slot(r, n)) : memory[a] = EntryOf(r, n)[a]

Whole(r, n) == WholeIn(mem, r, n)

TypeOK ==
  /\ diag.on \subseteq Traces /\ diag.probe \in BOOLEAN /\ diag.lines \in 0 .. LineLimit
  /\ \A r \in Rings : diag.seq[r] \in Nat
  /\ DOMAIN mem = Addresses
  /\ \A i \in 1 .. Len(probing) : probing[i] \in Area("probe")

(* The queue holds the newest events in their order, as many as it has room for. *)
QueueKept ==
  /\ queue.count = Min({queue.total, Inputs})
  /\ queue.write = (queue.read + queue.count) % Inputs
  /\ \A i \in 0 .. queue.count - 1 :
       queue.events[(queue.read + i) % Inputs] = queue.total - queue.count + 1 + i

(* In a ring that shares no memory, the slots hold the newest records, whole,    *)
(* under the number that the header gives; but for the record that the probe is *)
(* writing, which a reader that does not stop the guest finds under the number  *)
(* of the record it replaces, or torn.                                         *)
NewestWhole ==
  \A r \in Rings :
    (\A q \in Rings : ~Overlap(r, q)) =>
      /\ diag.seq[r] > 0 => mem[Layout[r].base].n = diag.seq[r]
      /\ \A n \in 1 .. diag.seq[r] :
           n + Layout[r].slots > diag.seq[r] =>
             Whole(r, n) \/ (r = "probe" /\ ~Quiet /\ n = diag.seq[r])

(* A record is lost before its turn only to a ring in the same memory: that of   *)
(* progress reaches into the one of the watched page.  A new record is whole.   *)
OnlyOverlapMixes ==
  \A r \in Rings \ {"probe"} :
    /\ diag'.seq[r] > diag.seq[r] =>
         \/ WholeIn(mem', r, diag'.seq[r])
         \/ \E q \in Rings : Overlap(r, q) /\ diag'.seq[q] > diag.seq[q]
    /\ \A n \in 1 .. diag.seq[r] :
         Whole(r, n) /\ ~WholeIn(mem', r, n) =>
           \/ diag'.seq[r] >= n + Layout[r].slots
           \/ \E q \in Rings : Overlap(r, q) /\ diag'.seq[q] > diag.seq[q]
=============================================================================
