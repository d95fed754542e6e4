-------------------------------- MODULE Tlb --------------------------------
(***************************************************************************)
(* The TLB of the guest's CPU (target/mips/tcg/system/tlb_helper.c) over   *)
(* QEMU's own.  An entry that TLBWR replaces is not dropped but lives on   *)
(* as a shadow behind the guest's entries, as long as the guest cannot     *)
(* tell.  Pages are numbered; a pair is what an entry names (EntryHi.VPN2) *)
(* and an entry of span h maps h pages with each of its halves.  The core  *)
(* has 8-bit ASIDs, no page walker, no XI, RI, EHINV or MMID.              *)
(***************************************************************************)
EXTENDS Naturals, Sequences, SequencesExt

CONSTANTS
  Pages,         \* pages of mapped segments that the guest touches
  Asids,
  NbTlb,         \* nb_tlb: the entries the guest sees, wired ones included
  Wired,         \* CP0_Wired: TLBWR replaces entries from here on
  MaxTlb,        \* MIPS_TLB_MAX
  Spans,         \* what it writes to PageMask, as pages for each half
  Lows           \* what it writes to EntryLo0 and 1: <<half 0, half 1>>, [v, d, pfn]

VARIABLES
  tlb,           \* slots, extra: the entries and their shadows; soft: QEMU's TLB,
                 \* which maps for the current ASID; hi: EntryHi as [asid, pair]
  absent         \* <<asid, pair>>: what the guest knows to be unmapped

Pairs == {p \div 2 : p \in Pages}

(* VPN2 of an entry in an unmapped segment, as kernels empty the TLB with.       *)
Nowhere == 1000

Empty == [asid |-> 0, pair |-> Nowhere, span |-> 1, g |-> FALSE,
          lo |-> [n \in 0 .. 1 |-> [v |-> FALSE, d |-> FALSE, pfn |-> 0]]]

(* Virtual page number and size, then ASID or G; with r4k_map_address and tlbp. *)
Names(e, p) == p \div (2 * e.span) = (2 * e.pair) \div (2 * e.span)
Matches(e, asid, p) == (e.g \/ e.asid = asid) /\ Names(e, p)

Half(e, p) == e.lo[(p \div e.span) % 2]

(* The pairs an entry maps, for each ASID it is good for.                       *)
Covers(e) ==
  {x \in Asids \X Pairs : Matches(e, x[1], 2 * x[2])}

----------------------------------------------------------------------------
InUse(t) == t.slots \o t.extra      \* slot i is at i + 1

(* r4k_map_address, first match wins: the outcome of an access to a page.        *)
Hits(t, asid, p) == {i \in DOMAIN InUse(t) : Matches(InUse(t)[i], asid, p)}

Through(e, p, store) ==
  LET half == Half(e, p)
  IN  IF ~half.v THEN [ret |-> "invalid"]
      ELSE IF store /\ ~half.d THEN [ret |-> "dirty"]
      ELSE [ret |-> "match", page |-> [frame |-> half.pfn + (p % e.span), write |-> half.d]]

Translate(t, asid, p, store) ==
  LET hits == Hits(t, asid, p)
  IN  IF hits = {} THEN [ret |-> "nomatch"]
      ELSE Through(InUse(t)[CHOOSE i \in hits : \A j \in hits : i <= j], p, store)

(* r4k_invalidate_tlb: an entry goes.  QEMU maps nothing of another ASID.        *)
Foreign(t, e) == ~e.g /\ e.asid # t.hi.asid
FlushPages(t, e, p) == ~Foreign(t, e) /\ Names(e, p) /\ Half(e, p).v

Invalidate(t, e) ==
  [t EXCEPT !.soft = Restrict(@, {p \in DOMAIN @ : ~FlushPages(t, e, p)})]

InvalidateOrShadow(t, e) ==
  IF ~Foreign(t, e) /\ NbTlb + Len(t.extra) < MaxTlb
  THEN [t EXCEPT !.extra = Append(@, e)]
  ELSE Invalidate(t, e)

(* r4k_mips_tlb_flush_extra: shadows go, all but n.                              *)
FlushExtra(t, n) ==
  [t EXCEPT !.extra = SubSeq(@, 1, n),
            !.soft = Restrict(@, {p \in DOMAIN @ : \A i \in n + 1 .. Len(t.extra) :
                                                   ~FlushPages(t, t.extra[i], p)})]

(* cpu_mips_tlb_flush *)
FlushAll(t) == [t EXCEPT !.soft = <<>>, !.extra = <<>>]

(* r4k_fill_tlb; the frame number loses the bits that PageMask covers.           *)
Filled(t, span, lo) ==
  [asid |-> t.hi.asid, pair |-> t.hi.pair, span |-> span, g |-> lo[1].g /\ lo[2].g,
   lo |-> [n \in 0 .. 1 |-> [v |-> lo[n + 1].v, d |-> lo[n + 1].d,
                             pfn |-> lo[n + 1].pfn - (lo[n + 1].pfn % span)]]]

----------------------------------------------------------------------------
(* After the kernel has emptied the TLB of a machine that came up.               *)
Init ==
  /\ tlb = [slots |-> [i \in 1 .. NbTlb |-> Empty], extra |-> <<>>, soft |-> <<>>,
            hi |-> [asid |-> 0, pair |-> Nowhere]]
  /\ absent = Asids \X Pairs

(* MTC0 EntryHi: another ASID flushes QEMU's TLB, the shadows stay.              *)
WriteHi(asid, pair) ==
  /\ tlb' = [tlb EXCEPT !.hi = [asid |-> asid, pair |-> pair],
                        !.soft = IF asid # tlb.hi.asid THEN <<>> ELSE @]
  /\ UNCHANGED absent

(* A load or store that QEMU's TLB has no answer to: mips_cpu_tlb_fill.  The     *)
(* exception names the page in EntryHi; only a refill says it is unmapped.       *)
SoftHit(p, store) == p \in DOMAIN tlb.soft /\ (store => tlb.soft[p].write)

Access(p, store) ==
  LET r == Translate(tlb, tlb.hi.asid, p, store)
  IN  /\ ~SoftHit(p, store)
      /\ IF r.ret = "match"
         THEN /\ tlb' = [tlb EXCEPT !.soft = [q \in DOMAIN @ \cup {p} |->
                                              IF q = p THEN r.page ELSE @[q]]]
              /\ UNCHANGED absent
         ELSE /\ tlb' = [tlb EXCEPT !.hi.pair = p \div 2]
              /\ absent' = IF r.ret = "nomatch"
                           THEN absent \cup {<<tlb.hi.asid, p \div 2>>} ELSE absent

(* TLBP, r4k_helper_tlbp: a miss discards the shadows from the first match on.   *)
(* A hit sets CP0_Index, which the guest may load with anything anyway.          *)
FirstShadow(t) ==
  LET hits == {i \in DOMAIN t.extra : Matches(t.extra[i], t.hi.asid, 2 * t.hi.pair)}
  IN  IF hits = {} THEN Len(t.extra) + 1 ELSE CHOOSE i \in hits : \A j \in hits : i <= j

Probed(t) == FlushExtra(t, FirstShadow(t) - 1)

Probe ==
  /\ \A i \in DOMAIN tlb.slots : ~Matches(tlb.slots[i], tlb.hi.asid, 2 * tlb.hi.pair)
  /\ tlb' = Probed(tlb)
  /\ absent' = absent \cup ({<<tlb.hi.asid, tlb.hi.pair>>} \cap (Asids \X Pairs))

(* A guest keeps its entries apart: it writes one for pairs that it knows to be  *)
(* unmapped, or that the entry to be written has mapped.                         *)
MayWrite(e, old) == Covers(e) \subseteq absent \cup Covers(old)

(* TLBWR; cpu_mips_get_random picks the victim, unseen by the guest.             *)
Randomised(t, i, e) ==
  [InvalidateOrShadow(t, t.slots[i]) EXCEPT !.slots[i] = e]

TlbWr(i, span, lo) ==
  LET e == Filled(tlb, span, lo)
  IN  /\ MayWrite(e, Empty) /\ tlb.hi.pair # Nowhere
      /\ tlb' = Randomised(tlb, i, e)
      /\ absent' = absent \ Covers(e)

(* TLBWI, r4k_helper_tlbwi: the shadows stay when an entry gains access rights   *)
(* only; neither the frame nor PageMask counts.                                  *)
OnlyUpgrades(old, e) ==
  /\ e.pair = old.pair /\ e.asid = old.asid /\ e.g = old.g
  /\ \A n \in 0 .. 1 : (old.lo[n].v => e.lo[n].v) /\ (old.lo[n].d => e.lo[n].d)

KeepShadows(t, i, e) == [Invalidate(t, t.slots[i]) EXCEPT !.slots[i] = e]

Indexed(t, i, e) ==
  LET u == IF OnlyUpgrades(t.slots[i], e) THEN t ELSE FlushExtra(t, 0)
  IN  [Invalidate(u, t.slots[i]) EXCEPT !.slots[i] = e]

(* What the entry mapped before is then unmapped, and everything is once the     *)
(* guest has emptied all of them.                                               *)
TlbWi(i, span, lo) ==
  LET e == IF tlb.hi.pair = Nowhere THEN Empty ELSE Filled(tlb, span, lo)
  IN  /\ MayWrite(e, tlb.slots[i])
      /\ tlb' = Indexed(tlb, i, e)
      /\ absent' = IF \A j \in DOMAIN tlb.slots : tlb'.slots[j].pair = Nowhere
                   THEN Asids \X Pairs
                   ELSE (absent \cup Covers(tlb.slots[i])) \ Covers(e)

(* TLBR, r4k_helper_tlbr: reads an entry, its ASID becoming the current one.     *)
TlbR(i) ==
  LET e == tlb.slots[i]
      t == IF e.asid # tlb.hi.asid THEN FlushAll(tlb) ELSE FlushExtra(tlb, 0)
  IN  tlb' = [t EXCEPT !.hi = [asid |-> e.asid, pair |-> e.pair]] /\ UNCHANGED absent

(* mips_cpu_reset_hold: the entries outlive it, what the guest knows does not.   *)
Reset ==
  /\ tlb' = [FlushAll(tlb) EXCEPT !.hi = [asid |-> 0, pair |-> 0]]
  /\ absent' = {}

Next ==
  \/ \E a \in Asids, q \in Pairs \cup {Nowhere} : WriteHi(a, q)
  \/ \E p \in Pages, store \in BOOLEAN : Access(p, store)
  \/ Probe
  \/ \E span \in Spans, lo \in Lows :
       \/ \E i \in Wired + 1 .. NbTlb : TlbWr(i, span, lo)
       \/ \E i \in 1 .. NbTlb : TlbWi(i, span, lo)
  \/ \E i \in 1 .. NbTlb : TlbR(i)
  \/ Reset

Spec == Init /\ [][Next]_<<tlb, absent>>

----------------------------------------------------------------------------
TypeOK ==
  /\ Len(tlb.slots) = NbTlb /\ NbTlb + Len(tlb.extra) <= MaxTlb
  /\ DOMAIN tlb.soft \subseteq Pages /\ absent \subseteq Asids \X Pairs
  /\ tlb.hi \in [asid : Asids, pair : Pairs \cup {0, Nowhere}]

(* QEMU's TLB answers as the entries and their shadows would now, whatever was   *)
(* written, replaced or probed since the page was entered.                       *)
Coherent ==
  \A p \in DOMAIN tlb.soft :
    Translate(tlb, tlb.hi.asid, p, FALSE) = [ret |-> "match", page |-> tlb.soft[p]]

(* The comments of r4k_helper_tlbp and r4k_invalidate_tlb: the guest cannot tell *)
(* that the shadows are there.  What it has found unmapped faults.               *)
Unseen ==
  \A x \in absent, p \in Pages :
    p \div 2 = x[2] => Translate(tlb, x[1], p, FALSE).ret = "nomatch"

(* No two entries in use, shadows included, map the same page for an ASID.       *)
OneMatch ==
  \A i, j \in DOMAIN InUse(tlb) :
    i # j => Covers(InUse(tlb)[i]) \cap Covers(InUse(tlb)[j]) = {}
=============================================================================
