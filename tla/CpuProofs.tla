----------------------------- MODULE CpuProofs -----------------------------
(***************************************************************************)
(* What is proved of the guest's CPU, the units "tlb", "core" and "cp0" of  *)
(* Board, for every program, every patch of it, every budget of a block,   *)
(* every TLB and every set of pages: CpuSound; and of the two engines that *)
(* run beside it, "dma" and "tcu", what BoardProofs states of them.  Each  *)
(* unit has an inductive invariant, a lemma that it holds at the start and *)
(* one that every step keeps it, by a lemma for each action.               *)
(***************************************************************************)
EXTENDS Board, WellFoundedInduction, TLAPS

LEMMA CpuSteps ==
  ASSUME [Next]_vars
  PROVE  /\ unit' = unit
         /\ unit = "tlb" => Mmu!Next \/ UNCHANGED <<tlb, absent>>
         /\ unit = "core" => Cpu!Next \/ UNCHANGED coreVars
         /\ unit = "cp0" => Control!Next \/ UNCHANGED cp0Vars
BY DEF Next, vars, Only, tlbVars

LEMMA LeastIn ==
  ASSUME NEW R, IsWellFoundedOn(R, Nat), \A x, y \in Nat : y < x => <<y, x>> \in R,
         NEW S \in SUBSET Nat, NEW m \in S
  PROVE  \E k \in S : \A j \in S : k <= j
<1>1. S \subseteq Nat /\ S # {}  OBVIOUS
<1>2. PICK k \in S : \A j \in S : ~(<<j, k>> \in R)
  BY <1>1, WFMin
<1>3. ASSUME NEW j \in S PROVE k <= j
  <2>1. k \in Nat /\ j \in Nat OBVIOUS
  <2>2. ~(j < k) BY <1>2, <2>1
  <2> QED BY <2>1, <2>2
<1> QED BY <1>3

(* A set of natural numbers has a least element.                                 *)
LEMMA LeastOf ==
  ASSUME NEW S \in SUBSET Nat, NEW m \in S
  PROVE  \E k \in S : \A j \in S : k <= j
<1> DEFINE R == OpToRel(<, Nat)
<1>1. IsWellFoundedOn(R, Nat)  BY NatLessThanWellFounded
<1>2. \A x, y \in Nat : y < x => <<y, x>> \in R  BY DEF OpToRel
<1> HIDE DEF R
<1> QED BY <1>1, <1>2, LeastIn

----------------------------------------------------------------------------
(* The TLB.  An entry covers pairs of pages for ASIDs; that a page matches an      *)
(* entry iff its pair is covered rests on one fact of arithmetic, EvenPart.        *)
LEMMA Quotient ==
  ASSUME NEW a \in Nat, NEW b \in Nat \ {0}, NEW q \in Nat, NEW m \in Nat, m = b * q,
         m <= a, a < m + b
  PROVE  a \div b = q
<1>1. a = b * q + (a - m) OBVIOUS
<1> QED BY <1>1, SMTT(30)

LEMMA QuotientBounds ==
  ASSUME NEW a \in Nat, NEW b \in Nat \ {0}
  PROVE  a \div b \in Nat /\ b * (a \div b) <= a /\ a < b * (a \div b) + b
BY SMTT(30)

LEMMA HalfOf ==
  ASSUME NEW p \in Nat
  PROVE  p \div 2 \in Nat /\ 2 * (p \div 2) <= p /\ p <= 2 * (p \div 2) + 1
OBVIOUS

LEMMA EvenPart ==
  ASSUME NEW p \in Nat, NEW s \in Nat \ {0}
  PROVE  (2 * (p \div 2)) \div (2 * s) = p \div (2 * s)
<1> DEFINE q == p \div (2 * s)
           h == 2 * (p \div 2)
           n == s * q
<1>1. 2 * s \in Nat \ {0}  OBVIOUS
<1>2. q \in Nat /\ (2 * s) * q <= p /\ p < (2 * s) * q + 2 * s
  BY <1>1, QuotientBounds
<1>3. h \in Nat /\ h <= p /\ p <= h + 1 /\ p \div 2 \in Nat /\ h = 2 * (p \div 2)
  BY HalfOf
<1> HIDE DEF q, h
<1>4. n \in Nat /\ (2 * s) * q = 2 * n  BY <1>2
<1> HIDE DEF n
<1>5. 2 * n <= h /\ h < 2 * n + 2 * s
  BY <1>2, <1>3, <1>4
<1>6. h \div (2 * s) = q
  <2> DEFINE b == 2 * s
             m == 2 * n
  <2>1. b \in Nat \ {0} /\ m \in Nat /\ m = b * q /\ m <= h /\ h < m + b
    BY <1>1, <1>4, <1>5
  <2> HIDE DEF b, m
  <2>2. h \div b = q  BY <2>1, <1>2, <1>3, Quotient
  <2> QED BY <2>2 DEF b
<1> QED BY <1>6 DEF q, h

Entries ==
  {e \in [asid : Asids, pair : Mmu!Pairs \cup {0, Mmu!Nowhere}, span : Nat \ {0}, g : BOOLEAN,
          lo : [0 .. 1 -> [v : BOOLEAN, d : BOOLEAN, pfn : Int]]] :
     e.pair = Mmu!Nowhere => e.span = 1}

Apart(d, e) == Mmu!Covers(d) \cap Mmu!Covers(e) = {}

(* The guest's entries and the shadows, by what they are rather than by their place. *)
Among(t, e) ==
  (\E i \in 1 .. NbTlb : e = t.slots[i]) \/ (\E j \in 1 .. Len(t.extra) : e = t.extra[j])

AllApart(t) ==
  /\ \A i, j \in 1 .. NbTlb : i # j => Apart(t.slots[i], t.slots[j])
  /\ \A i, j \in 1 .. Len(t.extra) : i # j => Apart(t.extra[i], t.extra[j])
  /\ \A i \in 1 .. NbTlb, j \in 1 .. Len(t.extra) : Apart(t.slots[i], t.extra[j])

(* What QEMU's TLB maps comes from an entry that is there, for the current ASID.  *)
Source(t, p, e) ==
  /\ Among(t, e) /\ Mmu!Matches(e, t.hi.asid, p)
  /\ Mmu!Through(e, p, FALSE) = [ret |-> "match", page |-> t.soft[p]]

Shaped(t) ==
  /\ t \in [slots : [1 .. NbTlb -> Entries], extra : Seq(Entries), soft : {t.soft},
            hi : [asid : Asids, pair : Mmu!Pairs \cup {0, Mmu!Nowhere}]]
  /\ NbTlb + Len(t.extra) <= MaxTlb /\ DOMAIN t.soft \subseteq Pages

(* Once the guest has emptied all its entries, no shadow is left.                *)
TlbInv ==
  /\ Shaped(tlb) /\ absent \subseteq Asids \X Mmu!Pairs /\ AllApart(tlb)
  /\ \A p \in DOMAIN tlb.soft : \E e : Source(tlb, p, e)
  /\ \A x \in absent : \A e : Among(tlb, e) => x \notin Mmu!Covers(e)
  /\ (\A i \in 1 .. NbTlb : tlb.slots[i].pair = Mmu!Nowhere) => Len(tlb.extra) = 0

(* An entry covers the pair of a page for an ASID iff it matches the page.        *)
LEMMA MatchesCover ==
  ASSUME NEW e \in Entries, NEW a \in Asids, NEW p \in Pages
  PROVE  /\ <<a, p \div 2>> \in Mmu!Covers(e) <=> Mmu!Matches(e, a, p)
         /\ <<a, p \div 2>> \in Asids \X Mmu!Pairs
<1>1. p \in Nat /\ e.span \in Nat \ {0}  BY TlbAssumption DEF Entries
<1>2. (2 * (p \div 2)) \div (2 * e.span) = p \div (2 * e.span)  BY <1>1, EvenPart
<1>3. Mmu!Names(e, 2 * (p \div 2)) <=> Mmu!Names(e, p)  BY <1>2 DEF Mmu!Names
<1>4. Mmu!Matches(e, a, 2 * (p \div 2)) <=> Mmu!Matches(e, a, p)  BY <1>3 DEF Mmu!Matches
<1>5. p \div 2 \in Mmu!Pairs  BY DEF Mmu!Pairs
<1>6. <<a, p \div 2>> \in Asids \X Mmu!Pairs  BY <1>5
<1>7. <<a, p \div 2>> \in Mmu!Covers(e) <=> Mmu!Matches(e, a, 2 * (p \div 2))
  BY <1>6 DEF Mmu!Covers
<1> QED BY <1>4, <1>6, <1>7

LEMMA NowhereCoversNothing ==
  ASSUME NEW e \in Entries, e.pair = Mmu!Nowhere
  PROVE  Mmu!Covers(e) = {}
<1> SUFFICES ASSUME NEW x \in Mmu!Covers(e) PROVE FALSE
  OBVIOUS
<1>1. PICK q \in Mmu!Pairs : Mmu!Names(e, 2 * q)
  BY DEF Mmu!Covers, Mmu!Matches
<1>2. PICK p \in Pages : q = p \div 2  BY <1>1 DEF Mmu!Pairs
<1>3. p \in Nat /\ p < 2000  BY TlbAssumption
<1>4. q \in Nat /\ q < 1000  BY <1>2, <1>3
<1>5. e.span = 1  BY DEF Entries
<1>6. (2 * q) \div 2 = (2 * 1000) \div 2  BY <1>1, <1>5 DEF Mmu!Names, Mmu!Nowhere
<1> QED BY <1>4, <1>6

----------------------------------------------------------------------------
(* The entries by place: first those of the guest, then the shadows.             *)
LEMMA InUseIs ==
  ASSUME NEW t, Shaped(t)
  PROVE  /\ DOMAIN Mmu!InUse(t) = 1 .. NbTlb + Len(t.extra) /\ Len(t.extra) \in Nat
         /\ \A i \in 1 .. NbTlb : Mmu!InUse(t)[i] = t.slots[i]
         /\ \A j \in 1 .. Len(t.extra) : Mmu!InUse(t)[NbTlb + j] = t.extra[j]
<1> DEFINE S == t.slots
           X == t.extra
<1>1. S \in [1 .. NbTlb -> Entries] /\ X \in Seq(Entries) /\ NbTlb \in Nat
  BY TlbAssumption DEF Shaped
<1>2. Mmu!InUse(t) = S \o X  BY DEF Mmu!InUse
<1> HIDE DEF S, X
<1>3. S \in Seq(Entries) /\ Len(S) = NbTlb  BY <1>1
<1>4. Len(X) \in Nat  BY <1>1
<1>5. DOMAIN (S \o X) = 1 .. NbTlb + Len(X)  BY <1>1, <1>3, <1>4
<1>6. \A i \in 1 .. NbTlb : (S \o X)[i] = S[i]  BY <1>1, <1>3, <1>4
<1>7. \A j \in 1 .. Len(X) : (S \o X)[NbTlb + j] = X[j]  BY <1>1, <1>3, <1>4
<1> QED BY <1>2, <1>4, <1>5, <1>6, <1>7 DEF S, X

LEMMA PlacesAre ==
  ASSUME NEW t, Shaped(t), NEW i \in DOMAIN Mmu!InUse(t)
  PROVE  /\ i \in Nat
         /\ \/ i \in 1 .. NbTlb /\ Mmu!InUse(t)[i] = t.slots[i]
            \/ /\ i > NbTlb /\ i - NbTlb \in 1 .. Len(t.extra)
               /\ Mmu!InUse(t)[i] = t.extra[i - NbTlb]
         /\ Among(t, Mmu!InUse(t)[i]) /\ Mmu!InUse(t)[i] \in Entries
<1>1. NbTlb \in Nat /\ Len(t.extra) \in Nat /\ i \in 1 .. NbTlb + Len(t.extra)
  BY InUseIs, TlbAssumption
<1>2. CASE i <= NbTlb
  <2>1. i \in 1 .. NbTlb  BY <1>1, <1>2
  <2>2. Mmu!InUse(t)[i] = t.slots[i]  BY <2>1, InUseIs
  <2>3. t.slots[i] \in Entries  BY <2>1 DEF Shaped
  <2> QED BY <1>1, <2>1, <2>2, <2>3 DEF Among
<1>3. CASE i > NbTlb
  <2> DEFINE j == i - NbTlb
  <2>1. j \in 1 .. Len(t.extra) /\ NbTlb + j = i  BY <1>1, <1>3
  <2>2. Mmu!InUse(t)[i] = t.extra[j]
    <3> HIDE DEF j
    <3> QED BY <2>1, InUseIs
  <2>3. t.extra[j] \in Entries
    <3> HIDE DEF j
    <3>1. t.extra \in Seq(Entries)  BY DEF Shaped
    <3> QED BY <2>1, <3>1
  <2> QED BY <1>1, <1>3, <2>1, <2>2, <2>3 DEF Among
<1> QED BY <1>1, <1>2, <1>3

LEMMA PlacesApart ==
  ASSUME NEW t, Shaped(t), AllApart(t),
         NEW i \in DOMAIN Mmu!InUse(t), NEW j \in DOMAIN Mmu!InUse(t), i # j
  PROVE  Apart(Mmu!InUse(t)[i], Mmu!InUse(t)[j])
<1>1. NbTlb \in Nat /\ i \in Nat /\ j \in Nat  BY PlacesAre, TlbAssumption
<1>2. CASE i \in 1 .. NbTlb /\ j \in 1 .. NbTlb
  BY <1>2, InUseIs DEF AllApart
<1>3. CASE i \in 1 .. NbTlb /\ j > NbTlb
  <2>1. j - NbTlb \in 1 .. Len(t.extra) /\ Mmu!InUse(t)[j] = t.extra[j - NbTlb]
        /\ Mmu!InUse(t)[i] = t.slots[i]
    BY <1>1, <1>3, PlacesAre
  <2> QED BY <1>3, <2>1 DEF AllApart
<1>4. CASE i > NbTlb /\ j \in 1 .. NbTlb
  <2>1. i - NbTlb \in 1 .. Len(t.extra) /\ Mmu!InUse(t)[i] = t.extra[i - NbTlb]
        /\ Mmu!InUse(t)[j] = t.slots[j]
    BY <1>1, <1>4, PlacesAre
  <2> QED BY <1>4, <2>1 DEF AllApart, Apart
<1>5. CASE i > NbTlb /\ j > NbTlb
  <2>1. /\ i - NbTlb \in 1 .. Len(t.extra) /\ Mmu!InUse(t)[i] = t.extra[i - NbTlb]
        /\ j - NbTlb \in 1 .. Len(t.extra) /\ Mmu!InUse(t)[j] = t.extra[j - NbTlb]
    BY <1>1, <1>5, PlacesAre
  <2>2. i - NbTlb # j - NbTlb  BY <1>1
  <2> QED BY <2>1, <2>2 DEF AllApart
<1> QED BY <1>1, <1>2, <1>3, <1>4, <1>5, PlacesAre

LEMMA AmongHasPlace ==
  ASSUME NEW t, Shaped(t), NEW e, Among(t, e)
  PROVE  /\ e \in Entries /\ \E i \in DOMAIN Mmu!InUse(t) : Mmu!InUse(t)[i] = e
<1>1. NbTlb \in Nat /\ Len(t.extra) \in Nat
      /\ DOMAIN Mmu!InUse(t) = 1 .. NbTlb + Len(t.extra)
  BY InUseIs, TlbAssumption
<1>2. CASE \E i \in 1 .. NbTlb : e = t.slots[i]
  <2>1. PICK i \in 1 .. NbTlb : e = t.slots[i]  BY <1>2
  <2>2. i \in DOMAIN Mmu!InUse(t) /\ Mmu!InUse(t)[i] = e  BY <1>1, <2>1, InUseIs
  <2>3. e \in Entries  BY <2>2, PlacesAre
  <2> QED BY <2>2, <2>3
<1>3. CASE \E j \in 1 .. Len(t.extra) : e = t.extra[j]
  <2>1. PICK j \in 1 .. Len(t.extra) : e = t.extra[j]  BY <1>3
  <2>2. NbTlb + j \in DOMAIN Mmu!InUse(t)  BY <1>1, <2>1
  <2>3. Mmu!InUse(t)[NbTlb + j] = e  BY <2>1, InUseIs
  <2>4. e \in Entries  BY <2>2, <2>3, PlacesAre
  <2> QED BY <2>2, <2>3, <2>4
<1> QED BY <1>2, <1>3 DEF Among

(* The first match is the only one.                                              *)
LEMMA TranslatesFree ==
  ASSUME NEW t, Shaped(t), NEW a, NEW p, NEW store,
         \A e : Among(t, e) => ~Mmu!Matches(e, a, p)
  PROVE  Mmu!Translate(t, a, p, store).ret = "nomatch"
<1>1. Mmu!Hits(t, a, p) = {}  BY PlacesAre DEF Mmu!Hits
<1> QED BY <1>1 DEF Mmu!Translate

LEMMA OnlyMatch ==
  ASSUME NEW t, Shaped(t), AllApart(t), NEW a \in Asids, NEW p \in Pages,
         NEW e, Among(t, e), Mmu!Matches(e, a, p)
  PROVE  LET hits == Mmu!Hits(t, a, p)
         IN  hits # {} /\ Mmu!InUse(t)[CHOOSE i \in hits : \A j \in hits : i <= j] = e
<1> DEFINE hits == Mmu!Hits(t, a, p)
<1>1. PICK i \in DOMAIN Mmu!InUse(t) : Mmu!InUse(t)[i] = e  BY AmongHasPlace
<1>2. i \in hits  BY <1>1 DEF Mmu!Hits
<1>3. \A k \in hits : k = i
  <2> SUFFICES ASSUME NEW k \in hits, k # i PROVE FALSE
    OBVIOUS
  <2>1. k \in DOMAIN Mmu!InUse(t) /\ Mmu!Matches(Mmu!InUse(t)[k], a, p)  BY DEF Mmu!Hits
  <2>2. Mmu!InUse(t)[k] \in Entries /\ e \in Entries  BY <2>1, PlacesAre, AmongHasPlace
  <2>3. <<a, p \div 2>> \in Mmu!Covers(Mmu!InUse(t)[k])  BY <2>1, <2>2, MatchesCover
  <2>4. <<a, p \div 2>> \in Mmu!Covers(e)  BY <2>2, MatchesCover
  <2>5. Apart(Mmu!InUse(t)[k], e)  BY <1>1, <2>1, PlacesApart
  <2> QED BY <2>3, <2>4, <2>5 DEF Apart
<1>4. hits = {i}  BY <1>2, <1>3
<1>5. i \in Nat  BY <1>1, PlacesAre
<1> HIDE DEF hits
<1>6. (CHOOSE k \in hits : \A j \in hits : k <= j) = i
  BY <1>4, <1>5
<1> QED BY <1>1, <1>4, <1>6 DEF hits

LEMMA TranslatesHit ==
  ASSUME NEW t, Shaped(t), AllApart(t), NEW a \in Asids, NEW p \in Pages, NEW store,
         NEW e, Among(t, e), Mmu!Matches(e, a, p)
  PROVE  Mmu!Translate(t, a, p, store) = Mmu!Through(e, p, store)
BY OnlyMatch DEF Mmu!Translate

(* What the run checks follows from the invariant.                               *)
LEMMA TlbHolds == ASSUME TlbInv PROVE Mmu!Coherent /\ Mmu!Unseen /\ Mmu!OneMatch
<1> USE DEF TlbInv
<1>1. Mmu!Coherent
  <2> SUFFICES ASSUME NEW p \in DOMAIN tlb.soft
               PROVE  Mmu!Translate(tlb, tlb.hi.asid, p, FALSE)
                        = [ret |-> "match", page |-> tlb.soft[p]]
    BY DEF Mmu!Coherent
  <2>1. PICK e : Source(tlb, p, e)  OBVIOUS
  <2>2. p \in Pages /\ tlb.hi.asid \in Asids  BY DEF Shaped
  <2>3. Among(tlb, e) /\ Mmu!Matches(e, tlb.hi.asid, p) /\ Shaped(tlb) /\ AllApart(tlb)
    BY <2>1 DEF Source
  <2>4. Mmu!Translate(tlb, tlb.hi.asid, p, FALSE) = Mmu!Through(e, p, FALSE)
    <3> DEFINE hits == Mmu!Hits(tlb, tlb.hi.asid, p)
    <3>1. hits # {} /\ Mmu!InUse(tlb)[CHOOSE i \in hits : \A j \in hits : i <= j] = e
      <4> HIDE DEF TlbInv
      <4> QED BY <2>2, <2>3, OnlyMatch
    <3> HIDE DEF TlbInv
    <3> QED BY <3>1 DEF Mmu!Translate
  <2> QED BY <2>1, <2>4 DEF Source
<1>2. Mmu!Unseen
  <2> SUFFICES ASSUME NEW x \in absent, NEW p \in Pages, p \div 2 = x[2]
               PROVE  Mmu!Translate(tlb, x[1], p, FALSE).ret = "nomatch"
    BY DEF Mmu!Unseen
  <2>1. x[1] \in Asids /\ x = <<x[1], p \div 2>>  OBVIOUS
  <2>2. ASSUME NEW e, Among(tlb, e) PROVE ~Mmu!Matches(e, x[1], p)
    <3>1. e \in Entries  BY <2>2, AmongHasPlace
    <3>2. x \notin Mmu!Covers(e)  BY <2>2
    <3> QED BY <2>1, <3>1, <3>2, MatchesCover
  <2> QED BY <2>2, TranslatesFree
<1>3. Mmu!OneMatch  BY PlacesApart DEF Mmu!OneMatch, Apart
<1> QED BY <1>1, <1>2, <1>3

----------------------------------------------------------------------------
LEMMA SourceFlushes ==
  ASSUME NEW t, NEW p, NEW e, Source(t, p, e)
  PROVE  Mmu!FlushPages(t, e, p)
<1>1. Mmu!Matches(e, t.hi.asid, p) /\ Mmu!Through(e, p, FALSE) = [ret |-> "match", page |-> t.soft[p]]
  BY DEF Source
<1>2. [ret |-> "match", page |-> t.soft[p]].ret = "match"  OBVIOUS
<1>3. Mmu!Through(e, p, FALSE).ret = "match"  BY <1>1, <1>2
<1>4. Mmu!Half(e, p).v
  <2>1. ~Mmu!Half(e, p).v => Mmu!Through(e, p, FALSE).ret = "invalid"  BY DEF Mmu!Through
  <2> QED BY <1>3, <2>1
<1> QED BY <1>1, <1>4 DEF Mmu!FlushPages, Mmu!Foreign, Mmu!Matches

LEMMA TlbStarts == ASSUME Mmu!Init PROVE TlbInv
<1> USE DEF Mmu!Init
<1>1. Mmu!Empty \in Entries
  BY TlbAssumption DEF Mmu!Empty, Entries, Mmu!Nowhere
<1>2. tlb.slots = [i \in 1 .. NbTlb |-> Mmu!Empty] /\ tlb.extra = <<>> /\ tlb.soft = <<>>
      /\ tlb \in [slots : {tlb.slots}, extra : {tlb.extra}, soft : {tlb.soft}, hi : {tlb.hi}]
      /\ tlb.hi = [asid |-> 0, pair |-> Mmu!Nowhere]
  OBVIOUS
<1>3. tlb.slots \in [1 .. NbTlb -> Entries] /\ tlb.extra \in Seq(Entries) /\ Len(tlb.extra) = 0
      /\ DOMAIN tlb.soft = {}
      /\ tlb.hi \in [asid : Asids, pair : Mmu!Pairs \cup {0, Mmu!Nowhere}]
  BY <1>1, <1>2, TlbAssumption
<1>4. Shaped(tlb)
  <2>1. NbTlb + Len(tlb.extra) <= MaxTlb /\ DOMAIN tlb.soft \subseteq Pages
    BY <1>3, TlbAssumption
  <2>2. tlb \in [slots : [1 .. NbTlb -> Entries], extra : Seq(Entries), soft : {tlb.soft},
                hi : [asid : Asids, pair : Mmu!Pairs \cup {0, Mmu!Nowhere}]]
    BY <1>2, <1>3
  <2> QED BY <2>1, <2>2 DEF Shaped
<1>5. \A e : Among(tlb, e) => Mmu!Covers(e) = {}
  <2>1. Mmu!Covers(Mmu!Empty) = {}  BY <1>1, NowhereCoversNothing DEF Mmu!Empty
  <2> QED BY <1>2, <1>3, <2>1 DEF Among
<1>6. AllApart(tlb)
  <2>1. \A i \in 1 .. NbTlb : Mmu!Covers(tlb.slots[i]) = {}  BY <1>5 DEF Among
  <2> QED BY <1>3, <2>1 DEF AllApart, Apart
<1> QED BY <1>3, <1>4, <1>5, <1>6 DEF TlbInv

(* A step that writes no entry, and may drop shadows from the end: QEMU's TLB      *)
(* keeps what does not come from them, and the guest learns what is true.          *)
LEMMA ShrinksKeep ==
  ASSUME TlbInv, Shaped(tlb'), tlb'.slots = tlb.slots, Len(tlb'.extra) <= Len(tlb.extra),
         \A j \in 1 .. Len(tlb'.extra) : tlb'.extra[j] = tlb.extra[j],
         \A p \in DOMAIN tlb'.soft :
           /\ p \in DOMAIN tlb.soft /\ tlb'.soft[p] = tlb.soft[p]
           /\ tlb'.hi.asid = tlb.hi.asid
           /\ \A e : Among(tlb, e) /\ Mmu!FlushPages(tlb, e, p) => Among(tlb', e),
         absent' \subseteq Asids \X Mmu!Pairs,
         \A x \in absent' : x \in absent \/ \A e : Among(tlb', e) => x \notin Mmu!Covers(e)
  PROVE  TlbInv'
<1>1. Len(tlb.extra) \in Nat /\ Len(tlb'.extra) \in Nat /\ Shaped(tlb)
  BY InUseIs DEF TlbInv
<1>2. \A e : Among(tlb', e) => Among(tlb, e)  BY <1>1 DEF Among
<1>3. AllApart(tlb')
  <2>1. AllApart(tlb)  BY DEF TlbInv
  <2>2. \A j \in 1 .. Len(tlb'.extra) : j \in 1 .. Len(tlb.extra)  BY <1>1
  <2> QED BY <2>1, <2>2 DEF AllApart
<1>4. ASSUME NEW p \in DOMAIN tlb'.soft PROVE \E e : Source(tlb', p, e)
  <2>1. PICK e : Source(tlb, p, e)  BY DEF TlbInv
  <2>2. Among(tlb, e)  BY <2>1 DEF Source
  <2>3. Mmu!FlushPages(tlb, e, p)  BY <2>1, SourceFlushes
  <2>4. Source(tlb', p, e)  BY <2>1, <2>2, <2>3 DEF Source
  <2> QED BY <2>4
<1>5. ASSUME NEW x \in absent', NEW e, Among(tlb', e) PROVE x \notin Mmu!Covers(e)
  BY <1>2, <1>5 DEF TlbInv
<1>6. (\A i \in 1 .. NbTlb : tlb'.slots[i].pair = Mmu!Nowhere) => Len(tlb'.extra) = 0
  BY <1>1 DEF TlbInv
<1> QED BY <1>3, <1>4, <1>5, <1>6 DEF TlbInv

(* An entry of the guest is replaced by one for what was unmapped or what the old   *)
(* one mapped; the old one may live on behind the others.                          *)
Behind(i, e) ==
  Len(tlb'.extra) = Len(tlb.extra) + 1 /\ tlb'.extra[Len(tlb'.extra)] = tlb.slots[i]
    /\ Mmu!Covers(e) \subseteq absent

LEMMA ReplacesKeep ==
  ASSUME TlbInv, NEW i \in 1 .. NbTlb, NEW e \in Entries, Shaped(tlb'),
         tlb'.slots = [tlb.slots EXCEPT ![i] = e], tlb'.hi = tlb.hi,
         Len(tlb'.extra) <= Len(tlb.extra) \/ Behind(i, e),
         \A j \in 1 .. Len(tlb'.extra) : j <= Len(tlb.extra) => tlb'.extra[j] = tlb.extra[j],
         \A p \in DOMAIN tlb'.soft :
           /\ p \in DOMAIN tlb.soft /\ tlb'.soft[p] = tlb.soft[p]
           /\ \A d : Among(tlb, d) /\ Mmu!FlushPages(tlb, d, p) => Among(tlb', d),
         Mmu!Covers(e) \subseteq absent \cup Mmu!Covers(tlb.slots[i]),
         absent' \subseteq Asids \X Mmu!Pairs,
         \A x \in absent' :
           /\ x \notin Mmu!Covers(e)
           /\ \/ x \in absent
              \/ x \in Mmu!Covers(tlb.slots[i]) /\ Len(tlb'.extra) <= Len(tlb.extra)
              \/ \A d : Among(tlb', d) => x \notin Mmu!Covers(d),
         (\A j \in 1 .. NbTlb : tlb'.slots[j].pair = Mmu!Nowhere) => Len(tlb'.extra) = 0
  PROVE  TlbInv'
<1> DEFINE n == Len(tlb.extra)
           m == Len(tlb'.extra)
           old == tlb.slots[i]
<1>1. n \in Nat /\ m \in Nat /\ Shaped(tlb) /\ AllApart(tlb)
  BY InUseIs DEF TlbInv
<1>2. /\ tlb'.slots[i] = e
      /\ \A j \in 1 .. NbTlb : j # i => tlb'.slots[j] = tlb.slots[j]
  BY <1>1 DEF Shaped
<1>3. \A j \in 1 .. m : (j <= n /\ tlb'.extra[j] = tlb.extra[j])
                       \/ (m = n + 1 /\ j = n + 1 /\ tlb'.extra[j] = old /\ Mmu!Covers(e) \subseteq absent)
  <2> HIDE DEF old
  <2>1. ASSUME NEW j \in 1 .. m, j > n
        PROVE  m = n + 1 /\ j = n + 1 /\ tlb'.extra[j] = old /\ Mmu!Covers(e) \subseteq absent
    <3>1. Behind(i, e)  BY <1>1, <2>1
    <3>2. m = n + 1 /\ tlb'.extra[m] = old /\ Mmu!Covers(e) \subseteq absent
      BY <3>1 DEF Behind, old
    <3>3. j = m  BY <1>1, <2>1, <3>2
    <3> QED BY <3>2, <3>3
  <2> QED BY <1>1, <2>1
<1> HIDE DEF n, m
<1>4. \A x \in absent : \A d : Among(tlb, d) => x \notin Mmu!Covers(d)  BY DEF TlbInv
<1>5. Among(tlb, old) /\ \A j \in 1 .. NbTlb : Among(tlb, tlb.slots[j])  BY DEF Among
<1>6. \A j \in 1 .. n : Among(tlb, tlb.extra[j])  BY DEF Among, n
<1>7. ASSUME NEW j \in 1 .. NbTlb, j # i
      PROVE  Apart(e, tlb.slots[j]) /\ Apart(tlb.slots[j], e) /\ Apart(old, tlb.slots[j])
             /\ Apart(tlb.slots[j], old)
  <2>1. Apart(old, tlb.slots[j]) /\ Apart(tlb.slots[j], old)  BY <1>1, <1>7 DEF AllApart
  <2> QED BY <1>4, <1>5, <2>1 DEF Apart
<1>8. ASSUME NEW j \in 1 .. n
      PROVE  Apart(e, tlb.extra[j]) /\ Apart(old, tlb.extra[j]) /\ Apart(tlb.extra[j], old)
  <2>1. Apart(old, tlb.extra[j])  BY <1>1, <1>8 DEF AllApart, n
  <2> QED BY <1>4, <1>6, <2>1 DEF Apart
<1>9. Mmu!Covers(e) \subseteq absent => Apart(e, old)  BY <1>4, <1>5 DEF Apart
<1>10. AllApart(tlb')
  <2>1. ASSUME NEW j \in 1 .. NbTlb, NEW k \in 1 .. NbTlb, j # k
        PROVE  Apart(tlb'.slots[j], tlb'.slots[k])
    <3>1. Apart(tlb.slots[j], tlb.slots[k])  BY <1>1, <2>1 DEF AllApart
    <3> HIDE DEF old
    <3> QED BY <1>2, <1>7, <2>1, <3>1
  <2>2. ASSUME NEW j \in 1 .. m, NEW k \in 1 .. m, j # k
        PROVE  Apart(tlb'.extra[j], tlb'.extra[k])
    <3>1. ASSUME j <= n, k <= n PROVE Apart(tlb.extra[j], tlb.extra[k])
      <4>1. j \in 1 .. n /\ k \in 1 .. n  BY <1>1, <3>1
      <4> QED BY <1>1, <2>2, <4>1 DEF AllApart, n
    <3>2. ASSUME j <= n PROVE Apart(tlb.extra[j], old)
      <4>1. j \in 1 .. n  BY <1>1, <3>2
      <4> QED BY <1>8, <4>1
    <3>3. ASSUME k <= n PROVE Apart(old, tlb.extra[k])
      <4>1. k \in 1 .. n  BY <1>1, <3>3
      <4> QED BY <1>8, <4>1
    <3> HIDE DEF old
    <3> QED BY <1>3, <2>2, <3>1, <3>2, <3>3
  <2>3. ASSUME NEW j \in 1 .. NbTlb, NEW k \in 1 .. m
        PROVE  Apart(tlb'.slots[j], tlb'.extra[k])
    <3>1. CASE k <= n /\ tlb'.extra[k] = tlb.extra[k]
      <4>1. k \in 1 .. n  BY <1>1, <3>1
      <4>2. Apart(tlb.slots[j], tlb.extra[k])  BY <1>1, <4>1 DEF AllApart, n
      <4> HIDE DEF old
      <4> QED BY <1>2, <1>8, <3>1, <4>1, <4>2
    <3>2. CASE tlb'.extra[k] = old /\ Mmu!Covers(e) \subseteq absent
      <4> HIDE DEF old
      <4> QED BY <1>2, <1>7, <1>9, <3>2
    <3> QED BY <1>3, <3>1, <3>2
  <2> QED BY <2>1, <2>2, <2>3 DEF AllApart, m
<1>11. ASSUME NEW p \in DOMAIN tlb'.soft PROVE \E d : Source(tlb', p, d)
  <2>1. PICK d : Source(tlb, p, d)  BY DEF TlbInv
  <2>2. Among(tlb, d)  BY <2>1 DEF Source
  <2>3. Mmu!FlushPages(tlb, d, p)  BY <2>1, SourceFlushes
  <2>4. Source(tlb', p, d)  BY <2>1, <2>2, <2>3 DEF Source
  <2> QED BY <2>4
<1>12. ASSUME NEW x \in absent', NEW d, Among(tlb', d) PROVE x \notin Mmu!Covers(d)
  <2>1. x \notin Mmu!Covers(e)  OBVIOUS
  <2>2. CASE x \in absent
    <3>1. d = e \/ Among(tlb, d)
      <4>1. CASE \E j \in 1 .. NbTlb : d = tlb'.slots[j]  BY <1>2, <1>5, <4>1
      <4>2. CASE \E j \in 1 .. m : d = tlb'.extra[j]  BY <1>1, <1>3, <1>5, <1>6, <4>2
      <4> QED BY <1>12, <4>1, <4>2 DEF Among, m
    <3> QED BY <1>4, <2>1, <2>2, <3>1
  <2>3. CASE x \in Mmu!Covers(old) /\ m <= n
    <3>1. CASE \E j \in 1 .. NbTlb : d = tlb'.slots[j]
      BY <1>2, <1>7, <2>1, <2>3, <3>1 DEF Apart
    <3>2. CASE \E j \in 1 .. m : d = tlb'.extra[j]
      <4>1. PICK j \in 1 .. m : d = tlb'.extra[j]  BY <3>2
      <4>2. j \in 1 .. n /\ d = tlb.extra[j]  BY <1>1, <1>3, <2>3, <4>1
      <4>3. Apart(old, tlb.extra[j])  BY <1>8, <4>2
      <4> QED BY <2>3, <4>2, <4>3 DEF Apart
    <3> QED BY <1>12, <3>1, <3>2 DEF Among, m
  <2>4. CASE \A c : Among(tlb', c) => x \notin Mmu!Covers(c)  BY <1>12, <2>4
  <2> QED BY <2>2, <2>3, <2>4 DEF n, m
<1> QED BY <1>10, <1>11, <1>12 DEF TlbInv

----------------------------------------------------------------------------
Hi == [asid : Asids, pair : Mmu!Pairs \cup {0, Mmu!Nowhere}]

LEMMA TlbFacts ==
  ASSUME TlbInv
  PROVE  /\ Shaped(tlb) /\ AllApart(tlb) /\ absent \subseteq Asids \X Mmu!Pairs
         /\ tlb \in [slots : {tlb.slots}, extra : {tlb.extra}, soft : {tlb.soft}, hi : {tlb.hi}]
         /\ tlb.slots \in [1 .. NbTlb -> Entries] /\ tlb.extra \in Seq(Entries) /\ tlb.hi \in Hi
         /\ Len(tlb.extra) \in Nat /\ NbTlb + Len(tlb.extra) <= MaxTlb
         /\ DOMAIN tlb.soft \subseteq Pages
<1>1. Shaped(tlb) /\ AllApart(tlb) /\ absent \subseteq Asids \X Mmu!Pairs  BY DEF TlbInv
<1>2. Len(tlb.extra) \in Nat  BY <1>1, InUseIs
<1>3. tlb \in [slots : {tlb.slots}, extra : {tlb.extra}, soft : {tlb.soft}, hi : {tlb.hi}]
  BY <1>1 DEF Shaped
<1> QED BY <1>1, <1>2, <1>3 DEF Shaped, Hi

(* A TLB from its parts.                                                        *)
Shares(slots, extra, soft, hi) ==
  /\ slots \in [1 .. NbTlb -> Entries] /\ extra \in Seq(Entries) /\ hi \in Hi
  /\ NbTlb + Len(extra) <= MaxTlb /\ DOMAIN soft \subseteq Pages

LEMMA TlbParts == ASSUME TlbInv PROVE Shares(tlb.slots, tlb.extra, tlb.soft, tlb.hi)
BY TlbFacts DEF Shares

LEMMA ShapedFrom ==
  ASSUME NEW slots, NEW extra, NEW soft, NEW hi, Shares(slots, extra, soft, hi),
         NEW t \in [slots : {slots}, extra : {extra}, soft : {soft}, hi : {hi}]
  PROVE  /\ Shaped(t) /\ t.slots = slots /\ t.extra = extra /\ t.soft = soft /\ t.hi = hi
<1>1. t.slots = slots /\ t.extra = extra /\ t.soft = soft /\ t.hi = hi  OBVIOUS
<1>2. t \in [slots : [1 .. NbTlb -> Entries], extra : Seq(Entries), soft : {t.soft},
             hi : [asid : Asids, pair : Mmu!Pairs \cup {0, Mmu!Nowhere}]]
  BY <1>1 DEF Hi, Shares
<1> QED BY <1>1, <1>2 DEF Shaped, Shares

LEMMA PairsAreNumbers == Mmu!Pairs \subseteq Nat
<1> SUFFICES ASSUME NEW q \in Mmu!Pairs PROVE q \in Nat
  OBVIOUS
<1>1. PICK p \in Pages : q = p \div 2  BY DEF Mmu!Pairs
<1>2. p \in Nat  BY TlbAssumption
<1> QED BY <1>1, <1>2, HalfOf

LEMMA PairsAre == \A p \in Pages : p \div 2 \in Mmu!Pairs
BY DEF Mmu!Pairs

LEMMA WriteHiKeeps ==
  ASSUME TlbInv, NEW a \in Asids, NEW q \in Mmu!Pairs \cup {Mmu!Nowhere}, Mmu!WriteHi(a, q)
  PROVE  TlbInv'
<1> DEFINE hi == [asid |-> a, pair |-> q]
           soft == IF a # tlb.hi.asid THEN <<>> ELSE tlb.soft
<1>1. absent' = absent /\ tlb' = [tlb EXCEPT !.hi = hi, !.soft = soft]
  BY DEF Mmu!WriteHi
<1>2. hi \in Hi  BY DEF Hi
<1>3. DOMAIN soft \subseteq DOMAIN tlb.soft
      /\ \A p \in DOMAIN soft : soft[p] = tlb.soft[p] /\ hi.asid = tlb.hi.asid
  BY TlbFacts DEF Hi
<1> HIDE DEF hi, soft
<1>4. tlb' \in [slots : {tlb.slots}, extra : {tlb.extra}, soft : {soft}, hi : {hi}]
  BY <1>1, TlbFacts
<1>5. Shaped(tlb') /\ tlb'.slots = tlb.slots /\ tlb'.extra = tlb.extra /\ tlb'.soft = soft
      /\ tlb'.hi = hi
  <2>1. Shares(tlb.slots, tlb.extra, soft, hi)  BY <1>2, <1>3, TlbParts DEF Shares
  <2> QED BY <2>1, <1>4, ShapedFrom
<1>6. \A e : Among(tlb, e) => Among(tlb', e)  BY <1>5 DEF Among
<1> QED BY <1>1, <1>3, <1>5, <1>6, TlbFacts, ShrinksKeep

(* A page that is found is found in the entry that matches it.                    *)
LEMMA TranslatesSome ==
  ASSUME NEW t, Shaped(t), AllApart(t), NEW a \in Asids, NEW p \in Pages, NEW store,
         Mmu!Translate(t, a, p, store).ret # "nomatch"
  PROVE  \E e : /\ Among(t, e) /\ Mmu!Matches(e, a, p)
                /\ Mmu!Translate(t, a, p, store) = Mmu!Through(e, p, store)
<1>1. PICK e : Among(t, e) /\ Mmu!Matches(e, a, p)  BY TranslatesFree
<1> QED BY <1>1, TranslatesHit

LEMMA AccessKeeps ==
  ASSUME TlbInv, NEW p \in Pages, NEW store \in BOOLEAN, Mmu!Access(p, store)
  PROVE  TlbInv'
<1> DEFINE r == Mmu!Translate(tlb, tlb.hi.asid, p, store)
<1>1. tlb.hi.asid \in Asids /\ tlb.hi \in Hi  BY TlbFacts DEF Hi
<1>2. CASE r.ret = "match"
  <2> DEFINE soft == [q \in DOMAIN tlb.soft \cup {p} |-> IF q = p THEN r.page ELSE tlb.soft[q]]
  <2>1. absent' = absent /\ tlb' = [tlb EXCEPT !.soft = soft]
    BY <1>2 DEF Mmu!Access
  <2>2. PICK e : /\ Among(tlb, e) /\ Mmu!Matches(e, tlb.hi.asid, p) /\ r = Mmu!Through(e, p, store)
    BY <1>1, <1>2, TlbFacts, TranslatesSome
  <2> DEFINE hit == Mmu!Half(e, p)
             page == [frame |-> hit.pfn + (p % e.span), write |-> hit.d]
  <2>3. Mmu!Through(e, p, store).ret = "match"  BY <1>2, <2>2
  <2>4. hit.v /\ ~(store /\ ~hit.d)  BY <2>3 DEF Mmu!Through
  <2>5. r = [ret |-> "match", page |-> page] /\ Mmu!Through(e, p, FALSE) = [ret |-> "match", page |-> page]
    BY <2>2, <2>4 DEF Mmu!Through
  <2>6. r.page = page
    <3>1. [ret |-> "match", page |-> page].page = page  OBVIOUS
    <3> HIDE DEF page, r
    <3> QED BY <2>5, <3>1
  <2>7. Mmu!Through(e, p, FALSE) = [ret |-> "match", page |-> r.page]  BY <2>5, <2>6
  <2> HIDE DEF page, hit, r
  <2>8. DOMAIN soft = DOMAIN tlb.soft \cup {p} /\ soft[p] = r.page
        /\ \A q \in DOMAIN tlb.soft : q # p => soft[q] = tlb.soft[q]
    OBVIOUS
  <2> HIDE DEF soft
  <2>9. tlb' \in [slots : {tlb.slots}, extra : {tlb.extra}, soft : {soft}, hi : {tlb.hi}]
    BY <2>1, TlbFacts
  <2>10. Shaped(tlb') /\ tlb'.slots = tlb.slots /\ tlb'.extra = tlb.extra /\ tlb'.soft = soft
         /\ tlb'.hi = tlb.hi
    <3>1. Shares(tlb.slots, tlb.extra, soft, tlb.hi)  BY <2>8, TlbParts DEF Shares
    <3> QED BY <3>1, <2>9, ShapedFrom
  <2>11. \A d : Among(tlb', d) <=> Among(tlb, d)  BY <2>10 DEF Among
  <2>12. ASSUME NEW q \in DOMAIN tlb'.soft PROVE \E d : Source(tlb', q, d)
    <3>1. CASE q = p
      <4>1. Source(tlb', q, e)  BY <2>2, <2>7, <2>8, <2>10, <2>11, <3>1 DEF Source
      <4> QED BY <4>1
    <3>2. CASE q # p
      <4>1. q \in DOMAIN tlb.soft /\ soft[q] = tlb.soft[q]  BY <2>8, <2>10, <3>2
      <4>2. PICK d : Source(tlb, q, d)  BY <4>1 DEF TlbInv
      <4>3. Source(tlb', q, d)  BY <2>10, <2>11, <4>1, <4>2 DEF Source
      <4> QED BY <4>3
    <3> QED BY <3>1, <3>2
  <2>13. AllApart(tlb')  BY <2>10, TlbFacts DEF AllApart
  <2> QED BY <2>1, <2>10, <2>11, <2>12, <2>13 DEF TlbInv
<1>3. CASE r.ret # "match"
  <2> DEFINE x == <<tlb.hi.asid, p \div 2>>
             hi == [tlb.hi EXCEPT !.pair = p \div 2]
  <2>1. tlb' = [tlb EXCEPT !.hi.pair = p \div 2]
        /\ absent' = IF r.ret = "nomatch" THEN absent \cup {x} ELSE absent
    BY <1>3 DEF Mmu!Access
  <2>2. hi \in Hi /\ hi.asid = tlb.hi.asid  BY <1>1, PairsAre DEF Hi
  <2>3. tlb' = [tlb EXCEPT !.hi = hi]  BY <2>1, TlbFacts
  <2>4. ASSUME r.ret = "nomatch", NEW e, Among(tlb, e) PROVE x \notin Mmu!Covers(e)
    <3> SUFFICES ASSUME x \in Mmu!Covers(e) PROVE FALSE
      OBVIOUS
    <3>1. e \in Entries  BY <2>4, TlbFacts, AmongHasPlace
    <3>2. Mmu!Matches(e, tlb.hi.asid, p)  BY <1>1, <3>1, MatchesCover
    <3>3. r = Mmu!Through(e, p, store)  BY <1>1, <2>4, <3>2, TlbFacts, TranslatesHit
    <3>4. Mmu!Through(e, p, store).ret # "nomatch"  BY DEF Mmu!Through
    <3> QED BY <2>4, <3>3, <3>4
  <2>5. x \in Asids \X Mmu!Pairs  BY <1>1, PairsAre
  <2> HIDE DEF hi, r, x
  <2>6. tlb' \in [slots : {tlb.slots}, extra : {tlb.extra}, soft : {tlb.soft}, hi : {hi}]
    BY <2>3, TlbFacts
  <2>7. Shaped(tlb') /\ tlb'.slots = tlb.slots /\ tlb'.extra = tlb.extra /\ tlb'.soft = tlb.soft
        /\ tlb'.hi = hi
    <3>1. Shares(tlb.slots, tlb.extra, tlb.soft, hi)  BY <2>2, TlbParts DEF Shares
    <3> QED BY <3>1, <2>6, ShapedFrom
  <2>8. \A e : Among(tlb', e) <=> Among(tlb, e)  BY <2>7 DEF Among
  <2>9. absent' \subseteq Asids \X Mmu!Pairs  BY <2>1, <2>5, TlbFacts
  <2>10. \A y \in absent' : y \in absent \/ \A e : Among(tlb', e) => y \notin Mmu!Covers(e)
    BY <2>1, <2>4, <2>8
  <2> QED BY <2>2, <2>7, <2>8, <2>9, <2>10, TlbFacts, ShrinksKeep
<1> QED BY <1>2, <1>3

(* Dropping the shadows from a place on.                                         *)
LEMMA FlushesExtra ==
  ASSUME TlbInv, NEW n \in 0 .. Len(tlb.extra)
  PROVE  LET u == Mmu!FlushExtra(tlb, n)
         IN  /\ u \in [slots : {tlb.slots}, extra : {u.extra}, soft : {u.soft}, hi : {tlb.hi}]
             /\ Shaped(u) /\ Len(u.extra) = n
             /\ \A j \in 1 .. n : u.extra[j] = tlb.extra[j]
             /\ \A p \in DOMAIN u.soft :
                  /\ p \in DOMAIN tlb.soft /\ u.soft[p] = tlb.soft[p]
                  /\ \A j \in n + 1 .. Len(tlb.extra) : ~Mmu!FlushPages(tlb, tlb.extra[j], p)
<1> DEFINE u == Mmu!FlushExtra(tlb, n)
           extra == SubSeq(tlb.extra, 1, n)
           kept == {p \in DOMAIN tlb.soft : \A j \in n + 1 .. Len(tlb.extra) :
                                              ~Mmu!FlushPages(tlb, tlb.extra[j], p)}
           soft == [p \in kept |-> tlb.soft[p]]
<1>1. u = [tlb EXCEPT !.extra = extra, !.soft = soft]
  BY DEF Mmu!FlushExtra, Mmu!Restrict
<1>2. n \in Nat /\ n <= Len(tlb.extra) /\ tlb.extra \in Seq(Entries) /\ Len(tlb.extra) \in Nat
  BY TlbFacts
<1>3. extra \in Seq(Entries) /\ Len(extra) = n /\ \A j \in 1 .. n : extra[j] = tlb.extra[j]
  <2> DEFINE X == tlb.extra
  <2>1. X \in Seq(Entries) /\ Len(X) \in Nat /\ n <= Len(X)  BY <1>2
  <2> HIDE DEF X
  <2>2. SubSeq(X, 1, n) \in Seq(Entries)  BY <1>2, <2>1
  <2>3. Len(SubSeq(X, 1, n)) = n  BY <1>2, <2>1
  <2>4. \A j \in 1 .. n : SubSeq(X, 1, n)[j] = X[j]  BY <1>2, <2>1
  <2> QED BY <2>2, <2>3, <2>4 DEF X
<1>4. \A p \in DOMAIN soft :
        /\ p \in DOMAIN tlb.soft /\ soft[p] = tlb.soft[p]
        /\ \A j \in n + 1 .. Len(tlb.extra) : ~Mmu!FlushPages(tlb, tlb.extra[j], p)
  OBVIOUS
<1> HIDE DEF u, extra, soft
<1>5. u \in [slots : {tlb.slots}, extra : {extra}, soft : {soft}, hi : {tlb.hi}]
  BY <1>1, TlbFacts
<1>6. DOMAIN soft \subseteq Pages  BY <1>4, TlbFacts
<1>7. NbTlb + Len(extra) <= MaxTlb  BY <1>2, <1>3, TlbFacts, TlbAssumption
<1>8. Shaped(u) /\ u.extra = extra /\ u.soft = soft
  <2>1. Shares(tlb.slots, extra, soft, tlb.hi)  BY <1>3, <1>6, <1>7, TlbParts DEF Shares
  <2> QED BY <2>1, <1>5, ShapedFrom
<1> QED BY <1>3, <1>4, <1>5, <1>8 DEF u

(* What the dropped shadows mapped is no longer mapped, so the rest still is.      *)
LEMMA DropsOthers ==
  ASSUME NEW n \in 0 .. Len(tlb.extra), Len(tlb.extra) \in Nat, NEW u, u.slots = tlb.slots,
         Len(u.extra) = n, \A j \in 1 .. n : u.extra[j] = tlb.extra[j], NEW p,
         \A j \in n + 1 .. Len(tlb.extra) : ~Mmu!FlushPages(tlb, tlb.extra[j], p),
         NEW e, Among(tlb, e), Mmu!FlushPages(tlb, e, p)
  PROVE  Among(u, e)
<1>1. CASE \E i \in 1 .. NbTlb : e = tlb.slots[i]  BY <1>1 DEF Among
<1>2. CASE \E j \in 1 .. Len(tlb.extra) : e = tlb.extra[j]
  <2>1. PICK j \in 1 .. Len(tlb.extra) : e = tlb.extra[j]  BY <1>2
  <2>2. j \notin n + 1 .. Len(tlb.extra)  BY <2>1
  <2>3. j \in 1 .. n  BY <2>2
  <2> QED BY <2>1, <2>3 DEF Among
<1> QED BY <1>1, <1>2 DEF Among

LEMMA ProbeKeeps == ASSUME TlbInv, Mmu!Probe PROVE TlbInv'
<1> DEFINE X == tlb.extra
           hits == {i \in DOMAIN X : Mmu!Matches(X[i], tlb.hi.asid, 2 * tlb.hi.pair)}
           first == Mmu!FirstShadow(tlb)
           n == first - 1
           x == <<tlb.hi.asid, tlb.hi.pair>>
<1>1. /\ \A i \in DOMAIN tlb.slots : ~Mmu!Matches(tlb.slots[i], tlb.hi.asid, 2 * tlb.hi.pair)
      /\ tlb' = Mmu!FlushExtra(tlb, n)
      /\ absent' = absent \cup ({x} \cap (Asids \X Mmu!Pairs))
  BY DEF Mmu!Probe, Mmu!Probed
<1>2. Len(X) \in Nat /\ DOMAIN X = 1 .. Len(X)  BY TlbFacts
<1>3. n \in 0 .. Len(X) /\ \A j \in 1 .. n : ~Mmu!Matches(X[j], tlb.hi.asid, 2 * tlb.hi.pair)
  <2>1. CASE hits = {}
    <3>1. first = Len(X) + 1  BY <2>1 DEF Mmu!FirstShadow
    <3> HIDE DEF X, first
    <3>2. n = Len(X)  BY <1>2, <3>1
    <3> HIDE DEF n
    <3> QED BY <1>2, <2>1, <3>2
  <2>2. CASE hits # {}
    <3>1. first = CHOOSE i \in hits : \A j \in hits : i <= j
      BY <2>2 DEF Mmu!FirstShadow
    <3>2. hits \in SUBSET Nat  BY <1>2
    <3> HIDE DEF first
    <3>3. \E i \in hits : \A j \in hits : i <= j
      <4> HIDE DEF hits
      <4> QED BY <2>2, <3>2, LeastOf
    <3>4. first \in hits /\ \A j \in hits : first <= j
      <4> HIDE DEF hits
      <4> QED BY <3>1, <3>3
    <3>5. first \in 1 .. Len(X)  BY <1>2, <3>4
    <3>6. n \in 0 .. Len(X) /\ \A j \in 1 .. n : j \in 1 .. Len(X) /\ ~(first <= j)
      <4> HIDE DEF X
      <4> QED BY <1>2, <3>5
    <3>7. \A j \in 1 .. n : j \notin hits
      <4> HIDE DEF hits, n
      <4> QED BY <3>4, <3>6
    <3> QED BY <1>2, <3>6, <3>7
  <2> QED BY <2>1, <2>2
<1> HIDE DEF n
<1> DEFINE u == Mmu!FlushExtra(tlb, n)
<1>4. /\ u \in [slots : {tlb.slots}, extra : {u.extra}, soft : {u.soft}, hi : {tlb.hi}]
      /\ Shaped(u) /\ Len(u.extra) = n
      /\ \A j \in 1 .. n : u.extra[j] = tlb.extra[j]
      /\ \A p \in DOMAIN u.soft :
           /\ p \in DOMAIN tlb.soft /\ u.soft[p] = tlb.soft[p]
           /\ \A j \in n + 1 .. Len(tlb.extra) : ~Mmu!FlushPages(tlb, tlb.extra[j], p)
  BY <1>3, FlushesExtra
<1>5. tlb' = u  BY <1>1
<1> HIDE DEF u
<1>6. Shaped(tlb') /\ tlb'.slots = tlb.slots /\ tlb'.hi = tlb.hi /\ Len(tlb'.extra) = n
      /\ \A j \in 1 .. n : tlb'.extra[j] = tlb.extra[j]
  BY <1>4, <1>5
<1>7. n \in Nat /\ n <= Len(tlb.extra)  BY <1>2, <1>3
<1>8. ASSUME NEW p \in DOMAIN tlb'.soft, NEW e, Among(tlb, e), Mmu!FlushPages(tlb, e, p)
      PROVE  Among(tlb', e)
  BY <1>2, <1>4, <1>5, <1>6, <1>7, <1>8, DropsOthers
<1>9. ASSUME NEW y \in absent', y \notin absent, NEW e, Among(tlb', e) PROVE y \notin Mmu!Covers(e)
  <2>1. y = x  BY <1>1, <1>9
  <2>2. ~Mmu!Matches(e, tlb.hi.asid, 2 * tlb.hi.pair)
    <3>1. CASE \E i \in 1 .. NbTlb : e = tlb'.slots[i]
      BY <1>1, <1>6, <3>1, TlbFacts
    <3>2. CASE \E j \in 1 .. n : e = tlb'.extra[j]
      BY <1>3, <1>6, <3>2
    <3> QED BY <1>6, <1>9, <3>1, <3>2 DEF Among
  <2> QED BY <2>1, <2>2 DEF Mmu!Covers
<1>10. absent' \subseteq Asids \X Mmu!Pairs  BY <1>1, TlbFacts
<1>11. \A p \in DOMAIN tlb'.soft : p \in DOMAIN tlb.soft /\ tlb'.soft[p] = tlb.soft[p]
  BY <1>4, <1>5
<1> QED BY <1>6, <1>7, <1>8, <1>9, <1>10, <1>11, ShrinksKeep

LEMMA ResetsTlb == ASSUME TlbInv, Mmu!Reset PROVE TlbInv'
<1> DEFINE hi == [asid |-> 0, pair |-> 0]
<1>1. absent' = {} /\ tlb' = [[tlb EXCEPT !.soft = <<>>, !.extra = <<>>] EXCEPT !.hi = hi]
  BY DEF Mmu!Reset, Mmu!FlushAll
<1>2. hi \in Hi  BY TlbAssumption DEF Hi
<1> HIDE DEF hi
<1>3. tlb' \in [slots : {tlb.slots}, extra : {<<>>}, soft : {<<>>}, hi : {hi}]
  BY <1>1, TlbFacts
<1>4. <<>> \in Seq(Entries) /\ Len(<<>>) = 0 /\ DOMAIN <<>> = {}  OBVIOUS
<1>5. NbTlb + Len(<<>>) <= MaxTlb /\ DOMAIN <<>> \subseteq Pages  BY <1>4, TlbAssumption
<1>6. Shaped(tlb') /\ tlb'.slots = tlb.slots /\ tlb'.extra = <<>> /\ tlb'.soft = <<>>
  <2>1. Shares(tlb.slots, <<>>, <<>>, hi)  BY <1>2, <1>4, <1>5, TlbParts DEF Shares
  <2> QED BY <2>1, <1>3, ShapedFrom
<1>7. Len(tlb'.extra) <= Len(tlb.extra) /\ Len(tlb'.extra) = 0  BY <1>4, <1>6, TlbFacts
<1>8. DOMAIN tlb'.soft = {}  BY <1>4, <1>6
<1> QED BY <1>1, <1>6, <1>7, <1>8, ShrinksKeep

LEMMA TlbRKeeps == ASSUME TlbInv, NEW i \in 1 .. NbTlb, Mmu!TlbR(i) PROVE TlbInv'
<1> DEFINE e == tlb.slots[i]
           hi == [asid |-> e.asid, pair |-> e.pair]
           u == Mmu!FlushExtra(tlb, 0)
<1>1. absent' = absent
      /\ tlb' = [IF e.asid # tlb.hi.asid THEN Mmu!FlushAll(tlb) ELSE u EXCEPT !.hi = hi]
  BY DEF Mmu!TlbR
<1>2. e \in Entries  BY TlbFacts
<1>3. hi \in Hi /\ hi.asid = e.asid  BY <1>2 DEF Hi, Entries
<1>4. CASE e.asid # tlb.hi.asid
  <2> HIDE DEF hi
  <2>1. tlb' = [[tlb EXCEPT !.soft = <<>>, !.extra = <<>>] EXCEPT !.hi = hi]
    BY <1>1, <1>4 DEF Mmu!FlushAll
  <2>3. tlb' \in [slots : {tlb.slots}, extra : {<<>>}, soft : {<<>>}, hi : {hi}]
    BY <2>1, TlbFacts
  <2>4. <<>> \in Seq(Entries) /\ Len(<<>>) = 0 /\ DOMAIN <<>> = {}  OBVIOUS
  <2>5. NbTlb + Len(<<>>) <= MaxTlb /\ DOMAIN <<>> \subseteq Pages  BY <2>4, TlbAssumption
  <2>6. Shaped(tlb') /\ tlb'.slots = tlb.slots /\ tlb'.extra = <<>> /\ tlb'.soft = <<>>
    <3>1. Shares(tlb.slots, <<>>, <<>>, hi)  BY <1>3, <2>4, <2>5, TlbParts DEF Shares
    <3> QED BY <3>1, <2>3, ShapedFrom
  <2>7. Len(tlb'.extra) <= Len(tlb.extra) /\ Len(tlb'.extra) = 0  BY <2>4, <2>6, TlbFacts
  <2>8. DOMAIN tlb'.soft = {}  BY <2>4, <2>6
  <2> QED BY <1>1, <2>6, <2>7, <2>8, TlbFacts, ShrinksKeep
<1>5. CASE e.asid = tlb.hi.asid
  <2>1. tlb' = [u EXCEPT !.hi = hi]  BY <1>1, <1>5
  <2>2. Len(tlb.extra) \in Nat /\ 0 \in 0 .. Len(tlb.extra)  BY TlbFacts
  <2>3. /\ u \in [slots : {tlb.slots}, extra : {u.extra}, soft : {u.soft}, hi : {tlb.hi}]
        /\ Shaped(u) /\ Len(u.extra) = 0
        /\ \A j \in 1 .. 0 : u.extra[j] = tlb.extra[j]
        /\ \A p \in DOMAIN u.soft :
             /\ p \in DOMAIN tlb.soft /\ u.soft[p] = tlb.soft[p]
             /\ \A j \in 0 + 1 .. Len(tlb.extra) : ~Mmu!FlushPages(tlb, tlb.extra[j], p)
    BY <2>2, FlushesExtra
  <2> HIDE DEF u, hi
  <2>4. tlb' \in [slots : {tlb.slots}, extra : {u.extra}, soft : {u.soft}, hi : {hi}]
    BY <2>1, <2>3
  <2>5. u.extra \in Seq(Entries) /\ NbTlb + Len(u.extra) <= MaxTlb /\ DOMAIN u.soft \subseteq Pages
    BY <2>3 DEF Shaped
  <2>6. Shaped(tlb') /\ tlb'.slots = tlb.slots /\ tlb'.extra = u.extra /\ tlb'.soft = u.soft
        /\ tlb'.hi = hi
    <3>1. Shares(tlb.slots, u.extra, u.soft, hi)  BY <1>3, <2>5, TlbParts DEF Shares
    <3> QED BY <3>1, <2>4, ShapedFrom
  <2>7. Len(tlb'.extra) = 0 /\ Len(tlb'.extra) <= Len(tlb.extra)  BY <2>2, <2>3, <2>6
  <2>8. ASSUME NEW p \in DOMAIN tlb'.soft, NEW d, Among(tlb, d), Mmu!FlushPages(tlb, d, p)
        PROVE  Among(tlb', d)
    <3>1. \A j \in 0 + 1 .. Len(tlb.extra) : ~Mmu!FlushPages(tlb, tlb.extra[j], p)
      BY <2>3, <2>6, <2>8
    <3>2. \A j \in 1 .. 0 : tlb'.extra[j] = tlb.extra[j]  OBVIOUS
    <3> QED BY <2>2, <2>6, <2>7, <2>8, <3>1, <3>2, DropsOthers
  <2>9. \A p \in DOMAIN tlb'.soft : /\ p \in DOMAIN tlb.soft /\ tlb'.soft[p] = tlb.soft[p]
                                    /\ tlb'.hi.asid = tlb.hi.asid
    BY <1>3, <1>5, <2>3, <2>6
  <2> QED BY <1>1, <2>6, <2>7, <2>8, <2>9, TlbFacts, ShrinksKeep
<1> QED BY <1>4, <1>5

(* An entry that the guest fills has its ASID and a pair of pages.                *)
LEMMA FillsEntry ==
  ASSUME NEW t, t.hi \in Hi, t.hi.pair # Mmu!Nowhere, NEW span \in Spans, NEW lo \in TlbLows
  PROVE  Mmu!Filled(t, span, lo) \in Entries
         /\ Mmu!Filled(t, span, lo).pair # Mmu!Nowhere
<1>1. t.hi.asid \in Asids /\ t.hi.pair \in Nat /\ t.hi.pair \in Mmu!Pairs \cup {0}
  <2>1. t.hi.asid \in Asids /\ t.hi.pair \in Mmu!Pairs \cup {0, Mmu!Nowhere}  BY DEF Hi
  <2>2. t.hi.pair \in Mmu!Pairs \cup {0}  BY <2>1
  <2>3. t.hi.pair \in Nat
    <3>1. CASE t.hi.pair = 0  BY <3>1
    <3>2. CASE t.hi.pair # 0
      <4>1. t.hi.pair \in Mmu!Pairs  BY <2>2, <3>2
      <4> QED BY <4>1, PairsAreNumbers
    <3> QED BY <3>1, <3>2
  <2> QED BY <2>1, <2>2, <2>3
<1>2. span \in Nat \ {0} /\ lo \in [1 .. 2 -> [v : BOOLEAN, d : BOOLEAN, g : BOOLEAN, pfn : Nat]]
  BY TlbAssumption
<1> DEFINE l == [n \in 0 .. 1 |-> [v |-> lo[n + 1].v, d |-> lo[n + 1].d,
                                  pfn |-> lo[n + 1].pfn - (lo[n + 1].pfn % span)]]
<1>3. l \in [0 .. 1 -> [v : BOOLEAN, d : BOOLEAN, pfn : Int]]
  <2> SUFFICES ASSUME NEW n \in 0 .. 1
               PROVE  [v |-> lo[n + 1].v, d |-> lo[n + 1].d,
                       pfn |-> lo[n + 1].pfn - (lo[n + 1].pfn % span)]
                        \in [v : BOOLEAN, d : BOOLEAN, pfn : Int]
    OBVIOUS
  <2>1. lo[n + 1] \in [v : BOOLEAN, d : BOOLEAN, g : BOOLEAN, pfn : Nat]  BY <1>2
  <2>2. lo[n + 1].pfn % span \in Int  BY <1>2, <2>1
  <2> QED BY <2>1, <2>2
<1>4. lo[1].g \in BOOLEAN /\ lo[2].g \in BOOLEAN  BY <1>2
<1>5. Mmu!Filled(t, span, lo) = [asid |-> t.hi.asid, pair |-> t.hi.pair, span |-> span,
                                 g |-> lo[1].g /\ lo[2].g, lo |-> l]
  BY DEF Mmu!Filled
<1> HIDE DEF l
<1> QED BY <1>1, <1>2, <1>3, <1>4, <1>5 DEF Entries

(* An entry that is written over what r4k_invalidate_tlb leaves of a TLB.           *)
LEMMA InvalidatesEntry ==
  ASSUME NEW u, Shaped(u), u.slots = tlb.slots, u.hi = tlb.hi, NEW old, NEW i \in 1 .. NbTlb,
         NEW e \in Entries,
         u \in [slots : {u.slots}, extra : {u.extra}, soft : {u.soft}, hi : {u.hi}],
         tlb' = [Mmu!Invalidate(u, old) EXCEPT !.slots[i] = e]
  PROVE  /\ Shaped(tlb') /\ tlb'.slots = [tlb.slots EXCEPT ![i] = e] /\ tlb'.extra = u.extra
         /\ tlb'.hi = tlb.hi
         /\ \A p \in DOMAIN tlb'.soft : /\ p \in DOMAIN u.soft /\ tlb'.soft[p] = u.soft[p]
                                        /\ ~Mmu!FlushPages(tlb, old, p)
<1> DEFINE kept == {p \in DOMAIN u.soft : ~Mmu!FlushPages(u, old, p)}
           soft == [p \in kept |-> u.soft[p]]
           slots == [tlb.slots EXCEPT ![i] = e]
<1>1. Mmu!Invalidate(u, old) = [u EXCEPT !.soft = soft]
  BY DEF Mmu!Invalidate, Mmu!Restrict
<1>2. \A p \in DOMAIN soft : /\ p \in DOMAIN u.soft /\ soft[p] = u.soft[p]
                             /\ ~Mmu!FlushPages(u, old, p)
  OBVIOUS
<1>3. /\ u.slots \in [1 .. NbTlb -> Entries] /\ u.extra \in Seq(Entries) /\ u.hi \in Hi
      /\ NbTlb + Len(u.extra) <= MaxTlb /\ DOMAIN u.soft \subseteq Pages
  BY DEF Shaped, Hi
<1> HIDE DEF soft
<1>4. tlb' = [[u EXCEPT !.soft = soft] EXCEPT !.slots = slots]
  BY <1>1
<1>5. slots \in [1 .. NbTlb -> Entries]  BY <1>3
<1> HIDE DEF slots
<1>6. tlb' \in [slots : {slots}, extra : {u.extra}, soft : {soft}, hi : {u.hi}]
  BY <1>4
<1>7. DOMAIN soft \subseteq Pages  BY <1>2, <1>3
<1>8. Shaped(tlb') /\ tlb'.slots = slots /\ tlb'.extra = u.extra /\ tlb'.soft = soft
      /\ tlb'.hi = u.hi
  <2>1. Shares(slots, u.extra, soft, u.hi)  BY <1>3, <1>5, <1>7 DEF Shares
  <2> QED BY <1>6, <2>1, ShapedFrom
<1>9. \A p : Mmu!FlushPages(u, old, p) <=> Mmu!FlushPages(tlb, old, p)
  BY DEF Mmu!FlushPages, Mmu!Foreign
<1> QED BY <1>2, <1>8, <1>9 DEF slots

(* What TLBWR replaces lives on, or QEMU's TLB forgets it.                          *)
LEMMA TlbWrKeeps ==
  ASSUME TlbInv, NEW i \in 1 .. NbTlb, NEW span \in Spans, NEW lo \in TlbLows, Mmu!TlbWr(i, span, lo)
  PROVE  TlbInv'
<1> DEFINE e == Mmu!Filled(tlb, span, lo)
           old == tlb.slots[i]
           n == Len(tlb.extra)
<1>1. /\ Mmu!MayWrite(e, Mmu!Empty) /\ tlb.hi.pair # Mmu!Nowhere
      /\ tlb' = [Mmu!InvalidateOrShadow(tlb, old) EXCEPT !.slots[i] = e]
      /\ absent' = absent \ Mmu!Covers(e)
  BY DEF Mmu!TlbWr, Mmu!Randomised
<1>2. e \in Entries /\ e.pair # Mmu!Nowhere  BY <1>1, TlbFacts, FillsEntry
<1> HIDE DEF e
<1>3. Mmu!Covers(e) \subseteq absent
  <2>1. Mmu!Empty \in Entries /\ Mmu!Empty.pair = Mmu!Nowhere
    BY TlbAssumption DEF Mmu!Empty, Mmu!Nowhere, Entries
  <2>2. Mmu!Covers(Mmu!Empty) = {}  BY <2>1, NowhereCoversNothing
  <2> QED BY <1>1, <2>2 DEF Mmu!MayWrite
<1>4. old \in Entries /\ n \in Nat  BY TlbFacts
<1>5. CASE Mmu!Foreign(tlb, old) \/ ~(NbTlb + n < MaxTlb)
  <2>1. tlb' = [Mmu!Invalidate(tlb, old) EXCEPT !.slots[i] = e]
    BY <1>1, <1>5 DEF Mmu!InvalidateOrShadow
  <2>2. /\ Shaped(tlb') /\ tlb'.slots = [tlb.slots EXCEPT ![i] = e] /\ tlb'.extra = tlb.extra
        /\ tlb'.hi = tlb.hi
        /\ \A p \in DOMAIN tlb'.soft : /\ p \in DOMAIN tlb.soft /\ tlb'.soft[p] = tlb.soft[p]
                                       /\ ~Mmu!FlushPages(tlb, old, p)
    BY <1>2, <2>1, TlbFacts, InvalidatesEntry
  <2>3. \A d : Among(tlb, d) => d = old \/ Among(tlb', d)
    <3>1. \A j \in 1 .. NbTlb : j # i => tlb'.slots[j] = tlb.slots[j]
      BY <2>2, TlbFacts
    <3> HIDE DEF old
    <3> QED BY <2>2, <3>1 DEF Among, old
  <2>4. ASSUME NEW p \in DOMAIN tlb'.soft, NEW d, Among(tlb, d), Mmu!FlushPages(tlb, d, p)
        PROVE  Among(tlb', d)
    BY <2>2, <2>3, <2>4
  <2>5. Len(tlb'.extra) <= Len(tlb.extra)  BY <1>4, <2>2
  <2>6. tlb'.slots[i] = e
    <3>1. tlb.slots \in [1 .. NbTlb -> Entries]  BY TlbFacts
    <3> QED BY <2>2, <3>1
  <2>7. tlb'.slots[i].pair # Mmu!Nowhere  BY <1>2, <2>6
  <2>8. absent' \subseteq Asids \X Mmu!Pairs  BY <1>1, TlbFacts
  <2>9. \A j \in 1 .. Len(tlb'.extra) : j <= Len(tlb.extra) => tlb'.extra[j] = tlb.extra[j]
    BY <2>2
  <2>10. \A p \in DOMAIN tlb'.soft :
           /\ p \in DOMAIN tlb.soft /\ tlb'.soft[p] = tlb.soft[p]
           /\ \A d : Among(tlb, d) /\ Mmu!FlushPages(tlb, d, p) => Among(tlb', d)
    BY <2>2, <2>4
  <2>11. \A x \in absent' : x \notin Mmu!Covers(e) /\ x \in absent
    <3>1. absent' = absent \ Mmu!Covers(e)  BY <1>1
    <3> QED BY <3>1
  <2> HIDE DEF old, n
  <2> QED BY <1>2, <1>3, <2>2, <2>5, <2>7, <2>8, <2>9, <2>10, <2>11, ReplacesKeep
<1>6. CASE ~Mmu!Foreign(tlb, old) /\ NbTlb + n < MaxTlb
  <2> DEFINE extra == Append(tlb.extra, old)
             slots == [tlb.slots EXCEPT ![i] = e]
  <2>1. tlb' = [[tlb EXCEPT !.extra = extra] EXCEPT !.slots = slots]
    BY <1>1, <1>6 DEF Mmu!InvalidateOrShadow
  <2>2. slots \in [1 .. NbTlb -> Entries] /\ slots[i] = e
        /\ \A j \in 1 .. NbTlb : j # i => slots[j] = tlb.slots[j]
    BY <1>2, TlbFacts
  <2>3. extra \in Seq(Entries) /\ Len(extra) = n + 1 /\ extra[n + 1] = old
        /\ \A j \in 1 .. n : extra[j] = tlb.extra[j]
    <3> DEFINE X == tlb.extra
    <3>1. X \in Seq(Entries)  BY TlbFacts
    <3> HIDE DEF X, old
    <3> QED BY <1>4, <3>1 DEF X
  <2> HIDE DEF slots, extra
  <2>4. tlb' \in [slots : {slots}, extra : {extra}, soft : {tlb.soft}, hi : {tlb.hi}]
    BY <2>1, TlbFacts
  <2>5. NbTlb + Len(extra) <= MaxTlb
    <3> HIDE DEF n
    <3> QED BY <1>4, <1>6, <2>3, TlbAssumption
  <2>6. Shaped(tlb') /\ tlb'.slots = slots /\ tlb'.extra = extra /\ tlb'.soft = tlb.soft
        /\ tlb'.hi = tlb.hi
    <3>1. Shares(slots, extra, tlb.soft, tlb.hi)  BY <2>2, <2>3, <2>5, TlbParts DEF Shares
    <3> QED BY <3>1, <2>4, ShapedFrom
  <2>7. \A d : Among(tlb, d) => Among(tlb', d)
    <3>1. ASSUME NEW j \in 1 .. NbTlb PROVE Among(tlb', tlb.slots[j])
      <4>1. CASE j = i
        <5>1. tlb.slots[j] = old  BY <4>1
        <5> HIDE DEF n, old
        <5>2. n + 1 \in 1 .. Len(tlb'.extra) /\ tlb'.extra[n + 1] = old
          BY <1>4, <2>3, <2>6
        <5> QED BY <5>1, <5>2 DEF Among
      <4>2. CASE j # i  BY <2>2, <2>6, <4>2 DEF Among
      <4> QED BY <4>1, <4>2
    <3>2. ASSUME NEW j \in 1 .. n PROVE Among(tlb', tlb.extra[j])
      <4>1. tlb'.extra[j] = tlb.extra[j] /\ Len(tlb'.extra) = n + 1  BY <2>3, <2>6
      <4>2. j \in 1 .. Len(tlb'.extra)
        <5> HIDE DEF n
        <5> QED BY <1>4, <4>1
      <4> QED BY <4>1, <4>2 DEF Among
    <3> QED BY <3>1, <3>2 DEF Among
  <2>8. Behind(i, e)
    BY <1>3, <2>3, <2>6 DEF Behind
  <2>9. \A j \in 1 .. Len(tlb'.extra) : j <= Len(tlb.extra) => tlb'.extra[j] = tlb.extra[j]
    <3>1. \A j \in 1 .. n + 1 : j <= n => j \in 1 .. n
      <4> HIDE DEF n
      <4> QED BY <1>4
    <3> QED BY <2>3, <2>6, <3>1
  <2>10. ~(\A j \in 1 .. NbTlb : tlb'.slots[j].pair = Mmu!Nowhere)  BY <1>2, <2>2, <2>6
  <2>11. absent' \subseteq Asids \X Mmu!Pairs  BY <1>1, TlbFacts
  <2>12. tlb'.slots = [tlb.slots EXCEPT ![i] = e]  BY <2>6 DEF slots
  <2>13. \A p \in DOMAIN tlb'.soft :
           /\ p \in DOMAIN tlb.soft /\ tlb'.soft[p] = tlb.soft[p]
           /\ \A d : Among(tlb, d) /\ Mmu!FlushPages(tlb, d, p) => Among(tlb', d)
    BY <2>6, <2>7
  <2>14. \A x \in absent' : x \notin Mmu!Covers(e) /\ x \in absent
    <3>1. absent' = absent \ Mmu!Covers(e)  BY <1>1
    <3> QED BY <3>1
  <2>15. (\A j \in 1 .. NbTlb : tlb'.slots[j].pair = Mmu!Nowhere) => Len(tlb'.extra) = 0
    BY <2>10
  <2>16. Mmu!Covers(e) \subseteq absent \cup Mmu!Covers(tlb.slots[i])  BY <1>3
  <2> HIDE DEF n, old
  <2> QED BY <1>2, <2>6, <2>8, <2>9, <2>11, <2>12, <2>13, <2>14, <2>15, <2>16, ReplacesKeep
<1> QED BY <1>5, <1>6

(* TLBWI: the shadows stay only if the entry written gains no more than rights.     *)
LEMMA TlbWiKeeps ==
  ASSUME TlbInv, NEW i \in 1 .. NbTlb, NEW span \in Spans, NEW lo \in TlbLows, Mmu!TlbWi(i, span, lo)
  PROVE  TlbInv'
<1> DEFINE e == IF tlb.hi.pair = Mmu!Nowhere THEN Mmu!Empty ELSE Mmu!Filled(tlb, span, lo)
           old == tlb.slots[i]
           n == Len(tlb.extra)
           u == IF Mmu!OnlyUpgrades(old, e) THEN tlb ELSE Mmu!FlushExtra(tlb, 0)
<1>1. /\ Mmu!MayWrite(e, old)
      /\ tlb' = [Mmu!Invalidate(u, old) EXCEPT !.slots[i] = e]
      /\ absent' = IF \A j \in DOMAIN tlb.slots : tlb'.slots[j].pair = Mmu!Nowhere
                   THEN Asids \X Mmu!Pairs
                   ELSE (absent \cup Mmu!Covers(old)) \ Mmu!Covers(e)
  BY DEF Mmu!TlbWi, Mmu!Indexed
<1>2. e \in Entries
  <2>1. Mmu!Empty \in Entries
    BY TlbAssumption DEF Mmu!Empty, Mmu!Nowhere, Entries
  <2>2. CASE tlb.hi.pair # Mmu!Nowhere  BY <2>2, TlbFacts, FillsEntry
  <2> QED BY <2>1, <2>2
<1> HIDE DEF e
<1>3. old \in Entries /\ n \in Nat /\ DOMAIN tlb.slots = 1 .. NbTlb  BY TlbFacts
<1>4. /\ u \in [slots : {tlb.slots}, extra : {u.extra}, soft : {u.soft}, hi : {tlb.hi}]
      /\ Shaped(u) /\ Len(u.extra) <= n /\ (~Mmu!OnlyUpgrades(old, e) => Len(u.extra) = 0)
      /\ \A j \in 1 .. Len(u.extra) : u.extra[j] = tlb.extra[j]
      /\ \A p \in DOMAIN u.soft :
           /\ p \in DOMAIN tlb.soft /\ u.soft[p] = tlb.soft[p]
           /\ \A d : Among(tlb, d) /\ Mmu!FlushPages(tlb, d, p) => Among(u, d)
  <2>1. CASE Mmu!OnlyUpgrades(old, e)
    <3>1. u = tlb  BY <2>1
    <3> HIDE DEF u
    <3> QED BY <1>3, <2>1, <3>1, TlbFacts
  <2>2. CASE ~Mmu!OnlyUpgrades(old, e)
    <3>1. u = Mmu!FlushExtra(tlb, 0)  BY <2>2
    <3> HIDE DEF u
    <3>2. Len(tlb.extra) \in Nat /\ 0 \in 0 .. Len(tlb.extra)  BY <1>3
    <3>3. /\ u \in [slots : {tlb.slots}, extra : {u.extra}, soft : {u.soft}, hi : {tlb.hi}]
          /\ Shaped(u) /\ Len(u.extra) = 0
          /\ \A p \in DOMAIN u.soft :
               /\ p \in DOMAIN tlb.soft /\ u.soft[p] = tlb.soft[p]
               /\ \A j \in 0 + 1 .. Len(tlb.extra) : ~Mmu!FlushPages(tlb, tlb.extra[j], p)
      BY <3>1, <3>2, FlushesExtra
    <3>4. u.slots = tlb.slots /\ \A j \in 1 .. 0 : u.extra[j] = tlb.extra[j]  BY <3>3
    <3>5. ASSUME NEW p \in DOMAIN u.soft, NEW d, Among(tlb, d), Mmu!FlushPages(tlb, d, p)
          PROVE  Among(u, d)
      <4>1. \A j \in 0 + 1 .. Len(tlb.extra) : ~Mmu!FlushPages(tlb, tlb.extra[j], p)
        BY <3>3, <3>5
      <4> QED BY <3>2, <3>3, <3>4, <3>5, <4>1, DropsOthers
    <3>6. Len(u.extra) <= n  BY <1>3, <3>3
    <3>7. \A j \in 1 .. Len(u.extra) : u.extra[j] = tlb.extra[j]  BY <3>3, <3>4
    <3> QED BY <2>2, <3>3, <3>5, <3>6, <3>7
  <2> QED BY <2>1, <2>2
<1> HIDE DEF u
<1>5. u.slots = tlb.slots /\ u.hi = tlb.hi
      /\ u \in [slots : {u.slots}, extra : {u.extra}, soft : {u.soft}, hi : {u.hi}]
  BY <1>4
<1>6. /\ Shaped(tlb') /\ tlb'.slots = [tlb.slots EXCEPT ![i] = e] /\ tlb'.extra = u.extra
      /\ tlb'.hi = tlb.hi
      /\ \A p \in DOMAIN tlb'.soft : /\ p \in DOMAIN u.soft /\ tlb'.soft[p] = u.soft[p]
                                     /\ ~Mmu!FlushPages(tlb, old, p)
  <2> HIDE DEF old
  <2> QED BY <1>1, <1>2, <1>4, <1>5, InvalidatesEntry
<1>7. tlb'.slots[i] = e /\ \A j \in 1 .. NbTlb : j # i => tlb'.slots[j] = tlb.slots[j]
  BY <1>6, TlbFacts
<1>8. \A d : Among(u, d) => d = old \/ Among(tlb', d)
  BY <1>5, <1>6, <1>7 DEF Among
<1>9. ASSUME NEW p \in DOMAIN tlb'.soft
      PROVE  /\ p \in DOMAIN tlb.soft /\ tlb'.soft[p] = tlb.soft[p]
             /\ \A d : Among(tlb, d) /\ Mmu!FlushPages(tlb, d, p) => Among(tlb', d)
  <2>1. p \in DOMAIN u.soft /\ tlb'.soft[p] = u.soft[p] /\ ~Mmu!FlushPages(tlb, old, p)
    BY <1>6
  <2>2. p \in DOMAIN tlb.soft /\ tlb'.soft[p] = tlb.soft[p]  BY <1>4, <2>1
  <2>3. ASSUME NEW d, Among(tlb, d), Mmu!FlushPages(tlb, d, p) PROVE Among(tlb', d)
    <3>1. Among(u, d)  BY <1>4, <2>1, <2>3
    <3>2. d # old  BY <2>1, <2>3
    <3> QED BY <1>8, <3>1, <3>2
  <2> QED BY <2>2, <2>3
<1>10. Len(tlb'.extra) <= Len(tlb.extra)
       /\ \A j \in 1 .. Len(tlb'.extra) : tlb'.extra[j] = tlb.extra[j]
  BY <1>4, <1>6
<1> DEFINE emptied == \A j \in 1 .. NbTlb : tlb'.slots[j].pair = Mmu!Nowhere
<1>11. emptied => Len(tlb'.extra) = 0
  <2>1. CASE Mmu!OnlyUpgrades(old, e)
    <3> SUFFICES ASSUME emptied PROVE Len(tlb'.extra) = 0
      OBVIOUS
    <3>1. old.pair = Mmu!Nowhere  BY <1>7, <2>1 DEF Mmu!OnlyUpgrades
    <3>2. \A j \in 1 .. NbTlb : tlb.slots[j].pair = Mmu!Nowhere  BY <1>7, <3>1
    <3>3. Len(tlb.extra) = 0  BY <3>2 DEF TlbInv
    <3>4. Len(u.extra) \in Nat  BY <1>4, InUseIs
    <3>5. Len(tlb'.extra) \in Nat /\ Len(tlb'.extra) <= 0  BY <1>6, <1>10, <3>3, <3>4
    <3> QED BY <3>5
  <2>2. CASE ~Mmu!OnlyUpgrades(old, e)  BY <1>4, <1>6, <2>2
  <2> QED BY <2>1, <2>2
<1>12. Mmu!Covers(e) \subseteq absent \cup Mmu!Covers(old)  BY <1>1 DEF Mmu!MayWrite
<1>13. absent' \subseteq Asids \X Mmu!Pairs
  BY <1>1, TlbFacts DEF Mmu!Covers
<1>14. ASSUME NEW x \in absent'
       PROVE  /\ x \notin Mmu!Covers(e)
              /\ \/ x \in absent
                 \/ x \in Mmu!Covers(old) /\ Len(tlb'.extra) <= Len(tlb.extra)
                 \/ \A d : Among(tlb', d) => x \notin Mmu!Covers(d)
  <2>1. CASE emptied
    <3>1. \A j \in 1 .. NbTlb : Mmu!Covers(tlb'.slots[j]) = {}
      <4> SUFFICES ASSUME NEW j \in 1 .. NbTlb PROVE Mmu!Covers(tlb'.slots[j]) = {}
        OBVIOUS
      <4>1. tlb'.slots[j] \in Entries  BY <1>6 DEF Shaped
      <4> QED BY <2>1, <4>1, NowhereCoversNothing
    <3>2. Len(tlb'.extra) = 0  BY <1>11, <2>1
    <3>3. \A d : Among(tlb', d) => \E j \in 1 .. NbTlb : d = tlb'.slots[j]
      BY <3>2 DEF Among
    <3> QED BY <1>7, <3>1, <3>3
  <2>2. CASE ~emptied
    <3>1. absent' = (absent \cup Mmu!Covers(old)) \ Mmu!Covers(e)  BY <1>1, <1>3, <2>2
    <3> QED BY <1>10, <3>1
  <2> QED BY <2>1, <2>2
<1> HIDE DEF emptied
<1> QED BY <1>2, <1>6, <1>9, <1>10, <1>11, <1>12, <1>13, <1>14, ReplacesKeep DEF emptied

LEMMA TlbSteps == ASSUME TlbInv, Mmu!Next \/ UNCHANGED <<tlb, absent>> PROVE TlbInv'
<1>1. CASE \E a \in Asids, q \in Mmu!Pairs \cup {Mmu!Nowhere} : Mmu!WriteHi(a, q)
  BY <1>1, WriteHiKeeps
<1>2. CASE \E p \in Pages, store \in BOOLEAN : Mmu!Access(p, store)
  BY <1>2, AccessKeeps
<1>3. CASE Mmu!Probe  BY <1>3, ProbeKeeps
<1>4. CASE \E span \in Spans, lo \in TlbLows, i \in Wired + 1 .. NbTlb : Mmu!TlbWr(i, span, lo)
  <2>1. \A i \in Wired + 1 .. NbTlb : i \in 1 .. NbTlb  BY TlbAssumption
  <2> QED BY <1>4, <2>1, TlbWrKeeps
<1>5. CASE \E span \in Spans, lo \in TlbLows, i \in 1 .. NbTlb : Mmu!TlbWi(i, span, lo)
  BY <1>5, TlbWiKeeps
<1>6. CASE \E i \in 1 .. NbTlb : Mmu!TlbR(i)  BY <1>6, TlbRKeeps
<1>7. CASE Mmu!Reset  BY <1>7, ResetsTlb
<1>8. CASE UNCHANGED <<tlb, absent>>
  <2>1. tlb' = tlb /\ absent' = absent  BY <1>8
  <2>2. Shaped(tlb') /\ Len(tlb'.extra) <= Len(tlb.extra)  BY <2>1, TlbFacts
  <2>3. \A e : Among(tlb, e) => Among(tlb', e)  BY <2>1
  <2> QED BY <2>1, <2>2, <2>3, TlbFacts, ShrinksKeep
<1> QED BY <1>1, <1>2, <1>3, <1>4, <1>5, <1>6, <1>7, <1>8 DEF Mmu!Next

----------------------------------------------------------------------------
(* The blocks.  "due" is what the architecture does next, which no block knows of. *)
(* Between two blocks the branch that is pending is in the CPU's flags; within     *)
(* one it is in the block that was translated.                                    *)
Cpus == [pc : Nat, branch : Cpu!Branches \cup {"none"}, btarget : Nat, bcond : BOOLEAN,
         exl : BOOLEAN, epc : Nat, user : BOOLEAN, kernel : BOOLEAN]

(* After a branch that was executed comes its slot; then its target, if it is taken. *)
Pending ==
  /\ cpu.pc - 1 \in DOMAIN Code
  /\ cpu.branch \in {"B", "BR"} => cpu.bcond
  /\ due.then = IF cpu.bcond THEN cpu.btarget ELSE cpu.pc + 1
  /\ cpu.branch \in Cpu!Immediate =>
       \/ code[cpu.pc - 1].op = cpu.branch /\ code[cpu.pc - 1].to = cpu.btarget
       \/ \A k \in DOMAIN blocks : k[1] = cpu.pc => k \in edited

Between ==
  /\ run = Cpu!Idle /\ due.pc = cpu.pc
  /\ IF cpu.branch = "none" THEN due.then = Cpu!Sequential ELSE Pending

(* A block that does not start in a slot is what the memory holds.               *)
Whole(block, start) ==
  /\ Len(block.insns) \in Nat
  /\ \A i \in 1 .. Len(block.insns) : block.insns[i] = code[start + i - 1]
  /\ \A i \in 1 .. Len(block.insns) - 1 : (start + i) % PageSize # 0

Within ==
  /\ run.key[1] \in Nat /\ run.key[2] = cpu.branch
  /\ Cpu!Here \in DOMAIN Code /\ due.pc = Cpu!Here /\ run.at <= Len(run.block.insns)
  /\ IF cpu.branch # "none" THEN run.at = 1 ELSE Whole(run.block, run.key[1])
  /\ IF Cpu!Branch = "none" THEN due.then = Cpu!Sequential
     ELSE /\ Cpu!Here - 1 \in DOMAIN Code
          /\ Cpu!Target \in Nat /\ due.then \in Nat
          /\ Cpu!Branch \in {"B", "BR"} => cpu.bcond
          /\ ~cpu.bcond => due.then = Cpu!Here + 1
          /\ cpu.bcond => due.then = Cpu!Target \/ (run.at = 1 /\ run.key \in edited)

(* The blocks that start in a slot know the target of the branch before it.      *)
Cached(k) ==
  /\ k[1] \in Nat /\ k[2] \in Cpu!Immediate /\ blocks[k].btarget \in Nat
  /\ 1 <= Len(blocks[k].insns)
  /\ k \notin edited => /\ k[1] - 1 \in DOMAIN Code
                        /\ blocks[k].btarget = code[k[1] - 1].to

CoreInv ==
  /\ DOMAIN code = DOMAIN Code /\ cpu \in Cpus
  /\ run \in [key : {run.key}, block : {run.block}, at : Nat]
  /\ due \in [pc : Nat, then : Nat \cup {Cpu!Sequential}]
  /\ cpu.epc = resume /\ cpu.kernel = Cpu!Kernel(cpu)
  /\ \A k \in DOMAIN blocks : Cached(k)
  /\ IF Cpu!Running THEN Within ELSE Between

CoreData ==
  /\ DOMAIN code = DOMAIN Code /\ cpu \in Cpus
  /\ run \in [key : {run.key}, block : {run.block}, at : Nat]
  /\ due \in [pc : Nat, then : Nat \cup {Cpu!Sequential}]
  /\ cpu.epc = resume /\ cpu.kernel = Cpu!Kernel(cpu)

LEMMA CoreStarts == ASSUME Cpu!Init PROVE CoreInv
<1> USE DEF Cpu!Init, Cpu!Idle
<1>1. DOMAIN code = DOMAIN Code /\ cpu \in Cpus  BY DEF Cpus
<1>2. run \in [key : {run.key}, block : {run.block}, at : Nat] /\ ~Cpu!Running
  BY DEF Cpu!Running
<1>3. due \in [pc : Nat, then : Nat \cup {Cpu!Sequential}]  BY DEF Cpu!Sequential
<1>4. cpu.epc = resume /\ cpu.kernel = Cpu!Kernel(cpu)  BY DEF Cpu!Kernel
<1>5. DOMAIN blocks = {}  OBVIOUS
<1>6. Between  BY DEF Between
<1> QED BY <1>1, <1>2, <1>3, <1>4, <1>5, <1>6 DEF CoreInv

(* A block has an instruction, and none of the others starts a page.             *)
LEMMA BlockLengths ==
  ASSUME NEW start \in Nat, NEW branch, NEW n \in Nat \ {0}
  PROVE  /\ Cpu!BlockLength(start, branch, n) \in 1 .. n
         /\ \A j \in 1 .. Cpu!BlockLength(start, branch, n) - 1 : (start + j) % PageSize # 0
<1> DEFINE E(k) == Cpu!Ends(start, branch, n, k)
           S == {k \in 1 .. n : E(k)}
<1>1. n \in S  BY DEF Cpu!Ends
<1>2. S \in SUBSET Nat  OBVIOUS
<1>3. PICK k \in S : \A j \in S : k <= j
  <2> HIDE DEF S
  <2> QED BY <1>1, <1>2, LeastOf
<1>4. k \in 1 .. n /\ E(k) /\ \A j \in 1 .. k - 1 : ~E(j)
  <2>1. k \in 1 .. n /\ E(k)  OBVIOUS
  <2>2. ASSUME NEW j \in 1 .. k - 1 PROVE ~E(j)
    <3>1. j \in 1 .. n /\ ~(k <= j)  BY <2>1
    <3>2. j \notin S  BY <1>3, <3>1
    <3> QED BY <3>1, <3>2
  <2> QED BY <2>1, <2>2
<1> DEFINE l == Cpu!BlockLength(start, branch, n)
<1>5. l \in 1 .. n /\ E(l) /\ \A j \in 1 .. l - 1 : ~E(j)
  <2> DEFINE P(i) == E(i) /\ \A j \in 1 .. i - 1 : ~E(j)
  <2>1. l = CHOOSE i \in 1 .. n : P(i)  BY DEF Cpu!BlockLength
  <2>2. P(k)  BY <1>4
  <2> HIDE DEF P, l
  <2>3. l \in 1 .. n /\ P(l)  BY <2>1, <2>2, <1>4
  <2> QED BY <2>3 DEF P
<1>6. ASSUME NEW j \in 1 .. l - 1 PROVE (start + j) % PageSize # 0
  <2>1. ~Cpu!Ends(start, branch, n, j)  BY <1>5, <1>6
  <2>2. ((start + j - 1) + 1) % PageSize # 0  BY <2>1 DEF Cpu!Ends
  <2> HIDE DEF l
  <2>3. (start + j - 1) + 1 = start + j  BY <1>5
  <2> QED BY <2>2, <2>3
<1> QED BY <1>5, <1>6

LEMMA CompiledWhole ==
  ASSUME NEW start \in Nat, NEW branch, NEW n \in Nat \ {0}
  PROVE  LET block == Cpu!Compiled(<<start, branch, n>>)
         IN  /\ Whole(block, start) /\ 1 <= Len(block.insns)
             /\ block.btarget = IF branch \in Cpu!Immediate THEN cpu.btarget ELSE 0
<1> DEFINE l == Cpu!BlockLength(start, branch, n)
           block == Cpu!Compiled(<<start, branch, n>>)
<1>1. l \in 1 .. n /\ \A j \in 1 .. l - 1 : (start + j) % PageSize # 0
  BY BlockLengths
<1>2. /\ block.insns = [k \in 1 .. l |-> code[start + k - 1]]
      /\ block.btarget = IF branch \in Cpu!Immediate THEN cpu.btarget ELSE 0
  BY DEF Cpu!Compiled
<1> HIDE DEF l
<1>3. l \in Nat  BY <1>1
<1>4. Len([k \in 1 .. l |-> code[start + k - 1]]) = l  BY <1>3
<1> HIDE DEF block
<1>5. Len(block.insns) = l  BY <1>2, <1>4
<1>6. \A i \in 1 .. l : block.insns[i] = code[start + i - 1]  BY <1>2
<1>7. Whole(block, start)  BY <1>1, <1>3, <1>5, <1>6 DEF Whole
<1>8. 1 <= Len(block.insns)  BY <1>1, <1>5
<1> QED BY <1>2, <1>7, <1>8 DEF block

(* Facts of the invariant that every step starts from.                           *)
LEMMA CoreFacts ==
  ASSUME CoreInv
  PROVE  /\ CoreData /\ \A k \in DOMAIN blocks : Cached(k)
         /\ Cpu!Running => Within
         /\ ~Cpu!Running => Between
BY DEF CoreInv, CoreData

(* An exception: the CPU that takes it is at the instruction that is due.        *)
LEMMA RaiseKeepsCore ==
  ASSUME CoreInv, NEW c \in Cpus, NEW refill \in BOOLEAN,
         c.pc = due.pc, (c.branch = "none") = (due.then = Cpu!Sequential),
         c.branch # "none" => due.pc - 1 \in Nat,
         c.epc = cpu.epc, c.kernel = Cpu!Kernel(c),
         cpu' = Cpu!Interrupted(c, refill), run' = Cpu!Idle,
         due' = [pc |-> Cpu!Vector(c, refill), then |-> Cpu!Sequential],
         resume' = (IF c.exl THEN resume
                    ELSE IF due.then # Cpu!Sequential THEN due.pc - 1 ELSE due.pc),
         UNCHANGED <<code, blocks, edited>>
  PROVE  CoreInv'
<1>1. Cpu!Vector(c, refill) \in Nat  BY CoreAssumption DEF Cpu!Vector
<1>2. /\ Cpu!ResumePc(c) \in Nat
      /\ Cpu!ResumePc(c) = IF due.then # Cpu!Sequential THEN due.pc - 1 ELSE due.pc
  BY DEF Cpu!ResumePc, Cpus
<1>3. /\ cpu' \in Cpus /\ cpu'.pc = Cpu!Vector(c, refill) /\ cpu'.branch = "none"
      /\ cpu'.exl = TRUE /\ cpu'.epc = (IF c.exl THEN c.epc ELSE Cpu!ResumePc(c))
      /\ cpu'.kernel = (IF c.exl THEN c.kernel ELSE TRUE)
  BY <1>1, <1>2 DEF Cpu!Interrupted, Cpus
<1>4. cpu'.kernel = TRUE /\ Cpu!Kernel(cpu') = TRUE
  BY <1>3 DEF Cpu!Kernel
<1>5. cpu'.epc = resume'
  BY <1>2, <1>3, CoreFacts DEF CoreData
<1>6. run' \in [key : {run'.key}, block : {run'.block}, at : Nat] /\ ~Cpu!Running'
  BY DEF Cpu!Running, Cpu!Idle
<1>7. due' \in [pc : Nat, then : Nat \cup {Cpu!Sequential}]  BY <1>1
<1>8. Between'  BY <1>3 DEF Between
<1>9. \A k \in DOMAIN blocks' : Cached(k)'
  <2>1. \A k \in DOMAIN blocks : Cached(k)  BY CoreFacts
  <2> QED BY <2>1 DEF Cached
<1>10. DOMAIN code' = DOMAIN Code  BY CoreFacts DEF CoreData
<1> QED BY <1>3, <1>4, <1>5, <1>6, <1>7, <1>8, <1>9, <1>10 DEF CoreInv

LEMMA IdleRaise ==
  ASSUME CoreInv, ~Cpu!Running, NEW refill \in BOOLEAN, Cpu!Raise(cpu, refill)
  PROVE  CoreInv'
<1>1. cpu \in Cpus /\ cpu.kernel = Cpu!Kernel(cpu) /\ due.pc = cpu.pc
      /\ (cpu.branch = "none" => due.then = Cpu!Sequential)
      /\ (cpu.branch # "none" => Pending)
  BY CoreFacts DEF CoreData, Between
<1>2. ASSUME cpu.branch # "none" PROVE due.pc - 1 \in Nat /\ due.then # Cpu!Sequential
  <2>1. due.pc - 1 \in Nat  BY <1>1, <1>2, CoreAssumption DEF Pending
  <2>2. due.then \in Nat  BY <1>1, <1>2 DEF Pending, Cpus
  <2> QED BY <2>1, <2>2 DEF Cpu!Sequential
<1>3. (cpu.branch = "none") = (due.then = Cpu!Sequential)  BY <1>1, <1>2
<1> QED BY <1>1, <1>2, <1>3, RaiseKeepsCore DEF Cpu!Raise

LEMMA BlockRaise ==
  ASSUME CoreInv, Cpu!Running, NEW refill \in BOOLEAN, Cpu!Raise(Cpu!Restored, refill)
  PROVE  CoreInv'
<1> DEFINE c == Cpu!Restored
<1>1. CoreData /\ Within  BY CoreFacts
<1>2. Cpu!Here \in Nat  BY <1>1, CoreAssumption DEF Within
<1>3. Cpu!Branch \in Cpu!Branches \cup {"none"}
  BY <1>1 DEF Cpu!Branch, Within, CoreData, Cpus
<1>4. Cpu!Branch \in {"B", "BC", "BL"} => Cpu!Target \in Nat  BY <1>1 DEF Within
<1>5. c \in Cpus /\ c.pc = Cpu!Here /\ c.branch = Cpu!Branch /\ c.epc = cpu.epc
      /\ c.kernel = cpu.kernel /\ c.exl = cpu.exl /\ c.user = cpu.user
  BY <1>1, <1>2, <1>3, <1>4 DEF Cpu!Restored, Cpus, CoreData
<1>6. c.kernel = Cpu!Kernel(c)  BY <1>1, <1>5 DEF Cpu!Kernel, CoreData
<1>7. (c.branch = "none") = (due.then = Cpu!Sequential)
  BY <1>1, <1>5 DEF Within, Cpu!Sequential
<1>8. c.branch # "none" => due.pc - 1 \in Nat
  BY <1>1, <1>5, CoreAssumption DEF Within
<1>9. c.pc = due.pc  BY <1>1, <1>5 DEF Within
<1>10. /\ cpu' = Cpu!Interrupted(c, refill) /\ run' = Cpu!Idle
       /\ due' = [pc |-> Cpu!Vector(c, refill), then |-> Cpu!Sequential]
       /\ resume' = (IF c.exl THEN resume
                     ELSE IF due.then # Cpu!Sequential THEN due.pc - 1 ELSE due.pc)
       /\ UNCHANGED <<code, blocks, edited>>
  BY DEF Cpu!Raise
<1> HIDE DEF c
<1> QED BY <1>5, <1>6, <1>7, <1>8, <1>9, <1>10, RaiseKeepsCore

(* The end of a block, with no branch pending.                                   *)
LEMMA LeavesKeep ==
  ASSUME CoreInv, Cpu!Running, run' = Cpu!Idle, cpu' \in Cpus, cpu'.branch = "none",
         cpu'.kernel = Cpu!Kernel(cpu'), cpu'.epc = cpu.epc,
         due' = [pc |-> cpu'.pc, then |-> Cpu!Sequential],
         UNCHANGED <<code, blocks, edited, resume>>
  PROVE  CoreInv'
<1>1. run' \in [key : {run'.key}, block : {run'.block}, at : Nat] /\ ~Cpu!Running'
  BY DEF Cpu!Running, Cpu!Idle
<1>2. due' \in [pc : Nat, then : Nat \cup {Cpu!Sequential}]  BY DEF Cpus
<1>3. Between'  BY DEF Between
<1>4. \A k \in DOMAIN blocks' : Cached(k)'
  <2>1. \A k \in DOMAIN blocks : Cached(k)  BY CoreFacts
  <2> QED BY <2>1 DEF Cached
<1>5. DOMAIN code' = DOMAIN Code /\ cpu'.epc = resume'  BY CoreFacts DEF CoreData
<1>6. (cpu.kernel = Cpu!Kernel(cpu))'  BY DEF Cpu!Kernel
<1> QED BY <1>1, <1>2, <1>3, <1>4, <1>5, <1>6 DEF CoreInv

LEMMA SkipKeeps == ASSUME CoreInv, Cpu!Skip PROVE CoreInv'
<1>1. Cpu!Running /\ CoreData /\ Within  BY CoreFacts DEF Cpu!Skip
<1>2. Cpu!Here \in Nat  BY <1>1, CoreAssumption DEF Within
<1>3. due.then = Cpu!Here + 1  BY <1>1 DEF Cpu!Skip, Cpu!Nullified, Within
<1>4. /\ run' = Cpu!Idle /\ UNCHANGED <<code, blocks, edited, resume>>
      /\ cpu' = [cpu EXCEPT !.pc = Cpu!Here + 1, !.branch = "none", !.btarget = cpu.btarget]
      /\ due' = [pc |-> due.then, then |-> Cpu!Sequential]
  BY DEF Cpu!Skip, Cpu!Leave
<1>5. /\ cpu' \in Cpus /\ cpu'.branch = "none" /\ cpu'.epc = cpu.epc /\ cpu'.pc = due.then
      /\ cpu'.kernel = cpu.kernel /\ cpu'.exl = cpu.exl /\ cpu'.user = cpu.user
  <2> DEFINE next == Cpu!Here + 1
  <2>1. next \in Nat /\ due.then = next  BY <1>2, <1>3
  <2>2. cpu' = [cpu EXCEPT !.pc = next, !.branch = "none", !.btarget = cpu.btarget]
    BY <1>4
  <2>3. cpu \in Cpus  BY <1>1 DEF CoreData
  <2> HIDE DEF next
  <2> QED BY <2>1, <2>2, <2>3 DEF Cpus
<1>6. cpu'.kernel = Cpu!Kernel(cpu')  BY <1>1, <1>5 DEF Cpu!Kernel, CoreData
<1> QED BY <1>1, <1>4, <1>5, <1>6, LeavesKeep

LEMMA EretKeeps == ASSUME CoreInv, Cpu!Eret PROVE CoreInv'
<1>1. Cpu!Running /\ CoreData /\ Within /\ Cpu!Branch = "none"
  BY CoreFacts DEF Cpu!Eret
<1>2. cpu.branch = "none"  BY <1>1 DEF Within, Cpu!Branch
<1>3. /\ run' = Cpu!Idle /\ UNCHANGED <<code, blocks, edited, resume>>
      /\ cpu' = [cpu EXCEPT !.pc = cpu.epc, !.exl = FALSE, !.kernel = ~cpu.user]
      /\ due' = [pc |-> resume, then |-> Cpu!Sequential]
  BY DEF Cpu!Eret
<1>4. /\ cpu' \in Cpus /\ cpu'.branch = "none" /\ cpu'.epc = cpu.epc /\ cpu'.pc = resume
      /\ cpu'.kernel = ~cpu.user /\ cpu'.exl = FALSE /\ cpu'.user = cpu.user
  BY <1>1, <1>2, <1>3 DEF Cpus, CoreData
<1>5. cpu'.kernel = Cpu!Kernel(cpu')  BY <1>4 DEF Cpu!Kernel
<1> QED BY <1>1, <1>3, <1>4, <1>5, LeavesKeep

(* From an instruction to the next one of the block.                             *)
Follower(insn) ==
  IF insn.op \notin Cpu!Branches THEN due'.then = Cpu!Sequential
  ELSE LET target == IF insn.op = "BR" THEN cpu'.btarget ELSE insn.to
       IN  /\ target \in Nat /\ due'.then \in Nat
           /\ insn.op \in {"B", "BR"} => cpu'.bcond
           /\ due'.then = IF cpu'.bcond THEN target ELSE due'.pc + 1

LEMMA AdvancesKeep ==
  ASSUME CoreInv, Cpu!Running, cpu.branch = "none", ~Cpu!Ended,
         run' = [run EXCEPT !.at = @ + 1], cpu' \in Cpus, cpu'.kernel = Cpu!Kernel(cpu'),
         cpu'.epc = cpu.epc, cpu'.branch = cpu.branch,
         due' \in [pc : Nat, then : Nat \cup {Cpu!Sequential}], due'.pc = Cpu!Here + 1,
         UNCHANGED <<code, blocks, edited, resume>>, Follower(Cpu!Insn)
  PROVE  CoreInv'
<1>1. CoreData /\ Within /\ run.at \in Nat /\ run.at > 0
  BY CoreFacts DEF CoreData, Cpu!Running
<1>2. Cpu!Here \in Nat /\ run.key[1] \in Nat  BY <1>1, CoreAssumption DEF Within
<1>3. /\ run'.key = run.key /\ run'.block = run.block /\ run'.at = run.at + 1
      /\ run' \in [key : {run'.key}, block : {run'.block}, at : Nat]
  BY <1>1 DEF CoreData
<1>4. Cpu!Running'  BY <1>1, <1>3 DEF Cpu!Running
<1>5. /\ Len(run.block.insns) \in Nat /\ run.at <= Len(run.block.insns)
      /\ run.at # Len(run.block.insns) /\ Whole(run.block, run.key[1])
  BY <1>1 DEF Within, Whole, Cpu!Ended
<1>6. run.at \in 1 .. Len(run.block.insns) - 1 /\ run.at + 1 <= Len(run.block.insns)
  <2> DEFINE l == Len(run.block.insns)
  <2>1. l \in Nat /\ run.at <= l /\ run.at # l  BY <1>5
  <2> HIDE DEF l
  <2>2. run.at \in 1 .. l - 1 /\ run.at + 1 <= l  BY <1>1, <2>1
  <2> QED BY <2>2 DEF l
<1>7. (run.key[1] + run.at) % PageSize # 0  BY <1>5, <1>6 DEF Whole
<1>8. Cpu!Here' = Cpu!Here + 1 /\ Cpu!Here + 1 = run.key[1] + run.at
  BY <1>1, <1>2, <1>3 DEF Cpu!Here
<1>9. Cpu!Here' \in DOMAIN Code
  <2>1. Cpu!Here \in DOMAIN Code  BY <1>1 DEF Within
  <2>2. (Cpu!Here + 1) % PageSize # 0  BY <1>7, <1>8
  <2> QED BY <1>8, <2>1, <2>2, CoreAssumption
<1>10. run'.at # 1 /\ run'.at - 1 = run.at /\ run.block.insns[run'.at - 1] = Cpu!Insn
  BY <1>1, <1>3 DEF Cpu!Insn
<1>11. Cpu!Branch' = IF Cpu!Insn.op \in Cpu!Branches THEN Cpu!Insn.op ELSE "none"
  BY <1>3, <1>10 DEF Cpu!Branch
<1>12. Cpu!Target' = IF Cpu!Branch' = "BR" THEN cpu'.btarget ELSE Cpu!Insn.to
  BY <1>3, <1>10 DEF Cpu!Target
<1>13. IF Cpu!Branch' = "none" THEN due'.then = Cpu!Sequential
       ELSE /\ Cpu!Here' - 1 \in DOMAIN Code
            /\ Cpu!Target' \in Nat /\ due'.then \in Nat
            /\ Cpu!Branch' \in {"B", "BR"} => cpu'.bcond
            /\ ~cpu'.bcond => due'.then = Cpu!Here' + 1
            /\ cpu'.bcond => due'.then = Cpu!Target'
  <2>1. CASE Cpu!Insn.op \notin Cpu!Branches
    BY <2>1, <1>11 DEF Follower
  <2>2. CASE Cpu!Insn.op \in Cpu!Branches
    <3>1. Cpu!Branch' = Cpu!Insn.op /\ Cpu!Branch' # "none"
      BY <2>2, <1>11 DEF Cpu!Branches
    <3>2. Cpu!Here' - 1 \in DOMAIN Code
      <4>1. Cpu!Here' - 1 = Cpu!Here  BY <1>2, <1>8
      <4> QED BY <4>1, <1>1 DEF Within
    <3>3. due'.pc = Cpu!Here'  BY <1>8
    <3>4. Cpu!Target' = IF Cpu!Insn.op = "BR" THEN cpu'.btarget ELSE Cpu!Insn.to
      BY <3>1, <1>12
    <3> QED BY <2>2, <3>1, <3>2, <3>3, <3>4 DEF Follower
  <2> QED BY <2>1, <2>2
<1>14. Whole(run.block, run.key[1])'
  BY <1>3, <1>5 DEF Whole
<1>15. /\ run'.key[1] \in Nat /\ run'.key[2] = cpu'.branch /\ due'.pc = Cpu!Here'
       /\ cpu'.branch = "none" /\ run'.at <= Len(run'.block.insns)
  BY <1>1, <1>2, <1>3, <1>6, <1>8 DEF Within
<1>16. Within'  BY <1>9, <1>13, <1>14, <1>15 DEF Within
<1>17. \A k \in DOMAIN blocks' : Cached(k)'
  <2>1. \A k \in DOMAIN blocks : Cached(k)  BY CoreFacts
  <2> QED BY <2>1 DEF Cached
<1>18. DOMAIN code' = DOMAIN Code /\ cpu'.epc = resume'  BY CoreFacts DEF CoreData
<1>19. (cpu.kernel = Cpu!Kernel(cpu))'  BY DEF Cpu!Kernel
<1> QED BY <1>3, <1>4, <1>16, <1>17, <1>18, <1>19 DEF CoreInv

LEMMA ExecuteKeeps == ASSUME CoreInv, Cpu!Execute PROVE CoreInv'
<1>1. Cpu!Running /\ CoreData /\ Within  BY CoreFacts DEF Cpu!Execute
<1>2. Cpu!Here \in Nat /\ Cpu!Here + 1 \in Nat  BY <1>1, CoreAssumption DEF Within
<1>3. cpu \in Cpus /\ cpu.epc = resume /\ cpu.kernel = Cpu!Kernel(cpu)  BY <1>1 DEF CoreData
<1>4. /\ ~Cpu!Nullified /\ Cpu!Insn.op \in {"op", "load", "status"}
      /\ UNCHANGED <<code, blocks, edited, resume>>
  BY DEF Cpu!Execute
<1> DEFINE c(user) == [cpu EXCEPT !.user = user, !.kernel = Cpu!Kernel([cpu EXCEPT !.user = user])]
<1>5. PICK user \in BOOLEAN :
        IF Cpu!Branch # "none"
        THEN /\ run' = Cpu!Idle
             /\ cpu' = [c(user) EXCEPT !.pc = Cpu!Completed, !.branch = "none"]
             /\ due' = [pc |-> IF run.key \in edited THEN Cpu!Completed ELSE due.then,
                        then |-> Cpu!Sequential]
        ELSE /\ due' = [pc |-> Cpu!Here + 1, then |-> Cpu!Sequential]
             /\ IF Cpu!Ended THEN run' = Cpu!Idle /\ cpu' = [c(user) EXCEPT !.pc = Cpu!Here + 1]
                ELSE run' = [run EXCEPT !.at = @ + 1] /\ cpu' = c(user)
  BY <1>3 DEF Cpu!Execute, Cpus
<1>6. /\ c(user) \in Cpus /\ c(user).kernel = (c(user).exl \/ ~c(user).user)
      /\ c(user).epc = cpu.epc /\ c(user).branch = cpu.branch /\ c(user).bcond = cpu.bcond
      /\ c(user).btarget = cpu.btarget /\ c(user).pc = cpu.pc
  BY <1>3 DEF Cpu!Kernel, Cpus
<1> DEFINE d == c(user)
<1> HIDE DEF c
<1>7. CASE Cpu!Branch # "none"
  <2>1. /\ run' = Cpu!Idle /\ cpu' = [d EXCEPT !.pc = Cpu!Completed, !.branch = "none"]
        /\ due' = [pc |-> IF run.key \in edited THEN Cpu!Completed ELSE due.then,
                   then |-> Cpu!Sequential]
    BY <1>5, <1>7
  <2>2. Cpu!Completed \in Nat  BY <1>1, <1>2, <1>7 DEF Cpu!Completed, Within
  <2>3. run.key \notin edited => due.then = Cpu!Completed
    <3>1. CASE cpu.bcond
      BY <1>1, <1>7, <3>1 DEF Within, Cpu!Completed
    <3>2. CASE ~cpu.bcond
      <4>1. Cpu!Branch \in Cpu!Branches
        BY <1>1, <1>3, <1>7 DEF Within, Cpu!Branch, Cpus
      <4>2. Cpu!Branch = "BC"
        BY <1>1, <1>4, <1>7, <3>2, <4>1 DEF Cpu!Nullified, Cpu!Branches, Within
      <4> QED BY <1>1, <1>7, <3>2, <4>2 DEF Within, Cpu!Completed
    <3> QED BY <3>1, <3>2
  <2>4. d \in Cpus /\ d.kernel = (d.exl \/ ~d.user) /\ d.epc = cpu.epc  BY <1>6
  <2> DEFINE to == Cpu!Completed
  <2>5. to \in Nat /\ cpu' = [d EXCEPT !.pc = to, !.branch = "none"]
        /\ due' = [pc |-> to, then |-> Cpu!Sequential]
    BY <2>1, <2>2, <2>3
  <2> HIDE DEF d, to
  <2>6. /\ cpu' \in Cpus /\ cpu'.branch = "none" /\ cpu'.epc = cpu.epc /\ cpu'.pc = to
        /\ cpu'.kernel = (cpu'.exl \/ ~cpu'.user)
    BY <2>4, <2>5 DEF Cpus
  <2>7. cpu'.kernel = Cpu!Kernel(cpu')  BY <2>6 DEF Cpu!Kernel
  <2> QED BY <1>1, <1>4, <2>1, <2>5, <2>6, <2>7, LeavesKeep
<1>8. CASE Cpu!Branch = "none" /\ Cpu!Ended
  <2>1. /\ run' = Cpu!Idle /\ cpu' = [d EXCEPT !.pc = Cpu!Here + 1]
        /\ due' = [pc |-> Cpu!Here + 1, then |-> Cpu!Sequential]
    BY <1>5, <1>8
  <2>2. d.branch = "none"  BY <1>1, <1>6, <1>8 DEF Within, Cpu!Branch
  <2>4. d \in Cpus /\ d.kernel = (d.exl \/ ~d.user) /\ d.epc = cpu.epc  BY <1>6
  <2> DEFINE to == Cpu!Here + 1
  <2>5. to \in Nat /\ cpu' = [d EXCEPT !.pc = to]  BY <2>1, <1>2
  <2> HIDE DEF d, to
  <2>6. /\ cpu' \in Cpus /\ cpu'.branch = "none" /\ cpu'.epc = cpu.epc /\ cpu'.pc = to
        /\ cpu'.kernel = (cpu'.exl \/ ~cpu'.user)
    BY <2>2, <2>4, <2>5 DEF Cpus
  <2>7. cpu'.kernel = Cpu!Kernel(cpu')  BY <2>6 DEF Cpu!Kernel
  <2>8. due' = [pc |-> cpu'.pc, then |-> Cpu!Sequential]  BY <2>1, <2>6 DEF to
  <2> QED BY <1>1, <1>4, <2>1, <2>6, <2>7, <2>8, LeavesKeep
<1>9. CASE Cpu!Branch = "none" /\ ~Cpu!Ended
  <2>1. /\ run' = [run EXCEPT !.at = @ + 1] /\ cpu' = d
        /\ due' = [pc |-> Cpu!Here + 1, then |-> Cpu!Sequential]
    BY <1>5, <1>9
  <2>2. d \in Cpus /\ d.kernel = Cpu!Kernel(d) /\ d.epc = cpu.epc /\ d.branch = cpu.branch
    BY <1>6 DEF Cpu!Kernel
  <2> HIDE DEF d
  <2>3. Cpu!Insn.op \notin Cpu!Branches  BY <1>4 DEF Cpu!Branches
  <2>4. cpu' \in Cpus /\ cpu'.kernel = Cpu!Kernel(cpu') /\ cpu'.epc = cpu.epc
        /\ cpu'.branch = cpu.branch
    BY <2>1, <2>2
  <2>5. cpu.branch = "none"  BY <1>1, <1>9 DEF Within, Cpu!Branch
  <2>6. due' \in [pc : Nat, then : Nat \cup {Cpu!Sequential}] /\ due'.pc = Cpu!Here + 1
        /\ due'.then = Cpu!Sequential
    BY <2>1, <1>2
  <2>7. Follower(Cpu!Insn)  BY <2>3, <2>6 DEF Follower
  <2> QED BY <1>1, <1>4, <1>9, <2>1, <2>4, <2>5, <2>6, <2>7, AdvancesKeep
<1> QED BY <1>7, <1>8, <1>9

LEMMA TakesKeep ==
  ASSUME CoreInv, NEW taken \in BOOLEAN, NEW to \in DOMAIN Code, Cpu!TakeBranch(taken, to)
  PROVE  CoreInv'
<1>1. Cpu!Running /\ CoreData /\ Within /\ Cpu!Branch = "none"
  BY CoreFacts DEF Cpu!TakeBranch
<1>2. Cpu!Here \in Nat /\ Cpu!Here + 1 \in Nat /\ Cpu!Here + 2 \in Nat /\ to \in Nat
  BY <1>1, CoreAssumption DEF Within
<1>3. cpu \in Cpus /\ cpu.epc = resume /\ cpu.kernel = Cpu!Kernel(cpu)  BY <1>1 DEF CoreData
<1>4. cpu.branch = "none"  BY <1>1 DEF Within, Cpu!Branch
<1>5. /\ Cpu!Insn.op \in Cpu!Branches /\ (Cpu!Insn.op \in {"B", "BR"} => taken)
      /\ Cpu!Insn.op # "BR" => Cpu!Insn.to = to
      /\ due' = [pc |-> Cpu!Here + 1, then |-> IF taken THEN to ELSE Cpu!Here + 2]
      /\ UNCHANGED <<code, blocks, edited, resume>>
  BY DEF Cpu!TakeBranch
<1>6. due' \in [pc : Nat, then : Nat \cup {Cpu!Sequential}] /\ due'.pc = Cpu!Here + 1
      /\ due'.then = IF taken THEN to ELSE Cpu!Here + 2
  BY <1>2, <1>5
<1> DEFINE op == Cpu!Insn.op
<1>7. CASE Cpu!Ended
  <2>1. /\ run' = Cpu!Idle
        /\ cpu' = [cpu EXCEPT !.bcond = taken, !.pc = Cpu!Here + 1, !.branch = op, !.btarget = to]
    BY <1>7 DEF Cpu!TakeBranch
  <2>2. Cpu!Insn = code[Cpu!Here]
    <3>1. run.at \in Nat /\ run.at > 0 /\ run.at <= Len(run.block.insns)
          /\ Len(run.block.insns) \in Nat /\ Whole(run.block, run.key[1])
      BY <1>1, <1>4 DEF Within, CoreData, Cpu!Running, Whole
    <3>2. run.at \in 1 .. Len(run.block.insns)
      <4> DEFINE l == Len(run.block.insns)
      <4>1. l \in Nat /\ run.at <= l  BY <3>1
      <4> HIDE DEF l
      <4>2. run.at \in 1 .. l  BY <3>1, <4>1
      <4> QED BY <4>2 DEF l
    <3> QED BY <3>1, <3>2 DEF Whole, Cpu!Insn, Cpu!Here
  <2>3. op \in Cpu!Branches  BY <1>5
  <2> HIDE DEF op
  <2>4. /\ cpu' \in Cpus /\ cpu'.branch = op /\ cpu'.bcond = taken /\ cpu'.btarget = to
        /\ cpu'.pc = Cpu!Here + 1 /\ cpu'.epc = cpu.epc /\ cpu'.kernel = cpu.kernel
        /\ cpu'.exl = cpu.exl /\ cpu'.user = cpu.user
    <3> DEFINE next == Cpu!Here + 1
    <3>1. next \in Nat /\ cpu' = [cpu EXCEPT !.bcond = taken, !.pc = next, !.branch = op,
                                             !.btarget = to]
      BY <2>1, <1>2
    <3> HIDE DEF next
    <3>2. op \in Cpu!Branches \cup {"none"}  BY <2>3
    <3>3. /\ cpu' \in Cpus /\ cpu'.branch = op /\ cpu'.bcond = taken /\ cpu'.btarget = to
          /\ cpu'.pc = next /\ cpu'.epc = cpu.epc /\ cpu'.kernel = cpu.kernel
          /\ cpu'.exl = cpu.exl /\ cpu'.user = cpu.user
      BY <3>1, <3>2, <1>2, <1>3 DEF Cpus
    <3> QED BY <3>3 DEF next
  <2>5. cpu'.kernel = Cpu!Kernel(cpu')  BY <1>3, <2>4 DEF Cpu!Kernel
  <2>6. run' \in [key : {run'.key}, block : {run'.block}, at : Nat] /\ ~Cpu!Running'
    BY <2>1 DEF Cpu!Running, Cpu!Idle
  <2>7. cpu'.pc - 1 = Cpu!Here /\ cpu'.pc + 1 = Cpu!Here + 2  BY <1>2, <2>4
  <2>8. Pending'
    <3>1. cpu'.pc - 1 \in DOMAIN Code  BY <1>1, <2>7 DEF Within
    <3>2. cpu'.branch \in {"B", "BR"} => cpu'.bcond  BY <1>5, <2>4 DEF op
    <3>3. due'.then = IF cpu'.bcond THEN cpu'.btarget ELSE cpu'.pc + 1
      BY <1>6, <2>4, <2>7
    <3>4. cpu'.branch \in Cpu!Immediate =>
            code'[cpu'.pc - 1].op = cpu'.branch /\ code'[cpu'.pc - 1].to = cpu'.btarget
      BY <1>5, <2>2, <2>4, <2>7 DEF op, Cpu!Immediate
    <3> QED BY <3>1, <3>2, <3>3, <3>4 DEF Pending
  <2>9. op # "none"  BY <2>3 DEF Cpu!Branches
  <2>10. Between'  BY <1>6, <2>1, <2>4, <2>8, <2>9 DEF Between, Cpu!Idle
  <2>11. \A k \in DOMAIN blocks' : Cached(k)'
    <3>1. \A k \in DOMAIN blocks : Cached(k)  BY CoreFacts
    <3> QED BY <3>1, <1>5 DEF Cached
  <2>12. DOMAIN code' = DOMAIN Code /\ cpu'.epc = resume'
    BY <1>1, <1>3, <1>5, <2>4 DEF CoreData
  <2>13. (cpu.kernel = Cpu!Kernel(cpu))'  BY <2>5 DEF Cpu!Kernel
  <2> QED BY <1>6, <2>4, <2>6, <2>10, <2>11, <2>12, <2>13 DEF CoreInv
<1>8. CASE ~Cpu!Ended
  <2>1. /\ run' = [run EXCEPT !.at = @ + 1]
        /\ cpu' = [cpu EXCEPT !.bcond = taken, !.btarget = IF op = "BR" THEN to ELSE @]
    BY <1>8 DEF Cpu!TakeBranch
  <2>2. /\ cpu' \in Cpus /\ cpu'.branch = cpu.branch /\ cpu'.bcond = taken
        /\ cpu'.btarget = (IF op = "BR" THEN to ELSE cpu.btarget) /\ cpu'.epc = cpu.epc
        /\ cpu'.kernel = cpu.kernel /\ cpu'.exl = cpu.exl /\ cpu'.user = cpu.user
    BY <1>2, <1>3, <2>1 DEF Cpus
  <2>3. cpu'.kernel = Cpu!Kernel(cpu')  BY <1>3, <2>2 DEF Cpu!Kernel
  <2>4. due'.pc + 1 = Cpu!Here + 2  BY <1>2, <1>6
  <2>5. Follower(Cpu!Insn)
    <3> DEFINE target == IF op = "BR" THEN cpu'.btarget ELSE Cpu!Insn.to
    <3>1. target = to  BY <1>5, <2>2
    <3> HIDE DEF target
    <3>2. target \in Nat /\ due'.then \in Nat /\ (op \in {"B", "BR"} => cpu'.bcond)
          /\ due'.then = IF cpu'.bcond THEN target ELSE due'.pc + 1
      BY <1>2, <1>5, <1>6, <2>2, <2>4, <3>1
    <3> QED BY <1>5, <3>2 DEF Follower, target
  <2> QED BY <1>1, <1>4, <1>5, <1>6, <1>8, <2>1, <2>2, <2>3, <2>5, AdvancesKeep
<1> QED BY <1>7, <1>8

LEMMA EnterKeeps == ASSUME CoreInv, NEW n \in Budgets, Cpu!Enter(n) PROVE CoreInv'
<1> DEFINE key == <<cpu.pc, cpu.branch, n>>
<1>1. /\ ~Cpu!Running /\ cpu.pc \in DOMAIN code /\ UNCHANGED <<code, cpu, due, resume>>
      /\ IF key \in DOMAIN blocks
         THEN run' = [key |-> key, block |-> blocks[key], at |-> 1] /\ UNCHANGED <<blocks, edited>>
         ELSE /\ run' = [key |-> key, block |-> Cpu!Compiled(key), at |-> 1]
              /\ IF cpu.branch \notin Cpu!Immediate THEN UNCHANGED <<blocks, edited>>
                 ELSE /\ blocks' = [k \in DOMAIN blocks \cup {key} |->
                                     IF k = key THEN Cpu!Compiled(k) ELSE blocks[k]]
                      /\ edited' = IF code[cpu.pc - 1] = [op |-> key[2], to |-> cpu.btarget]
                                   THEN edited \ {key} ELSE edited \cup {key}
  BY DEF Cpu!Enter, Cpu!flowVars
<1>2. CoreData /\ Between /\ \A k \in DOMAIN blocks : Cached(k)  BY <1>1, CoreFacts
<1>3. key[1] = cpu.pc /\ key[2] = cpu.branch /\ cpu.pc \in Nat /\ n \in Nat \ {0}
      /\ cpu.pc \in DOMAIN Code /\ cpu \in Cpus /\ cpu.btarget \in Nat
  BY <1>1, <1>2, CoreAssumption DEF CoreData, Cpus
<1> DEFINE block == Cpu!Compiled(key)
<1>4. /\ Whole(block, cpu.pc) /\ 1 <= Len(block.insns)
      /\ block.btarget = IF cpu.branch \in Cpu!Immediate THEN cpu.btarget ELSE 0
  BY <1>3, CompiledWhole
<1> HIDE DEF key, block
<1>5. /\ run'.key = key /\ run'.at = 1
      /\ run' \in [key : {run'.key}, block : {run'.block}, at : Nat]
  BY <1>1
<1>6. Cpu!Running' /\ Cpu!Branch' = cpu.branch
  BY <1>3, <1>5 DEF Cpu!Running, Cpu!Branch
<1>7. Cpu!Here' = cpu.pc /\ Cpu!Here' \in DOMAIN Code /\ due'.pc = Cpu!Here'
  BY <1>1, <1>2, <1>3, <1>5 DEF Cpu!Here, Between
<1>8. Cpu!Target' = IF cpu.branch = "BR" THEN cpu.btarget ELSE run'.block.btarget
  BY <1>1, <1>5, <1>6 DEF Cpu!Target
<1>9. \A k \in DOMAIN blocks' : Cached(k)'
  <2>1. CASE UNCHANGED <<blocks, edited>>
    BY <1>1, <1>2, <2>1 DEF Cached
  <2>2. CASE ~(UNCHANGED <<blocks, edited>>)
    <3>1. cpu.branch \in Cpu!Immediate /\ blocks' = [k \in DOMAIN blocks \cup {key} |->
                                     IF k = key THEN Cpu!Compiled(k) ELSE blocks[k]]
          /\ edited' = IF code[cpu.pc - 1] = [op |-> key[2], to |-> cpu.btarget]
                       THEN edited \ {key} ELSE edited \cup {key}
      BY <1>1, <2>2
    <3>2. Pending  BY <1>2, <3>1 DEF Between, Cpu!Immediate, Cpu!Branches
    <3>3. ASSUME NEW k \in DOMAIN blocks' PROVE Cached(k)'
      <4>1. CASE k = key
        <5>1. blocks'[k].btarget = cpu.btarget /\ 1 <= Len(blocks'[k].insns)
          BY <1>4, <3>1, <4>1 DEF block
        <5>2. k \notin edited' => code[k[1] - 1].to = cpu.btarget  BY <3>1, <4>1, <1>3
        <5>3. k[1] - 1 \in DOMAIN Code  BY <3>2, <4>1, <1>3 DEF Pending
        <5> QED BY <1>1, <1>3, <3>1, <4>1, <5>1, <5>2, <5>3 DEF Cached
      <4>2. CASE k # key
        <5>1. k \in DOMAIN blocks /\ blocks'[k] = blocks[k] /\ (k \notin edited' => k \notin edited)
          BY <3>1, <4>2
        <5> QED BY <1>1, <1>2, <5>1 DEF Cached
      <4> QED BY <4>1, <4>2
    <3> QED BY <3>3
  <2> QED BY <2>1, <2>2
<1>10. Within'
  <2>1. CASE cpu.branch = "none"
    <3>1. key \notin DOMAIN blocks
      <4>1. key \in DOMAIN blocks => key[2] \in Cpu!Immediate  BY <1>2 DEF Cached
      <4> QED BY <4>1, <2>1, <1>3 DEF Cpu!Immediate, Cpu!Branches
    <3>2. run'.block = block  BY <1>1, <3>1 DEF block
    <3>3. Whole(run.block, run.key[1])'  BY <1>1, <1>3, <1>4, <1>5, <3>2 DEF Whole
    <3>4. run'.at <= Len(run'.block.insns)  BY <1>4, <1>5, <3>2
    <3>5. due'.then = Cpu!Sequential  BY <1>1, <1>2, <2>1 DEF Between
    <3> QED BY <1>1, <1>3, <1>5, <1>6, <1>7, <2>1, <3>3, <3>4, <3>5 DEF Within
  <2>2. CASE cpu.branch # "none"
    <3>1. Pending  BY <1>2, <2>2 DEF Between
    <3>2. Cpu!Here' - 1 \in DOMAIN Code /\ (cpu.branch \in {"B", "BR"} => cpu.bcond)
          /\ (~cpu.bcond => due'.then = Cpu!Here' + 1)
          /\ due'.then \in Nat
      BY <1>1, <1>3, <1>7, <3>1 DEF Pending
    <3>3. Cpu!Target' \in Nat
          /\ (cpu.bcond => due'.then = Cpu!Target' \/ run'.key \in edited')
      <4>1. CASE cpu.branch = "BR"
        BY <1>1, <1>3, <1>8, <3>1, <4>1 DEF Pending
      <4>2. CASE cpu.branch # "BR"
        <5>0. cpu.branch \in Cpu!Immediate
          BY <1>3, <2>2, <4>2 DEF Cpus, Cpu!Immediate
        <5>1. CASE key \in DOMAIN blocks
          <6>1. run'.block = blocks[key] /\ UNCHANGED <<blocks, edited>>  BY <1>1, <5>1
          <6>2. Cached(key)  BY <1>2, <5>1
          <6>3. Cpu!Target' = blocks[key].btarget  BY <1>8, <4>2, <6>1
          <6>4. key \notin edited => blocks[key].btarget = cpu.btarget
            <7>1. SUFFICES ASSUME key \notin edited PROVE blocks[key].btarget = cpu.btarget
              OBVIOUS
            <7>2. code[cpu.pc - 1].to = cpu.btarget
              BY <1>3, <3>1, <5>0, <5>1, <7>1 DEF Pending
            <7> QED BY <6>2, <7>1, <7>2, <1>3 DEF Cached
          <6> QED BY <1>1, <1>5, <3>1, <6>1, <6>2, <6>3, <6>4 DEF Cached, Pending
        <5>2. CASE key \notin DOMAIN blocks
          <6>1. run'.block = block  BY <1>1, <5>2 DEF block
          <6>2. Cpu!Target' = cpu.btarget  BY <1>4, <1>8, <4>2, <5>0, <6>1
          <6> QED BY <1>1, <1>3, <3>1, <6>2 DEF Pending
        <5> QED BY <5>1, <5>2
      <4> QED BY <4>1, <4>2
    <3>4. run'.at <= Len(run'.block.insns)
      <4>1. CASE key \in DOMAIN blocks
        <5>1. 1 <= Len(blocks[key].insns)  BY <1>2, <4>1 DEF Cached
        <5> QED BY <1>1, <1>5, <4>1, <5>1
      <4>2. CASE key \notin DOMAIN blocks
        <5>1. run'.block = block  BY <1>1, <4>2 DEF block
        <5> QED BY <1>4, <1>5, <5>1
      <4> QED BY <4>1, <4>2
    <3> QED BY <1>1, <1>3, <1>5, <1>6, <1>7, <2>2, <3>2, <3>3, <3>4 DEF Within
  <2> QED BY <2>1, <2>2
<1>11. /\ DOMAIN code' = DOMAIN Code /\ cpu' \in Cpus /\ cpu'.epc = resume'
       /\ due' \in [pc : Nat, then : Nat \cup {Cpu!Sequential}]
  BY <1>1, <1>2 DEF CoreData
<1>12. (cpu.kernel = Cpu!Kernel(cpu))'  BY <1>1, <1>2 DEF CoreData, Cpu!Kernel
<1> QED BY <1>5, <1>6, <1>9, <1>10, <1>11, <1>12 DEF CoreInv

LEMMA PatchKeeps == ASSUME CoreInv, NEW a, NEW insn, Cpu!Patch(a, insn) PROVE CoreInv'
<1> DEFINE kept == {k \in DOMAIN blocks : Cpu!Page(k[1]) # Cpu!Page(a)}
<1>1. /\ ~Cpu!Running /\ code' = [code EXCEPT ![a] = insn] /\ UNCHANGED <<cpu, run, due, resume>>
      /\ blocks' = [k \in kept |-> blocks[k]]
      /\ edited' = (edited \cap kept) \cup {k \in kept : k[1] = a + 1}
  BY DEF Cpu!Patch, Cpu!flowVars, Cpu!Restrict
<1>2. CoreData /\ Between /\ \A k \in DOMAIN blocks : Cached(k)  BY <1>1, CoreFacts
<1>3. DOMAIN code' = DOMAIN Code /\ \A b \in DOMAIN Code : b # a => code'[b] = code[b]
  BY <1>1, <1>2 DEF CoreData
<1>4. kept \subseteq DOMAIN blocks /\ DOMAIN blocks' = kept
      /\ \A k \in kept : blocks'[k] = blocks[k]
  BY <1>1
<1> HIDE DEF kept
<1>5. ASSUME NEW k \in DOMAIN blocks', k \notin edited'
      PROVE  k \in DOMAIN blocks /\ k \notin edited /\ k[1] # a + 1
  BY <1>1, <1>4, <1>5
<1>6. \A k \in DOMAIN blocks' : Cached(k)'
  <2> SUFFICES ASSUME NEW k \in DOMAIN blocks' PROVE Cached(k)'
    OBVIOUS
  <2>1. Cached(k) /\ blocks'[k] = blocks[k]  BY <1>2, <1>4
  <2>2. ASSUME k \notin edited'
        PROVE  k[1] - 1 \in DOMAIN Code /\ blocks[k].btarget = code'[k[1] - 1].to
    <3>1. k \notin edited /\ k[1] # a + 1  BY <1>5, <2>2
    <3>2. k[1] - 1 \in DOMAIN Code /\ blocks[k].btarget = code[k[1] - 1].to
      BY <2>1, <3>1 DEF Cached
    <3>3. k[1] - 1 # a  BY <2>1, <3>1 DEF Cached
    <3> QED BY <1>3, <3>2, <3>3
  <2> QED BY <2>1, <2>2 DEF Cached
<1>7. Between'
  <2>1. CASE cpu.branch = "none"  BY <1>1, <1>2, <2>1 DEF Between
  <2>2. CASE cpu.branch # "none"
    <3>1. Pending  BY <1>2, <2>2 DEF Between
    <3>2. cpu.pc \in Nat  BY <1>2 DEF CoreData, Cpus
    <3>3. ASSUME cpu.branch \in Cpu!Immediate
          PROVE  \/ code'[cpu.pc - 1].op = cpu.branch /\ code'[cpu.pc - 1].to = cpu.btarget
                 \/ \A k \in DOMAIN blocks' : k[1] = cpu.pc => k \in edited'
      <4>1. CASE cpu.pc - 1 = a
        <5>1. cpu.pc = a + 1  BY <3>2, <4>1
        <5> QED BY <1>5, <5>1
      <4>2. CASE cpu.pc - 1 # a
        <5>1. code'[cpu.pc - 1] = code[cpu.pc - 1]  BY <1>3, <3>1, <4>2 DEF Pending
        <5> QED BY <1>5, <3>1, <3>3, <5>1 DEF Pending
      <4> QED BY <4>1, <4>2
    <3>4. Pending'  BY <1>1, <3>1, <3>3 DEF Pending
    <3> QED BY <1>1, <1>2, <2>2, <3>4 DEF Between
  <2> QED BY <2>1, <2>2
<1>8. ~Cpu!Running' /\ run' \in [key : {run'.key}, block : {run'.block}, at : Nat]
  BY <1>1, <1>2 DEF Cpu!Running, CoreData
<1>9. /\ cpu' \in Cpus /\ cpu'.epc = resume'
      /\ due' \in [pc : Nat, then : Nat \cup {Cpu!Sequential}]
  BY <1>1, <1>2 DEF CoreData
<1>10. (cpu.kernel = Cpu!Kernel(cpu))'  BY <1>1, <1>2 DEF CoreData, Cpu!Kernel
<1> QED BY <1>3, <1>6, <1>7, <1>8, <1>9, <1>10 DEF CoreInv

LEMMA CoreSteps == ASSUME CoreInv, Cpu!Next \/ UNCHANGED coreVars PROVE CoreInv'
<1>1. CASE UNCHANGED coreVars
  BY <1>1 DEF coreVars, CoreInv, Cached, Within, Between, Pending, Whole, Cpu!Here, Cpu!Branch,
              Cpu!Target, Cpu!Running, Cpu!Kernel
<1>2. ASSUME NEW n \in Budgets, Cpu!Enter(n) PROVE CoreInv'  BY <1>2, EnterKeeps
<1>3. CASE Cpu!Interrupt  BY <1>3, IdleRaise DEF Cpu!Interrupt
<1>4. CASE Cpu!FetchFault  BY <1>4, IdleRaise DEF Cpu!FetchFault
<1>5. CASE Cpu!Reserved  BY <1>5, BlockRaise DEF Cpu!Reserved
<1>6. ASSUME NEW refill \in BOOLEAN, Cpu!Fault(refill) PROVE CoreInv'
  BY <1>6, BlockRaise DEF Cpu!Fault
<1>7. CASE Cpu!Skip  BY <1>7, SkipKeeps
<1>8. CASE Cpu!Execute  BY <1>8, ExecuteKeeps
<1>9. CASE Cpu!Eret  BY <1>9, EretKeeps
<1>10. ASSUME NEW taken \in BOOLEAN, NEW to \in DOMAIN Code, Cpu!TakeBranch(taken, to)
       PROVE  CoreInv'
  BY <1>10, TakesKeep
<1>11. ASSUME NEW p \in Patches, Cpu!Patch(p[1], p[2]) PROVE CoreInv'  BY <1>11, PatchKeeps
<1> QED BY <1>1, <1>2, <1>3, <1>4, <1>5, <1>6, <1>7, <1>8, <1>9, <1>10, <1>11 DEF Cpu!Next

(* What the run checks follows.                                                  *)
LEMMA CoreHolds == ASSUME CoreInv PROVE Cpu!Follows /\ Cpu!FlagsAgree /\ Cpu!TypeOK
<1>1. Cpu!Follows  BY CoreFacts DEF Cpu!Follows, Within, Between
<1>2. Cpu!FlagsAgree  BY CoreFacts DEF Cpu!FlagsAgree, CoreData
<1>3. cpu.branch \in Cpu!Branches \cup {"none"} /\ cpu.pc \in Nat
  BY CoreFacts DEF CoreData, Cpus
<1>4. run.at <= Len(run.block.insns)
  <2>1. CASE Cpu!Running  BY <2>1, CoreFacts DEF Within
  <2>2. CASE ~Cpu!Running
    <3>1. run = Cpu!Idle  BY <2>2, CoreFacts DEF Between
    <3>2. run.at = 0 /\ run.block.insns = <<>>  BY <3>1 DEF Cpu!Idle
    <3> QED BY <3>2
  <2> QED BY <2>1, <2>2
<1> QED BY <1>1, <1>2, <1>3, <1>4 DEF Cpu!TypeOK

----------------------------------------------------------------------------
(* The system coprocessor.                                                      *)
(* What the translator knows of the writes that change what is deliverable, or    *)
(* what a block is translated for: they end the block.                           *)
WritesEnd(rows) ==
  \A row \in rows : \A sel \in row.sels :
    row.does = "set" =>
      /\ <<row.reg, sel>> = <<12, 0>> => row.ends = "exit"
      /\ <<row.reg, sel>> \in Control!Assumed => row.ends # "next"

LEMMA WritesOfAssumedEnd == WritesEnd(Control!Writes)
<1> USE DEF WritesEnd, Control!Assumed, Control!Set, Control!Ignored, Control!W
<1>1. WritesEnd(Control!IndexWrites)  BY DEF Control!IndexWrites
<1>2. WritesEnd(Control!PagingWrites)  BY DEF Control!PagingWrites
<1>3. WritesEnd(Control!EventWrites)  BY DEF Control!EventWrites
<1>4. WritesEnd(Control!ConfigWrites)  BY DEF Control!ConfigWrites
<1>5. WritesEnd(Control!DebugWrites)  BY DEF Control!DebugWrites
<1>6. WritesEnd(Control!CacheWrites)  BY DEF Control!CacheWrites
<1> HIDE DEF Control!Assumed, Control!Set, Control!Ignored, Control!W
<1> QED BY <1>1, <1>2, <1>3, <1>4, <1>5, <1>6 DEF Control!Writes

LEMMA WriteKindsEnd ==
  ASSUME NEW write \in Control!WriteKinds, write.how.does = "set"
  PROVE  /\ write.reg = <<12, 0>> => write.how.ends = "exit"
         /\ write.reg \in Control!Assumed => write.how.ends # "next"
<1>0. PICK row \in Control!Writes :
        write \in {[how |-> Control!Write(row, sel), reg |-> Control!Known(<<row.reg, sel>>)] :
                   sel \in row.sels}
  BY DEF Control!WriteKinds
<1>1. PICK sel \in row.sels : write = [how |-> Control!Write(row, sel), reg |-> Control!Known(<<row.reg, sel>>)]
  BY <1>0
<1>2. /\ row.does = "set"
      /\ write.how.ends \in {"exit", row.ends}
  BY <1>1 DEF Control!Write
<1>3. CASE <<row.reg, sel>> \in Control!Assumed \cup {<<11, 0>>, <<13, 0>>}
  <2>1. write.reg = <<row.reg, sel>>  BY <1>1, <1>3 DEF Control!Known
  <2> QED BY <2>1, <1>2, WritesOfAssumedEnd DEF WritesEnd
<1>4. CASE <<row.reg, sel>> \notin Control!Assumed \cup {<<11, 0>>, <<13, 0>>}
  <2>1. write.reg = <<>>  BY <1>1, <1>4 DEF Control!Known
  <2> QED BY <2>1 DEF Control!Assumed
<1> QED BY <1>3, <1>4

(* A write ends the block in one of the three ways.                              *)
RowsEnd(rows) == \A row \in rows : row.ends \in {"next", "stop", "exit"}

LEMMA WriteEnds ==
  ASSUME NEW write \in Control!WriteKinds
  PROVE  write.how.ends \in {"next", "stop", "exit"}
<1>1. RowsEnd(Control!Writes)
  <2> USE DEF RowsEnd, Control!Set, Control!Ignored, Control!W
  <2>1. RowsEnd(Control!IndexWrites)  BY DEF Control!IndexWrites
  <2>2. RowsEnd(Control!PagingWrites)  BY DEF Control!PagingWrites
  <2>3. RowsEnd(Control!EventWrites)  BY DEF Control!EventWrites
  <2>4. RowsEnd(Control!ConfigWrites)  BY DEF Control!ConfigWrites
  <2>5. RowsEnd(Control!DebugWrites)  BY DEF Control!DebugWrites
  <2>6. RowsEnd(Control!CacheWrites)  BY DEF Control!CacheWrites
  <2> HIDE DEF Control!Set, Control!Ignored, Control!W
  <2> QED BY <2>1, <2>2, <2>3, <2>4, <2>5, <2>6 DEF Control!Writes
<1>2. PICK row \in Control!Writes :
        write \in {[how |-> Control!Write(row, sel), reg |-> Control!Known(<<row.reg, sel>>)] :
                   sel \in row.sels}
  BY DEF Control!WriteKinds
<1>3. PICK sel \in row.sels :
        write = [how |-> Control!Write(row, sel), reg |-> Control!Known(<<row.reg, sel>>)]
  BY <1>2
<1>4. row.ends \in {"next", "stop", "exit"}  BY <1>1 DEF RowsEnd
<1>5. write.how.ends \in {"exit", "next", row.ends}  BY <1>3 DEF Control!Write
<1> QED BY <1>4, <1>5

(* Every register that a write sets has a row of the reads, for the same options. *)
ReadBack(rows, reads) ==
  \A write \in rows : \A sel \in write.sels : write.does = "set" =>
    \E read \in reads : /\ read.reg = write.reg /\ sel \in read.sels
                        /\ read.needs \subseteq write.needs

LEMMA RowsReadBack == ReadBack(Control!Writes, Control!Reads)
<1> USE DEF ReadBack, Control!Set, Control!Ignored, Control!W, Control!R
<1>1. ReadBack(Control!IndexWrites, Control!IndexReads)
  BY DEF Control!IndexWrites, Control!IndexReads
<1>2. ReadBack(Control!PagingWrites, Control!PagingReads)
  BY DEF Control!PagingWrites, Control!PagingReads
<1>3. ReadBack(Control!EventWrites, Control!EventReads \cup Control!PagingReads)
  <2> SUFFICES ASSUME NEW write \in Control!EventWrites, NEW sel \in write.sels,
                      write.does = "set"
               PROVE  \E read \in Control!EventReads \cup Control!PagingReads :
                        /\ read.reg = write.reg /\ sel \in read.sels
                        /\ read.needs \subseteq write.needs
    OBVIOUS
  <2>1. \/ write.reg = 7 /\ sel = 0 /\ write.needs = {"R2"}
        \/ write.reg = 12 /\ sel \in 1 .. 3 /\ write.needs = {"R2"}
        \/ write.reg \in 9 .. 14 /\ sel = 0 /\ write.needs = {}
    BY DEF Control!EventWrites
  <2>2. CASE write.reg = 7 /\ sel = 0 /\ write.needs = {"R2"}
    <3> DEFINE read == Control!R(7, {0}, {"R2"})
    <3>1. read \in Control!PagingReads  BY DEF Control!PagingReads
    <3> QED BY <2>2, <3>1
  <2>3. CASE write.reg = 12 /\ sel \in 1 .. 3 /\ write.needs = {"R2"}
    <3> DEFINE read == Control!R(12, 1 .. 3, {"R2"})
    <3>1. read \in Control!EventReads  BY DEF Control!EventReads
    <3> QED BY <2>3, <3>1
  <2>4. CASE write.reg \in 9 .. 14 /\ sel = 0 /\ write.needs = {}
    <3> DEFINE read == Control!R(write.reg, {0}, {})
    <3>1. read \in Control!EventReads  BY <2>4 DEF Control!EventReads
    <3> QED BY <2>4, <3>1
  <2> QED BY <2>1, <2>2, <2>3, <2>4
<1>4. ReadBack(Control!ConfigWrites, Control!ConfigReads)
  BY DEF Control!ConfigWrites, Control!ConfigReads
<1>5. ReadBack(Control!DebugWrites, Control!DebugReads)
  BY DEF Control!DebugWrites, Control!DebugReads
<1>6. ReadBack(Control!CacheWrites, Control!CacheReads)
  BY DEF Control!CacheWrites, Control!CacheReads
<1> HIDE DEF Control!Set, Control!Ignored, Control!W, Control!R
<1> QED BY <1>1, <1>2, <1>3, <1>4, <1>5, <1>6 DEF Control!Writes, Control!Reads

LEMMA Cp0ReadsBack == Control!ReadsBack
<1> SUFFICES ASSUME NEW write \in Control!Writes, NEW sel \in write.sels,
                    Control!Write(write, sel).does = "set"
             PROVE  \E read \in Control!Reads :
                      /\ read.reg = write.reg /\ sel \in read.sels
                      /\ Control!Read(read, sel) = "value"
  BY DEF Control!ReadsBack
<1>1. /\ ~Control!IsReserved(write, sel)
      /\ Control!Lacks(write) = {} /\ write.does = "set"
  BY DEF Control!Write
<1>2. PICK read \in Control!Reads : /\ read.reg = write.reg /\ sel \in read.sels
                                    /\ read.needs \subseteq write.needs
  BY <1>1, RowsReadBack DEF ReadBack
<1>3. Control!Lacks(read) = {} /\ ~Control!IsReserved(read, sel)
  BY <1>1, <1>2 DEF Control!Lacks, Control!IsReserved
<1> QED BY <1>2, <1>3 DEF Control!Read

(* Types and the two invariants: these are inductive as they stand.              *)
Cp0Lines ==
  /\ status \in [ie : BOOLEAN, exl : BOOLEAN, user : BOOLEAN, im : SUBSET Control!Lines]
  /\ cause \subseteq Control!Lines /\ {ip2, request, kick} \subseteq BOOLEAN

Cp0Inv ==
  /\ Cp0Lines /\ {stale, swallowed} \subseteq BOOLEAN /\ at \in {"main", "code", "slot"}
  /\ Control!Prompt /\ Control!AssumptionsHold

LEMMA Cp0Starts == ASSUME Control!Init PROVE Cp0Inv
BY DEF Control!Init, Cp0Inv, Cp0Lines, Control!Lines, Control!Prompt, Control!AssumptionsHold, Control!InBlock

(* How a block goes on keeps both: what makes an interrupt deliverable, or what    *)
(* the block was translated for another, ends the block, if not in a slot.         *)
LEMMA FollowKeeps ==
  ASSUME Cp0Inv, NEW changes \in BOOLEAN, NEW ends \in {"next", "stop", "exit"},
         Control!Follow(changes, ends), changes => ends # "next",
         Cp0Lines',
         Control!Deliverable' => kick' \/ ends = "exit" \/ (Control!Deliverable /\ (kick => kick'))
  PROVE  Cp0Inv'
<1>1. CASE Control!GoesOn(changes, ends)
  BY <1>1 DEF Control!GoesOn, Control!Chain, Cp0Inv, Control!Prompt, Control!AssumptionsHold, Control!InBlock
<1>2. CASE Control!Branches(changes, ends)
  BY <1>2 DEF Control!Branches, Control!Chain, Cp0Inv, Control!Prompt, Control!AssumptionsHold, Control!InBlock
<1> QED BY <1>1, <1>2 DEF Control!Follow

LEMMA RaiseKeeps == ASSUME Cp0Inv, Control!Raise PROVE Cp0Inv'
BY DEF Control!Raise, Control!linesVars, Cp0Inv, Control!Prompt, Control!AssumptionsHold,
       Control!InBlock, Cp0Lines

LEMMA QuietKeeps ==
  ASSUME UNCHANGED <<status, cause, ip2, request, kick>>
  PROVE  Control!Deliverable' = Control!Deliverable
BY DEF Control!Deliverable, Control!Pending

(* The lines ask for the running block to stop whenever they request anything.    *)
Kicked ==
  /\ cause' \subseteq Control!Lines /\ request' \in BOOLEAN /\ kick' \in BOOLEAN
  /\ request' => kick'

LEMMA EffectEnds ==
  ASSUME Cp0Inv, NEW r, Control!Effect(r), UNCHANGED ip2
  PROVE  /\ Cp0Lines'
         /\ Control!Deliverable' =>
              kick' \/ r = <<12, 0>> \/ (Control!Deliverable /\ (kick => kick'))
<1>1. CASE r = <<12, 0>>
  <2>1. \E ie, exl, user \in BOOLEAN, im \in CpuMasks :
          status' = [ie |-> ie, exl |-> exl, user |-> user, im |-> im]
    BY <1>1 DEF Control!Effect
  <2>2. UNCHANGED <<cause, request, kick>>  BY <1>1 DEF Control!Effect
  <2> QED BY <2>1, <2>2, <1>1, Cp0Assumption DEF Cp0Inv, Cp0Lines, Control!Lines
<1>2. CASE r = <<13, 0>>
  <2>1. UNCHANGED status  BY <1>2 DEF Control!Effect
  <2>2. \/ \E level \in BOOLEAN : Control!Irq("soft", level, ip2)
        \/ UNCHANGED <<cause, request, kick>>
    BY <1>2 DEF Control!Effect
  <2>3. CASE UNCHANGED <<cause, request, kick>>
    BY <2>3, <2>1, QuietKeeps DEF Cp0Inv, Cp0Lines
  <2>4. CASE \E level \in BOOLEAN : Control!Irq("soft", level, ip2)
    <3>1. Kicked
      BY <2>4 DEF Control!Irq, Cp0Inv, Cp0Lines, Control!Lines, Kicked
    <3> QED BY <3>1, <2>1 DEF Cp0Inv, Cp0Lines, Kicked, Control!Deliverable
  <2> QED BY <2>2, <2>3, <2>4
<1>3. CASE r = <<11, 0>>
  <2>1. UNCHANGED status /\ cause' \subseteq Control!Lines /\ request' \in BOOLEAN /\ kick' = (kick \/ request')
    BY <1>3 DEF Control!Effect, Control!Irq, Cp0Inv, Cp0Lines, Control!Lines
  <2> QED BY <2>1 DEF Cp0Inv, Cp0Lines, Kicked, Control!Deliverable
<1>4. CASE r \notin {<<12, 0>>, <<13, 0>>, <<11, 0>>}
  <2>1. UNCHANGED <<status, cause, request, kick>>  BY <1>4 DEF Control!Effect
  <2> QED BY <2>1, QuietKeeps DEF Cp0Inv, Cp0Lines
<1> QED BY <1>1, <1>2, <1>3, <1>4

LEMMA Cp0Steps ==
  ASSUME Cp0Inv, Control!Next \/ UNCHANGED cp0Vars
  PROVE  Cp0Inv'
<1>1. CASE UNCHANGED cp0Vars
  BY <1>1, QuietKeeps DEF cp0Vars, Cp0Inv, Control!Prompt, Control!AssumptionsHold, Control!InBlock, Cp0Lines
<1>2. ASSUME NEW level \in BOOLEAN, Control!Drive(level)  PROVE Cp0Inv'
  <2>1. Kicked
    BY <1>2 DEF Control!Drive, Control!Irq, Cp0Inv, Cp0Lines, Control!Lines, Kicked
  <2>2. UNCHANGED <<status, at, stale, swallowed>> /\ ip2' \in BOOLEAN
    BY <1>2 DEF Control!Drive
  <2> QED BY <2>1, <2>2 DEF Cp0Inv, Control!Prompt, Control!AssumptionsHold, Control!InBlock,
                            Control!Deliverable, Kicked, Cp0Lines
<1>3. CASE Control!Expire
  <2>1. Kicked
    BY <1>3 DEF Control!Expire, Control!Irq, Cp0Inv, Cp0Lines, Control!Lines, Kicked
  <2>2. UNCHANGED <<status, at, stale, swallowed>> /\ ip2' \in BOOLEAN
    BY <1>3 DEF Control!Expire, Cp0Inv, Cp0Lines
  <2> QED BY <2>1, <2>2 DEF Cp0Inv, Control!Prompt, Control!AssumptionsHold, Control!InBlock,
                            Control!Deliverable, Kicked, Cp0Lines
<1>4. CASE Control!Enter
  <2> USE <1>4 DEF Control!Enter
  <2>1. /\ Cp0Lines'
        /\ status'.exl = (status.exl \/ Control!Deliverable)
        /\ status'.ie = status.ie /\ status'.im = status.im
    BY DEF Cp0Inv, Cp0Lines, Control!Deliverable, Control!Lines
  <2>2. Control!Pending(status)' = Control!Pending(status)
    BY <2>1 DEF Control!Pending
  <2>3. ~Control!Deliverable'
    BY <2>1, <2>2 DEF Control!Deliverable, Cp0Inv
  <2> QED BY <2>1, <2>3 DEF Cp0Inv, Control!Prompt, Control!AssumptionsHold, Control!InBlock
<1>5. CASE Control!Branch
  <2>1. UNCHANGED <<status, cause, ip2, request, kick>> /\ at' = "slot"
    BY <1>5 DEF Control!Branch, Control!linesVars
  <2>2. Control!Deliverable' = Control!Deliverable  BY <2>1, QuietKeeps
  <2> QED BY <1>5, <2>1, <2>2 DEF Control!Branch, Cp0Inv, Control!Prompt, Control!AssumptionsHold,
                                  Control!InBlock, Cp0Lines
<1>6. CASE Control!Plain
  <2>1. UNCHANGED <<status, cause, ip2, request, kick>> /\ Control!Follow(FALSE, "next")
    BY <1>6 DEF Control!Plain, Control!linesVars
  <2>2. Control!Deliverable' = Control!Deliverable  BY <2>1, QuietKeeps
  <2>3. Cp0Lines'
    BY <2>1 DEF Cp0Inv, Cp0Lines
  <2> QED BY <2>1, <2>2, <2>3, FollowKeeps
<1>7. CASE Control!Unusable
  BY <1>7, RaiseKeeps DEF Control!Unusable
<1>8. CASE Control!Eret
  <2>1. CASE Control!NotInSlot
    BY <1>8, <2>1, RaiseKeeps DEF Control!Eret
  <2>2. CASE ~Control!NotInSlot
    <3>1. /\ status' = [status EXCEPT !.exl = FALSE] /\ UNCHANGED <<cause, ip2, request, kick>>
          /\ Control!Follow(TRUE, "exit")
      BY <1>8, <2>2 DEF Control!Eret, Control!linesVars
    <3>2. Cp0Lines'
      BY <3>1 DEF Cp0Inv, Cp0Lines
    <3> QED BY <3>1, <3>2, FollowKeeps
  <2> QED BY <2>1, <2>2
<1>9. CASE Control!Wait
  <2>1. CASE Control!NotInSlot
    BY <1>9, <2>1, RaiseKeeps DEF Control!Wait
  <2>2. CASE ~Control!NotInSlot
    <3>1. UNCHANGED <<status, cause, ip2, request, kick>> /\ Control!Follow(FALSE, "exit")
      BY <1>9, <2>2 DEF Control!Wait, Control!linesVars
    <3>2. Cp0Lines'
      BY <3>1 DEF Cp0Inv, Cp0Lines
    <3> QED BY <3>1, <3>2, FollowKeeps
  <2> QED BY <2>1, <2>2
<1>10. ASSUME NEW on \in BOOLEAN, Control!Enable(on)  PROVE Cp0Inv'
  <2>1. CASE "R2" \notin Features
    BY <1>10, <2>1, RaiseKeeps DEF Control!Enable
  <2>2. CASE "R2" \in Features
    <3> DEFINE ends == IF on THEN "exit" ELSE "stop"
    <3>1. /\ status' = [status EXCEPT !.ie = on] /\ UNCHANGED <<cause, ip2, request, kick>>
          /\ Control!Follow(FALSE, ends)
      BY <1>10, <2>2 DEF Control!Enable, Control!linesVars
    <3>2. Cp0Lines'
      BY <3>1 DEF Cp0Inv, Cp0Lines
    <3>3. Control!Deliverable' => ends = "exit"
      BY <3>1 DEF Cp0Inv, Cp0Lines, Kicked, Control!Deliverable
    <3>4. ends \in {"next", "stop", "exit"}  OBVIOUS
    <3> HIDE DEF ends
    <3> QED BY <3>1, <3>2, <3>3, <3>4, FollowKeeps
  <2> QED BY <2>1, <2>2
<1>11. ASSUME NEW read \in Control!ReadKinds, Control!Mfc0(read)  PROVE Cp0Inv'
  <2>1. CASE read.gives = "reserved"
    BY <1>11, <2>1, RaiseKeeps DEF Control!Mfc0
  <2>2. CASE read.gives # "reserved"
    <3> DEFINE ends == IF read.time THEN "exit" ELSE "next"
    <3>1. /\ Control!Irq("timer", TRUE, ip2) \/ UNCHANGED <<cause, request, kick>>
          /\ Control!Follow(FALSE, ends) /\ UNCHANGED <<ip2, status>>
      BY <1>11, <2>2 DEF Control!Mfc0
    <3>2. /\ cause' \subseteq Control!Lines /\ {request', kick'} \subseteq BOOLEAN
          /\ Control!Deliverable' => kick' \/ (Control!Deliverable /\ (kick => kick'))
      <4>1. CASE Control!Irq("timer", TRUE, ip2)
        <5>1. Kicked
          BY <4>1 DEF Control!Irq, Cp0Inv, Cp0Lines, Control!Lines, Kicked
        <5> QED BY <5>1 DEF Control!Deliverable, Kicked
      <4>2. CASE UNCHANGED <<cause, request, kick>>
        BY <4>2, <3>1, QuietKeeps DEF Cp0Inv, Cp0Lines
      <4> QED BY <3>1, <4>1, <4>2
    <3>3. Cp0Lines'
      BY <3>1, <3>2 DEF Cp0Inv, Cp0Lines
    <3>4. ends \in {"next", "stop", "exit"}  OBVIOUS
    <3> HIDE DEF ends
    <3> QED BY <3>1, <3>2, <3>3, <3>4, FollowKeeps
  <2> QED BY <2>1, <2>2
<1>12. ASSUME NEW write \in Control!WriteKinds, Control!Mtc0(write)  PROVE Cp0Inv'
  <2>1. CASE write.how.does = "reserved"
    BY <1>12, <2>1, RaiseKeeps DEF Control!Mtc0
  <2>2. CASE write.how.does # "reserved"
    <3> DEFINE changes == write.how.does = "set" /\ write.reg \in Control!Assumed
               ends == write.how.ends
    <3>1. /\ Control!Follow(changes, ends) /\ UNCHANGED ip2
          /\ IF write.how.does = "set" THEN Control!Effect(write.reg)
             ELSE UNCHANGED <<status, cause, request, kick>>
      BY <1>12, <2>2 DEF Control!Mtc0
    <3>2. ends \in {"next", "stop", "exit"}  BY WriteEnds
    <3>3. changes => ends # "next"  BY WriteKindsEnd
    <3>4. CASE write.how.does = "set"
      <4>1. Control!Effect(write.reg)  BY <3>1, <3>4
      <4>2. write.reg = <<12, 0>> => ends = "exit"  BY <3>4, WriteKindsEnd
      <4>3. changes \in BOOLEAN  OBVIOUS
      <4> HIDE DEF changes, ends
      <4>4. /\ Cp0Lines'
            /\ Control!Deliverable' =>
                 kick' \/ write.reg = <<12, 0>> \/ (Control!Deliverable /\ (kick => kick'))
        BY <4>1, <3>1, EffectEnds
      <4> QED BY <3>1, <3>2, <3>3, <4>2, <4>3, <4>4, FollowKeeps
    <3>5. CASE write.how.does # "set"
      <4>1. UNCHANGED <<status, cause, ip2, request, kick>>  BY <3>1, <3>5
      <4>2. changes \in BOOLEAN  OBVIOUS
      <4> HIDE DEF changes, ends
      <4>3. Control!Deliverable' = Control!Deliverable  BY <4>1, QuietKeeps
      <4>4. /\ Cp0Lines'
        BY <4>1 DEF Cp0Inv, Cp0Lines
      <4> QED BY <3>1, <3>2, <3>3, <4>1, <4>2, <4>3, <4>4, FollowKeeps
    <3> QED BY <3>4, <3>5
  <2> QED BY <2>1, <2>2
<1> QED BY <1>1, <1>2, <1>3, <1>4, <1>5, <1>6, <1>7, <1>8, <1>9, <1>10, <1>11, <1>12
        DEF Control!Next

----------------------------------------------------------------------------
(* The DMA controller.  A handler is a function on the states of both devices; those *)
(* that go through all the channels are chains of such functions.                  *)
DmaRecords ==
  [dsa : Nat, dta : Nat, dtc : Nat, drt : {"auto", "aic", "ext"}, dcm : Dmac!Commands,
   dda : DmaAddresses, ndes : BOOLEAN, cte : BOOLEAN, flags : SUBSET Dmac!Flags]

DmacStates ==
  [ch : [Dmac!Channels -> DmaRecords], enable : BOOLEAN, ddb : SUBSET Dmac!Channels,
   irqp : SUBSET Dmac!Channels, error : BOOLEAN, irq : BOOLEAN]

DmaStates ==
  [dmac : DmacStates, valid : SUBSET Dmac!Validated,
   msc : [pending : {"none", "read", "write"}, response : 0 .. ResponseBytes,
          ready : BOOLEAN, masked : BOOLEAN, irq : BOOLEAN]]

(* A channel has nothing that could start.                                        *)
Settled(s, c) ==
  /\ ~(s.dmac.enable /\ Dmac!FetchPending(s, c))
  /\ ~(Dmac!AutoReady(s, c) /\ Dmac!Copyable(s.dmac.ch[c]))

(* A step on behalf of channel c leaves the others alone.                          *)
Spares(s, t, c) ==
  /\ t \in DmaStates /\ t.dmac.enable = s.dmac.enable
  /\ \A b \in Dmac!Channels \ {c} :
       t.dmac.ch[b] = s.dmac.ch[b] /\ (b \in t.dmac.ddb <=> b \in s.dmac.ddb)

LEMMA SparesOn ==
  ASSUME NEW s \in DmaStates, NEW t \in DmaStates, NEW u \in DmaStates, NEW c \in Dmac!Channels,
         Spares(s, t, c), Spares(t, u, c)
  PROVE  Spares(s, u, c)
BY DEF Spares

LEMMA SparesSettled ==
  ASSUME NEW s \in DmaStates, NEW t \in DmaStates, NEW c \in Dmac!Channels,
         Spares(s, t, c), NEW b \in Dmac!Channels \ {c}, Settled(s, b)
  PROVE  Settled(t, b)
BY DEF Spares, Settled, Dmac!FetchPending, Dmac!AutoReady, Dmac!Enabled, Dmac!Ch

LEMMA DmaCommandsIn ==
  /\ Dmac!Commands \subseteq DmaCommands /\ Dmac!NoCommand \in Dmac!Commands
  /\ \A d \in DOMAIN DmaDescriptors : DmaDescriptors[d].dcm \in Dmac!Commands
  /\ \A w \in RegWrites : w[2] = "dcm" => w[3] \in Dmac!Commands
<1>1. Dmac!NoCommand \in DmaCommands  BY DEF Dmac!NoCommand, DmaCommands
<1>2. \A w \in RegWrites : w[2] = "dcm" => w[3] \in DmaCommands
  BY DmaAssumption DEF DmaValues
<1>3. \A d \in DOMAIN DmaDescriptors : DmaDescriptors[d].dcm \in DmaCommands
  BY DmaAssumption
<1> QED BY <1>1, <1>2, <1>3 DEF Dmac!Commands

(* DIRQP, the error bit and the output say what the channels say.                    *)
Lines(s) ==
  /\ s.dmac.irqp = {c \in Dmac!Channels : s.dmac.ch[c].flags # {}}
  /\ s.dmac.error = \E c \in Dmac!Channels : "AR" \in s.dmac.ch[c].flags
  /\ s.dmac.irq = \E c \in Dmac!Channels : Dmac!ChannelInterrupts(s.dmac.ch[c])

LEMMA SyncSpares ==
  ASSUME NEW s \in DmaStates
  PROVE  LET t == Dmac!Sync(s)
         IN  /\ t \in DmaStates /\ t.dmac.ch = s.dmac.ch /\ t.dmac.ddb = s.dmac.ddb
             /\ t.dmac.enable = s.dmac.enable /\ t.valid = s.valid /\ t.msc = s.msc
             /\ Lines(t)
<1> DEFINE irqp == {c \in Dmac!Channels : s.dmac.ch[c].flags # {}}
           error == \E c \in Dmac!Channels : "AR" \in s.dmac.ch[c].flags
           d == [s.dmac EXCEPT !.irqp = irqp, !.error = error]
           irq == Dmac!IrqPending(d)
<1>1. Dmac!Sync(s) = [s EXCEPT !.dmac = [d EXCEPT !.irq = irq]]
  BY DEF Dmac!Sync
<1>2. irqp \subseteq Dmac!Channels /\ error \in BOOLEAN /\ irq \in BOOLEAN
  BY DEF Dmac!IrqPending
<1>8. irq = \E c \in Dmac!Channels : Dmac!ChannelInterrupts(s.dmac.ch[c])
  <2>1. d.irqp = irqp /\ d.ch = s.dmac.ch
    <3> HIDE DEF irqp, error
    <3> QED BY DEF DmaStates, DmacStates
  <2>2. \A c \in Dmac!Channels : Dmac!ChannelInterrupts(s.dmac.ch[c]) => c \in irqp
    BY DEF Dmac!ChannelInterrupts
  <2> HIDE DEF d
  <2> QED BY <2>1, <2>2 DEF Dmac!IrqPending
<1> HIDE DEF irqp, error, irq
<1>3. s.dmac \in DmacStates  BY DEF DmaStates, DmacStates
<1> DEFINE x == s.dmac
           y == [x EXCEPT !.irqp = irqp]
           z == [d EXCEPT !.irq = irq]
<1>4. y \in DmacStates /\ y.ch = x.ch /\ y.ddb = x.ddb /\ y.enable = x.enable
      /\ y.irqp = irqp
  <2> HIDE DEF x
  <2> QED BY <1>2, <1>3 DEF DmacStates, x
<1>5. d \in DmacStates /\ d.ch = x.ch /\ d.ddb = x.ddb /\ d.enable = x.enable
      /\ d.irqp = irqp /\ d.error = error
  <2>1. d = [y EXCEPT !.error = error]  OBVIOUS
  <2> HIDE DEF d, x, y
  <2> QED BY <1>2, <1>4, <2>1 DEF DmacStates
<1>6. z \in DmacStates /\ z.ch = x.ch /\ z.ddb = x.ddb /\ z.enable = x.enable
      /\ z.irqp = irqp /\ z.error = error /\ z.irq = irq
  <2> HIDE DEF d, x
  <2> QED BY <1>2, <1>5 DEF DmacStates
<1>7. Dmac!Sync(s) = [s EXCEPT !.dmac = z]  BY <1>1
<1> HIDE DEF z
<1> DEFINE t == [s EXCEPT !.dmac = z]
<1>9. t \in DmaStates /\ t.dmac = z /\ t.valid = s.valid /\ t.msc = s.msc
  BY <1>6 DEF DmaStates
<1> HIDE DEF t
<1>10. Lines(t)
  <2>1. t.dmac.irqp = {c \in Dmac!Channels : t.dmac.ch[c].flags # {}}
    BY <1>6, <1>9 DEF irqp, x
  <2>2. t.dmac.error = \E c \in Dmac!Channels : "AR" \in t.dmac.ch[c].flags
    BY <1>6, <1>9, Zenon DEF error, x
  <2>3. t.dmac.irq = \E c \in Dmac!Channels : Dmac!ChannelInterrupts(t.dmac.ch[c])
    BY <1>6, <1>8, <1>9, Zenon DEF x
  <2> QED BY <2>1, <2>2, <2>3 DEF Lines
<1> QED BY <1>6, <1>7, <1>9, <1>10 DEF t, x

LEMMA SetChSpares ==
  ASSUME NEW s \in DmaStates, NEW c \in Dmac!Channels, NEW r \in DmaRecords
  PROVE  LET t == Dmac!SetCh(s, c, r)
         IN  /\ Spares(s, t, c) /\ t.dmac.ch[c] = r /\ t.dmac.ddb = s.dmac.ddb
             /\ t.valid = s.valid /\ t.msc = s.msc
<1> DEFINE ch == [s.dmac.ch EXCEPT ![c] = r]
<1>1. ch \in [Dmac!Channels -> DmaRecords] /\ ch[c] = r
      /\ \A b \in Dmac!Channels \ {c} : ch[b] = s.dmac.ch[b]
  BY DEF DmaStates, DmacStates
<1>2. Dmac!SetCh(s, c, r) =
        [dmac |-> [ch |-> ch, enable |-> s.dmac.enable, ddb |-> s.dmac.ddb,
                   irqp |-> s.dmac.irqp, error |-> s.dmac.error, irq |-> s.dmac.irq],
         valid |-> s.valid, msc |-> s.msc]
  BY DEF Dmac!SetCh, DmaStates, DmacStates
<1> HIDE DEF ch
<1> QED BY <1>1, <1>2 DEF DmaStates, DmacStates, Spares

(* Taking the doorbell of a channel away.                                         *)
LEMMA UnringSpares ==
  ASSUME NEW s \in DmaStates, NEW c \in Dmac!Channels
  PROVE  LET t == [s EXCEPT !.dmac.ddb = @ \ {c}]
         IN  /\ Spares(s, t, c) /\ t.dmac.ch = s.dmac.ch /\ c \notin t.dmac.ddb
             /\ t.valid = s.valid /\ t.msc = s.msc
<1> DEFINE t == [s EXCEPT !.dmac.ddb = @ \ {c}]
<1>1. t = [dmac |-> [ch |-> s.dmac.ch, enable |-> s.dmac.enable, ddb |-> s.dmac.ddb \ {c},
                     irqp |-> s.dmac.irqp, error |-> s.dmac.error, irq |-> s.dmac.irq],
           valid |-> s.valid, msc |-> s.msc]
  BY DEF DmaStates, DmacStates
<1> HIDE DEF t
<1>2. Spares(s, t, c) /\ t.dmac.ch = s.dmac.ch /\ c \notin t.dmac.ddb
      /\ t.valid = s.valid /\ t.msc = s.msc
  BY <1>1 DEF DmaStates, DmacStates, Spares
<1> QED BY <1>2 DEF t

LEMMA ErrorSpares ==
  ASSUME NEW s \in DmaStates, NEW c \in Dmac!Channels
  PROVE  LET t == Dmac!AddressError(s, c)
         IN  /\ Spares(s, t, c) /\ t.dmac.ddb = s.dmac.ddb /\ t.msc = s.msc /\ Lines(t)
             /\ t.dmac.ch[c] = [s.dmac.ch[c] EXCEPT !.flags = @ \cup {"AR"}]
<1> DEFINE r == [s.dmac.ch[c] EXCEPT !.flags = @ \cup {"AR"}]
           u == Dmac!SetCh(s, c, r)
<1>1. r \in DmaRecords  BY DEF DmaStates, DmacStates, DmaRecords, Dmac!Flags
<1>2. Dmac!AddressError(s, c) = Dmac!Sync(u)  BY DEF Dmac!AddressError, Dmac!Ch
<1> HIDE DEF r
<1>3. Spares(s, u, c) /\ u.dmac.ch[c] = r /\ u.dmac.ddb = s.dmac.ddb /\ u.msc = s.msc
  BY <1>1, SetChSpares
<1> HIDE DEF u
<1>4. u \in DmaStates  BY <1>3 DEF Spares
<1>5. /\ Dmac!Sync(u) \in DmaStates /\ Dmac!Sync(u).dmac.ch = u.dmac.ch
      /\ Dmac!Sync(u).dmac.ddb = u.dmac.ddb /\ Dmac!Sync(u).dmac.enable = u.dmac.enable
      /\ Dmac!Sync(u).msc = u.msc /\ Lines(Dmac!Sync(u))
  BY <1>4, SyncSpares
<1> QED BY <1>2, <1>3, <1>5 DEF Spares, r

LEMMA FetchSpares ==
  ASSUME NEW s \in DmaStates, NEW c \in Dmac!Channels
  PROVE  LET t == Dmac!Fetch(s, c)
         IN  Spares(s, t, c) /\ ~Dmac!FetchPending(t, c)
<1> DEFINE r == s.dmac.ch[c]
           t == [s EXCEPT !.dmac.ddb = @ \ {c}]
           D == DmaDescriptors[r.dda]
           bad == [r EXCEPT !.cte = FALSE, !.dcm = D.dcm, !.flags = @ \cup {"INV"}]
<1>0. r \in DmaRecords  BY DEF DmaStates, DmacStates
<1>1. /\ Spares(s, t, c) /\ t.dmac.ch = s.dmac.ch /\ c \notin t.dmac.ddb
      /\ t.valid = s.valid
  BY UnringSpares
<1>2. t \in DmaStates  BY <1>1 DEF Spares
<1>3. Dmac!Fetch(s, c) =
        IF ~Dmac!FetchPending(s, c) THEN s
        ELSE IF r.dda \notin DOMAIN DmaDescriptors THEN Dmac!AddressError(t, c)
        ELSE IF D.dcm.vm /\ r.dda \notin s.valid THEN Dmac!Sync(Dmac!SetCh(t, c, bad))
        ELSE Dmac!SetCh(t, c, Dmac!Loaded(r))
  BY DEF Dmac!Fetch, Dmac!Ch
<1> HIDE DEF t
<1>4. CASE ~Dmac!FetchPending(s, c)
  <2>1. Spares(s, s, c)  BY DEF Spares
  <2> QED BY <1>3, <1>4, <2>1
<1>5. CASE Dmac!FetchPending(s, c) /\ r.dda \notin DOMAIN DmaDescriptors
  <2> DEFINE u == Dmac!AddressError(t, c)
  <2>1. Spares(t, u, c) /\ u.dmac.ddb = t.dmac.ddb  BY <1>2, ErrorSpares
  <2> HIDE DEF u
  <2>2. u \in DmaStates  BY <2>1 DEF Spares
  <2>3. Spares(s, u, c)  BY <1>1, <1>2, <2>1, <2>2, SparesOn
  <2>4. ~Dmac!FetchPending(u, c)  BY <1>1, <2>1 DEF Dmac!FetchPending
  <2> QED BY <1>3, <1>5, <2>3, <2>4 DEF u
<1>6. ASSUME r.dda \in DOMAIN DmaDescriptors
      PROVE  /\ bad \in DmaRecords /\ Dmac!Loaded(r) \in DmaRecords
  <2>1. /\ D.dcm \in Dmac!Commands
        /\ D.dsa \in Nat /\ D.dta \in Nat /\ D.dtc \in Nat
    BY <1>6, DmaCommandsIn, DmaAssumption
  <2>2. bad \in DmaRecords
    <3> HIDE DEF D, r
    <3> QED BY <1>0, <2>1 DEF DmaRecords, Dmac!Flags
  <2>3. Dmac!Loaded(r) = [r EXCEPT !.dcm = D.dcm, !.dsa = D.dsa, !.dta = D.dta, !.dtc = D.dtc]
    BY DEF Dmac!Loaded
  <2>4. Dmac!Loaded(r) \in DmaRecords
    <3> HIDE DEF D, r
    <3> QED BY <1>0, <2>1, <2>3 DEF DmaRecords
  <2> QED BY <2>2, <2>4
<1> HIDE DEF bad
<1>7. CASE Dmac!FetchPending(s, c) /\ r.dda \in DOMAIN DmaDescriptors
           /\ D.dcm.vm /\ r.dda \notin s.valid
  <2> DEFINE u == Dmac!SetCh(t, c, bad)
             v == Dmac!Sync(u)
  <2>1. Spares(t, u, c) /\ u.dmac.ddb = t.dmac.ddb  BY <1>2, <1>6, <1>7, SetChSpares
  <2> HIDE DEF u
  <2>2. u \in DmaStates  BY <2>1 DEF Spares
  <2>3. /\ v \in DmaStates /\ v.dmac.ch = u.dmac.ch /\ v.dmac.ddb = u.dmac.ddb
        /\ v.dmac.enable = u.dmac.enable
    BY <2>2, SyncSpares
  <2> HIDE DEF v
  <2>4. Spares(t, v, c)  BY <2>1, <2>3 DEF Spares
  <2>5. Spares(s, v, c)  BY <1>1, <1>2, <2>3, <2>4, SparesOn
  <2>6. ~Dmac!FetchPending(v, c)  BY <1>1, <2>1, <2>3 DEF Dmac!FetchPending
  <2> QED BY <1>3, <1>7, <2>5, <2>6 DEF u, v
<1>8. CASE Dmac!FetchPending(s, c) /\ r.dda \in DOMAIN DmaDescriptors
           /\ ~(D.dcm.vm /\ r.dda \notin s.valid)
  <2> DEFINE u == Dmac!SetCh(t, c, Dmac!Loaded(r))
  <2>1. Spares(t, u, c) /\ u.dmac.ddb = t.dmac.ddb  BY <1>2, <1>6, <1>8, SetChSpares
  <2> HIDE DEF u
  <2>2. u \in DmaStates  BY <2>1 DEF Spares
  <2>3. Spares(s, u, c)  BY <1>1, <1>2, <2>1, <2>2, SparesOn
  <2>4. ~Dmac!FetchPending(u, c)  BY <1>1, <2>1 DEF Dmac!FetchPending
  <2> QED BY <1>3, <1>8, <2>3, <2>4 DEF u
<1> QED BY <1>4, <1>5, <1>7, <1>8

(* The end of a block: nothing is left of it, and no doorbell comes back.           *)
Ended(r) == r.flags \cap {"TT", "CT"} # {}

LEMMA FinishSpares ==
  ASSUME NEW s \in DmaStates, NEW c \in Dmac!Channels
  PROVE  LET t == Dmac!Finish(s, c)
         IN  /\ Spares(s, t, c) /\ t.dmac.ch[c].dtc = 0
             /\ Dmac!FetchPending(t, c) => Dmac!FetchPending(s, c)
             /\ t.msc = s.msc /\ Lines(t) /\ Ended(t.dmac.ch[c])
             /\ t.dmac.ch[c].drt = s.dmac.ch[c].drt
<1> DEFINE r == s.dmac.ch[c]
           v == s.valid \ {r.dda}
           t == IF ~r.ndes /\ r.dcm.vm THEN [s EXCEPT !.valid = @ \ {r.dda}] ELSE s
           q == IF r.ndes THEN Dmac!Terminal(r)
                ELSE IF r.dcm.link THEN Dmac!Linked(r)
                ELSE Dmac!Terminal([r EXCEPT !.flags = @ \ {"CT"}])
           u == Dmac!SetCh(t, c, q)
<1>0. r \in DmaRecords  BY DEF DmaStates, DmacStates
<1>1. Dmac!Finish(s, c) = Dmac!Sync(u)  BY DEF Dmac!Finish, Dmac!Ch
<1>2. t \in DmaStates /\ t.dmac = s.dmac /\ t.msc = s.msc
  <2>1. [s EXCEPT !.valid = @ \ {r.dda}] = [dmac |-> s.dmac, valid |-> v, msc |-> s.msc]
    BY DEF DmaStates, DmacStates
  <2>2. v \subseteq Dmac!Validated  BY DEF DmaStates, DmacStates
  <2> HIDE DEF v, r
  <2> QED BY <2>1, <2>2 DEF DmaStates, DmacStates
<1> HIDE DEF r
<1>3. q \in DmaRecords /\ q.dtc = 0 /\ q.ndes = r.ndes /\ (q.cte => r.cte)
      /\ q.drt = r.drt /\ Ended(q)
  <2>1. ASSUME NEW x \in DmaRecords
        PROVE  LET y == Dmac!Terminal(x)
               IN  y \in DmaRecords /\ y.dtc = 0 /\ y.ndes = x.ndes /\ ~y.cte
                   /\ y.drt = x.drt /\ Ended(y)
    BY DEF DmaRecords, Dmac!Terminal, Dmac!Flags, Ended
  <2>2. LET y == Dmac!Linked(r)
        IN  y \in DmaRecords /\ y.dtc = 0 /\ y.ndes = r.ndes /\ y.cte = r.cte
            /\ y.drt = r.drt /\ Ended(y)
    <3> DEFINE a == IF r.dda \in DOMAIN DmaDescriptors THEN DmaDescriptors[r.dda].link ELSE r.dda
    <3>1. a \in DmaAddresses  BY <1>0, DmaAssumption DEF DmaRecords
    <3>2. Dmac!Linked(r) = [r EXCEPT !.dtc = 0, !.flags = (@ \ {"TT"}) \cup {"CT"}, !.dda = a]
      BY DEF Dmac!Linked
    <3> HIDE DEF a
    <3> DEFINE x == [r EXCEPT !.dtc = 0]
               y == [x EXCEPT !.flags = (@ \ {"TT"}) \cup {"CT"}]
               z == [y EXCEPT !.dda = a]
    <3>3. x \in DmaRecords /\ x.dtc = 0 /\ x.ndes = r.ndes /\ x.cte = r.cte
          /\ x.flags = r.flags /\ x.drt = r.drt
      BY <1>0 DEF DmaRecords
    <3>4. y \in DmaRecords /\ y.dtc = 0 /\ y.ndes = r.ndes /\ y.cte = r.cte
          /\ y.drt = r.drt /\ "CT" \in y.flags
      <4> HIDE DEF x
      <4> QED BY <3>3 DEF DmaRecords, Dmac!Flags
    <3>5. z \in DmaRecords /\ z.dtc = 0 /\ z.ndes = r.ndes /\ z.cte = r.cte
          /\ z.drt = r.drt /\ Ended(z)
      <4> HIDE DEF y
      <4> QED BY <3>1, <3>4 DEF DmaRecords, Ended
    <3>6. Dmac!Linked(r) = z
      BY <3>2, <3>3
    <3> HIDE DEF z
    <3> QED BY <3>5, <3>6
  <2> DEFINE x == [r EXCEPT !.flags = @ \ {"CT"}]
  <2>3. x \in DmaRecords /\ x.ndes = r.ndes /\ x.drt = r.drt  BY <1>0 DEF DmaRecords
  <2> HIDE DEF x
  <2>4. q = IF r.ndes THEN Dmac!Terminal(r)
            ELSE IF r.dcm.link THEN Dmac!Linked(r) ELSE Dmac!Terminal(x)
    BY DEF x
  <2> HIDE DEF q
  <2> QED BY <1>0, <2>1, <2>2, <2>3, <2>4
<1> HIDE DEF q, t
<1>4. Spares(t, u, c) /\ u.dmac.ch[c] = q /\ u.dmac.ddb = t.dmac.ddb /\ u.msc = t.msc
  BY <1>2, <1>3, SetChSpares
<1> HIDE DEF u
<1>5. u \in DmaStates  BY <1>4 DEF Spares
<1>6. /\ Dmac!Sync(u) \in DmaStates /\ Dmac!Sync(u).dmac.ch = u.dmac.ch
      /\ Dmac!Sync(u).dmac.ddb = u.dmac.ddb /\ Dmac!Sync(u).dmac.enable = u.dmac.enable
      /\ Dmac!Sync(u).msc = u.msc /\ Lines(Dmac!Sync(u))
  BY <1>5, SyncSpares
<1>7. Spares(s, Dmac!Sync(u), c)  BY <1>2, <1>4, <1>6 DEF Spares
<1>8. Dmac!Sync(u).dmac.ch[c] = q /\ Dmac!Sync(u).dmac.ddb = s.dmac.ddb
  BY <1>2, <1>4, <1>6
<1>9. Dmac!FetchPending(Dmac!Sync(u), c) => Dmac!FetchPending(s, c)
  BY <1>3, <1>8 DEF Dmac!FetchPending, Dmac!Ch, r
<1>10. Dmac!Sync(u).msc = s.msc  BY <1>2, <1>4, <1>6
<1> QED BY <1>1, <1>3, <1>6, <1>7, <1>8, <1>9, <1>10 DEF r

LEMMA CopiedIn ==
  ASSUME NEW r \in DmaRecords, r.dcm.size \in Nat
  PROVE  LET q == Dmac!Copied(r)
         IN  q \in DmaRecords /\ q.drt = r.drt /\ q.flags = r.flags
<1> DEFINE units == r.dtc * r.dcm.size
<1>1. units \in Nat  BY SMTT(30) DEF DmaRecords
<1> DEFINE dsa1 == IF r.dcm.sai THEN r.dsa + units ELSE r.dsa
           dta1 == IF r.dcm.dai THEN r.dta + units ELSE r.dta
<1>2. Dmac!Copied(r) = [r EXCEPT !.dsa = dsa1, !.dta = dta1]
  BY DEF Dmac!Copied
<1> HIDE DEF units
<1>3. dsa1 \in Nat /\ dta1 \in Nat  BY <1>1 DEF DmaRecords
<1> HIDE DEF dsa1, dta1
<1>4. /\ [r EXCEPT !.dsa = dsa1, !.dta = dta1] \in DmaRecords
      /\ [r EXCEPT !.dsa = dsa1, !.dta = dta1].drt = r.drt
      /\ [r EXCEPT !.dsa = dsa1, !.dta = dta1].flags = r.flags
  BY <1>3 DEF DmaRecords
<1> QED BY <1>2, <1>4

LEMMA AutoSpares ==
  ASSUME NEW s \in DmaStates, NEW c \in Dmac!Channels
  PROVE  LET t == Dmac!Auto(s, c) IN Spares(s, t, c) /\ Settled(t, c)
<1> DEFINE t == Dmac!Fetch(s, c)
           r == t.dmac.ch[c]
<1>1. Spares(s, t, c) /\ ~Dmac!FetchPending(t, c)  BY FetchSpares
<1>2. t \in DmaStates  BY <1>1 DEF Spares
<1>3. Dmac!Auto(s, c) =
        IF ~Dmac!Enabled(s, c) THEN s
        ELSE IF ~Dmac!AutoReady(t, c) THEN t
        ELSE IF ~Dmac!Copyable(r) THEN Dmac!AddressError(t, c)
        ELSE Dmac!Finish([Dmac!SetCh(t, c, Dmac!Copied(r)) EXCEPT !.dmac.ddb = @ \ {c}], c)
  BY DEF Dmac!Auto, Dmac!Ch
<1> HIDE DEF t
<1>4. CASE ~Dmac!Enabled(s, c)
  <2>1. Spares(s, s, c)  BY DEF Spares
  <2>2. Settled(s, c)
    BY <1>4 DEF Settled, Dmac!Enabled, Dmac!AutoReady, Dmac!FetchPending
  <2> QED BY <1>3, <1>4, <2>1, <2>2
<1>5. CASE Dmac!Enabled(s, c) /\ ~Dmac!AutoReady(t, c)
  BY <1>1, <1>3, <1>5 DEF Settled
<1>6. CASE Dmac!Enabled(s, c) /\ Dmac!AutoReady(t, c) /\ ~Dmac!Copyable(r)
  <2> DEFINE u == Dmac!AddressError(t, c)
  <2>1. /\ Spares(t, u, c) /\ u.dmac.ddb = t.dmac.ddb
        /\ u.dmac.ch[c] = [t.dmac.ch[c] EXCEPT !.flags = @ \cup {"AR"}]
    BY <1>2, ErrorSpares
  <2> HIDE DEF u
  <2>2. u \in DmaStates  BY <2>1 DEF Spares
  <2>3. Spares(s, u, c)  BY <1>1, <1>2, <2>1, <2>2, SparesOn
  <2>4. t.dmac.ch[c] \in DmaRecords  BY <1>2 DEF DmaStates, DmacStates
  <2>5. /\ u.dmac.ch[c].ndes = r.ndes /\ u.dmac.ch[c].cte = r.cte
        /\ u.dmac.ch[c].dtc = r.dtc /\ u.dmac.ch[c].dsa = r.dsa
        /\ u.dmac.ch[c].dta = r.dta /\ u.dmac.ch[c].dcm = r.dcm
    BY <2>1, <2>4 DEF DmaRecords
  <2>6. ~Dmac!FetchPending(u, c)
    BY <1>1, <2>1, <2>5 DEF Dmac!FetchPending, Dmac!Ch
  <2>7. ~Dmac!Copyable(u.dmac.ch[c])
    BY <1>6, <2>5 DEF Dmac!Copyable
  <2> QED BY <1>3, <1>6, <2>3, <2>6, <2>7 DEF Settled, u
<1>7. CASE Dmac!Enabled(s, c) /\ Dmac!AutoReady(t, c) /\ Dmac!Copyable(r)
  <2> DEFINE u == Dmac!SetCh(t, c, Dmac!Copied(r))
             v == [u EXCEPT !.dmac.ddb = @ \ {c}]
             w == Dmac!Finish(v, c)
  <2>1. Dmac!Copied(r) \in DmaRecords
    <3>1. r \in DmaRecords /\ r.dcm.size \in Nat
      BY <1>2, DmaCommandsIn DEF DmaStates, DmacStates, DmaRecords, DmaCommands
    <3> QED BY <3>1, CopiedIn
  <2>2. Spares(t, u, c) /\ u.dmac.ddb = t.dmac.ddb  BY <1>2, <2>1, SetChSpares
  <2> HIDE DEF u
  <2>3. u \in DmaStates  BY <2>2 DEF Spares
  <2>4. Spares(u, v, c) /\ c \notin v.dmac.ddb  BY <2>3, UnringSpares
  <2> HIDE DEF v
  <2>5. v \in DmaStates  BY <2>4 DEF Spares
  <2>6. /\ Spares(v, w, c) /\ w.dmac.ch[c].dtc = 0
        /\ Dmac!FetchPending(w, c) => Dmac!FetchPending(v, c)
    BY <2>5, FinishSpares
  <2> HIDE DEF w
  <2>7. w \in DmaStates  BY <2>6 DEF Spares
  <2>8. Spares(s, u, c)  BY <1>1, <1>2, <2>2, <2>3, SparesOn
  <2>9. Spares(s, v, c)  BY <2>3, <2>4, <2>5, <2>8, SparesOn
  <2>10. Spares(s, w, c)  BY <2>5, <2>6, <2>7, <2>9, SparesOn
  <2>11. ~Dmac!FetchPending(v, c)  BY <2>4 DEF Dmac!FetchPending
  <2>12. ~Dmac!AutoReady(w, c)  BY <2>6 DEF Dmac!AutoReady, Dmac!Ch
  <2>13. Settled(w, c)  BY <2>6, <2>11, <2>12 DEF Settled
  <2> QED BY <1>3, <1>7, <2>10, <2>13 DEF u, v, w
<1> QED BY <1>4, <1>5, <1>6, <1>7

LEMMA TrySpares ==
  ASSUME NEW s \in DmaStates, NEW c \in Dmac!Channels
  PROVE  LET t == Dmac!TryChannel(s, c) IN Spares(s, t, c) /\ Settled(t, c)
<1> DEFINE t == Dmac!Fetch(s, c)
<1>1. Spares(s, t, c) /\ ~Dmac!FetchPending(t, c)  BY FetchSpares
<1>2. t \in DmaStates  BY <1>1 DEF Spares
<1>3. Dmac!TryChannel(s, c) =
        IF Dmac!BulkHandles(t, c) THEN Dmac!Bulk(t, c) ELSE Dmac!Auto(t, c)
  BY DEF Dmac!TryChannel
<1> HIDE DEF t
<1>4. CASE Dmac!BulkHandles(t, c)
  <2> DEFINE u == [t EXCEPT !.msc = Dmac!MscDone(@)]
             w == Dmac!Finish(u, c)
  <2>1. u = [dmac |-> t.dmac, valid |-> t.valid, msc |-> Dmac!MscDone(t.msc)]
    BY <1>2 DEF DmaStates, DmacStates
  <2>2. Dmac!MscDone(t.msc) \in
          [pending : {"none", "read", "write"}, response : 0 .. ResponseBytes,
           ready : BOOLEAN, masked : BOOLEAN, irq : BOOLEAN]
    BY <1>2 DEF DmaStates, DmacStates, Dmac!MscDone, Dmac!MscSync
  <2> HIDE DEF u
  <2>3. u \in DmaStates /\ u.dmac = t.dmac  BY <1>2, <2>1, <2>2 DEF DmaStates, DmacStates
  <2>4. Spares(t, u, c)  BY <2>3 DEF Spares
  <2>5. Spares(s, u, c)  BY <1>1, <1>2, <2>3, <2>4, SparesOn
  <2>6. /\ Spares(u, w, c) /\ w.dmac.ch[c].dtc = 0
        /\ Dmac!FetchPending(w, c) => Dmac!FetchPending(u, c)
    BY <2>3, FinishSpares
  <2>7. Dmac!TryChannel(s, c) = w  BY <1>3, <1>4 DEF Dmac!Bulk, u
  <2> HIDE DEF w
  <2>8. w \in DmaStates  BY <2>6 DEF Spares
  <2>9. Spares(s, w, c)  BY <2>3, <2>5, <2>6, <2>8, SparesOn
  <2>10. ~Dmac!FetchPending(u, c)  BY <1>1, <2>3 DEF Dmac!FetchPending, Dmac!Ch
  <2>11. ~Dmac!AutoReady(w, c)  BY <2>6 DEF Dmac!AutoReady, Dmac!Ch
  <2> QED BY <2>6, <2>7, <2>9, <2>10, <2>11 DEF Settled
<1>5. CASE ~Dmac!BulkHandles(t, c)
  <2>1. Spares(t, Dmac!Auto(t, c), c) /\ Settled(Dmac!Auto(t, c), c)  BY <1>2, AutoSpares
  <2>2. Dmac!Auto(t, c) \in DmaStates  BY <2>1 DEF Spares
  <2>3. Spares(s, Dmac!Auto(t, c), c)  BY <1>1, <1>2, <2>1, <2>2, SparesOn
  <2> QED BY <1>3, <1>5, <2>1, <2>3
<1> QED BY <1>4, <1>5

(* A chain of n functions on a set, one applied to what the one before gave.  That   *)
(* the function which names its links exists has no induction to rest on: a link    *)
(* that were missing first would have one before it.                              *)
LEMMA UpTo ==
  ASSUME NEW N \in Nat, NEW D \in SUBSET (0 .. N), 0 \in D,
         \A n \in 1 .. N : n - 1 \in D => n \in D
  PROVE  \A n \in 0 .. N : n \in D
<1> DEFINE M == (0 .. N) \ D
<1>1. SUFFICES ASSUME NEW m \in M PROVE FALSE
  OBVIOUS
<1>2. M \in SUBSET Nat  OBVIOUS
<1>3. PICK k \in M : \A j \in M : k <= j
  <2> HIDE DEF M
  <2> QED BY <1>2, LeastOf
<1>4. k # 0 /\ k \in 1 .. N /\ k - 1 \in 0 .. N
  OBVIOUS
<1>5. k - 1 \in D
  <2>1. k - 1 \notin M  BY <1>3, <1>4
  <2> QED BY <1>4, <2>1
<1> QED BY <1>4, <1>5

Chained(N, S, G, s, f, n) ==
  f \in [0 .. n -> S] /\ f[0] = s /\ \A m \in 1 .. n : f[m] = G[m - 1][f[m - 1]]

HasChain(N, S, G, s) == \E f : Chained(N, S, G, s, f, N)

LEMMA ChainExists ==
  ASSUME NEW N \in Nat, NEW S, NEW G \in [0 .. N - 1 -> [S -> S]], NEW s \in S
  PROVE  HasChain(N, S, G, s)
<1> DEFINE D == {n \in 0 .. N : \E f : Chained(N, S, G, s, f, n)}
<1>1. 0 \in D
  <2> DEFINE f == [i \in 0 .. 0 |-> s]
  <2>1. Chained(N, S, G, s, f, 0)  BY DEF Chained
  <2> QED BY <2>1
<1>2. ASSUME NEW n \in 1 .. N, n - 1 \in D PROVE n \in D
  <2>1. PICK f : Chained(N, S, G, s, f, n - 1)  BY <1>2
  <2> DEFINE g == [i \in 0 .. n |-> IF i = n THEN G[n - 1][f[n - 1]] ELSE f[i]]
  <2>2. /\ f \in [0 .. n - 1 -> S] /\ f[0] = s
        /\ \A m \in 1 .. n - 1 : f[m] = G[m - 1][f[m - 1]]
    BY <2>1 DEF Chained
  <2>3. n - 1 \in 0 .. N - 1 /\ n - 1 \in 0 .. n - 1 /\ n \in Nat  OBVIOUS
  <2>4. f[n - 1] \in S  BY <2>2, <2>3
  <2>5. G[n - 1] \in [S -> S]  BY <2>3
  <2>6. G[n - 1][f[n - 1]] \in S  BY <2>4, <2>5
  <2>7. g \in [0 .. n -> S]
    <3>1. ASSUME NEW i \in 0 .. n, i # n PROVE f[i] \in S
      <4>1. i \in 0 .. n - 1  BY <2>3, <3>1
      <4> QED BY <2>2, <4>1
    <3> QED BY <2>6, <3>1
  <2>8. g[0] = s  BY <2>2, <2>3
  <2>9. ASSUME NEW m \in 1 .. n PROVE g[m] = G[m - 1][g[m - 1]]
    <3>1. m - 1 \in 0 .. n /\ m - 1 # n /\ m \in 0 .. n  BY <2>3
    <3>2. g[m - 1] = f[m - 1]  BY <3>1
    <3>3. CASE m = n  BY <3>1, <3>2, <3>3
    <3>4. CASE m # n
      <4>1. m \in 1 .. n - 1  BY <2>3, <3>4
      <4>2. g[m] = f[m]  BY <3>1, <3>4
      <4> QED BY <2>2, <3>2, <4>1, <4>2
    <3> QED BY <3>3, <3>4
  <2> HIDE DEF g
  <2>10. Chained(N, S, G, s, g, n)  BY <2>7, <2>8, <2>9 DEF Chained
  <2> QED BY <2>10
<1>3. \A n \in 0 .. N : n \in D
  <2>1. D \in SUBSET (0 .. N)  OBVIOUS
  <2> HIDE DEF D
  <2> QED BY <1>1, <1>2, <2>1, UpTo
<1>4. N \in D  BY <1>3
<1> QED BY <1>4 DEF HasChain

(* A chain in which each channel is settled in its turn.                           *)
LEMMA ChainSettles ==
  ASSUME NEW f, f[0] \in DmaStates,
         \A n \in 1 .. NChannels : f[n - 1] \in DmaStates =>
           Spares(f[n - 1], f[n], n - 1) /\ Settled(f[n], n - 1)
  PROVE  f[NChannels] \in DmaStates /\ \A c \in Dmac!Channels : Settled(f[NChannels], c)
<1> DEFINE N == NChannels
           D == {n \in 0 .. N : f[n] \in DmaStates /\ \A c \in 0 .. n - 1 : Settled(f[n], c)}
<1>1. N \in Nat /\ Dmac!Channels = 0 .. N - 1
  BY DmaAssumption DEF Dmac!Channels
<1> HIDE DEF N
<1>2. 0 \in D  BY <1>1
<1>3. ASSUME NEW n \in 1 .. N, n - 1 \in D PROVE n \in D
  <2>1. /\ n \in 0 .. N /\ n - 1 \in Dmac!Channels /\ n \in Nat
        /\ \A c \in 0 .. n - 1 : c = n - 1 \/ (c \in 0 .. (n - 1) - 1 /\ c \in Dmac!Channels \ {n - 1})
    BY <1>1
  <2>2. f[n - 1] \in DmaStates /\ \A c \in 0 .. (n - 1) - 1 : Settled(f[n - 1], c)
    BY <1>3
  <2>3. Spares(f[n - 1], f[n], n - 1) /\ Settled(f[n], n - 1)
    BY <2>2 DEF N
  <2>4. f[n] \in DmaStates  BY <2>3 DEF Spares
  <2>5. \A c \in 0 .. (n - 1) - 1 : c \in Dmac!Channels \ {n - 1} => Settled(f[n], c)
    BY <2>1, <2>2, <2>3, <2>4, SparesSettled
  <2> QED BY <2>1, <2>3, <2>4, <2>5
<1>4. N \in D
  <2>1. D \in SUBSET (0 .. N) /\ N \in 0 .. N  BY <1>1
  <2> HIDE DEF D
  <2> QED BY <1>1, <1>2, <1>3, <2>1, UpTo
<1> QED BY <1>1, <1>4 DEF N

(* Going through all the channels is a chain.                                       *)
LEMMA TryAllChain ==
  ASSUME NEW s \in DmaStates
  PROVE  \E f : /\ f[0] = s /\ Dmac!TryAll(s) = f[NChannels]
               /\ \A n \in 1 .. NChannels : f[n] = Dmac!TryChannel(f[n - 1], n - 1)
<1> DEFINE N == NChannels
           G == [c \in 0 .. N - 1 |-> [x \in DmaStates |-> Dmac!TryChannel(x, c)]]
           E(f) == f = [n \in 0 .. N |-> IF n = 0 THEN s ELSE Dmac!TryChannel(f[n - 1], n - 1)]
           upTo == CHOOSE f : E(f)
<1>1. N \in Nat /\ Dmac!Channels = 0 .. N - 1
  BY DmaAssumption DEF Dmac!Channels
<1>2. Dmac!TryAll(s) = upTo[N]  BY DEF Dmac!TryAll
<1>3. \E f : E(f)
  <2> HIDE DEF N
  <2>1. ASSUME NEW c \in 0 .. N - 1
        PROVE  [x \in DmaStates |-> Dmac!TryChannel(x, c)] \in [DmaStates -> DmaStates]
    <3>1. \A x \in DmaStates : Dmac!TryChannel(x, c) \in DmaStates
      BY <1>1, TrySpares DEF Spares
    <3> QED BY <3>1
  <2>2. G \in [0 .. N - 1 -> [DmaStates -> DmaStates]]  BY <2>1
  <2> HIDE DEF G
  <2>c. HasChain(N, DmaStates, G, s)
    BY <1>1, <2>2, ChainExists
  <2>3. PICK f \in [0 .. N -> DmaStates] :
          f[0] = s /\ \A m \in 1 .. N : f[m] = G[m - 1][f[m - 1]]
    BY <2>c DEF HasChain, Chained
  <2>4. ASSUME NEW n \in 1 .. N PROVE f[n] = Dmac!TryChannel(f[n - 1], n - 1)
    <3>1. n - 1 \in 0 .. N - 1 /\ n - 1 \in 0 .. N  BY <1>1
    <3>2. G[n - 1][f[n - 1]] = Dmac!TryChannel(f[n - 1], n - 1)  BY <2>3, <3>1 DEF G
    <3> QED BY <2>3, <3>2
  <2>5. \A n \in 0 .. N : n = 0 \/ n \in 1 .. N  BY <1>1
  <2>6. E(f)  BY <2>3, <2>4, <2>5
  <2> QED BY <2>6
<1>4. E(upTo)  BY <1>3
<1> HIDE DEF upTo
<1>5. /\ upTo[0] = s
      /\ \A n \in 1 .. N : upTo[n] = Dmac!TryChannel(upTo[n - 1], n - 1)
  BY <1>1, <1>4
<1> QED BY <1>2, <1>5

LEMMA TryAllSettles ==
  ASSUME NEW s \in DmaStates
  PROVE  LET t == Dmac!TryAll(s)
         IN  t \in DmaStates /\ \A c \in Dmac!Channels : Settled(t, c)
<1>1. PICK f : /\ f[0] = s /\ Dmac!TryAll(s) = f[NChannels]
               /\ \A n \in 1 .. NChannels : f[n] = Dmac!TryChannel(f[n - 1], n - 1)
  BY TryAllChain
<1>2. ASSUME NEW n \in 1 .. NChannels, f[n - 1] \in DmaStates
      PROVE  Spares(f[n - 1], f[n], n - 1) /\ Settled(f[n], n - 1)
  <2>1. n - 1 \in Dmac!Channels  BY DmaAssumption DEF Dmac!Channels
  <2> QED BY <1>1, <1>2, <2>1, TrySpares
<1> QED BY <1>1, <1>2, ChainSettles

LEMMA AutoAllChain ==
  ASSUME NEW s \in DmaStates
  PROVE  \E f : /\ f[0] = s /\ Dmac!AutoAll(s) = f[NChannels]
               /\ \A n \in 1 .. NChannels : f[n] = Dmac!Auto(f[n - 1], n - 1)
<1> DEFINE N == NChannels
           G == [c \in 0 .. N - 1 |-> [x \in DmaStates |-> Dmac!Auto(x, c)]]
           E(f) == f = [n \in 0 .. N |-> IF n = 0 THEN s ELSE Dmac!Auto(f[n - 1], n - 1)]
           upTo == CHOOSE f : E(f)
<1>1. N \in Nat /\ Dmac!Channels = 0 .. N - 1
  BY DmaAssumption DEF Dmac!Channels
<1>2. Dmac!AutoAll(s) = upTo[N]  BY DEF Dmac!AutoAll
<1>3. \E f : E(f)
  <2> HIDE DEF N
  <2>1. ASSUME NEW c \in 0 .. N - 1
        PROVE  [x \in DmaStates |-> Dmac!Auto(x, c)] \in [DmaStates -> DmaStates]
    <3>1. \A x \in DmaStates : Dmac!Auto(x, c) \in DmaStates
      BY <1>1, AutoSpares DEF Spares
    <3> QED BY <3>1
  <2>2. G \in [0 .. N - 1 -> [DmaStates -> DmaStates]]  BY <2>1
  <2> HIDE DEF G
  <2>c. HasChain(N, DmaStates, G, s)
    BY <1>1, <2>2, ChainExists
  <2>3. PICK f \in [0 .. N -> DmaStates] :
          f[0] = s /\ \A m \in 1 .. N : f[m] = G[m - 1][f[m - 1]]
    BY <2>c DEF HasChain, Chained
  <2>4. ASSUME NEW n \in 1 .. N PROVE f[n] = Dmac!Auto(f[n - 1], n - 1)
    <3>1. n - 1 \in 0 .. N - 1 /\ n - 1 \in 0 .. N  BY <1>1
    <3>2. G[n - 1][f[n - 1]] = Dmac!Auto(f[n - 1], n - 1)  BY <2>3, <3>1 DEF G
    <3> QED BY <2>3, <3>2
  <2>5. \A n \in 0 .. N : n = 0 \/ n \in 1 .. N  BY <1>1
  <2>6. E(f)  BY <2>3, <2>4, <2>5
  <2> QED BY <2>6
<1>4. E(upTo)  BY <1>3
<1> HIDE DEF upTo
<1>5. /\ upTo[0] = s
      /\ \A n \in 1 .. N : upTo[n] = Dmac!Auto(upTo[n - 1], n - 1)
  BY <1>1, <1>4
<1> QED BY <1>2, <1>5

LEMMA AutoAllSettles ==
  ASSUME NEW s \in DmaStates
  PROVE  LET t == Dmac!AutoAll(s)
         IN  t \in DmaStates /\ \A c \in Dmac!Channels : Settled(t, c)
<1>1. PICK f : /\ f[0] = s /\ Dmac!AutoAll(s) = f[NChannels]
               /\ \A n \in 1 .. NChannels : f[n] = Dmac!Auto(f[n - 1], n - 1)
  BY AutoAllChain
<1>2. ASSUME NEW n \in 1 .. NChannels, f[n - 1] \in DmaStates
      PROVE  Spares(f[n - 1], f[n], n - 1) /\ Settled(f[n], n - 1)
  <2>1. n - 1 \in Dmac!Channels  BY DmaAssumption DEF Dmac!Channels
  <2> QED BY <1>1, <1>2, <2>1, AutoSpares
<1> QED BY <1>1, <1>2, ChainSettles

(* Every handler ends with the state of both devices in DmaStates, and settled.     *)
DmaInv == Dmac!State \in DmaStates /\ \A c \in Dmac!Channels : Settled(Dmac!State, c)

LEMMA DmaSound == ASSUME DmaInv PROVE Dmac!TypeOK /\ Dmac!NothingWaits
<1>1. Dmac!NothingWaits
  BY DEF DmaInv, Settled, Dmac!NothingWaits, Dmac!State
<1>2. dmac \in DmacStates /\ valid \subseteq Dmac!Validated
      /\ msc \in [pending : {"none", "read", "write"}, response : 0 .. ResponseBytes,
                  ready : BOOLEAN, masked : BOOLEAN, irq : BOOLEAN]
  BY DEF DmaInv, Dmac!State, DmaStates
<1>3. Dmac!TypeOK
  BY <1>2 DEF DmacStates, DmaRecords, Dmac!TypeOK
<1> QED BY <1>1, <1>3

LEMMA ResetsIn ==
  ASSUME NEW s \in DmaStates
  PROVE  LET t == [s EXCEPT !.dmac = Dmac!ResetDmac, !.msc = Dmac!ResetMsc]
         IN  t \in DmaStates /\ \A c \in Dmac!Channels : Settled(t, c)
<1> DEFINE t == [s EXCEPT !.dmac = Dmac!ResetDmac, !.msc = Dmac!ResetMsc]
<1>1. Dmac!ResetChannel \in DmaRecords
  BY DmaCommandsIn, DmaAssumption DEF Dmac!ResetChannel, DmaRecords
<1>2. Dmac!ResetDmac \in DmacStates /\ ~Dmac!ResetDmac.enable
  <2> HIDE DEF DmaRecords
  <2> QED BY <1>1 DEF Dmac!ResetDmac, DmacStates
<1> DEFINE x == [s EXCEPT !.dmac = Dmac!ResetDmac]
<1>4. Dmac!ResetMsc \in
        [pending : {"none", "read", "write"}, response : 0 .. ResponseBytes,
         ready : BOOLEAN, masked : BOOLEAN, irq : BOOLEAN]
  BY DmaAssumption DEF Dmac!ResetMsc
<1>3. x \in DmaStates /\ x.dmac = Dmac!ResetDmac  BY <1>2 DEF DmaStates
<1>7. t = [x EXCEPT !.msc = Dmac!ResetMsc]  OBVIOUS
<1> HIDE DEF x, t
<1>5. t \in DmaStates /\ ~t.dmac.enable  BY <1>2, <1>3, <1>4, <1>7 DEF DmaStates
<1>6. \A c \in Dmac!Channels : Settled(t, c)
  BY <1>5 DEF Settled, Dmac!AutoReady, Dmac!Enabled
<1> QED BY <1>5, <1>6 DEF t

LEMMA DmaStarts == ASSUME Dmac!Init PROVE DmaInv
<1> DEFINE s == Dmac!State
<1>1. dmac = Dmac!ResetDmac /\ msc = Dmac!ResetMsc /\ valid \subseteq Dmac!Validated
  BY DEF Dmac!Init
<1>2. Dmac!ResetChannel \in DmaRecords
  BY DmaCommandsIn, DmaAssumption DEF Dmac!ResetChannel, DmaRecords
<1>3. Dmac!ResetDmac \in DmacStates /\ ~Dmac!ResetDmac.enable
  BY <1>2 DEF Dmac!ResetDmac, DmacStates
<1>4. Dmac!ResetMsc \in
        [pending : {"none", "read", "write"}, response : 0 .. ResponseBytes,
         ready : BOOLEAN, masked : BOOLEAN, irq : BOOLEAN]
  BY DmaAssumption DEF Dmac!ResetMsc
<1>5. s \in DmaStates /\ ~s.dmac.enable
  BY <1>1, <1>3, <1>4 DEF Dmac!State, DmaStates
<1> HIDE DEF s
<1>6. \A c \in Dmac!Channels : Settled(s, c)
  BY <1>5 DEF Settled, Dmac!AutoReady, Dmac!Enabled
<1> QED BY <1>5, <1>6 DEF DmaInv, s

LEMMA BecomesIn ==
  ASSUME NEW t \in DmaStates, \A c \in Dmac!Channels : Settled(t, c),
         dmac' = t.dmac, valid' = t.valid, msc' = t.msc
  PROVE  DmaInv'
<1>1. Dmac!State' = [dmac |-> t.dmac, valid |-> t.valid, msc |-> t.msc]
  BY DEF Dmac!State
<1>2. [dmac |-> t.dmac, valid |-> t.valid, msc |-> t.msc] = t  BY DEF DmaStates
<1>3. Dmac!State' = t  BY <1>1, <1>2
<1>4. (Dmac!State \in DmaStates)' /\ (\A c \in Dmac!Channels : Settled(Dmac!State, c))'
  <2>1. ASSUME NEW c \in Dmac!Channels PROVE Settled(Dmac!State, c)'
    <3>1. Settled(t, c)  OBVIOUS
    <3>2. Dmac!State'.dmac = dmac'  BY DEF Dmac!State
    <3> QED BY <1>3, <3>1 DEF Settled, Dmac!FetchPending, Dmac!AutoReady, Dmac!Enabled, Dmac!Ch
  <2> QED BY <1>3, <2>1
<1> QED BY <1>4 DEF DmaInv

(* What does not touch the channels leaves them settled.                            *)
LEMMA SameSettled ==
  ASSUME NEW s \in DmaStates, NEW t \in DmaStates, t.dmac.ch = s.dmac.ch,
         t.dmac.ddb = s.dmac.ddb, t.dmac.enable = s.dmac.enable,
         \A c \in Dmac!Channels : Settled(s, c)
  PROVE  \A c \in Dmac!Channels : Settled(t, c)
BY DEF Settled, Dmac!FetchPending, Dmac!AutoReady, Dmac!Enabled, Dmac!Ch

LEMMA WrittenIn ==
  ASSUME NEW w \in RegWrites, NEW r \in DmaRecords
  PROVE  Dmac!Written(r, w[2], w[3]) \in DmaRecords
<1> DEFINE v == w[3]
<1>1. /\ w[2] \in {"dcs", "dsa", "dta", "dtc", "drt", "dcm", "dda"} /\ v \in DmaValues(w[2])
      /\ w[2] = "dcm" => v \in Dmac!Commands
  BY DmaAssumption, DmaCommandsIn
<1> HIDE DEF v
<1>2. CASE w[2] = "dcs"
  <2>1. v.ndes \in BOOLEAN /\ v.cte \in BOOLEAN /\ v.flags \subseteq Dmac!Flags
    BY <1>1, <1>2 DEF DmaValues, Dmac!Flags
  <2> DEFINE x == [r EXCEPT !.ndes = v.ndes]
             y == [x EXCEPT !.cte = v.cte]
             z == [y EXCEPT !.flags = v.flags]
  <2>2. x \in DmaRecords  BY <2>1 DEF DmaRecords
  <2>3. y \in DmaRecords
    <3> HIDE DEF x
    <3> QED BY <2>1, <2>2 DEF DmaRecords
  <2>4. z \in DmaRecords
    <3> HIDE DEF y
    <3> QED BY <2>1, <2>3 DEF DmaRecords
  <2>5. Dmac!Written(r, w[2], v) = z  BY <1>2 DEF Dmac!Written
  <2> HIDE DEF z
  <2> QED BY <2>4, <2>5 DEF v
<1>3. CASE w[2] \in {"dsa", "dta", "dtc"}
  <2>1. v \in Nat  BY <1>1, <1>3 DEF DmaValues
  <2>2. Dmac!Written(r, w[2], v) \in DmaRecords
    BY <1>3, <2>1 DEF Dmac!Written, DmaRecords
  <2> QED BY <2>2 DEF v
<1>4. CASE w[2] = "drt"
  <2>1. v \in {"auto", "aic", "ext"}  BY <1>1, <1>4 DEF DmaValues
  <2>2. Dmac!Written(r, w[2], v) \in DmaRecords
    BY <1>4, <2>1 DEF Dmac!Written, DmaRecords
  <2> QED BY <2>2 DEF v
<1>5. CASE w[2] = "dcm"
  <2>2. Dmac!Written(r, w[2], v) \in DmaRecords
    BY <1>1, <1>5 DEF Dmac!Written, DmaRecords
  <2> QED BY <2>2 DEF v
<1>6. CASE w[2] = "dda"
  <2>1. v \in DmaAddresses  BY <1>1, <1>6 DEF DmaValues
  <2>2. Dmac!Written(r, w[2], v) \in DmaRecords
    BY <1>6, <2>1 DEF Dmac!Written, DmaRecords
  <2> QED BY <2>2 DEF v
<1> QED BY <1>1, <1>2, <1>3, <1>4, <1>5, <1>6

LEMMA DmaSteps == ASSUME DmaInv, Dmac!Next \/ UNCHANGED dmaVars PROVE DmaInv'
<1> DEFINE s == Dmac!State
           Mscs == [pending : {"none", "read", "write"}, response : 0 .. ResponseBytes,
                    ready : BOOLEAN, masked : BOOLEAN, irq : BOOLEAN]
<1>1. s \in DmaStates /\ \A c \in Dmac!Channels : Settled(s, c)
  BY DEF DmaInv
<1>2. s.dmac = dmac /\ s.valid = valid /\ s.msc = msc  BY DEF Dmac!State
<1>s. ASSUME NEW t \in DmaStates, \A c \in Dmac!Channels : Settled(t, c),
             dmac' = t.dmac, valid' = t.valid, msc' = t.msc
      PROVE  DmaInv'
  BY <1>s, BecomesIn
<1>k. ASSUME NEW u \in DmaStates PROVE LET t == Dmac!Kick(u)
        IN  t \in DmaStates /\ \A c \in Dmac!Channels : Settled(t, c)
  <2> DEFINE x == Dmac!TryAll(u)
             t == Dmac!Sync(x)
  <2>1. x \in DmaStates /\ \A c \in Dmac!Channels : Settled(x, c)  BY TryAllSettles
  <2>2. Dmac!Kick(u) = t  BY DEF Dmac!Kick
  <2> HIDE DEF x
  <2>3. t \in DmaStates /\ t.dmac.ch = x.dmac.ch /\ t.dmac.ddb = x.dmac.ddb
        /\ t.dmac.enable = x.dmac.enable
    BY <2>1, SyncSpares
  <2> HIDE DEF t
  <2>4. \A c \in Dmac!Channels : Settled(t, c)  BY <2>1, <2>3, SameSettled
  <2> QED BY <2>2, <2>3, <2>4
<1>m. ASSUME NEW m \in Mscs PROVE LET t == [s EXCEPT !.msc = m]
        IN  /\ t \in DmaStates /\ t.dmac = s.dmac /\ t.valid = s.valid /\ t.msc = m
            /\ \A c \in Dmac!Channels : Settled(t, c)
  <2> DEFINE t == [s EXCEPT !.msc = m]
  <2> HIDE DEF s
  <2>1. t \in DmaStates /\ t.dmac = s.dmac /\ t.valid = s.valid /\ t.msc = m
    BY <1>1 DEF DmaStates
  <2> HIDE DEF t
  <2>2. \A c \in Dmac!Channels : Settled(t, c)  BY <1>1, <2>1, SameSettled
  <2> QED BY <2>1, <2>2 DEF t
<1>3. msc \in Mscs  BY <1>1, <1>2 DEF DmaStates
<1> HIDE DEF s
<1>4. ASSUME NEW w \in RegWrites, Dmac!WriteRegister(w) PROVE DmaInv'
  <2> DEFINE c == w[1]
             r == Dmac!Written(s.dmac.ch[c], w[2], w[3])
             u == Dmac!SetCh(s, c, r)
             v == Dmac!Sync(u)
             t == Dmac!TryChannel(v, c)
  <2>0. c \in Dmac!Channels  BY DmaAssumption DEF Dmac!Channels
  <2>1. r \in DmaRecords
    <3>1. s.dmac.ch[c] \in DmaRecords  BY <1>1, <2>0 DEF DmaStates, DmacStates
    <3> QED BY <3>1, WrittenIn
  <2>2. dmac' = t.dmac /\ valid' = t.valid /\ msc' = t.msc
    BY <1>4 DEF Dmac!WriteRegister, Dmac!Becomes, Dmac!Ch, s
  <2> HIDE DEF r, c
  <2>3. Spares(s, u, c)  BY <1>1, <2>0, <2>1, SetChSpares
  <2> HIDE DEF u
  <2>4. u \in DmaStates  BY <2>3 DEF Spares
  <2>5. v \in DmaStates /\ v.dmac.ch = u.dmac.ch /\ v.dmac.ddb = u.dmac.ddb
        /\ v.dmac.enable = u.dmac.enable
    BY <2>4, SyncSpares
  <2> HIDE DEF v
  <2>6. Spares(s, v, c)  BY <2>3, <2>5 DEF Spares
  <2>7. Spares(v, t, c) /\ Settled(t, c)  BY <2>0, <2>5, TrySpares
  <2> HIDE DEF t
  <2>8. t \in DmaStates  BY <2>7 DEF Spares
  <2>9. ASSUME NEW b \in Dmac!Channels PROVE Settled(t, b)
    <3>1. CASE b = c  BY <2>7, <3>1
    <3>2. CASE b # c
      <4>1. b \in Dmac!Channels \ {c} /\ Settled(s, b)  BY <1>1, <3>2
      <4>2. Settled(v, b)  BY <1>1, <2>0, <2>5, <2>6, <4>1, SparesSettled
      <4> QED BY <2>0, <2>5, <2>7, <2>8, <4>1, <4>2, SparesSettled
    <3> QED BY <3>1, <3>2
  <2> QED BY <2>2, <2>8, <2>9, BecomesIn
<1>5. ASSUME NEW b \in BOOLEAN, Dmac!WriteControl(b) PROVE DmaInv'
  <2> DEFINE u == [s EXCEPT !.dmac.enable = b, !.dmac.error = FALSE]
             x == Dmac!TryAll(u)
             t == Dmac!Sync(x)
             d == [s.dmac EXCEPT !.enable = b]
             e == [d EXCEPT !.error = FALSE]
  <2>1. dmac' = t.dmac /\ valid' = t.valid /\ msc' = t.msc
    BY <1>5 DEF Dmac!WriteControl, Dmac!Becomes, s
  <2>2. d \in DmacStates  BY <1>1 DEF DmaStates, DmacStates
  <2>3. e \in DmacStates
    <3> HIDE DEF d
    <3> QED BY <2>2 DEF DmacStates
  <2>4. u = [s EXCEPT !.dmac = e]  BY <1>1 DEF DmaStates
  <2> HIDE DEF e
  <2>5. u \in DmaStates
    <3> HIDE DEF u
    <3> QED BY <1>1, <2>3, <2>4 DEF DmaStates
  <2> HIDE DEF u
  <2>6. t \in DmaStates /\ \A c \in Dmac!Channels : Settled(t, c)
    BY <1>k, <2>5 DEF Dmac!Kick
  <2> HIDE DEF t
  <2> QED BY <2>1, <2>6, BecomesIn
<1>6. ASSUME NEW C \in Doorbells, Dmac!WriteDoorbell(C) \/ Dmac!SetDoorbell(C) PROVE DmaInv'
  <2>1. ASSUME NEW D \in SUBSET Dmac!Channels, NEW t,
               t = Dmac!AutoAll([s EXCEPT !.dmac.ddb = D]),
               dmac' = t.dmac, valid' = t.valid, msc' = t.msc
        PROVE  DmaInv'
    <3> DEFINE d == [s.dmac EXCEPT !.ddb = D]
               u == [s EXCEPT !.dmac.ddb = D]
    <3>1. d \in DmacStates  BY <1>1 DEF DmaStates, DmacStates
    <3>2. u = [s EXCEPT !.dmac = d]  OBVIOUS
    <3> HIDE DEF d
    <3>3. u \in DmaStates
      <4> HIDE DEF u
      <4> QED BY <1>1, <3>1, <3>2 DEF DmaStates
    <3> HIDE DEF u
    <3>4. t \in DmaStates /\ \A c \in Dmac!Channels : Settled(t, c)
      BY <2>1, <3>3, AutoAllSettles DEF u
    <3> QED BY <2>1, <3>4, BecomesIn
  <2>2. C \subseteq Dmac!Channels /\ dmac.ddb \cup C \subseteq Dmac!Channels
    <3>1. C \subseteq Dmac!Channels  BY DmaAssumption DEF Dmac!Channels
    <3>2. dmac.ddb \subseteq Dmac!Channels  BY <1>1, <1>2 DEF DmaStates, DmacStates
    <3> QED BY <3>1, <3>2
  <2>3. CASE Dmac!WriteDoorbell(C)
    <3> DEFINE t == Dmac!AutoAll([s EXCEPT !.dmac.ddb = C])
    <3>1. dmac' = t.dmac /\ valid' = t.valid /\ msc' = t.msc
      BY <2>3 DEF Dmac!WriteDoorbell, Dmac!Becomes, s
    <3> QED BY <2>1, <2>2, <3>1
  <2>4. CASE Dmac!SetDoorbell(C)
    <3> DEFINE t == Dmac!AutoAll([s EXCEPT !.dmac.ddb = dmac.ddb \cup C])
    <3>1. dmac' = t.dmac /\ valid' = t.valid /\ msc' = t.msc
      BY <1>2, <2>4 DEF Dmac!SetDoorbell, Dmac!Becomes, s
    <3> QED BY <2>1, <2>2, <3>1
  <2> QED BY <1>6, <2>3, <2>4
<1>7. ASSUME NEW d \in Dmac!Validated, Dmac!Validate(d) PROVE DmaInv'
  <2> DEFINE t == [s EXCEPT !.valid = @ \cup {d}]
  <2>1. dmac' = t.dmac /\ valid' = t.valid /\ msc' = t.msc
    BY <1>7 DEF Dmac!Validate, Dmac!Becomes, s
  <2>2. t \in DmaStates /\ t.dmac = s.dmac  BY <1>1 DEF DmaStates
  <2> HIDE DEF t
  <2>3. \A c \in Dmac!Channels : Settled(t, c)  BY <1>1, <2>2, SameSettled
  <2> QED BY <2>1, <2>2, <2>3, BecomesIn
<1>8. ASSUME NEW k \in {"none", "read", "write"}, Dmac!Command(k) PROVE DmaInv'
  <2> DEFINE m == Dmac!Started(msc, k)
             u == [s EXCEPT !.msc = m]
             t == IF k = "none" THEN u ELSE Dmac!Kick(u)
  <2> DEFINE x == [msc EXCEPT !.pending = k]
             y == [x EXCEPT !.response = ResponseBytes]
             z == [y EXCEPT !.ready = FALSE]
  <2>a. x \in Mscs  BY <1>3
  <2>b. y \in Mscs
    <3>1. ResponseBytes \in 0 .. ResponseBytes  BY DmaAssumption
    <3> HIDE DEF x
    <3> QED BY <2>a, <3>1
  <2>c. z \in Mscs
    <3> HIDE DEF y
    <3> QED BY <2>b
  <2>d. m = [z EXCEPT !.irq = z.ready /\ ~z.masked]  BY DEF Dmac!Started, Dmac!MscSync
  <2> HIDE DEF z
  <2>1. m \in Mscs
    <3> HIDE DEF m
    <3> QED BY <2>c, <2>d
  <2>2. dmac' = t.dmac /\ valid' = t.valid /\ msc' = t.msc
    BY <1>2, <1>8 DEF Dmac!Command, Dmac!Becomes, s
  <2> HIDE DEF m
  <2>3. u \in DmaStates /\ \A c \in Dmac!Channels : Settled(u, c)  BY <1>m, <2>1
  <2> HIDE DEF u
  <2>4. t \in DmaStates /\ \A c \in Dmac!Channels : Settled(t, c)  BY <1>k, <2>3
  <2> HIDE DEF t
  <2> QED BY <2>2, <2>4, BecomesIn
<1>9. ASSUME NEW m \in Mscs, NEW t, t = [s EXCEPT !.msc = m],
             dmac' = t.dmac, valid' = t.valid, msc' = t.msc
      PROVE  DmaInv'
  <2>1. t \in DmaStates /\ \A c \in Dmac!Channels : Settled(t, c)  BY <1>9, <1>m
  <2> QED BY <1>9, <2>1, BecomesIn
<1>10. CASE Dmac!AckMsc
  <2> DEFINE m == Dmac!MscSync([msc EXCEPT !.ready = FALSE])
  <2>1. m \in Mscs  BY <1>3 DEF Dmac!MscSync
  <2>2. LET t == [s EXCEPT !.msc = m] IN dmac' = t.dmac /\ valid' = t.valid /\ msc' = t.msc
    BY <1>2, <1>10 DEF Dmac!AckMsc, Dmac!Becomes, s
  <2> HIDE DEF m
  <2> QED BY <1>9, <2>1, <2>2
<1>11. ASSUME NEW b \in BOOLEAN, Dmac!MaskMsc(b) PROVE DmaInv'
  <2> DEFINE m == Dmac!MscSync([msc EXCEPT !.masked = b])
  <2>1. m \in Mscs  BY <1>3 DEF Dmac!MscSync
  <2>2. LET t == [s EXCEPT !.msc = m] IN dmac' = t.dmac /\ valid' = t.valid /\ msc' = t.msc
    BY <1>2, <1>11 DEF Dmac!MaskMsc, Dmac!Becomes, s
  <2> HIDE DEF m
  <2> QED BY <1>9, <2>1, <2>2
<1>12. ASSUME NEW n \in 1 .. ResponseBytes, Dmac!ReadResponse(n) PROVE DmaInv'
  <2> DEFINE left == IF msc.response > n THEN msc.response - n ELSE 0
             m == [msc EXCEPT !.response = left]
  <2>1. left \in 0 .. ResponseBytes  BY <1>3, DmaAssumption
  <2>2. LET t == [s EXCEPT !.msc = m] IN dmac' = t.dmac /\ valid' = t.valid /\ msc' = t.msc
    BY <1>2, <1>12 DEF Dmac!ReadResponse, Dmac!Becomes, s
  <2> HIDE DEF left
  <2>3. m \in Mscs  BY <1>3, <2>1
  <2> HIDE DEF m
  <2> QED BY <1>9, <2>2, <2>3
<1>13. CASE Dmac!WritePending
  <2> DEFINE t == Dmac!Sync(s)
  <2>1. dmac' = t.dmac /\ valid' = t.valid /\ msc' = t.msc
    BY <1>13 DEF Dmac!WritePending, Dmac!Becomes, s
  <2>2. t \in DmaStates /\ t.dmac.ch = s.dmac.ch /\ t.dmac.ddb = s.dmac.ddb
        /\ t.dmac.enable = s.dmac.enable
    BY <1>1, SyncSpares
  <2> HIDE DEF t
  <2>3. \A c \in Dmac!Channels : Settled(t, c)  BY <1>1, <2>2, SameSettled
  <2> QED BY <2>1, <2>2, <2>3, BecomesIn
<1>14. CASE Dmac!AudioRequest
  <2> DEFINE t == Dmac!Kick(s)
  <2>1. dmac' = t.dmac /\ valid' = t.valid /\ msc' = t.msc
    BY <1>14 DEF Dmac!AudioRequest, Dmac!Becomes, s
  <2>2. t \in DmaStates /\ \A c \in Dmac!Channels : Settled(t, c)  BY <1>1, <1>k
  <2> HIDE DEF t
  <2> QED BY <2>1, <2>2, BecomesIn
<1>15. CASE Dmac!Reset
  <2> DEFINE t == [s EXCEPT !.dmac = Dmac!ResetDmac, !.msc = Dmac!ResetMsc]
  <2>1. dmac' = t.dmac /\ valid' = t.valid /\ msc' = t.msc
    BY <1>15 DEF Dmac!Reset, Dmac!Becomes, s
  <2>2. t \in DmaStates /\ \A c \in Dmac!Channels : Settled(t, c)  BY <1>1, ResetsIn
  <2> HIDE DEF t
  <2> QED BY <2>1, <2>2, BecomesIn
<1>16. CASE Dmac!Restore
  <2> DEFINE u == Dmac!Sync(s)
             m == Dmac!MscSync(u.msc)
             t == [u EXCEPT !.msc = m]
  <2>1. dmac' = t.dmac /\ valid' = t.valid /\ msc' = t.msc
    BY <1>16 DEF Dmac!Restore, Dmac!Becomes, s
  <2>2. u \in DmaStates /\ u.dmac.ch = s.dmac.ch /\ u.dmac.ddb = s.dmac.ddb
        /\ u.dmac.enable = s.dmac.enable /\ u.msc = s.msc
    BY <1>1, SyncSpares
  <2> HIDE DEF u
  <2>3. m \in Mscs  BY <1>2, <1>3, <2>2 DEF Dmac!MscSync
  <2> HIDE DEF m
  <2>4. t \in DmaStates /\ t.dmac = u.dmac  BY <2>2, <2>3 DEF DmaStates
  <2> HIDE DEF t
  <2>5. \A c \in Dmac!Channels : Settled(t, c)  BY <1>1, <2>2, <2>4, SameSettled
  <2> QED BY <2>1, <2>4, <2>5, BecomesIn
<1>17. CASE UNCHANGED dmaVars
  BY <1>1, <1>2, <1>17, BecomesIn DEF dmaVars
<1> QED BY <1>4, <1>5, <1>6, <1>7, <1>8, <1>10, <1>11, <1>12, <1>13, <1>14, <1>15, <1>16, <1>17
  DEF Dmac!Next

----------------------------------------------------------------------------
(* What a handler does on the way: it may end blocks, the card may answer, and the   *)
(* lines may come apart by the load of a descriptor.                               *)
Beside(s) ==
  \E c \in Dmac!Channels :
    /\ s.dmac.ch[c].flags # {} /\ c \notin s.dmac.ddb
    /\ s.dmac.ch[c].dda \in DOMAIN DmaDescriptors
    /\ s.dmac.ch[c].dcm = DmaDescriptors[s.dmac.ch[c].dda].dcm

Either(s) == Lines(s) \/ Beside(s)

NewlyEnds(r, q) == (q.flags \cap {"TT", "CT"}) \ r.flags # {}

Carries(r, q) == q.drt = r.drt /\ (Ended(r) => Ended(q))

Answered(m) == m.ready /\ m.pending = "none"

Serves(s, t) ==
  /\ \A c \in Dmac!Channels : Carries(s.dmac.ch[c], t.dmac.ch[c])
  /\ \/ t.msc = s.msc
     \/ /\ t.msc = Dmac!MscDone(s.msc)
        /\ \E c \in Dmac!Channels : Dmac!Takes(s.msc, c) /\ Ended(t.dmac.ch[c])
  /\ \A c \in Dmac!Channels :
       t.dmac.ch[c].drt # "auto" /\ NewlyEnds(s.dmac.ch[c], t.dmac.ch[c]) =>
         c \in {0, 1} /\ Answered(t.msc)

MscRecords ==
  [pending : {"none", "read", "write"}, response : 0 .. ResponseBytes,
   ready : BOOLEAN, masked : BOOLEAN, irq : BOOLEAN]

MscLine(m) == m.irq = (m.ready /\ ~m.masked)

LEMMA DoneAnswers ==
  ASSUME NEW m \in MscRecords
  PROVE  /\ Dmac!MscDone(m) \in MscRecords /\ Answered(Dmac!MscDone(m))
         /\ MscLine(Dmac!MscDone(m))
BY DEF MscRecords, Answered, MscLine, Dmac!MscDone, Dmac!MscSync

LEMMA MscIn == ASSUME NEW s \in DmaStates PROVE s.msc \in MscRecords
BY DEF DmaStates, MscRecords

LEMMA RecordIn ==
  ASSUME NEW s \in DmaStates, NEW c \in Dmac!Channels PROVE s.dmac.ch[c] \in DmaRecords
BY DEF DmaStates, DmacStates

LEMMA ServesOn ==
  ASSUME NEW s \in DmaStates, NEW t \in DmaStates, NEW u \in DmaStates,
         Serves(s, t), Serves(t, u)
  PROVE  Serves(s, u)
<1>1. \A c \in Dmac!Channels : Carries(s.dmac.ch[c], u.dmac.ch[c])
  BY DEF Serves, Carries
<1>2. Answered(t.msc) => \A c \in Dmac!Channels : ~Dmac!Takes(t.msc, c)
  BY DEF Answered, Dmac!Takes
<1>3. t.msc = Dmac!MscDone(s.msc) => Answered(t.msc)  BY MscIn, DoneAnswers
<1>4. \/ u.msc = s.msc
      \/ /\ u.msc = Dmac!MscDone(s.msc)
         /\ \E c \in Dmac!Channels : Dmac!Takes(s.msc, c) /\ Ended(u.dmac.ch[c])
  <2>1. CASE t.msc = s.msc  BY <2>1 DEF Serves
  <2>2. CASE t.msc # s.msc
    <3>1. t.msc = Dmac!MscDone(s.msc)  BY <2>2 DEF Serves
    <3>2. PICK c \in Dmac!Channels : Dmac!Takes(s.msc, c) /\ Ended(t.dmac.ch[c])
      BY <2>2 DEF Serves
    <3>3. u.msc = t.msc  BY <1>2, <1>3, <3>1 DEF Serves
    <3>4. Ended(u.dmac.ch[c])  BY <3>2 DEF Serves, Carries
    <3> QED BY <3>1, <3>2, <3>3, <3>4
  <2> QED BY <2>1, <2>2
<1>5. Answered(t.msc) => u.msc = t.msc  BY <1>2 DEF Serves
<1>6. ASSUME NEW c \in Dmac!Channels, u.dmac.ch[c].drt # "auto",
             NewlyEnds(s.dmac.ch[c], u.dmac.ch[c])
      PROVE  c \in {0, 1} /\ Answered(u.msc)
  <2>1. t.dmac.ch[c].drt # "auto"  BY <1>6 DEF Serves, Carries
  <2>2. NewlyEnds(s.dmac.ch[c], t.dmac.ch[c]) \/ NewlyEnds(t.dmac.ch[c], u.dmac.ch[c])
    BY <1>6 DEF NewlyEnds
  <2>3. CASE NewlyEnds(s.dmac.ch[c], t.dmac.ch[c])
    <3>1. c \in {0, 1} /\ Answered(t.msc)  BY <2>1, <2>3 DEF Serves
    <3> QED BY <1>5, <3>1
  <2>4. CASE NewlyEnds(t.dmac.ch[c], u.dmac.ch[c])  BY <1>6, <2>4 DEF Serves
  <2> QED BY <2>2, <2>3, <2>4
<1> QED BY <1>1, <1>4, <1>6 DEF Serves

LEMMA ServesItself == ASSUME NEW s PROVE Serves(s, s)
BY DEF Serves, Carries, NewlyEnds

(* A step on behalf of one channel that the card has no part in.                    *)
LEMMA ChannelServes ==
  ASSUME NEW s \in DmaStates, NEW t \in DmaStates, NEW c \in Dmac!Channels,
         Spares(s, t, c), t.msc = s.msc, Carries(s.dmac.ch[c], t.dmac.ch[c]),
         t.dmac.ch[c].drt = "auto" \/ ~NewlyEnds(s.dmac.ch[c], t.dmac.ch[c])
  PROVE  Serves(s, t)
<1>1. ASSUME NEW b \in Dmac!Channels
      PROVE  /\ Carries(s.dmac.ch[b], t.dmac.ch[b])
             /\ t.dmac.ch[b].drt = "auto" \/ ~NewlyEnds(s.dmac.ch[b], t.dmac.ch[b])
  <2>1. CASE b = c  BY <2>1
  <2>2. CASE b # c
    <3>1. t.dmac.ch[b] = s.dmac.ch[b]  BY <2>2 DEF Spares
    <3> QED BY <3>1 DEF Carries, NewlyEnds
  <2> QED BY <2>1, <2>2
<1> QED BY <1>1 DEF Serves

(* Others are beside the lines for as long as they are left alone.                   *)
LEMMA BesideKept ==
  ASSUME NEW s \in DmaStates, NEW t \in DmaStates, NEW c \in Dmac!Channels,
         Spares(s, t, c), c \in s.dmac.ddb, Beside(s)
  PROVE  Beside(t)
<1>1. PICK b \in Dmac!Channels :
        /\ s.dmac.ch[b].flags # {} /\ b \notin s.dmac.ddb
        /\ s.dmac.ch[b].dda \in DOMAIN DmaDescriptors
        /\ s.dmac.ch[b].dcm = DmaDescriptors[s.dmac.ch[b].dda].dcm
  BY DEF Beside
<1>2. t.dmac.ch[b] = s.dmac.ch[b] /\ b \notin t.dmac.ddb  BY <1>1 DEF Spares
<1> QED BY <1>1, <1>2 DEF Beside

(* Lines that showed nothing of a channel show nothing of what is loaded into it.     *)
LEMMA QuietLoad ==
  ASSUME NEW s \in DmaStates, NEW t \in DmaStates, NEW c \in Dmac!Channels, Spares(s, t, c),
         t.dmac.irqp = s.dmac.irqp, t.dmac.error = s.dmac.error, t.dmac.irq = s.dmac.irq,
         s.dmac.ch[c].flags = {}, t.dmac.ch[c].flags = {}, Lines(s)
  PROVE  Lines(t)
<1>1. ASSUME NEW b \in Dmac!Channels
      PROVE  /\ t.dmac.ch[b].flags = s.dmac.ch[b].flags
             /\ Dmac!ChannelInterrupts(t.dmac.ch[b]) = Dmac!ChannelInterrupts(s.dmac.ch[b])
  <2>1. CASE b = c  BY <2>1 DEF Dmac!ChannelInterrupts
  <2>2. CASE b # c  BY <2>2 DEF Spares
  <2> QED BY <2>1, <2>2
<1> QED BY <1>1, Zenon DEF Lines

LEMMA FetchServes ==
  ASSUME NEW s \in DmaStates, NEW c \in Dmac!Channels
  PROVE  LET t == Dmac!Fetch(s, c)
         IN  /\ t.msc = s.msc /\ Serves(s, t)
             /\ Either(s) => Either(t)
             /\ ~Dmac!FetchPending(s, c) => t = s
<1> DEFINE r == s.dmac.ch[c]
           t == [s EXCEPT !.dmac.ddb = @ \ {c}]
           D == DmaDescriptors[r.dda]
           bad == [r EXCEPT !.cte = FALSE, !.dcm = D.dcm, !.flags = @ \cup {"INV"}]
           good == Dmac!Loaded(r)
<1>0. r \in DmaRecords  BY RecordIn
<1>1. /\ Spares(s, t, c) /\ t.dmac.ch = s.dmac.ch /\ c \notin t.dmac.ddb
      /\ t.valid = s.valid /\ t.msc = s.msc
  BY UnringSpares
<1>u. t.dmac.irqp = s.dmac.irqp /\ t.dmac.error = s.dmac.error /\ t.dmac.irq = s.dmac.irq
  BY DEF DmaStates, DmacStates
<1>2. t \in DmaStates  BY <1>1 DEF Spares
<1>3. Dmac!Fetch(s, c) =
        IF ~Dmac!FetchPending(s, c) THEN s
        ELSE IF r.dda \notin DOMAIN DmaDescriptors THEN Dmac!AddressError(t, c)
        ELSE IF D.dcm.vm /\ r.dda \notin s.valid THEN Dmac!Sync(Dmac!SetCh(t, c, bad))
        ELSE Dmac!SetCh(t, c, good)
  BY DEF Dmac!Fetch, Dmac!Ch
<1> HIDE DEF t
<1>4. CASE ~Dmac!FetchPending(s, c)
  BY <1>3, <1>4, ServesItself
<1>5. CASE Dmac!FetchPending(s, c) /\ r.dda \notin DOMAIN DmaDescriptors
  <2> DEFINE u == Dmac!AddressError(t, c)
  <2>1. /\ Spares(t, u, c) /\ u.msc = t.msc /\ Lines(u)
        /\ u.dmac.ch[c] = [t.dmac.ch[c] EXCEPT !.flags = @ \cup {"AR"}]
    BY <1>2, ErrorSpares
  <2> HIDE DEF u
  <2>2. u \in DmaStates  BY <2>1 DEF Spares
  <2>3. Spares(s, u, c)  BY <1>1, <1>2, <2>1, <2>2, SparesOn
  <2>4. u.dmac.ch[c] = [r EXCEPT !.flags = @ \cup {"AR"}]  BY <1>1, <2>1
  <2>5. Carries(r, u.dmac.ch[c]) /\ ~NewlyEnds(r, u.dmac.ch[c])
    BY <1>0, <2>4 DEF DmaRecords, Carries, NewlyEnds, Ended
  <2>6. Serves(s, u)  BY <1>1, <2>1, <2>2, <2>3, <2>5, ChannelServes
  <2> QED BY <1>1, <1>3, <1>5, <2>1, <2>6 DEF Either, u
<1>6. ASSUME r.dda \in DOMAIN DmaDescriptors
      PROVE  /\ bad \in DmaRecords /\ good \in DmaRecords
             /\ Carries(r, bad) /\ ~NewlyEnds(r, bad)
             /\ Carries(r, good) /\ ~NewlyEnds(r, good)
             /\ good.flags = r.flags /\ good.dda = r.dda /\ good.dcm = D.dcm
  <2>1. /\ D.dcm \in Dmac!Commands
        /\ D.dsa \in Nat /\ D.dta \in Nat /\ D.dtc \in Nat
    BY <1>6, DmaCommandsIn, DmaAssumption
  <2>2. bad \in DmaRecords /\ Carries(r, bad) /\ ~NewlyEnds(r, bad)
    <3> HIDE DEF D, r
    <3> QED BY <1>0, <2>1 DEF DmaRecords, Dmac!Flags, Carries, NewlyEnds, Ended
  <2>3. good = [r EXCEPT !.dcm = D.dcm, !.dsa = D.dsa, !.dta = D.dta, !.dtc = D.dtc]
    BY DEF Dmac!Loaded
  <2>4. good \in DmaRecords
    <3> HIDE DEF D, r, good
    <3> QED BY <1>0, <2>1, <2>3 DEF DmaRecords
  <2>5. good.flags = r.flags /\ good.dda = r.dda /\ good.dcm = D.dcm /\ good.drt = r.drt
    <3> HIDE DEF D, r, good
    <3> QED BY <1>0, <2>3 DEF DmaRecords
  <2>6. Carries(r, good) /\ ~NewlyEnds(r, good)
    <3> HIDE DEF D, r, good
    <3> QED BY <2>5 DEF Carries, NewlyEnds, Ended
  <2> QED BY <2>2, <2>4, <2>5, <2>6
<1> HIDE DEF bad, good
<1>7. CASE Dmac!FetchPending(s, c) /\ r.dda \in DOMAIN DmaDescriptors
           /\ D.dcm.vm /\ r.dda \notin s.valid
  <2> DEFINE u == Dmac!SetCh(t, c, bad)
             v == Dmac!Sync(u)
  <2>1. Spares(t, u, c) /\ u.msc = t.msc /\ u.dmac.ch[c] = bad
    BY <1>2, <1>6, <1>7, SetChSpares
  <2> HIDE DEF u
  <2>2. u \in DmaStates  BY <2>1 DEF Spares
  <2>3. /\ v \in DmaStates /\ v.dmac.ch = u.dmac.ch /\ v.dmac.ddb = u.dmac.ddb
        /\ v.dmac.enable = u.dmac.enable /\ v.msc = u.msc /\ Lines(v)
    BY <2>2, SyncSpares
  <2> HIDE DEF v
  <2>4. Spares(t, v, c)  BY <2>1, <2>3 DEF Spares
  <2>5. Spares(s, v, c)  BY <1>1, <1>2, <2>3, <2>4, SparesOn
  <2>6. Serves(s, v)
    <3>1. v.dmac.ch[c] = bad /\ v.msc = s.msc  BY <1>1, <2>1, <2>3
    <3> QED BY <1>6, <1>7, <2>3, <2>5, <3>1, ChannelServes
  <2> QED BY <1>1, <1>3, <1>7, <2>1, <2>3, <2>6 DEF Either, u, v
<1>8. CASE Dmac!FetchPending(s, c) /\ r.dda \in DOMAIN DmaDescriptors
           /\ ~(D.dcm.vm /\ r.dda \notin s.valid)
  <2> DEFINE u == Dmac!SetCh(t, c, good)
  <2>1. Spares(t, u, c) /\ u.dmac.ddb = t.dmac.ddb /\ u.msc = t.msc /\ u.dmac.ch[c] = good
    BY <1>2, <1>6, <1>8, SetChSpares
  <2>l. u.dmac.irqp = t.dmac.irqp /\ u.dmac.error = t.dmac.error /\ u.dmac.irq = t.dmac.irq
    BY <1>2 DEF Dmac!SetCh, DmaStates, DmacStates
  <2> HIDE DEF u
  <2>2. u \in DmaStates  BY <2>1 DEF Spares
  <2>3. Spares(s, u, c)  BY <1>1, <1>2, <2>1, <2>2, SparesOn
  <2>4. Serves(s, u)  BY <1>1, <1>6, <1>8, <2>1, <2>2, <2>3, ChannelServes
  <2>5. Either(s) => Either(u)
    <3>1. CASE Beside(s)
      <4>1. c \in s.dmac.ddb  BY <1>8 DEF Dmac!FetchPending
      <4> QED BY <2>2, <2>3, <3>1, <4>1, BesideKept DEF Either
    <3>2. CASE Lines(s) /\ r.flags = {}
      <4>1. u.dmac.ch[c].flags = {}  BY <1>6, <1>8, <2>1, <3>2
      <4>2. Lines(u)  BY <1>u, <2>2, <2>3, <2>l, <3>2, <4>1, QuietLoad
      <4> QED BY <4>2 DEF Either
    <3>3. CASE r.flags # {}
      <4>1. u.dmac.ch[c].flags # {} /\ c \notin u.dmac.ddb
        BY <1>1, <1>6, <1>8, <2>1, <3>3
      <4>2. /\ u.dmac.ch[c].dda \in DOMAIN DmaDescriptors
            /\ u.dmac.ch[c].dcm = DmaDescriptors[u.dmac.ch[c].dda].dcm
        BY <1>6, <1>8, <2>1
      <4> QED BY <4>1, <4>2 DEF Either, Beside
    <3> QED BY <3>1, <3>2, <3>3 DEF Either
  <2> QED BY <1>1, <1>3, <1>8, <2>1, <2>4, <2>5 DEF u
<1> QED BY <1>4, <1>5, <1>7, <1>8

(* The card's callback has no work at a channel that lacks what it asks for.           *)
LEMMA NoWork ==
  ASSUME NEW s \in DmaStates, NEW t \in DmaStates, NEW c \in Dmac!Channels,
         t.dmac.enable = s.dmac.enable, t.msc = s.msc,
         t.dmac.ch[c].cte = s.dmac.ch[c].cte, t.dmac.ch[c].dtc = s.dmac.ch[c].dtc,
         ~Dmac!BulkHandles(s, c)
  PROVE  ~Dmac!BulkHandles(t, c)
BY DEF Dmac!BulkHandles, Dmac!Enabled, Dmac!Ch

LEMMA AutoServes ==
  ASSUME NEW s \in DmaStates, NEW c \in Dmac!Channels
  PROVE  LET t == Dmac!Auto(s, c)
         IN  /\ t.msc = s.msc /\ Serves(s, t)
             /\ Either(s) => Either(t)
             /\ ~Dmac!FetchPending(s, c) /\ ~Dmac!BulkHandles(s, c) => ~Dmac!BulkHandles(t, c)
<1> DEFINE t == Dmac!Fetch(s, c)
           r == t.dmac.ch[c]
<1>1. Spares(s, t, c) /\ ~Dmac!FetchPending(t, c)  BY FetchSpares
<1>2. t \in DmaStates  BY <1>1 DEF Spares
<1>3. Dmac!Auto(s, c) =
        IF ~Dmac!Enabled(s, c) THEN s
        ELSE IF ~Dmac!AutoReady(t, c) THEN t
        ELSE IF ~Dmac!Copyable(r) THEN Dmac!AddressError(t, c)
        ELSE Dmac!Finish([Dmac!SetCh(t, c, Dmac!Copied(r)) EXCEPT !.dmac.ddb = @ \ {c}], c)
  BY DEF Dmac!Auto, Dmac!Ch
<1>f. /\ t.msc = s.msc /\ Serves(s, t)
      /\ Either(s) => Either(t)
      /\ ~Dmac!FetchPending(s, c) => t = s
  BY FetchServes
<1>r. r \in DmaRecords  BY <1>2, RecordIn
<1> HIDE DEF t
<1>4. CASE ~Dmac!Enabled(s, c)
  BY <1>3, <1>4, ServesItself
<1>5. CASE Dmac!Enabled(s, c) /\ ~Dmac!AutoReady(t, c)
  BY <1>3, <1>5, <1>f
<1>6. CASE Dmac!Enabled(s, c) /\ Dmac!AutoReady(t, c) /\ ~Dmac!Copyable(r)
  <2> DEFINE u == Dmac!AddressError(t, c)
  <2>1. /\ Spares(t, u, c) /\ u.msc = t.msc /\ Lines(u)
        /\ u.dmac.ch[c] = [r EXCEPT !.flags = @ \cup {"AR"}]
    BY <1>2, ErrorSpares
  <2> HIDE DEF u
  <2>2. u \in DmaStates  BY <2>1 DEF Spares
  <2>3. /\ Carries(r, u.dmac.ch[c]) /\ ~NewlyEnds(r, u.dmac.ch[c])
        /\ u.dmac.ch[c].cte = r.cte /\ u.dmac.ch[c].dtc = r.dtc
    <3> HIDE DEF r
    <3> QED BY <1>r, <2>1 DEF DmaRecords, Carries, NewlyEnds, Ended
  <2>4. Serves(t, u)  BY <1>2, <2>1, <2>2, <2>3, ChannelServes
  <2>5. Serves(s, u)  BY <1>2, <1>f, <2>2, <2>4, ServesOn
  <2>6. ~Dmac!BulkHandles(t, c) => ~Dmac!BulkHandles(u, c)
    <3>1. u.dmac.enable = t.dmac.enable  BY <2>1 DEF Spares
    <3> QED BY <1>2, <2>1, <2>2, <2>3, <3>1, NoWork
  <2> QED BY <1>3, <1>6, <1>f, <2>1, <2>5, <2>6 DEF Either, u
<1>7. CASE Dmac!Enabled(s, c) /\ Dmac!AutoReady(t, c) /\ Dmac!Copyable(r)
  <2> DEFINE q == Dmac!Copied(r)
             u == Dmac!SetCh(t, c, q)
             v == [u EXCEPT !.dmac.ddb = @ \ {c}]
             w == Dmac!Finish(v, c)
  <2>1. q \in DmaRecords /\ q.drt = r.drt /\ q.flags = r.flags
    <3>1. r.dcm.size \in Nat
      BY <1>r, DmaCommandsIn DEF DmaRecords, DmaCommands
    <3> QED BY <1>r, <3>1, CopiedIn
  <2>2. Spares(t, u, c) /\ u.msc = t.msc /\ u.dmac.ch[c] = q  BY <1>2, <2>1, SetChSpares
  <2> HIDE DEF u, q
  <2>3. u \in DmaStates  BY <2>2 DEF Spares
  <2>4. Spares(u, v, c) /\ v.msc = u.msc /\ v.dmac.ch = u.dmac.ch  BY <2>3, UnringSpares
  <2> HIDE DEF v
  <2>5. v \in DmaStates  BY <2>4 DEF Spares
  <2>6. /\ Spares(v, w, c) /\ w.dmac.ch[c].dtc = 0 /\ w.msc = v.msc /\ Lines(w)
        /\ Ended(w.dmac.ch[c]) /\ w.dmac.ch[c].drt = v.dmac.ch[c].drt
    BY <2>5, FinishSpares
  <2> HIDE DEF w
  <2>7. w \in DmaStates  BY <2>6 DEF Spares
  <2>8. Spares(t, v, c)  BY <1>2, <2>2, <2>3, <2>4, <2>5, SparesOn
  <2>9. Spares(t, w, c)  BY <1>2, <2>5, <2>6, <2>7, <2>8, SparesOn
  <2>10. w.dmac.ch[c].drt = r.drt /\ r.drt = "auto"
    BY <1>7, <2>1, <2>2, <2>4, <2>6 DEF Dmac!AutoReady, Dmac!Ch
  <2>11. Serves(t, w)
    <3>1. Carries(r, w.dmac.ch[c])  BY <2>6, <2>10 DEF Carries
    <3>2. w.msc = t.msc /\ w.dmac.ch[c].drt = "auto"  BY <2>2, <2>4, <2>6, <2>10
    <3> QED BY <1>2, <2>7, <2>9, <3>1, <3>2, ChannelServes
  <2>12. Serves(s, w)  BY <1>2, <1>f, <2>7, <2>11, ServesOn
  <2>13. ~Dmac!BulkHandles(w, c)  BY <2>6 DEF Dmac!BulkHandles, Dmac!Ch
  <2> QED BY <1>3, <1>7, <1>f, <2>2, <2>4, <2>6, <2>12, <2>13 DEF Either, u, v, w, q
<1> QED BY <1>4, <1>5, <1>6, <1>7

LEMMA TryServes ==
  ASSUME NEW s \in DmaStates, NEW c \in Dmac!Channels
  PROVE  LET t == Dmac!TryChannel(s, c)
         IN  /\ Serves(s, t) /\ ~Dmac!BulkHandles(t, c)
             /\ Either(s) => Either(t)
<1> DEFINE t == Dmac!Fetch(s, c)
<1>1. Spares(s, t, c) /\ ~Dmac!FetchPending(t, c)  BY FetchSpares
<1>2. t \in DmaStates  BY <1>1 DEF Spares
<1>3. Dmac!TryChannel(s, c) =
        IF Dmac!BulkHandles(t, c) THEN Dmac!Bulk(t, c) ELSE Dmac!Auto(t, c)
  BY DEF Dmac!TryChannel
<1>f. /\ t.msc = s.msc /\ Serves(s, t)
      /\ Either(s) => Either(t)
  BY FetchServes
<1> HIDE DEF t
<1>4. CASE Dmac!BulkHandles(t, c)
  <2> DEFINE u == [t EXCEPT !.msc = Dmac!MscDone(@)]
             w == Dmac!Finish(u, c)
  <2>1. u = [dmac |-> t.dmac, valid |-> t.valid, msc |-> Dmac!MscDone(t.msc)]
    BY <1>2 DEF DmaStates, DmacStates
  <2>2. Dmac!MscDone(t.msc) \in MscRecords /\ Answered(Dmac!MscDone(t.msc))
    BY <1>2, MscIn, DoneAnswers
  <2> HIDE DEF u
  <2>3. u \in DmaStates /\ u.dmac = t.dmac /\ u.msc = Dmac!MscDone(t.msc)
    BY <1>2, <2>1, <2>2 DEF DmaStates, DmacStates, MscRecords
  <2>4. Spares(t, u, c)  BY <2>3 DEF Spares
  <2>6. /\ Spares(u, w, c) /\ w.dmac.ch[c].dtc = 0 /\ w.msc = u.msc /\ Lines(w)
        /\ Ended(w.dmac.ch[c]) /\ w.dmac.ch[c].drt = u.dmac.ch[c].drt
    BY <2>3, FinishSpares
  <2>7. Dmac!TryChannel(s, c) = w  BY <1>3, <1>4 DEF Dmac!Bulk, u
  <2> HIDE DEF w
  <2>8. w \in DmaStates  BY <2>6 DEF Spares
  <2>9. Spares(t, w, c)  BY <1>2, <2>3, <2>4, <2>6, <2>8, SparesOn
  <2>10. Dmac!Takes(t.msc, c) /\ c \in {0, 1}
    BY <1>4 DEF Dmac!BulkHandles, Dmac!Takes
  <2>11. ASSUME NEW b \in Dmac!Channels
         PROVE  /\ Carries(t.dmac.ch[b], w.dmac.ch[b])
                /\ NewlyEnds(t.dmac.ch[b], w.dmac.ch[b]) => b \in {0, 1}
    <3>1. CASE b = c  BY <2>3, <2>6, <2>10, <3>1 DEF Carries
    <3>2. CASE b # c
      <4>1. w.dmac.ch[b] = t.dmac.ch[b]  BY <2>9, <3>2 DEF Spares
      <4> QED BY <4>1 DEF Carries, NewlyEnds
    <3> QED BY <3>1, <3>2
  <2>12. w.msc = Dmac!MscDone(t.msc) /\ Answered(w.msc)  BY <2>2, <2>3, <2>6
  <2>13. Serves(t, w)  BY <2>6, <2>10, <2>11, <2>12 DEF Serves
  <2>14. Serves(s, w)  BY <1>2, <1>f, <2>8, <2>13, ServesOn
  <2>15. ~Dmac!BulkHandles(w, c)  BY <2>6 DEF Dmac!BulkHandles, Dmac!Ch
  <2> QED BY <2>6, <2>7, <2>14, <2>15 DEF Either
<1>5. CASE ~Dmac!BulkHandles(t, c)
  <2> DEFINE w == Dmac!Auto(t, c)
  <2>1. /\ w.msc = t.msc /\ Serves(t, w)
        /\ Either(t) => Either(w)
        /\ ~Dmac!FetchPending(t, c) /\ ~Dmac!BulkHandles(t, c) => ~Dmac!BulkHandles(w, c)
    BY <1>2, AutoServes
  <2>2. Spares(t, w, c)  BY <1>2, AutoSpares
  <2>3. Dmac!TryChannel(s, c) = w  BY <1>3, <1>5
  <2> HIDE DEF w
  <2>4. w \in DmaStates  BY <2>2 DEF Spares
  <2>5. Serves(s, w)  BY <1>2, <1>f, <2>1, <2>4, ServesOn
  <2> QED BY <1>1, <1>5, <1>f, <2>1, <2>3, <2>5
<1> QED BY <1>4, <1>5

(* Work for the callback does not come up at the channels that are left alone.           *)
LEMMA NoWorkElsewhere ==
  ASSUME NEW s \in DmaStates, NEW t \in DmaStates, NEW c \in Dmac!Channels,
         Spares(s, t, c), Serves(s, t), NEW b \in Dmac!Channels \ {c},
         ~Dmac!BulkHandles(s, b)
  PROVE  ~Dmac!BulkHandles(t, b)
<1>1. t.dmac.ch[b] = s.dmac.ch[b] /\ t.dmac.enable = s.dmac.enable  BY DEF Spares
<1>2. CASE t.msc = s.msc  BY <1>1, <1>2, NoWork
<1>3. CASE t.msc # s.msc
  <2>1. Answered(t.msc)  BY <1>3, MscIn, DoneAnswers DEF Serves
  <2> QED BY <2>1 DEF Answered, Dmac!BulkHandles, Dmac!Takes
<1> QED BY <1>2, <1>3

(* A chain of such steps.                                                          *)
LEMMA ChainServes ==
  ASSUME NEW f, f[0] \in DmaStates,
         \A n \in 1 .. NChannels : f[n - 1] \in DmaStates =>
           /\ Spares(f[n - 1], f[n], n - 1) /\ Serves(f[n - 1], f[n])
           /\ Either(f[n - 1]) => Either(f[n])
  PROVE  /\ Serves(f[0], f[NChannels])
         /\ Either(f[0]) => Either(f[NChannels])
<1> DEFINE N == NChannels
           D == {n \in 0 .. N : f[n] \in DmaStates /\ Serves(f[0], f[n])
                                /\ (Either(f[0]) => Either(f[n]))}
<1>1. N \in Nat  BY DmaAssumption
<1> HIDE DEF N
<1>2. 0 \in D  BY <1>1, ServesItself
<1>3. ASSUME NEW n \in 1 .. N, n - 1 \in D PROVE n \in D
  <2>1. f[n - 1] \in DmaStates /\ Serves(f[0], f[n - 1]) /\ (Either(f[0]) => Either(f[n - 1]))
    BY <1>3
  <2>2. /\ Spares(f[n - 1], f[n], n - 1) /\ Serves(f[n - 1], f[n])
        /\ Either(f[n - 1]) => Either(f[n])
    BY <2>1 DEF N
  <2>3. f[n] \in DmaStates  BY <2>2 DEF Spares
  <2>4. Serves(f[0], f[n])
    <3> DEFINE a == f[0]
               b == f[n - 1]
               c == f[n]
    <3>1. a \in DmaStates /\ b \in DmaStates /\ c \in DmaStates /\ Serves(a, b) /\ Serves(b, c)
      BY <2>1, <2>2, <2>3
    <3> HIDE DEF a, b, c
    <3>2. Serves(a, c)  BY <3>1, ServesOn
    <3> QED BY <3>2 DEF a, c
  <2>5. n \in 0 .. N  BY <1>1
  <2> QED BY <2>1, <2>2, <2>3, <2>4, <2>5
<1>4. N \in D
  <2>1. D \in SUBSET (0 .. N) /\ N \in 0 .. N  BY <1>1
  <2> HIDE DEF D
  <2> QED BY <1>1, <1>2, <1>3, <2>1, UpTo
<1> QED BY <1>4 DEF N

(* In which each channel is offered to the card in its turn.                        *)
LEMMA ChainWorks ==
  ASSUME NEW f, f[0] \in DmaStates,
         \A n \in 1 .. NChannels : f[n - 1] \in DmaStates =>
           /\ Spares(f[n - 1], f[n], n - 1) /\ Serves(f[n - 1], f[n])
           /\ ~Dmac!BulkHandles(f[n], n - 1)
  PROVE  \A c \in Dmac!Channels : ~Dmac!BulkHandles(f[NChannels], c)
<1> DEFINE N == NChannels
           D == {n \in 0 .. N :
                   f[n] \in DmaStates /\ \A c \in 0 .. n - 1 : ~Dmac!BulkHandles(f[n], c)}
<1>1. N \in Nat /\ Dmac!Channels = 0 .. N - 1
  BY DmaAssumption DEF Dmac!Channels
<1> HIDE DEF N
<1>2. 0 \in D  BY <1>1
<1>3. ASSUME NEW n \in 1 .. N, n - 1 \in D PROVE n \in D
  <2>1. /\ n \in 0 .. N /\ n - 1 \in Dmac!Channels /\ n \in Nat
        /\ \A c \in 0 .. n - 1 : c = n - 1 \/ (c \in 0 .. (n - 1) - 1 /\ c \in Dmac!Channels \ {n - 1})
    BY <1>1
  <2>2. f[n - 1] \in DmaStates /\ \A c \in 0 .. (n - 1) - 1 : ~Dmac!BulkHandles(f[n - 1], c)
    BY <1>3
  <2>3. /\ Spares(f[n - 1], f[n], n - 1) /\ Serves(f[n - 1], f[n])
        /\ ~Dmac!BulkHandles(f[n], n - 1)
    BY <2>2 DEF N
  <2>4. f[n] \in DmaStates  BY <2>3 DEF Spares
  <2>5. \A c \in 0 .. (n - 1) - 1 :
          c \in Dmac!Channels \ {n - 1} => ~Dmac!BulkHandles(f[n], c)
    BY <2>1, <2>2, <2>3, <2>4, NoWorkElsewhere
  <2> QED BY <2>1, <2>3, <2>4, <2>5
<1>4. N \in D
  <2>1. D \in SUBSET (0 .. N) /\ N \in 0 .. N  BY <1>1
  <2> HIDE DEF D
  <2> QED BY <1>1, <1>2, <1>3, <2>1, UpTo
<1> QED BY <1>1, <1>4 DEF N

LEMMA TryAllServes ==
  ASSUME NEW s \in DmaStates
  PROVE  LET t == Dmac!TryAll(s)
         IN  Serves(s, t) /\ \A c \in Dmac!Channels : ~Dmac!BulkHandles(t, c)
<1>1. PICK f : /\ f[0] = s /\ Dmac!TryAll(s) = f[NChannels]
               /\ \A n \in 1 .. NChannels : f[n] = Dmac!TryChannel(f[n - 1], n - 1)
  BY TryAllChain
<1>2. ASSUME NEW n \in 1 .. NChannels, f[n - 1] \in DmaStates
      PROVE  /\ Spares(f[n - 1], f[n], n - 1) /\ Serves(f[n - 1], f[n])
             /\ ~Dmac!BulkHandles(f[n], n - 1)
             /\ Either(f[n - 1]) => Either(f[n])
  <2>1. n - 1 \in Dmac!Channels  BY DmaAssumption DEF Dmac!Channels
  <2> QED BY <1>1, <1>2, <2>1, TrySpares, TryServes
<1>3. Serves(f[0], f[NChannels])  BY <1>1, <1>2, ChainServes
<1>4. \A c \in Dmac!Channels : ~Dmac!BulkHandles(f[NChannels], c)
  BY <1>1, <1>2, ChainWorks
<1> QED BY <1>1, <1>3, <1>4

LEMMA AutoAllServes ==
  ASSUME NEW s \in DmaStates
  PROVE  LET t == Dmac!AutoAll(s)
         IN  /\ Serves(s, t)
             /\ Either(s) => Either(t)
<1>1. PICK f : /\ f[0] = s /\ Dmac!AutoAll(s) = f[NChannels]
               /\ \A n \in 1 .. NChannels : f[n] = Dmac!Auto(f[n - 1], n - 1)
  BY AutoAllChain
<1>2. ASSUME NEW n \in 1 .. NChannels, f[n - 1] \in DmaStates
      PROVE  /\ Spares(f[n - 1], f[n], n - 1) /\ Serves(f[n - 1], f[n])
             /\ Either(f[n - 1]) => Either(f[n])
  <2>1. n - 1 \in Dmac!Channels  BY DmaAssumption DEF Dmac!Channels
  <2> QED BY <1>1, <1>2, <2>1, AutoSpares, AutoServes
<1>3. Serves(f[0], f[NChannels]) /\ (Either(f[0]) => Either(f[NChannels]))
  BY <1>1, <1>2, ChainServes
<1> QED BY <1>1, <1>3

(* A kick offers every channel to the card and leaves the lines as the channels are.   *)
LEMMA KickServes ==
  ASSUME NEW s \in DmaStates
  PROVE  LET t == Dmac!Kick(s)
         IN  /\ t \in DmaStates /\ Serves(s, t) /\ Lines(t)
             /\ \A c \in Dmac!Channels : ~Dmac!BulkHandles(t, c)
<1> DEFINE x == Dmac!TryAll(s)
           t == Dmac!Sync(x)
<1>1. x \in DmaStates /\ Serves(s, x) /\ \A c \in Dmac!Channels : ~Dmac!BulkHandles(x, c)
  BY TryAllSettles, TryAllServes
<1>2. Dmac!Kick(s) = t  BY DEF Dmac!Kick
<1> HIDE DEF x
<1>3. t \in DmaStates /\ t.dmac.ch = x.dmac.ch /\ t.dmac.enable = x.dmac.enable
      /\ t.msc = x.msc /\ Lines(t)
  BY <1>1, SyncSpares
<1> HIDE DEF t
<1>4. Serves(s, t)  BY <1>1, <1>3, Zenon DEF Serves
<1>5. \A c \in Dmac!Channels : ~Dmac!BulkHandles(t, c)
  BY <1>1, <1>3 DEF Dmac!BulkHandles, Dmac!Enabled, Dmac!Ch
<1> QED BY <1>2, <1>3, <1>4, <1>5

(* What a step owes, from what its handler did from u to t, the next state.          *)
Lands(t) == dmac' = t.dmac /\ valid' = t.valid /\ msc' = t.msc

DmaOdd ==
  /\ Dmac!DoorbellStrands /\ Dmac!LoadDesyncs
  /\ Dmac!EndsByCard /\ Dmac!PendingKept

LEMMA StrandsBy ==
  ASSUME NEW t \in DmaStates, Lands(t),
         \A c \in Dmac!Channels : Dmac!BulkHandles(t, c) => Dmac!CardWaits \/ Dmac!RingsDoorbell
  PROVE  Dmac!DoorbellStrands
<1>1. Dmac!State' = t
  <2>1. Dmac!State' = [dmac |-> t.dmac, valid |-> t.valid, msc |-> t.msc]
    BY DEF Dmac!State, Lands
  <2>2. [dmac |-> t.dmac, valid |-> t.valid, msc |-> t.msc] = t  BY DEF DmaStates
  <2> QED BY <2>1, <2>2
<1>2. ASSUME NEW c \in Dmac!Channels, Dmac!BulkHandles(Dmac!State, c)'
      PROVE  Dmac!BulkHandles(t, c)
  BY <1>1, <1>2 DEF Dmac!BulkHandles, Dmac!Enabled, Dmac!Ch, Dmac!Takes
<1>3. Dmac!CardWaits' => \E c \in Dmac!Channels : Dmac!BulkHandles(t, c)
  BY <1>2 DEF Dmac!CardWaits
<1> QED BY <1>3 DEF Dmac!DoorbellStrands

LEMMA DesyncsBy ==
  ASSUME NEW t \in DmaStates, Lands(t), Lines(Dmac!State) => Either(t),
         MscLine(msc) => MscLine(t.msc)
  PROVE  Dmac!LoadDesyncs
<1>1. Dmac!LinesAgree => Lines(Dmac!State) /\ MscLine(msc)
  BY DEF Dmac!LinesAgree, Lines, MscLine, Dmac!State
<1>2. Lines(t) /\ MscLine(t.msc) => Dmac!LinesAgree'
  BY DEF Dmac!LinesAgree, Lines, MscLine, Lands
<1>3. Beside(t) => Dmac!LoadsBesideFlags
  BY DEF Beside, Dmac!LoadsBesideFlags, Lands
<1> QED BY <1>1, <1>2, <1>3 DEF Dmac!LoadDesyncs, Either

LEMMA EndsBy ==
  ASSUME NEW u \in DmaStates, NEW t \in DmaStates, Lands(t), Serves(u, t),
         \A c \in Dmac!Channels :
           \/ u.dmac.ch[c].flags = dmac.ch[c].flags
           \/ \E w \in RegWrites : w[1] = c /\ w[2] = "dcs" /\ Dmac!WriteRegister(w)
  PROVE  Dmac!EndsByCard
<1>1. ASSUME NEW c \in Dmac!Channels, dmac'.ch[c].drt # "auto",
             (dmac'.ch[c].flags \cap {"TT", "CT"}) \ dmac.ch[c].flags # {},
             u.dmac.ch[c].flags = dmac.ch[c].flags
      PROVE  c \in {0, 1} /\ msc'.ready /\ msc'.pending = "none"
  <2>1. t.dmac.ch[c].drt # "auto" /\ NewlyEnds(u.dmac.ch[c], t.dmac.ch[c])
    BY <1>1 DEF Lands, NewlyEnds
  <2>2. c \in {0, 1} /\ Answered(t.msc)  BY <2>1 DEF Serves
  <2> QED BY <2>2 DEF Lands, Answered
<1> QED BY <1>1 DEF Dmac!EndsByCard

LEMMA KeptBy ==
  ASSUME NEW u \in DmaStates, NEW t \in DmaStates, Lands(t), Serves(u, t), u.msc = msc
  PROVE  /\ Dmac!PendingKept
         /\ MscLine(msc) => MscLine(t.msc)
<1>1. CASE t.msc = u.msc
  BY <1>1 DEF Lands, Dmac!PendingKept
<1>2. CASE t.msc # u.msc
  <2>1. t.msc = Dmac!MscDone(u.msc)  BY <1>2 DEF Serves
  <2>2. PICK c \in Dmac!Channels : Dmac!Takes(u.msc, c) /\ Ended(t.dmac.ch[c])
    BY <1>2 DEF Serves
  <2>3. Answered(t.msc) /\ MscLine(t.msc)  BY <2>1, MscIn, DoneAnswers
  <2>4. msc'.ready /\ Dmac!Takes(msc, c) /\ dmac'.ch[c].flags \cap {"TT", "CT"} # {}
    BY <2>2, <2>3 DEF Answered, Lands, Ended
  <2> QED BY <2>3, <2>4 DEF Dmac!PendingKept
<1> QED BY <1>1, <1>2

(* A step that touches neither the channels nor what the card waits for.             *)
LEMMA QuietOdd ==
  ASSUME NEW t \in DmaStates, Lands(t), Dmac!State \in DmaStates,
         t.dmac.ch = dmac.ch, t.dmac.enable = dmac.enable, t.msc.pending = msc.pending,
         Lines(Dmac!State) => Lines(t), MscLine(msc) => MscLine(t.msc)
  PROVE  DmaOdd
<1>1. Dmac!DoorbellStrands
  <2>1. ASSUME NEW c \in Dmac!Channels, Dmac!BulkHandles(t, c) PROVE Dmac!CardWaits
    <3>1. Dmac!BulkHandles(Dmac!State, c)
      BY <2>1 DEF Dmac!BulkHandles, Dmac!Enabled, Dmac!Ch, Dmac!Takes, Dmac!State
    <3> QED BY <3>1 DEF Dmac!CardWaits
  <2> QED BY <2>1, StrandsBy
<1>2. Dmac!LoadDesyncs  BY DesyncsBy DEF Either
<1>3. Dmac!EndsByCard  BY DEF Lands, Dmac!EndsByCard
<1>4. Dmac!PendingKept  BY DEF Lands, Dmac!PendingKept
<1> QED BY <1>1, <1>2, <1>3, <1>4 DEF DmaOdd

LEMMA ResetOdd == ASSUME Dmac!State \in DmaStates, Dmac!Reset PROVE DmaOdd
<1> DEFINE s == Dmac!State
           t == [s EXCEPT !.dmac = Dmac!ResetDmac, !.msc = Dmac!ResetMsc]
<1>1. t \in DmaStates  BY ResetsIn
<1>2. t.dmac = Dmac!ResetDmac /\ t.msc = Dmac!ResetMsc  BY DEF Dmac!State
<1>3. Lands(t)  BY DEF Dmac!Reset, Dmac!Becomes, Lands
<1> HIDE DEF t
<1>4. \A c \in Dmac!Channels : t.dmac.ch[c].flags = {}
  BY <1>2 DEF Dmac!ResetDmac, Dmac!ResetChannel
<1>5. Dmac!DoorbellStrands
  <2>1. \A c \in Dmac!Channels : ~Dmac!BulkHandles(t, c)
    BY <1>2 DEF Dmac!BulkHandles, Dmac!Takes, Dmac!ResetMsc
  <2> QED BY <1>1, <1>3, <2>1, StrandsBy
<1>6. Dmac!LoadDesyncs
  <2>1. MscLine(t.msc)
    <3>1. t.msc.irq = FALSE /\ t.msc.ready = FALSE  BY <1>2 DEF Dmac!ResetMsc
    <3> QED BY <3>1 DEF MscLine
  <2>2. t.dmac.irqp = {} /\ t.dmac.error = FALSE /\ t.dmac.irq = FALSE
    BY <1>2 DEF Dmac!ResetDmac
  <2>3. Lines(t)
    BY <1>4, <2>2 DEF Lines, Dmac!ChannelInterrupts
  <2> QED BY <1>1, <1>3, <2>1, <2>3, DesyncsBy DEF Either
<1>7. Dmac!EndsByCard  BY <1>3, <1>4 DEF Lands, Dmac!EndsByCard
<1>8. Dmac!PendingKept  BY <1>2, <1>3 DEF Lands, Dmac!PendingKept
<1> QED BY <1>5, <1>6, <1>7, <1>8 DEF DmaOdd

LEMMA WrittenFlags ==
  ASSUME NEW w \in RegWrites, NEW r \in DmaRecords
  PROVE  Dmac!Written(r, w[2], w[3]).flags = r.flags \/ w[2] = "dcs"
<1>1. w[2] \in {"dcs", "dsa", "dta", "dtc", "drt", "dcm", "dda"}  BY DmaAssumption
<1> QED BY <1>1 DEF DmaRecords, Dmac!Written

LEMMA SyncedIn ==
  ASSUME NEW m \in MscRecords
  PROVE  LET x == Dmac!MscSync(m)
         IN  x \in MscRecords /\ x.pending = m.pending /\ MscLine(x)
<1>1. Dmac!MscSync(m) = [m EXCEPT !.irq = m.ready /\ ~m.masked]  BY DEF Dmac!MscSync
<1>2. m.ready \in BOOLEAN /\ m.masked \in BOOLEAN  BY DEF MscRecords
<1> QED BY <1>1, <1>2 DEF MscRecords, MscLine

LEMMA StartedIn ==
  ASSUME NEW m \in MscRecords, NEW k \in {"none", "read", "write"}
  PROVE  LET x == Dmac!Started(m, k)
         IN  x \in MscRecords /\ x.pending = k /\ MscLine(x)
<1> DEFINE x == [m EXCEPT !.pending = k]
           y == [x EXCEPT !.response = ResponseBytes]
           z == [y EXCEPT !.ready = FALSE]
<1>1. x \in MscRecords /\ x.pending = k  BY DEF MscRecords
<1>2. y \in MscRecords /\ y.pending = k
  <2>1. ResponseBytes \in 0 .. ResponseBytes  BY DmaAssumption
  <2> HIDE DEF x
  <2> QED BY <1>1, <2>1 DEF MscRecords
<1>3. z \in MscRecords /\ z.pending = k
  <2> HIDE DEF y
  <2> QED BY <1>2 DEF MscRecords
<1>4. Dmac!Started(m, k) = Dmac!MscSync(z)  BY DEF Dmac!Started
<1> HIDE DEF z
<1> QED BY <1>3, <1>4, SyncedIn

LEMMA DmaStaysOdd == ASSUME DmaInv, Dmac!Next \/ UNCHANGED dmaVars PROVE DmaOdd
<1> DEFINE s == Dmac!State
<1>1. s \in DmaStates  BY DEF DmaInv
<1>2. s.dmac = dmac /\ s.valid = valid /\ s.msc = msc  BY DEF Dmac!State
<1>3. msc \in MscRecords  BY <1>1, <1>2, MscIn
<1>4. ASSUME NEW m \in MscRecords
      PROVE  LET t == [s EXCEPT !.msc = m]
             IN  t \in DmaStates /\ t.dmac = dmac /\ t.msc = m
  <2> HIDE DEF s
  <2> QED BY <1>1, <1>2 DEF DmaStates, MscRecords
<1> HIDE DEF s
<1>5. ASSUME NEW m \in MscRecords, Lands([s EXCEPT !.msc = m]), m.pending = msc.pending,
             MscLine(msc) => MscLine(m)
      PROVE  DmaOdd
  <2> DEFINE t == [s EXCEPT !.msc = m]
  <2>1. t \in DmaStates /\ t.dmac = dmac /\ t.msc = m  BY <1>4
  <2>2. Lands(t)  BY <1>5
  <2> HIDE DEF t
  <2>3. Lines(s) => Lines(t)  BY <1>2, <2>1, Zenon DEF Lines
  <2> QED BY <1>1, <1>5, <2>1, <2>2, <2>3, QuietOdd DEF s
<1>6. ASSUME NEW w \in RegWrites, Dmac!WriteRegister(w) PROVE DmaOdd
  <2> DEFINE c == w[1]
             r == Dmac!Written(s.dmac.ch[c], w[2], w[3])
             u == Dmac!SetCh(s, c, r)
             v == Dmac!Sync(u)
             t == Dmac!TryChannel(v, c)
  <2>0. c \in Dmac!Channels  BY DmaAssumption DEF Dmac!Channels
  <2>1. r \in DmaRecords /\ (r.flags = s.dmac.ch[c].flags \/ w[2] = "dcs")
    <3>1. s.dmac.ch[c] \in DmaRecords  BY <1>1, <2>0, RecordIn
    <3> HIDE DEF c
    <3> QED BY <3>1, WrittenIn, WrittenFlags
  <2>2. Lands(t)
    BY <1>6 DEF Dmac!WriteRegister, Dmac!Becomes, Dmac!Ch, Lands, s
  <2> HIDE DEF r
  <2>3. Spares(s, u, c) /\ u.dmac.ch[c] = r /\ u.msc = s.msc
    <3> HIDE DEF c
    <3> QED BY <1>1, <2>0, <2>1, SetChSpares
  <2> HIDE DEF u
  <2>4. u \in DmaStates  BY <2>3 DEF Spares
  <2>5. v \in DmaStates /\ v.dmac.ch = u.dmac.ch /\ v.dmac.ddb = u.dmac.ddb
        /\ v.dmac.enable = u.dmac.enable /\ v.msc = u.msc /\ Lines(v)
    BY <2>4, SyncSpares
  <2> HIDE DEF v
  <2>6. Spares(s, v, c)  BY <2>3, <2>5 DEF Spares
  <2>7. /\ Spares(v, t, c) /\ Serves(v, t) /\ ~Dmac!BulkHandles(t, c)
        /\ Either(v) => Either(t)
    <3> HIDE DEF c
    <3> QED BY <2>0, <2>5, TrySpares, TryServes
  <2> HIDE DEF t
  <2>8. t \in DmaStates  BY <2>7 DEF Spares
  <2>9. Dmac!DoorbellStrands
    <3>1. ASSUME NEW b \in Dmac!Channels, Dmac!BulkHandles(t, b) PROVE Dmac!CardWaits
      <4>1. b \in Dmac!Channels \ {c}  BY <2>7, <3>1
      <4>2. Dmac!BulkHandles(v, b)
        <5> HIDE DEF c
        <5> QED BY <2>0, <2>5, <2>7, <2>8, <3>1, <4>1, NoWorkElsewhere
      <4>3. v.dmac.ch[b] = s.dmac.ch[b] /\ v.dmac.enable = s.dmac.enable /\ v.msc = s.msc
        BY <2>3, <2>5, <2>6, <4>1 DEF Spares
      <4>4. Dmac!BulkHandles(s, b)
        BY <4>2, <4>3 DEF Dmac!BulkHandles, Dmac!Enabled, Dmac!Ch
      <4> QED BY <4>4 DEF Dmac!CardWaits, s
    <3> QED BY <2>2, <2>8, <3>1, StrandsBy
  <2>10. ASSUME NEW b \in Dmac!Channels
         PROVE  \/ v.dmac.ch[b].flags = dmac.ch[b].flags
                \/ \E x \in RegWrites : x[1] = b /\ x[2] = "dcs" /\ Dmac!WriteRegister(x)
    <3>1. CASE b = c
      <4>1. v.dmac.ch[b] = r  BY <2>3, <2>5, <3>1
      <4> QED BY <1>2, <1>6, <2>1, <3>1, <4>1
    <3>2. CASE b # c
      <4>1. v.dmac.ch[b] = s.dmac.ch[b]  BY <2>6, <3>2 DEF Spares
      <4> QED BY <1>2, <4>1
    <3> QED BY <3>1, <3>2
  <2>11. v.msc = msc  BY <1>2, <2>3, <2>5
  <2>12. /\ Dmac!PendingKept
         /\ MscLine(msc) => MscLine(t.msc)
    BY <2>2, <2>5, <2>7, <2>8, <2>11, KeptBy
  <2>13. Dmac!EndsByCard  BY <2>2, <2>5, <2>7, <2>8, <2>10, EndsBy
  <2>14. Dmac!LoadDesyncs  BY <2>2, <2>5, <2>7, <2>8, <2>12, DesyncsBy DEF Either
  <2> QED BY <2>9, <2>12, <2>13, <2>14 DEF DmaOdd
<1>k. ASSUME NEW u \in DmaStates, u.dmac.ch = dmac.ch, Lands(Dmac!Kick(u)),
             \/ u.msc = msc
             \/ /\ Dmac!PendingKept
                /\ MscLine(u.msc)
      PROVE  DmaOdd
  <2> DEFINE t == Dmac!Kick(u)
  <2>1. t \in DmaStates /\ Serves(u, t) /\ Lines(t)
        /\ \A c \in Dmac!Channels : ~Dmac!BulkHandles(t, c)
    BY KickServes
  <2>2. Lands(t)  BY <1>k
  <2> HIDE DEF t
  <2>3. Dmac!DoorbellStrands  BY <2>1, <2>2, StrandsBy
  <2>4. Dmac!EndsByCard  BY <1>k, <2>1, <2>2, EndsBy
  <2>5. /\ Dmac!PendingKept
        /\ MscLine(msc) => MscLine(t.msc)
    <3>1. CASE u.msc = msc  BY <2>1, <2>2, <3>1, KeptBy
    <3>2. CASE Dmac!PendingKept /\ MscLine(u.msc)
      <4>1. MscLine(t.msc)  BY <2>1, <3>2, MscIn, DoneAnswers DEF Serves
      <4> QED BY <3>2, <4>1
    <3> QED BY <1>k, <3>1, <3>2
  <2>6. Dmac!LoadDesyncs  BY <2>1, <2>2, <2>5, DesyncsBy DEF Either
  <2> QED BY <2>3, <2>4, <2>5, <2>6 DEF DmaOdd
<1>7. ASSUME NEW b \in BOOLEAN, Dmac!WriteControl(b) PROVE DmaOdd
  <2> DEFINE u == [s EXCEPT !.dmac.enable = b, !.dmac.error = FALSE]
             d == [s.dmac EXCEPT !.enable = b]
             e == [d EXCEPT !.error = FALSE]
  <2>1. Lands(Dmac!Kick(u))
    BY <1>7 DEF Dmac!WriteControl, Dmac!Becomes, Dmac!Kick, Lands, s
  <2>2. d \in DmacStates /\ d.ch = s.dmac.ch  BY <1>1 DEF DmaStates, DmacStates
  <2>3. e \in DmacStates /\ e.ch = s.dmac.ch
    <3> HIDE DEF d
    <3> QED BY <2>2 DEF DmacStates
  <2>4. u = [s EXCEPT !.dmac = e]  BY <1>1 DEF DmaStates
  <2> HIDE DEF e
  <2>5. u \in DmaStates /\ u.dmac.ch = dmac.ch /\ u.msc = msc
    <3> HIDE DEF u
    <3> QED BY <1>1, <1>2, <2>3, <2>4 DEF DmaStates
  <2> HIDE DEF u
  <2> QED BY <1>k, <2>1, <2>5
<1>8. ASSUME NEW C \in Doorbells, Dmac!WriteDoorbell(C) \/ Dmac!SetDoorbell(C) PROVE DmaOdd
  <2>1. ASSUME NEW D \in SUBSET Dmac!Channels,
               Lands(Dmac!AutoAll([s EXCEPT !.dmac.ddb = D]))
        PROVE  DmaOdd
    <3> DEFINE d == [s.dmac EXCEPT !.ddb = D]
               u == [s EXCEPT !.dmac.ddb = D]
               t == Dmac!AutoAll(u)
    <3>1. d \in DmacStates /\ d.ch = s.dmac.ch /\ d.irqp = s.dmac.irqp
          /\ d.error = s.dmac.error /\ d.irq = s.dmac.irq
      BY <1>1 DEF DmaStates, DmacStates
    <3>2. u = [s EXCEPT !.dmac = d]  OBVIOUS
    <3> HIDE DEF d
    <3>3. u \in DmaStates /\ u.dmac = d /\ u.msc = msc
      <4> HIDE DEF u
      <4> QED BY <1>1, <1>2, <3>1, <3>2 DEF DmaStates
    <3>4. Lands(t)  BY <2>1
    <3> HIDE DEF u
    <3>5. /\ t \in DmaStates /\ Serves(u, t)
          /\ Either(u) => Either(t)
      BY <3>3, AutoAllSettles, AutoAllServes
    <3> HIDE DEF t
    <3>6. Lines(s) => Lines(u)  BY <3>1, <3>3, Zenon DEF Lines
    <3>7. Dmac!RingsDoorbell  BY <1>8 DEF Dmac!RingsDoorbell
    <3>8. Dmac!DoorbellStrands  BY <3>7 DEF Dmac!DoorbellStrands
    <3>9. /\ Dmac!PendingKept
          /\ MscLine(msc) => MscLine(t.msc)
      BY <3>3, <3>4, <3>5, KeptBy
    <3>10. Dmac!LoadDesyncs  BY <3>4, <3>5, <3>6, <3>9, DesyncsBy DEF Either, s
    <3>11. \A c \in Dmac!Channels : u.dmac.ch[c].flags = dmac.ch[c].flags
      BY <1>2, <3>1, <3>3
    <3>12. Dmac!EndsByCard  BY <3>3, <3>4, <3>5, <3>11, EndsBy
    <3> QED BY <3>8, <3>9, <3>10, <3>12 DEF DmaOdd
  <2>2. C \subseteq Dmac!Channels /\ dmac.ddb \cup C \subseteq Dmac!Channels
    <3>1. C \subseteq Dmac!Channels  BY DmaAssumption DEF Dmac!Channels
    <3>2. dmac.ddb \subseteq Dmac!Channels  BY <1>1, <1>2 DEF DmaStates, DmacStates
    <3> QED BY <3>1, <3>2
  <2>3. CASE Dmac!WriteDoorbell(C)
    <3>1. Lands(Dmac!AutoAll([s EXCEPT !.dmac.ddb = C]))
      BY <2>3 DEF Dmac!WriteDoorbell, Dmac!Becomes, Lands, s
    <3> QED BY <2>1, <2>2, <3>1
  <2>4. CASE Dmac!SetDoorbell(C)
    <3>1. Lands(Dmac!AutoAll([s EXCEPT !.dmac.ddb = dmac.ddb \cup C]))
      BY <1>2, <2>4 DEF Dmac!SetDoorbell, Dmac!Becomes, Lands, s
    <3> QED BY <2>1, <2>2, <3>1
  <2> QED BY <1>8, <2>3, <2>4
<1>9. ASSUME NEW d \in Dmac!Validated, Dmac!Validate(d) PROVE DmaOdd
  <2> DEFINE t == [s EXCEPT !.valid = @ \cup {d}]
  <2>1. Lands(t)  BY <1>9 DEF Dmac!Validate, Dmac!Becomes, Lands, s
  <2>2. t \in DmaStates /\ t.dmac = dmac /\ t.msc = msc  BY <1>1, <1>2 DEF DmaStates
  <2> HIDE DEF t
  <2>3. Lines(s) => Lines(t)  BY <1>2, <2>2, Zenon DEF Lines
  <2> QED BY <1>1, <2>1, <2>2, <2>3, QuietOdd DEF s
<1>10. ASSUME NEW k \in {"none", "read", "write"}, Dmac!Command(k) PROVE DmaOdd
  <2> DEFINE m == Dmac!Started(msc, k)
             u == [s EXCEPT !.msc = m]
  <2>1. m \in MscRecords /\ m.pending = k /\ MscLine(m)
    BY <1>3, StartedIn
  <2>2. Lands(IF k = "none" THEN u ELSE Dmac!Kick(u))
    BY <1>2, <1>10 DEF Dmac!Command, Dmac!Becomes, Lands, s
  <2>3. Dmac!PendingKept  BY <1>10 DEF Dmac!PendingKept
  <2> HIDE DEF m
  <2>4. u \in DmaStates /\ u.dmac = dmac /\ u.msc = m  BY <1>4, <2>1
  <2> HIDE DEF u
  <2>5. CASE k # "none"  BY <1>k, <2>1, <2>2, <2>3, <2>4, <2>5
  <2>6. CASE k = "none"
    <3>1. Lands(u)  BY <2>2, <2>6
    <3>2. \A c \in Dmac!Channels : ~Dmac!BulkHandles(u, c)
      BY <2>1, <2>4, <2>6 DEF Dmac!BulkHandles, Dmac!Takes
    <3>3. Dmac!DoorbellStrands  BY <2>4, <3>1, <3>2, StrandsBy
    <3>4. Lines(s) => Lines(u)  BY <1>2, <2>4, Zenon DEF Lines
    <3>5. Dmac!LoadDesyncs  BY <2>1, <2>4, <3>1, <3>4, DesyncsBy DEF Either, s
    <3>6. Dmac!EndsByCard  BY <2>4, <3>1 DEF Lands, Dmac!EndsByCard
    <3> QED BY <2>3, <3>3, <3>5, <3>6 DEF DmaOdd
  <2> QED BY <2>5, <2>6
<1>11. ASSUME Dmac!AckMsc \/ \E b \in BOOLEAN : Dmac!MaskMsc(b) PROVE DmaOdd
  <2>1. ASSUME NEW x \in MscRecords, x.pending = msc.pending,
               Lands([s EXCEPT !.msc = Dmac!MscSync(x)])
        PROVE  DmaOdd
    <3> DEFINE m == Dmac!MscSync(x)
    <3>1. m \in MscRecords /\ m.pending = msc.pending /\ MscLine(m)
      BY <2>1, SyncedIn
    <3>2. Lands([s EXCEPT !.msc = m])  BY <2>1
    <3> HIDE DEF m
    <3> QED BY <1>5, <3>1, <3>2
  <2>2. CASE Dmac!AckMsc
    <3> DEFINE x == [msc EXCEPT !.ready = FALSE]
    <3>1. x \in MscRecords /\ x.pending = msc.pending  BY <1>3 DEF MscRecords
    <3>2. Lands([s EXCEPT !.msc = Dmac!MscSync(x)])
      BY <1>2, <2>2 DEF Dmac!AckMsc, Dmac!Becomes, Lands, s
    <3> HIDE DEF x
    <3> QED BY <2>1, <3>1, <3>2
  <2>3. ASSUME NEW b \in BOOLEAN, Dmac!MaskMsc(b) PROVE DmaOdd
    <3> DEFINE x == [msc EXCEPT !.masked = b]
    <3>1. x \in MscRecords /\ x.pending = msc.pending  BY <1>3 DEF MscRecords
    <3>2. Lands([s EXCEPT !.msc = Dmac!MscSync(x)])
      BY <1>2, <2>3 DEF Dmac!MaskMsc, Dmac!Becomes, Lands, s
    <3> HIDE DEF x
    <3> QED BY <2>1, <3>1, <3>2
  <2> QED BY <1>11, <2>2, <2>3
<1>12. ASSUME NEW n \in 1 .. ResponseBytes, Dmac!ReadResponse(n) PROVE DmaOdd
  <2> DEFINE left == IF msc.response > n THEN msc.response - n ELSE 0
             m == [msc EXCEPT !.response = left]
  <2>1. left \in 0 .. ResponseBytes  BY <1>3, DmaAssumption DEF MscRecords
  <2>2. Lands([s EXCEPT !.msc = m])
    BY <1>2, <1>12 DEF Dmac!ReadResponse, Dmac!Becomes, Lands, s
  <2> HIDE DEF left
  <2>3. m \in MscRecords /\ m.pending = msc.pending /\ (MscLine(msc) => MscLine(m))
    BY <1>3, <2>1 DEF MscRecords, MscLine
  <2> HIDE DEF m
  <2> QED BY <1>5, <2>2, <2>3
<1>13. CASE Dmac!WritePending
  <2> DEFINE t == Dmac!Sync(s)
  <2>1. Lands(t)  BY <1>13 DEF Dmac!WritePending, Dmac!Becomes, Lands, s
  <2>2. t \in DmaStates /\ t.dmac.ch = dmac.ch /\ t.dmac.enable = dmac.enable
        /\ t.msc = msc /\ Lines(t)
    BY <1>1, <1>2, SyncSpares
  <2> HIDE DEF t
  <2> QED BY <1>1, <2>1, <2>2, QuietOdd DEF s
<1>14. CASE Dmac!AudioRequest
  <2>1. Lands(Dmac!Kick(s))
    BY <1>14 DEF Dmac!AudioRequest, Dmac!Becomes, Lands, s
  <2> QED BY <1>1, <1>2, <1>k, <2>1
<1>15. CASE Dmac!Reset  BY <1>1, <1>15, ResetOdd DEF s
<1>16. CASE Dmac!Restore
  <2> DEFINE u == Dmac!Sync(s)
             m == Dmac!MscSync(u.msc)
             t == [u EXCEPT !.msc = m]
  <2>1. Lands(t)  BY <1>16 DEF Dmac!Restore, Dmac!Becomes, Lands, s
  <2>2. u \in DmaStates /\ u.dmac.ch = dmac.ch /\ u.dmac.enable = dmac.enable
        /\ u.msc = msc /\ Lines(u)
    BY <1>1, <1>2, SyncSpares
  <2> HIDE DEF u
  <2>3. m \in MscRecords /\ m.pending = msc.pending /\ MscLine(m)
    BY <1>3, <2>2, SyncedIn
  <2> HIDE DEF m
  <2>4. t \in DmaStates /\ t.dmac = u.dmac /\ t.msc = m
    BY <2>2, <2>3 DEF DmaStates, MscRecords
  <2> HIDE DEF t
  <2>5. Lines(t)  BY <2>2, <2>4, Zenon DEF Lines
  <2> QED BY <1>1, <2>1, <2>2, <2>3, <2>4, <2>5, QuietOdd DEF s
<1>17. CASE UNCHANGED dmaVars
  <2>1. Lands(s)  BY <1>2, <1>17 DEF Lands, dmaVars
  <2> QED BY <1>1, <1>2, <2>1, QuietOdd DEF s
<1> QED
  BY <1>6, <1>7, <1>8, <1>9, <1>10, <1>11, <1>12, <1>13, <1>14, <1>15, <1>16, <1>17
  DEF Dmac!Next

----------------------------------------------------------------------------
(* The timer unit.  Every handler that could move a match computes the deadlines   *)
(* again, each the first match after the clock; time only comes nearer to it.       *)
MeetsAt(b, d, n, g, x) == x > 0 /\ x % d = 0 /\ (b + x \div d - g) % n = 0

TicksFrom(n, g, k) == IF k < g THEN g - k ELSE n - k + g

Awaited(b, d, n, g, e, k) == k = TicksFrom(n, g, (b + e \div d) % n)

LEMMA SmallMultiple ==
  ASSUME NEW n \in Nat \ {0}, NEW w \in Int, n * w < n, -n < n * w
  PROVE  w = 0
<1>1. CASE w > 0
  <2>1. n * w = n * (w - 1) + n /\ w - 1 \in Nat  BY <1>1
  <2>2. n * (w - 1) \in Nat  BY <2>1
  <2> QED BY <2>1, <2>2
<1>2. CASE w < 0
  <2>1. n * w = -(n * (-w - 1)) - n /\ -w - 1 \in Nat  BY <1>2
  <2>2. n * (-w - 1) \in Nat  BY <2>1
  <2> QED BY <2>1, <2>2
<1> QED BY <1>1, <1>2

Divides(n, z) ==
  z \div n \in Int /\ z % n \in 0 .. n - 1 /\ z = n * (z \div n) + (z % n)

LEMMA WholeDivision == ASSUME NEW z \in Int, NEW n \in Nat \ {0} PROVE Divides(n, z)
BY SMTT(30) DEF Divides

(* Of the numbers that lie less than n from a multiple of n, only it is one.       *)
LEMMA OnlyMultiple ==
  ASSUME NEW n \in Nat \ {0}, NEW a \in Int, NEW y \in Int, -n < y, y < n
  PROVE  (n * a + y) % n = 0 <=> y = 0
<1> DEFINE z == n * a + y
<1>0. z \in Int /\ n * a \in Int  OBVIOUS
<1>5. Divides(n, z)
  BY <1>0, WholeDivision
<1>1. PICK w \in Int : z = n * w + (z % n)
  BY <1>5 DEF Divides
<1>2. z % n \in 0 .. n - 1
  BY <1>5 DEF Divides
<1>3. ASSUME z % n = 0 PROVE y = 0
  <2>1. y = n * (w - a) /\ w - a \in Int
    BY <1>1, <1>3
  <2>2. w - a = 0
    BY <2>1, SmallMultiple
  <2> QED BY <2>1, <2>2
<1>4. ASSUME y = 0 PROVE z % n = 0
  <2>1. z % n = n * (a - w) /\ a - w \in Int
    BY <1>1, <1>2, <1>4
  <2>2. a - w = 0
    BY <2>1, <1>2, SmallMultiple
  <2> QED BY <2>1, <2>2
<1> QED BY <1>3, <1>4

LEMMA FirstMatch ==
  ASSUME NEW n \in Nat \ {0}, NEW b \in 0 .. n - 1, NEW d \in Nat \ {0}, NEW g \in 0 .. n,
         NEW e \in Nat, NEW k \in Nat, Awaited(b, d, n, g, e, k)
  PROVE  /\ k \in 1 .. n
         /\ \E s \in e + k * d - d + 1 .. e + k * d :
              MeetsAt(b, d, n, g, s) /\ \A x \in e + 1 .. s - 1 : ~MeetsAt(b, d, n, g, x)
<1> DEFINE q == e \div d
           r == e % d
           cur == (b + q) % n
           a == (b + q) \div n
           s == d * (q + k)
<1>1. q \in Int /\ r \in 0 .. d - 1 /\ e = d * q + r
  <2>1. e \in Int  OBVIOUS
  <2>2. Divides(d, e)  BY <2>1, WholeDivision
  <2> QED BY <2>2 DEF Divides
<1>2. q \in Nat
  BY <1>1, QuotientBounds
<1>3. b + q \in Int
  BY <1>2
<1>4. cur \in 0 .. n - 1 /\ a \in Int /\ b + q = n * a + cur
  <2>1. Divides(n, b + q)  BY <1>3, WholeDivision
  <2> QED BY <2>1 DEF Divides
<1>5. k = TicksFrom(n, g, cur)  BY DEF Awaited
<1> HIDE DEF q, r, cur, a
<1>6. k \in 1 .. n /\ (cur + k - g = 0 \/ cur + k - g = n)
  BY <1>4, <1>5 DEF TicksFrom
<1>7. \A j \in 1 .. k - 1 : /\ -n < cur + j - g /\ cur + j - g < n /\ cur + j - g # 0
  BY <1>4, <1>5, <1>6 DEF TicksFrom
<1>8. s \in Int /\ s = d * q + k * d /\ s = e + k * d - r
  BY <1>1, <1>2, <1>6
<1>9. s \in e + k * d - d + 1 .. e + k * d
  <2>1. k * d \in Int  BY <1>6
  <2> QED BY <1>1, <1>8, <2>1
<1>10. s \in Nat /\ s > 0
  <2>1. k * d >= d
    <3>1. k * d = (k - 1) * d + d /\ k - 1 \in Nat  BY <1>6
    <3>2. (k - 1) * d \in Nat  BY <3>1
    <3> QED BY <3>1, <3>2
  <2>2. k * d \in Int  BY <1>6
  <2> QED BY <1>1, <1>8, <2>1, <2>2
<1>11. s \div d = q + k /\ s % d = 0
  <2>1. q + k \in Nat  BY <1>2, <1>6
  <2>2. s = d * (q + k) + 0  BY <1>8, <2>1
  <2>3. s \div d = q + k
    BY <1>10, <2>1, <2>2, Quotient
  <2>4. s % d = 0
    <3>1. s = d * (s \div d) + (s % d) /\ s % d \in Int
      <4>1. Divides(d, s)  BY <1>8, WholeDivision
      <4> QED BY <4>1 DEF Divides
    <3> DEFINE v == s \div d
               u == s % d
    <3>2. s = d * v + u /\ u \in Int /\ v = q + k  BY <3>1, <2>3
    <3> HIDE DEF u, v
    <3>3. u = 0  BY <3>2, <2>2, <1>8
    <3> QED BY <3>3 DEF u
  <2> QED BY <2>3, <2>4
<1>12. (b + (q + k) - g) % n = 0
  <2>1. CASE cur + k - g = 0
    <3>1. b + (q + k) - g = n * a + 0  BY <2>1, <1>2, <1>4, <1>6
    <3>2. (n * a + 0) % n = 0  BY <1>4, OnlyMultiple
    <3> QED BY <3>1, <3>2
  <2>2. CASE cur + k - g = n
    <3>1. b + (q + k) - g = n * a + n  BY <2>2, <1>2, <1>4, <1>6
    <3>2. n * a + n = n * (a + 1) + 0 /\ a + 1 \in Int  BY <1>4
    <3>3. (n * (a + 1) + 0) % n = 0  BY <3>2, OnlyMultiple
    <3> QED BY <3>1, <3>2, <3>3
  <2> QED BY <1>6, <2>1, <2>2
<1>13. MeetsAt(b, d, n, g, s)
  BY <1>10, <1>11, <1>12 DEF MeetsAt
<1>14. ASSUME NEW x \in e + 1 .. s - 1, MeetsAt(b, d, n, g, x) PROVE FALSE
  <2> DEFINE p == x \div d
  <2>1. x \in Nat /\ x > 0 /\ e < x /\ x < s
    BY <1>8
  <2>2. p \in Int /\ x = d * p
    <3>0. x \in Int  BY <2>1
    <3>4. Divides(d, x)  BY <3>0, WholeDivision
    <3>1. p \in Int /\ x = d * p + (x % d)  BY <3>4 DEF Divides
    <3>2. x % d = 0  BY <1>14 DEF MeetsAt
    <3> QED BY <3>1, <3>2
  <2>3. (b + p - g) % n = 0
    BY <1>14 DEF MeetsAt
  <2> HIDE DEF p
  <2>4. q < p
    <3>1. d * p > d * q  BY <1>1, <2>1, <2>2
    <3>2. d * p = d * q - d * (q - p)  BY <2>2, <1>2
    <3>3. ASSUME q >= p PROVE FALSE
      <4>1. q - p \in Nat  BY <3>3, <2>2, <1>2
      <4>2. d * (q - p) \in Nat /\ d * q \in Int  BY <4>1, <1>2
      <4> QED BY <3>1, <3>2, <4>2
    <3> QED BY <3>3, <2>2, <1>2
  <2>5. p < q + k
    <3>1. d * p < d * (q + k)  BY <2>1, <2>2
    <3>2. d * p = d * (q + k) + d * (p - q - k)  BY <2>2, <1>2, <1>6
    <3>3. ASSUME p >= q + k PROVE FALSE
      <4>1. p - q - k \in Nat  BY <3>3, <2>2, <1>2, <1>6
      <4>2. d * (p - q - k) \in Nat /\ d * (q + k) \in Int  BY <4>1, <1>2, <1>6
      <4> QED BY <3>1, <3>2, <4>2
    <3> QED BY <3>3, <2>2, <1>2, <1>6
  <2> DEFINE j == p - q
  <2>6. j \in 1 .. k - 1  BY <2>2, <2>4, <2>5, <1>2, <1>6
  <2>7. b + p - g = n * a + (cur + j - g)  BY <1>2, <1>4, <2>2
  <2> HIDE DEF j
  <2>8. cur + j - g \in Int  BY <1>4, <2>6, <1>6
  <2>9. cur + j - g = 0
    <3>1. (n * a + (cur + j - g)) % n = 0  BY <2>3, <2>7
    <3>2. -n < cur + j - g /\ cur + j - g < n  BY <1>7, <2>6
    <3> DEFINE y == cur + j - g
    <3>4. y \in Int /\ -n < y /\ y < n /\ (n * a + y) % n = 0  BY <2>8, <3>1, <3>2
    <3> HIDE DEF y
    <3>5. y = 0  BY <3>4, <1>4, OnlyMultiple
    <3> QED BY <3>5 DEF y
  <2> QED BY <2>9, <1>7, <2>6
<1> QED BY <1>6, <1>9, <1>13, <1>14

TcuRegisters ==
  /\ tcuNow \in 0 .. MaxTime
  /\ base \in [TcuChannels -> 0 .. Wrap - 1]
  /\ anchor \in [TcuChannels -> 0 .. MaxTime]
  /\ \A c \in TcuChannels : anchor[c] <= tcuNow
  /\ divisor \in [TcuChannels -> Divisors \cup {0}]
  /\ full \in [TcuChannels -> Fulls \cup {Default}]
  /\ half \in [TcuChannels -> Halves \cup {Default}]
  /\ enabled \subseteq TcuChannels /\ stopped \subseteq TcuChannels
  /\ flags \subseteq Counters!Flags

(* d stands for the very next match of f. *)
NextMatch(f, d) ==
  \E m \in d - divisor[f[1]] + 1 .. d :
    Counters!MatchAt(f, m) /\ \A t \in tcuNow + 1 .. m - 1 : ~Counters!MatchAt(f, t)

TcuInv ==
  /\ TcuRegisters
  /\ deadline \in [Counters!Flags -> 0 .. Counters!Far]
  /\ \A f \in Counters!Flags : Counters!Live(f) => NextMatch(f, deadline[f])
  /\ tcuTimer = Counters!Earliest

LEMMA CountIn ==
  ASSUME NEW b \in 0 .. Wrap - 1, NEW x \in Nat, NEW d \in Nat \ {0}, NEW n \in 0 .. Wrap - 1
  PROVE  (b + x \div d) % (IF n = 0 THEN Wrap ELSE n) \in 0 .. Wrap - 1
<1> DEFINE k == IF n = 0 THEN Wrap ELSE n
           z == b + x \div d
<1>1. k \in Nat \ {0} /\ k <= Wrap  BY TcuAssumption
<1>2. x \div d \in Int  BY QuotientBounds
<1>3. z \in Int  BY <1>2
<1> HIDE DEF k, z
<1>4. Divides(k, z)  BY <1>1, <1>3, WholeDivision
<1>5. z % k \in 0 .. k - 1  BY <1>4 DEF Divides
<1>6. z % k \in 0 .. Wrap - 1  BY <1>1, <1>5, TcuAssumption
<1> QED BY <1>6 DEF k, z

LEMMA RegisterRanges ==
  TcuRegisters =>
    \A c \in TcuChannels :
      /\ base[c] \in 0 .. Wrap - 1 /\ divisor[c] \in 0 .. Wrap
      /\ full[c] \in 0 .. Wrap - 1 /\ half[c] \in 0 .. Wrap - 1
      /\ anchor[c] \in Nat /\ tcuNow - anchor[c] \in Nat
      /\ tcuNow \in 0 .. MaxTime
<1> SUFFICES ASSUME TcuRegisters, NEW c \in TcuChannels
             PROVE  /\ base[c] \in 0 .. Wrap - 1 /\ divisor[c] \in 0 .. Wrap
                    /\ full[c] \in 0 .. Wrap - 1 /\ half[c] \in 0 .. Wrap - 1
                    /\ anchor[c] \in Nat /\ tcuNow - anchor[c] \in Nat
                    /\ tcuNow \in 0 .. MaxTime
  OBVIOUS
<1>1. /\ base[c] \in 0 .. Wrap - 1 /\ divisor[c] \in Divisors \cup {0}
      /\ full[c] \in Fulls \cup {Default} /\ half[c] \in Halves \cup {Default}
      /\ anchor[c] \in 0 .. MaxTime /\ anchor[c] <= tcuNow /\ tcuNow \in 0 .. MaxTime
  BY DEF TcuRegisters
<1>2. /\ \A v \in Fulls \cup Halves \cup {Default} : v \in 0 .. Wrap - 1
      /\ \A v \in Divisors \cup {0} : v \in 0 .. Wrap
  BY TcuAssumption
<1>3. anchor[c] \in Nat /\ tcuNow - anchor[c] \in Nat
  BY <1>1, TcuAssumption
<1> QED BY <1>1, <1>2, <1>3

LEMMA LatchedIn ==
  ASSUME TcuRegisters, NEW c \in TcuChannels, NEW d \in 0 .. Wrap, NEW on \in BOOLEAN,
         on => d # 0
  PROVE  Counters!CountWith(c, d, on) \in 0 .. Wrap - 1
<1>1. /\ base[c] \in 0 .. Wrap - 1 /\ full[c] \in 0 .. Wrap - 1
      /\ anchor[c] \in Nat /\ tcuNow - anchor[c] \in Nat
  BY RegisterRanges
<1>2. CASE ~on \/ tcuNow <= anchor[c]
  BY <1>1, <1>2 DEF Counters!CountWith
<1>3. CASE ~(~on \/ tcuNow <= anchor[c])
  <2>1. d \in Nat \ {0}  BY <1>3
  <2>2. (base[c] + (tcuNow - anchor[c]) \div d) % (IF full[c] = 0 THEN Wrap ELSE full[c]) \in 0 .. Wrap - 1
    BY <1>1, <2>1, CountIn
  <2> QED BY <1>3, <2>2 DEF Counters!CountWith
<1> QED BY <1>2, <1>3

LEMMA CountFits ==
  TcuRegisters => \A c \in TcuChannels : Counters!Count(c) \in 0 .. Wrap - 1
<1> SUFFICES ASSUME TcuRegisters, NEW c \in TcuChannels
             PROVE  Counters!Count(c) \in 0 .. Wrap - 1
  OBVIOUS
<1>1. divisor[c] \in 0 .. Wrap  BY RegisterRanges
<1>2. Counters!Running(c) \in BOOLEAN /\ (Counters!Running(c) => divisor[c] # 0)
  BY DEF Counters!Running, Counters!RunsWith
<1> QED BY <1>1, <1>2, LatchedIn DEF Counters!Count

LEMMA FlagParts == \A f \in Counters!Flags : f[1] \in TcuChannels
BY DEF Counters!Flags

LEMMA TargetIn ==
  TcuRegisters => \A f \in Counters!Flags : Counters!Target(f) \in 0 .. Wrap - 1
BY RegisterRanges, FlagParts DEF Counters!Target

LEMMA FarIn == /\ Counters!Far \in Nat
               /\ \A t \in 0 .. MaxTime, k \in 0 .. Wrap, d \in 0 .. Wrap :
                    t + k * d \in 0 .. Counters!Far
<1>1. Wrap * Wrap \in Nat  BY TcuAssumption
<1>2. Counters!Far \in Nat  BY <1>1, TcuAssumption DEF Counters!Far
<1>3. ASSUME NEW t \in 0 .. MaxTime, NEW k \in 0 .. Wrap, NEW d \in 0 .. Wrap
      PROVE  t + k * d \in 0 .. Counters!Far
  <2>1. Wrap \in Nat  BY TcuAssumption
  <2>2. k * d \in Nat  OBVIOUS
  <2>3. k * Wrap = k * d + k * (Wrap - d) /\ k * (Wrap - d) \in Nat  BY <2>1
  <2>4. Wrap * Wrap = k * Wrap + (Wrap - k) * Wrap /\ (Wrap - k) * Wrap \in Nat  BY <2>1
  <2>5. k * d <= Wrap * Wrap  BY <2>2, <2>3, <2>4, <1>1
  <2> QED BY <1>1, <2>2, <2>5, TcuAssumption DEF Counters!Far
<1> QED BY <1>2, <1>3

LEMMA TicksIn ==
  ASSUME NEW n \in 0 .. Wrap - 1, NEW g \in 0 .. Wrap - 1, NEW k \in 0 .. Wrap - 1
  PROVE  LET t == IF n = 0 \/ g > n THEN 0
                  ELSE IF k < g THEN g - k ELSE IF g = n THEN n ELSE n - k + g
         IN t \in Int /\ t <= Wrap
BY TcuAssumption

DeadlinesFit ==
  \A f \in Counters!Flags : \A w \in 0 .. Counters!Far :
    Counters!NextDeadline(f, w) \in 0 .. Counters!Far

LEMMA DeadlinesIn == TcuRegisters => DeadlinesFit
<1> SUFFICES ASSUME TcuRegisters, NEW f \in Counters!Flags, NEW w \in 0 .. Counters!Far
             PROVE  Counters!NextDeadline(f, w) \in 0 .. Counters!Far
  BY DEF DeadlinesFit
<1> DEFINE c == f[1]
           ticks == Counters!TicksUntil(c, Counters!Target(f), Counters!Count(c))
<1>1. c \in TcuChannels  BY FlagParts
<1>2. divisor[c] \in 0 .. Wrap /\ full[c] \in 0 .. Wrap - 1 /\ tcuNow \in 0 .. MaxTime
  BY <1>1, RegisterRanges
<1>3. Counters!Count(c) \in 0 .. Wrap - 1
  BY <1>1, CountFits
<1>5. Counters!Target(f) \in 0 .. Wrap - 1
  BY TargetIn
<1>6. ticks \in Int /\ ticks <= Wrap
  BY <1>2, <1>3, <1>5, TicksIn DEF Counters!TicksUntil
<1> HIDE DEF ticks
<1>7. CASE ticks < 0 \/ ticks = 0
  BY <1>7, FarIn DEF Counters!NextDeadline, ticks
<1>8. CASE ticks > 0
  <2>1. ticks \in 0 .. Wrap  BY <1>6, <1>8
  <2>2. tcuNow + ticks * divisor[c] \in 0 .. Counters!Far
    BY <2>1, <1>2, FarIn
  <2>3. Counters!NextDeadline(f, w) \in {0, tcuNow + ticks * divisor[c]}
    BY <1>6, <1>8 DEF Counters!NextDeadline, ticks
  <2> QED BY <2>2, <2>3, FarIn
<1> QED BY <1>6, <1>7, <1>8

LEMMA MatchesAt ==
  TcuRegisters =>
    \A f \in Counters!Flags : \A t \in Int :
      Counters!MatchAt(f, t) <=>
        MeetsAt(base[f[1]], divisor[f[1]], full[f[1]], Counters!Target(f), t - anchor[f[1]])
<1> SUFFICES ASSUME TcuRegisters, NEW f \in Counters!Flags, NEW t \in Int
             PROVE  t > anchor[f[1]] <=> t - anchor[f[1]] > 0
  BY DEF Counters!MatchAt, MeetsAt
<1> QED BY FlagParts, RegisterRanges

DeadlinesMatch ==
  \A f \in Counters!Flags : \A w \in 0 .. Counters!Far :
    Counters!Live(f) => NextMatch(f, Counters!NextDeadline(f, w))

LEMMA DeadlinesNext == TcuRegisters => DeadlinesMatch
<1> SUFFICES ASSUME TcuRegisters, NEW f \in Counters!Flags, NEW w \in 0 .. Counters!Far,
                    Counters!Live(f)
             PROVE  NextMatch(f, Counters!NextDeadline(f, w))
  BY DEF DeadlinesMatch
<1> DEFINE c == f[1]
           b == base[c]
           d == divisor[c]
           n == full[c]
           g == Counters!Target(f)
           e == tcuNow - anchor[c]
           cur == (b + e \div d) % n
           k == TicksFrom(n, g, cur)
           M(x) == Counters!MatchAt(f, x)
<1>1. c \in TcuChannels  BY FlagParts
<1>2. /\ n \in Nat \ {0} /\ b \in 0 .. n - 1 /\ d \in Nat \ {0} /\ g \in 0 .. n
      /\ e \in Nat /\ tcuNow \in Nat /\ anchor[c] \in Nat
  BY <1>1, RegisterRanges, TargetIn DEF Counters!Live, Counters!Running, Counters!RunsWith
<1>3. Counters!Count(c) = cur
  <2>1. Counters!Running(c)  BY DEF Counters!Live
  <2>2. CASE e = 0
    <3>1. Counters!Count(c) = b  BY <2>2, <1>2 DEF Counters!Count, Counters!CountWith
    <3>2. 0 \div d = 0
      <4>1. d \in Nat \ {0} /\ 0 = d * 0  BY <1>2
      <4> HIDE DEF d
      <4> QED BY <4>1, Quotient
    <3>3. b % n = b
      <4>1. b \in Int /\ b \in 0 .. n - 1 /\ n \in Nat \ {0}  BY <1>2
      <4> HIDE DEF b, n
      <4> QED BY <4>1
    <3>4. b + 0 = b  BY <1>2
    <3> QED BY <2>2, <3>1, <3>2, <3>3, <3>4
  <2>3. CASE e > 0
    <3>1. ~(tcuNow <= anchor[c]) /\ n # 0  BY <2>3, <1>2
    <3> QED BY <2>1, <3>1 DEF Counters!Count, Counters!CountWith
  <2> QED BY <1>2, <2>2, <2>3
<1>4. cur \in 0 .. n - 1
  <2> DEFINE z == b + e \div d
  <2>1. e \div d \in Int
    <3> HIDE DEF e, d
    <3> QED BY <1>2, QuotientBounds
  <2>2. z \in Int  BY <2>1, <1>2
  <2>3. cur = z % n  OBVIOUS
  <2> HIDE DEF z, n, cur
  <2>4. Divides(n, z)  BY <1>2, <2>2, WholeDivision
  <2> QED BY <2>3, <2>4 DEF Divides
<1>5. Awaited(b, d, n, g, e, k)  BY DEF Awaited
<1>6. Counters!NextDeadline(f, w) = tcuNow + k * d
  <2>1. Counters!Running(c) /\ f \notin flags /\ n # 0 /\ ~(g > n)
    BY <1>2 DEF Counters!Live
  <2> HIDE DEF cur, n, g, d
  <2>2. k \in Nat \ {0}  BY <1>2, <1>4 DEF TicksFrom
  <2>3. Counters!TicksUntil(c, g, Counters!Count(c)) = k
    BY <1>2, <1>3, <1>4, <2>1 DEF TicksFrom, Counters!TicksUntil, n
  <2> HIDE DEF k
  <2> QED BY <2>1, <2>2, <2>3 DEF Counters!NextDeadline, g, d
<1>7. k \in Nat
  <2> HIDE DEF cur, n, g
  <2> QED BY <1>2, <1>4 DEF TicksFrom
<1> HIDE DEF k, cur, b, d, n, g, e
<1>8. PICK s \in e + k * d - d + 1 .. e + k * d :
        MeetsAt(b, d, n, g, s) /\ \A x \in e + 1 .. s - 1 : ~MeetsAt(b, d, n, g, x)
  BY <1>2, <1>5, <1>7, FirstMatch
<1>9. k * d \in Int  BY <1>2, <1>7
<1>10. s \in Int /\ e = tcuNow - anchor[c]  BY <1>2, <1>8, <1>9 DEF e
<1> DEFINE m == anchor[c] + s
<1>11. m \in tcuNow + k * d - d + 1 .. tcuNow + k * d /\ m \in Int /\ m - anchor[c] = s
  BY <1>2, <1>8, <1>9, <1>10
<1>12. M(m)
  <2>1. M(m) <=> MeetsAt(b, d, n, g, m - anchor[c])
    BY <1>11, MatchesAt DEF b, d, n, g
  <2> QED BY <2>1, <1>8, <1>11
<1>13. ASSUME NEW t \in tcuNow + 1 .. m - 1 PROVE ~M(t)
  <2>1. t \in Int /\ t - anchor[c] \in e + 1 .. s - 1  BY <1>2, <1>10, <1>11
  <2>2. M(t) <=> MeetsAt(b, d, n, g, t - anchor[c])
    BY <2>1, MatchesAt DEF b, d, n, g
  <2> QED BY <2>1, <2>2, <1>8
<1> HIDE DEF m
<1>14. m \in Counters!NextDeadline(f, w) - d + 1 .. Counters!NextDeadline(f, w)
  BY <1>2, <1>6, <1>9, <1>11
<1> QED BY <1>12, <1>13, <1>14 DEF NextMatch, d

LEMMA EarliestIs ==
  deadline \in [Counters!Flags -> 0 .. Counters!Far] =>
    /\ Counters!Earliest \in 0 .. Counters!Far
    /\ \A f \in Counters!Flags :
         deadline[f] # 0 => Counters!Earliest # 0 /\ Counters!Earliest <= deadline[f]
<1> SUFFICES ASSUME deadline \in [Counters!Flags -> 0 .. Counters!Far]
             PROVE  /\ Counters!Earliest \in 0 .. Counters!Far
                    /\ \A f \in Counters!Flags :
                         deadline[f] # 0 =>
                           Counters!Earliest # 0 /\ Counters!Earliest <= deadline[f]
  OBVIOUS
<1>1. Counters!Coming \subseteq 0 .. Counters!Far /\ 0 \notin Counters!Coming
  BY DEF Counters!Coming
<1>2. \A f \in Counters!Flags : deadline[f] # 0 => deadline[f] \in Counters!Coming
  BY DEF Counters!Coming
<1>3. CASE Counters!Coming = {}
  BY <1>2, <1>3, FarIn DEF Counters!Earliest
<1>4. CASE Counters!Coming # {}
  <2>1. PICK v \in Counters!Coming : TRUE  BY <1>4
  <2>2. Counters!Coming \in SUBSET Nat  BY <1>1, FarIn
  <2>3. \E t \in Counters!Coming : \A u \in Counters!Coming : t <= u
    BY <2>1, <2>2, LeastOf
  <2>4. /\ Counters!Earliest \in Counters!Coming
        /\ \A u \in Counters!Coming : Counters!Earliest <= u
    BY <1>4, <2>3 DEF Counters!Earliest
  <2> QED BY <1>1, <1>2, <2>4
<1> QED BY <1>3, <1>4

LEMMA Rescheduled ==
  ASSUME TcuRegisters, TcuRegisters', Counters!Schedule, tcuNow' = tcuNow
  PROVE  TcuInv'
<1>1. tcuNow \in 0 .. Counters!Far /\ Counters!Far \in 0 .. Counters!Far
  <2>1. tcuNow \in 0 .. MaxTime /\ 0 \in 0 .. Wrap  BY TcuAssumption DEF TcuRegisters
  <2>2. tcuNow + 0 * 0 \in 0 .. Counters!Far  BY <2>1, FarIn
  <2>3. tcuNow \in 0 .. Counters!Far  BY <2>1, <2>2, TcuAssumption
  <2> QED BY <2>3, FarIn
<1>2. PICK w \in {tcuNow, Counters!Far} :
        deadline' = [f \in Counters!Flags |-> Counters!NextDeadline(f, w)']
  BY DEF Counters!Schedule
<1>3. w \in 0 .. Counters!Far  BY <1>1
<1>4. DeadlinesFit' /\ DeadlinesMatch'
  BY DeadlinesIn, DeadlinesNext, PTL
<1>5. deadline' \in [Counters!Flags -> 0 .. Counters!Far]
  BY <1>2, <1>3, <1>4 DEF DeadlinesFit
<1>6. ASSUME NEW f \in Counters!Flags, Counters!Live(f)' PROVE NextMatch(f, deadline[f])'
  <2>1. deadline'[f] = Counters!NextDeadline(f, w)'  BY <1>2
  <2>2. NextMatch(f, Counters!NextDeadline(f, w))'  BY <1>3, <1>4, <1>6 DEF DeadlinesMatch
  <2> QED BY <2>1, <2>2 DEF NextMatch
<1>7. tcuTimer' = Counters!Earliest'  BY DEF Counters!Schedule
<1> QED BY <1>5, <1>6, <1>7 DEF TcuInv

LEMMA TcuSound ==
  ASSUME TcuInv PROVE Counters!TypeOK /\ Counters!DeadlineExact
<1>1. Counters!TypeOK
  BY EarliestIs DEF TcuInv, TcuRegisters, Counters!TypeOK
<1>2. Counters!DeadlineExact
  BY DEF TcuInv, NextMatch, Counters!DeadlineExact
<1> QED BY <1>1, <1>2

LEMMA TcuStarts == ASSUME Counters!Init PROVE TcuInv
<1>1. TcuRegisters
  BY TcuAssumption DEF Counters!Init, TcuRegisters, Counters!Flags
<1>2. deadline \in [Counters!Flags -> 0 .. Counters!Far]
  BY FarIn DEF Counters!Init
<1>3. \A f \in Counters!Flags : ~Counters!Live(f)
  BY DEF Counters!Init, Counters!Live, Counters!Running, Counters!RunsWith
<1>4. Counters!Coming = {}
  BY DEF Counters!Init, Counters!Coming
<1> QED BY <1>1, <1>2, <1>3, <1>4 DEF Counters!Init, TcuInv, Counters!Earliest

(* What a latch makes of the counters. *)
LatchedAs(b, a, C, d, on, off) ==
  /\ b = [c \in TcuChannels |->
            IF c \in C THEN Counters!CountWith(c, d[c], Counters!RunsWith(c, d[c], on, off))
            ELSE base[c]]
  /\ a = [c \in TcuChannels |-> IF c \in C THEN tcuNow ELSE anchor[c]]

CountersFit(b, a) ==
  /\ b \in [TcuChannels -> 0 .. Wrap - 1] /\ a \in [TcuChannels -> 0 .. MaxTime]
  /\ \A c \in TcuChannels : a[c] <= tcuNow

LEMMA LatchFits ==
  ASSUME TcuRegisters, NEW C, NEW b, NEW a, NEW d \in [TcuChannels -> Divisors \cup {0}],
         NEW on, NEW off, LatchedAs(b, a, C, d, on, off)
  PROVE  CountersFit(b, a)
<1>1. ASSUME NEW c \in TcuChannels
      PROVE  Counters!CountWith(c, d[c], Counters!RunsWith(c, d[c], on, off)) \in 0 .. Wrap - 1
  <2>1. d[c] \in 0 .. Wrap
    <3>1. \A v \in Divisors \cup {0} : v \in 0 .. Wrap  BY TcuAssumption
    <3> QED BY <3>1
  <2>2. /\ Counters!RunsWith(c, d[c], on, off) \in BOOLEAN
        /\ Counters!RunsWith(c, d[c], on, off) => d[c] # 0
    BY DEF Counters!RunsWith
  <2> QED BY <2>1, <2>2, LatchedIn
<1>2. \A c \in TcuChannels : base[c] \in 0 .. Wrap - 1 /\ anchor[c] \in 0 .. MaxTime
                            /\ anchor[c] <= tcuNow /\ tcuNow \in 0 .. MaxTime
  BY DEF TcuRegisters
<1>3. b \in [TcuChannels -> 0 .. Wrap - 1]  BY <1>1, <1>2 DEF LatchedAs
<1>4. a \in [TcuChannels -> 0 .. MaxTime]  BY <1>2 DEF LatchedAs
<1>5. \A c \in TcuChannels : a[c] <= tcuNow  BY <1>2, TcuAssumption DEF LatchedAs
<1> QED BY <1>3, <1>4, <1>5 DEF CountersFit

LEMMA TcuGuestSteps == ASSUME TcuInv, Counters!Guest PROVE TcuInv'
<1> USE DEF Counters!counters, Counters!gates
<1>0. /\ TcuRegisters
      /\ base \in [TcuChannels -> 0 .. Wrap - 1]
      /\ anchor \in [TcuChannels -> 0 .. MaxTime]
      /\ \A c \in TcuChannels : anchor[c] <= tcuNow
      /\ divisor \in [TcuChannels -> Divisors \cup {0}]
      /\ full \in [TcuChannels -> Fulls \cup {Default}]
      /\ half \in [TcuChannels -> Halves \cup {Default}]
      /\ enabled \subseteq TcuChannels /\ stopped \subseteq TcuChannels
      /\ flags \subseteq Counters!Flags
      /\ tcuNow \in 0 .. MaxTime
  BY DEF TcuInv, TcuRegisters
<1>1. \A C \in TcuMasks : C \subseteq TcuChannels  BY TcuAssumption
<1>2. ASSUME CountersFit(base', anchor'), tcuNow' = tcuNow, Counters!Schedule,
             divisor' \in [TcuChannels -> Divisors \cup {0}],
             full' \in [TcuChannels -> Fulls \cup {Default}],
             half' \in [TcuChannels -> Halves \cup {Default}],
             enabled' \subseteq TcuChannels, stopped' \subseteq TcuChannels,
             flags' \subseteq Counters!Flags
      PROVE  TcuInv'
  <2>1. TcuRegisters'  BY <1>0, <1>2 DEF TcuRegisters, CountersFit
  <2> QED BY <1>0, <1>2, <2>1, Rescheduled
<1>3. ASSUME NEW C \in TcuMasks, Counters!Enable(C) PROVE TcuInv'
  <2>1. LatchedAs(base', anchor', C \ enabled, divisor, enabled, stopped)
    BY <1>3 DEF Counters!Enable, Counters!LatchEnable, Counters!Latch, LatchedAs
  <2>2. CountersFit(base', anchor')  BY <1>0, <2>1, LatchFits
  <2> QED BY <1>0, <1>1, <1>3, <1>2, <2>2 DEF Counters!Enable
<1>4. ASSUME NEW C \in TcuMasks, Counters!Disable(C) PROVE TcuInv'
  <2>1. LatchedAs(base', anchor', C, divisor, enabled, stopped)
    BY <1>4 DEF Counters!Disable, Counters!Latch, LatchedAs
  <2>2. CountersFit(base', anchor')  BY <1>0, <2>1, LatchFits
  <2> QED BY <1>0, <1>1, <1>4, <1>2, <2>2 DEF Counters!Disable
<1>5. ASSUME NEW C \in TcuMasks, Counters!Stop(C) PROVE TcuInv'
  <2>1. LatchedAs(base', anchor', C, divisor, enabled, stopped)
    BY <1>5 DEF Counters!Stop, Counters!Latch, LatchedAs
  <2>2. CountersFit(base', anchor')  BY <1>0, <2>1, LatchFits
  <2> QED BY <1>0, <1>1, <1>5, <1>2, <2>2 DEF Counters!Stop
<1>6. ASSUME NEW C \in TcuMasks, Counters!Start(C) PROVE TcuInv'
  <2>1. LatchedAs(base', anchor', C \cap enabled, divisor, enabled, stopped')
    BY <1>6 DEF Counters!Start, Counters!Latch, LatchedAs
  <2>2. CountersFit(base', anchor')  BY <1>0, <2>1, LatchFits
  <2> QED BY <1>0, <1>1, <1>6, <1>2, <2>2 DEF Counters!Start
<1>7. ASSUME NEW C \in TcuMasks, NEW kind \in {"full", "half"}, Counters!SetFlags(C \X {kind})
      PROVE  TcuInv'
  <2>1. flags \subseteq flags' /\ flags' \subseteq Counters!Flags
    BY <1>0, <1>1, <1>7 DEF Counters!SetFlags, Counters!Flags
  <2>2. TcuRegisters'
    BY <1>0, <1>7, <2>1 DEF TcuRegisters, Counters!SetFlags
  <2>3. \A f \in Counters!Flags : Counters!Live(f)' => Counters!Live(f)
    BY <1>7, <2>1 DEF Counters!SetFlags, Counters!Live, Counters!Running, Counters!Target
  <2>4. \A f \in Counters!Flags : NextMatch(f, deadline[f]) => NextMatch(f, deadline[f])'
    BY <1>7 DEF Counters!SetFlags, NextMatch, Counters!MatchAt, Counters!Target
  <2>5. deadline' = deadline /\ tcuTimer' = tcuTimer /\ Counters!Earliest' = Counters!Earliest
    BY <1>7 DEF Counters!SetFlags, Counters!Earliest, Counters!Coming
  <2> QED BY <2>2, <2>3, <2>4, <2>5 DEF TcuInv
<1>8. ASSUME NEW C \in TcuMasks, NEW kind \in {"full", "half"}, Counters!ClearFlags(C \X {kind})
      PROVE  TcuInv'
  <2>1. CountersFit(base', anchor')  BY <1>0, <1>8 DEF CountersFit, Counters!ClearFlags
  <2> QED BY <1>0, <1>8, <1>2, <2>1 DEF Counters!ClearFlags
<1>9. ASSUME NEW c \in TcuChannels, NEW v \in Fulls, Counters!WriteFull(c, v) PROVE TcuInv'
  <2>1. Counters!Count(c) \in 0 .. Wrap - 1  BY <1>0, CountFits
  <2>2. (IF v # 0 THEN Counters!Count(c) % v ELSE Counters!Count(c)) \in 0 .. Wrap - 1
    <3> DEFINE k == Counters!Count(c)
    <3>1. k \in 0 .. Wrap - 1 /\ v \in 0 .. Wrap - 1  BY <2>1, TcuAssumption
    <3> HIDE DEF k
    <3>2. CASE v # 0
      <4>1. k \in Int /\ v \in Nat \ {0}  BY <3>1, <3>2
      <4>2. Divides(v, k)  BY <4>1, WholeDivision
      <4>3. k % v \in 0 .. v - 1  BY <4>2 DEF Divides
      <4>4. k % v \in 0 .. Wrap - 1  BY <4>3, <3>1, TcuAssumption
      <4> QED BY <3>2, <4>4 DEF k
    <3>3. CASE v = 0
      BY <3>1, <3>3 DEF k
    <3> QED BY <3>2, <3>3
  <2>3. base' = [base EXCEPT ![c] = IF v # 0 THEN Counters!Count(c) % v ELSE Counters!Count(c)]
        /\ anchor' = [anchor EXCEPT ![c] = tcuNow]
    BY <1>9 DEF Counters!WriteFull
  <2>4. CountersFit(base', anchor')  BY <1>0, <2>2, <2>3, TcuAssumption DEF CountersFit
  <2>5. full' \in [TcuChannels -> Fulls \cup {Default}]  BY <1>0, <1>9 DEF Counters!WriteFull
  <2> QED BY <1>0, <1>9, <1>2, <2>4, <2>5 DEF Counters!WriteFull
<1>10. ASSUME NEW c \in TcuChannels, NEW v \in Halves, Counters!WriteHalf(c, v) PROVE TcuInv'
  <2>1. LatchedAs(base', anchor', {c}, divisor, enabled, stopped)
    BY <1>10 DEF Counters!WriteHalf, Counters!Latch, LatchedAs
  <2>2. CountersFit(base', anchor')  BY <1>0, <2>1, LatchFits
  <2>3. half' \in [TcuChannels -> Halves \cup {Default}]  BY <1>0, <1>10 DEF Counters!WriteHalf
  <2> QED BY <1>0, <1>10, <1>2, <2>2, <2>3 DEF Counters!WriteHalf
<1>11. ASSUME NEW c \in TcuChannels, NEW v \in Counts, Counters!WriteCounter(c, v) PROVE TcuInv'
  <2>1. v \in 0 .. Wrap - 1  BY TcuAssumption
  <2>2. CountersFit(base', anchor')
    BY <1>0, <1>11, <2>1, TcuAssumption DEF CountersFit, Counters!WriteCounter
  <2> QED BY <1>0, <1>11, <1>2, <2>2 DEF Counters!WriteCounter
<1>12. ASSUME NEW c \in TcuChannels, NEW d \in Divisors, Counters!WriteClock(c, d) PROVE TcuInv'
  <2>1. divisor' \in [TcuChannels -> Divisors \cup {0}]
    BY <1>0, <1>12 DEF Counters!WriteClock
  <2>2. LatchedAs(base', anchor', {c}, divisor', enabled, stopped)
    BY <1>12 DEF Counters!WriteClock, Counters!Latch, LatchedAs
  <2>3. CountersFit(base', anchor')  BY <1>0, <2>1, <2>2, LatchFits
  <2> QED BY <1>0, <1>12, <1>2, <2>1, <2>3 DEF Counters!WriteClock
<1>13. QED
  BY <1>3, <1>4, <1>5, <1>6, <1>7, <1>8, <1>9, <1>10, <1>11, <1>12 DEF Counters!Guest

LEMMA TcuSteps == ASSUME TcuInv, Counters!Next \/ UNCHANGED tcuVars PROVE TcuInv'
<1> USE DEF Counters!counters, Counters!gates
<1>0. /\ TcuRegisters
      /\ base \in [TcuChannels -> 0 .. Wrap - 1]
      /\ anchor \in [TcuChannels -> 0 .. MaxTime]
      /\ \A c \in TcuChannels : anchor[c] <= tcuNow
      /\ flags \subseteq Counters!Flags
      /\ tcuNow \in 0 .. MaxTime
  BY DEF TcuInv, TcuRegisters
<1>1. ASSUME Counters!Guest PROVE TcuInv'
  BY <1>1, TcuGuestSteps
<1>2. ASSUME Counters!Timer PROVE TcuInv'
  <2>1. flags' \subseteq Counters!Flags
    BY <1>0, <1>2 DEF Counters!Timer, Counters!Due
  <2>2. TcuRegisters'  BY <1>0, <1>2, <2>1 DEF TcuRegisters, Counters!Timer
  <2> QED BY <1>0, <1>2, <2>2, Rescheduled DEF Counters!Timer
<1>3. ASSUME Counters!Tick PROVE TcuInv'
  <2>1. /\ tcuNow' = tcuNow + 1 /\ tcuNow < MaxTime
        /\ UNCHANGED <<base, anchor, divisor, full, half, enabled, stopped, flags, deadline, tcuTimer>>
    BY <1>3 DEF Counters!Tick
  <2>2. tcuNow' \in 0 .. MaxTime /\ \A c \in TcuChannels : anchor[c] <= tcuNow'
    BY <1>0, <2>1, TcuAssumption
  <2>3. TcuRegisters'
    BY <2>1, <2>2 DEF TcuInv, TcuRegisters
  <2>4. \A f \in Counters!Flags : Counters!Live(f)' => Counters!Live(f)
    BY <2>1 DEF Counters!Live, Counters!Running, Counters!Target
  <2>5. \A f \in Counters!Flags : \A t : Counters!MatchAt(f, t)' <=> Counters!MatchAt(f, t)
    BY <2>1 DEF Counters!MatchAt, Counters!Target
  <2>6. ASSUME NEW f \in Counters!Flags, NextMatch(f, deadline[f])
        PROVE  NextMatch(f, deadline[f])'
    <3>1. PICK m \in deadline[f] - divisor[f[1]] + 1 .. deadline[f] :
            Counters!MatchAt(f, m) /\ \A t \in tcuNow + 1 .. m - 1 : ~Counters!MatchAt(f, t)
      BY <2>6 DEF NextMatch
    <3>2. \A t \in tcuNow' + 1 .. m - 1 : t \in tcuNow + 1 .. m - 1
      BY <1>0, <2>1
    <3> QED BY <2>1, <2>5, <3>1, <3>2 DEF NextMatch
  <2>7. deadline' = deadline /\ tcuTimer' = tcuTimer /\ Counters!Earliest' = Counters!Earliest
    BY <2>1 DEF Counters!Earliest, Counters!Coming
  <2> QED BY <2>3, <2>4, <2>6, <2>7 DEF TcuInv
<1>4. ASSUME Counters!Reset PROVE TcuInv'
  <2>1. TcuRegisters'
    BY <1>0, <1>4, TcuAssumption DEF Counters!Reset, TcuRegisters
  <2>2. deadline' \in [Counters!Flags -> 0 .. Counters!Far]
    BY <1>4, FarIn DEF Counters!Reset
  <2>3. \A f \in Counters!Flags : ~Counters!Live(f)'
    BY <1>4 DEF Counters!Reset, Counters!Live, Counters!Running, Counters!RunsWith
  <2>4. Counters!Earliest' = 0
    BY <1>4 DEF Counters!Reset, Counters!Coming, Counters!Earliest
  <2> QED BY <1>4, <2>1, <2>2, <2>3, <2>4 DEF Counters!Reset, TcuInv
<1>5. ASSUME UNCHANGED tcuVars PROVE TcuInv'
  BY <1>5 DEF tcuVars, TcuInv, TcuRegisters, NextMatch, Counters!MatchAt, Counters!Target,
     Counters!Live, Counters!Running, Counters!Earliest, Counters!Coming
<1>6. QED BY <1>1, <1>2, <1>3, <1>4, <1>5 DEF Counters!Next

(* A write of a register, seen at the counter that it does not set.               *)
LEMMA SameCount ==
  ASSUME TcuInv, NEW c \in TcuChannels, tcuNow' = tcuNow, full'[c] = full[c],
         \/ /\ base'[c] = base[c] /\ anchor'[c] = anchor[c] /\ divisor'[c] = divisor[c]
            /\ Counters!Running(c)' <=> Counters!Running(c)
         \/ base'[c] = Counters!Count(c) /\ anchor'[c] = tcuNow
  PROVE  Counters!Count(c)' = Counters!Count(c)
BY DEF TcuInv, TcuRegisters, Counters!Count, Counters!CountWith

LEMMA CountersKept ==
  ASSUME TcuInv, Counters!Next \/ UNCHANGED tcuVars PROVE Counters!CounterKept
<1> USE DEF Counters!counters, Counters!gates
<1> SUFFICES ASSUME NEW c \in TcuChannels, tcuNow' = tcuNow,
                    ~\E v \in Counts : Counters!WriteCounter(c, v),
                    ~\E v \in Fulls : Counters!WriteFull(c, v),
                    ~\E C \in TcuMasks : c \in C \cap stopped /\ Counters!Start(C),
                    ~\E d \in Divisors \ {divisor[c]} : Counters!WriteClock(c, d),
                    ~Counters!Reset
             PROVE  Counters!Count(c)' = Counters!Count(c)
  BY DEF Counters!CounterKept
<1>0. /\ base \in [TcuChannels -> 0 .. Wrap - 1] /\ anchor \in [TcuChannels -> 0 .. MaxTime]
      /\ divisor \in [TcuChannels -> Divisors \cup {0}]
      /\ full \in [TcuChannels -> Fulls \cup {Default}] /\ tcuNow \in Nat
  BY TcuAssumption DEF TcuInv, TcuRegisters
<1>1. ASSUME NEW C \in TcuMasks, Counters!Enable(C) PROVE Counters!Count(c)' = Counters!Count(c)
  <2>1. CASE c \in C \ enabled
    <3>1. ~Counters!Running(c)  BY <2>1 DEF Counters!Running, Counters!RunsWith
    <3>2. Counters!Count(c) = base[c]  BY <3>1 DEF Counters!Count, Counters!CountWith
    <3>3. base'[c] = base[c] /\ anchor'[c] = tcuNow
      BY <1>1, <2>1 DEF Counters!Enable, Counters!LatchEnable, Counters!Latch,
         Counters!CountWith, Counters!RunsWith
    <3> QED BY <1>1, <3>2, <3>3, SameCount DEF Counters!Enable
  <2>2. CASE c \notin C \ enabled
    <3>1. base'[c] = base[c] /\ anchor'[c] = anchor[c]
      BY <1>0, <1>1, <2>2 DEF Counters!Enable, Counters!LatchEnable, Counters!Latch
    <3>2. Counters!Running(c)' <=> Counters!Running(c)
      BY <1>1, <2>2 DEF Counters!Enable, Counters!Running, Counters!RunsWith
    <3> QED BY <1>1, <3>1, <3>2, SameCount DEF Counters!Enable
  <2> QED BY <2>1, <2>2
<1>2. ASSUME NEW C, NEW on, NEW off, full' = full, divisor' = divisor,
             LatchedAs(base', anchor', C, divisor, enabled, stopped),
             c \notin C => (Counters!Running(c)' <=> Counters!Running(c))
      PROVE  Counters!Count(c)' = Counters!Count(c)
  <2>1. CASE c \in C
    <3>1. base'[c] = Counters!Count(c) /\ anchor'[c] = tcuNow
      BY <1>2, <2>1 DEF LatchedAs, Counters!Count, Counters!Running
    <3> QED BY <1>2, <3>1, SameCount
  <2>2. CASE c \notin C
    <3>1. base'[c] = base[c] /\ anchor'[c] = anchor[c]
      BY <1>0, <1>2, <2>2 DEF LatchedAs
    <3> QED BY <1>2, <2>2, <3>1, SameCount
  <2> QED BY <2>1, <2>2
<1>3. ASSUME NEW C \in TcuMasks, Counters!Disable(C) PROVE Counters!Count(c)' = Counters!Count(c)
  <2>1. LatchedAs(base', anchor', C, divisor, enabled, stopped)
    BY <1>3 DEF Counters!Disable, Counters!Latch, LatchedAs
  <2>2. c \notin C => (Counters!Running(c)' <=> Counters!Running(c))
    BY <1>3 DEF Counters!Disable, Counters!Running, Counters!RunsWith
  <2> QED BY <1>2, <1>3, <2>1, <2>2 DEF Counters!Disable
<1>4. ASSUME NEW C \in TcuMasks, Counters!Stop(C) PROVE Counters!Count(c)' = Counters!Count(c)
  <2>1. LatchedAs(base', anchor', C, divisor, enabled, stopped)
    BY <1>4 DEF Counters!Stop, Counters!Latch, LatchedAs
  <2>2. c \notin C => (Counters!Running(c)' <=> Counters!Running(c))
    BY <1>4 DEF Counters!Stop, Counters!Running, Counters!RunsWith
  <2> QED BY <1>2, <1>4, <2>1, <2>2 DEF Counters!Stop
<1>5. ASSUME NEW C \in TcuMasks, Counters!Start(C) PROVE Counters!Count(c)' = Counters!Count(c)
  <2>1. c \notin C \cap stopped  BY <1>5
  <2>2. Counters!RunsWith(c, divisor[c], enabled, stopped') <=> Counters!Running(c)
    BY <1>5, <2>1 DEF Counters!Start, Counters!Running, Counters!RunsWith
  <2>3. Counters!Running(c)' <=> Counters!Running(c)
    BY <1>5, <2>1 DEF Counters!Start, Counters!Running, Counters!RunsWith
  <2>4. CASE c \in C \cap enabled
    <3>1. base'[c] = Counters!CountWith(c, divisor[c], Counters!RunsWith(c, divisor[c], enabled, stopped'))
          /\ anchor'[c] = tcuNow
      BY <1>5, <2>4 DEF Counters!Start, Counters!Latch
    <3>2. base'[c] = Counters!Count(c)
      BY <3>1, <2>2 DEF Counters!Count, Counters!CountWith
    <3> QED BY <1>5, <3>1, <3>2, SameCount DEF Counters!Start
  <2>5. CASE c \notin C \cap enabled
    <3>1. base'[c] = base[c] /\ anchor'[c] = anchor[c]
      BY <1>0, <1>5, <2>5 DEF Counters!Start, Counters!Latch
    <3> QED BY <1>5, <2>3, <3>1, SameCount DEF Counters!Start
  <2> QED BY <2>4, <2>5
<1>6. ASSUME NEW v \in Halves, NEW o \in TcuChannels, Counters!WriteHalf(o, v)
      PROVE  Counters!Count(c)' = Counters!Count(c)
  <2>1. LatchedAs(base', anchor', {o}, divisor, enabled, stopped)
    BY <1>6 DEF Counters!WriteHalf, Counters!Latch, LatchedAs
  <2>2. Counters!Running(c)' <=> Counters!Running(c)
    BY <1>6 DEF Counters!WriteHalf, Counters!Running, Counters!RunsWith
  <2> QED BY <1>2, <1>6, <2>1, <2>2 DEF Counters!WriteHalf
<1>7. ASSUME NEW d \in Divisors, NEW o \in TcuChannels, Counters!WriteClock(o, d)
      PROVE  Counters!Count(c)' = Counters!Count(c)
  <2>1. CASE d = divisor[o]
    <3>1. divisor' = divisor  BY <1>0, <1>7, <2>1 DEF Counters!WriteClock
    <3>2. LatchedAs(base', anchor', {o}, divisor, enabled, stopped)
      BY <1>7, <3>1 DEF Counters!WriteClock, Counters!Latch, LatchedAs
    <3>3. Counters!Running(c)' <=> Counters!Running(c)
      BY <1>7, <3>1 DEF Counters!WriteClock, Counters!Running, Counters!RunsWith
    <3> QED BY <1>2, <1>7, <3>1, <3>2, <3>3 DEF Counters!WriteClock
  <2>2. CASE d # divisor[o]
    <3>1. o # c  BY <1>7, <2>2
    <3>2. divisor'[c] = divisor[c] /\ base'[c] = base[c] /\ anchor'[c] = anchor[c]
      BY <1>0, <1>7, <3>1 DEF Counters!WriteClock, Counters!Latch
    <3>3. Counters!Running(c)' <=> Counters!Running(c)
      BY <1>7, <3>2 DEF Counters!WriteClock, Counters!Running, Counters!RunsWith
    <3> QED BY <1>7, <3>2, <3>3, SameCount DEF Counters!WriteClock
  <2> QED BY <2>1, <2>2
<1>8. ASSUME NEW v, NEW o \in TcuChannels, o # c, Counters!WriteFull(o, v) \/ Counters!WriteCounter(o, v)
      PROVE  Counters!Count(c)' = Counters!Count(c)
  <2>1. /\ full'[c] = full[c] /\ base'[c] = base[c] /\ anchor'[c] = anchor[c]
        /\ divisor' = divisor /\ enabled' = enabled /\ stopped' = stopped
    BY <1>0, <1>8 DEF Counters!WriteFull, Counters!WriteCounter
  <2> QED BY <2>1, SameCount DEF Counters!Running
<1>9. ASSUME \/ UNCHANGED tcuVars \/ Counters!Timer \/ \E F : Counters!SetFlags(F) \/ Counters!ClearFlags(F)
      PROVE  Counters!Count(c)' = Counters!Count(c)
  <2>1. UNCHANGED <<base, anchor, divisor, full, enabled, stopped>>
    BY <1>9 DEF tcuVars, Counters!Timer, Counters!SetFlags, Counters!ClearFlags
  <2> QED BY <2>1, SameCount DEF Counters!Running
<1>10. ~Counters!Tick
  BY <1>0 DEF Counters!Tick
<1>11. QED
  BY <1>1, <1>3, <1>4, <1>5, <1>6, <1>7, <1>8, <1>9, <1>10 DEF Counters!Next, Counters!Guest

(* On the instruction clock the guest runs only while no deadline is due.         *)
LEMMA MatchesServed ==
  ASSUME Icount, TcuInv, Counters!Next \/ UNCHANGED tcuVars PROVE Counters!NoUndividedMatchLost
<1> USE DEF Counters!counters, Counters!gates
<1> SUFFICES ASSUME NEW f \in Counters!Flags, divisor[f[1]] = 1, Counters!Reached(f),
                    (f[1] \in enabled)' <=> f[1] \in enabled
             PROVE  f \in flags' \/ deadline'[f] = deadline[f]
  BY DEF Counters!NoUndividedMatchLost, Counters!MatchKept
<1>1. /\ deadline[f] \in Nat /\ deadline[f] # 0 /\ f \notin flags /\ f[1] \in enabled
      /\ tcuNow \in Nat
  BY FarIn, TcuAssumption DEF TcuInv, TcuRegisters, Counters!Reached, Counters!Live,
     Counters!Running, Counters!RunsWith
<1>2. deadline[f] <= tcuNow
  BY <1>1 DEF Counters!Reached
<1>3. tcuTimer # 0 /\ tcuTimer <= deadline[f] /\ tcuTimer \in Nat
  BY <1>1, EarliestIs, FarIn DEF TcuInv
<1>4. ~Counters!GuestRuns
  BY <1>1, <1>2, <1>3 DEF Counters!GuestRuns
<1>5. CASE Counters!Timer
  BY <1>1, <1>2, <1>5 DEF Counters!Timer, Counters!Due
<1>6. CASE Counters!Tick \/ UNCHANGED tcuVars
  BY <1>6 DEF Counters!Tick, tcuVars
<1>7. ~Counters!Reset
  BY <1>1 DEF Counters!Reset
<1>8. ~Counters!Guest
  BY <1>4 DEF Counters!Guest, Counters!Enable, Counters!Disable, Counters!Stop, Counters!Start,
     Counters!SetFlags, Counters!ClearFlags, Counters!WriteFull, Counters!WriteHalf,
     Counters!WriteCounter, Counters!WriteClock
<1>9. QED BY <1>5, <1>6, <1>7, <1>8 DEF Counters!Next

----------------------------------------------------------------------------
CpuInv ==
  /\ unit = "tlb" => TlbInv
  /\ unit = "core" => CoreInv
  /\ unit = "cp0" => Cp0Inv

LEMMA CpuTyped ==
  ASSUME CpuInv
  PROVE  /\ unit = "tlb" => Mmu!TypeOK
         /\ unit = "core" => Cpu!TypeOK
         /\ unit = "cp0" => Control!TypeOK
<1>1. ASSUME TlbInv PROVE Mmu!TypeOK
  <2>1. tlb.slots \in [1 .. NbTlb -> Entries] /\ NbTlb \in Nat
    BY <1>1, TlbAssumption DEF TlbInv, Shaped
  <2>2. tlb.slots \in Seq(Entries) /\ Len(tlb.slots) = NbTlb  BY <2>1
  <2> QED BY <1>1, <2>2 DEF TlbInv, Shaped, Mmu!TypeOK
<1>2. Cp0Inv => Control!TypeOK  BY DEF Cp0Inv, Cp0Lines, Control!TypeOK
<1> QED BY <1>1, <1>2, CoreHolds DEF CpuInv

LEMMA CpuStarts == Init => CpuInv
<1> SUFFICES ASSUME Init PROVE CpuInv
  OBVIOUS
<1>1. unit = "tlb" => TlbInv  BY TlbStarts DEF Init
<1>2. unit = "core" => CoreInv  BY CoreStarts DEF Init
<1>3. unit = "cp0" => Cp0Inv  BY Cp0Starts DEF Init
<1> QED BY <1>1, <1>2, <1>3 DEF CpuInv

LEMMA CpuKeeps == ASSUME CpuInv, [Next]_vars PROVE CpuInv'
<1>1. (unit = "tlb" => TlbInv)'  BY CpuSteps, TlbSteps DEF CpuInv
<1>2. (unit = "core" => CoreInv)'  BY CpuSteps, CoreSteps DEF CpuInv
<1>3. (unit = "cp0" => Cp0Inv)'  BY CpuSteps, Cp0Steps DEF CpuInv
<1> QED BY <1>1, <1>2, <1>3 DEF CpuInv

(* Every entry that QEMU's TLB holds comes from an entry of the guest or a shadow, *)
(* and no two of these meet (tlb_helper.c); the CPU goes where the architecture    *)
(* says, and a block that knows the target of a branch in its key has the right    *)
(* one (translate.c); interrupts are told of (op_helper.c, cp0_helper.c).          *)
THEOREM CpuCorrect == Spec => []CpuInv
<1>1. CpuInv /\ [Next]_vars => CpuInv'  BY CpuKeeps
<1> QED BY CpuStarts, <1>1, PTL DEF Spec

(* The guest cannot tell QEMU's TLB and the shadows behind its entries from the    *)
(* TLB of the manual, whatever it writes, replaces, probes or reads in whatever    *)
(* order; exceptions and delay slots come where the architecture says however     *)
(* the program is cut into blocks and patched; and an interrupt that is let in     *)
(* is taken at the end of the block at the latest, but for the slots that the      *)
(* translator is known to run on from.                                           *)
THEOREM ProgramKept == Spec => []CpuSound
<1>1. CpuInv => CpuSound
  BY TlbHolds, CoreHolds, Cp0ReadsBack DEF CpuInv, CpuSound, Cp0Inv
<1> QED BY CpuCorrect, <1>1, PTL
=============================================================================
