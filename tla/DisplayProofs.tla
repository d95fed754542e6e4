--------------------------- MODULE DisplayProofs ---------------------------
(***************************************************************************)
(* What Display keeps for every chain of descriptors, every guest and      *)
(* every client.  BoardProofs takes these lemmas for both of its units.    *)
(***************************************************************************)
EXTENDS Display, TLAPS

Events == {"EOF", "SOF", "LDD", "QD"}
Addresses == DOMAIN Descriptor \cup {0}
Commands == [sof : BOOLEAN, eof : BOOLEAN, len : BOOLEAN]

(* What the constants stand for: a chain ends or goes on with a descriptor.      *)
Configured ==
  /\ \A d \in DOMAIN Descriptor :
       Descriptor[d].next \in Addresses /\ {Descriptor[d].sof, Descriptor[d].eof} \subseteq BOOLEAN
  /\ Arms \subseteq Channels \X Addresses /\ EnableSets \subseteq SUBSET Events
  /\ Period \in Nat \ {0}

(* All of the controller but the numbers of frames, which may be anything.       *)
Typed(l) ==
  /\ l \in [ena : BOOLEAN, masks : SUBSET Events, state : SUBSET Events, iid : {l.iid},
            da : [Channels -> Addresses], fid : {l.fid}, cmd : [Channels -> Commands],
            desc : Addresses, buffer : Buffers \cup {None}, irq : BOOLEAN]
  /\ DOMAIN l.fid = Channels

Hosts ==
  [last : Pictures \cup {None}, sent : BOOLEAN, timer : 0 .. Period, hold : 0 .. Period]
Sessions == [who : Clients \cup {None}, shows : Pictures \cup {None}]

DisplayInv ==
  /\ TypeOK /\ Typed(lcd) /\ LineAgrees
  /\ host \in Hosts /\ client \in Sessions /\ panelDone \in BOOLEAN
  /\ pixels \in [Buffers -> Pictures]

Held == lcd.irq /\ lcd'.irq => lcd'.iid = lcd.iid

(* Later steps of a handler may add events; they keep the masks and the switch,  *)
(* and the frame of an interrupt that is pending.                               *)
Goes(l, m) ==
  /\ Typed(m) /\ m.ena = l.ena /\ m.masks = l.masks /\ l.state \subseteq m.state
  /\ Pending(l) => m.iid = l.iid

LEMMA GoesOn ==
  ASSUME NEW l, NEW m, NEW n, Goes(l, m), Goes(m, n) PROVE Goes(l, n)
BY DEF Goes, Pending

LEMMA Latches ==
  ASSUME NEW l, Typed(l), NEW event \in Events, NEW fid PROVE Goes(l, Latch(l, event, fid))
<1> DEFINE i == IF event \in l.masks /\ ~Pending(l) THEN fid ELSE l.iid
           s == l.state \cup {event}
           m == [l EXCEPT !.iid = i, !.state = s]
<1>1. Latch(l, event, fid) = m /\ s \subseteq Events /\ l.state \subseteq s
      /\ (Pending(l) => i = l.iid)
  BY DEF Latch, Typed
<1> HIDE DEF i, s
<1>2. Typed(m) /\ m.ena = l.ena /\ m.masks = l.masks /\ m.state = s /\ m.iid = i
  BY <1>1 DEF Typed
<1> HIDE DEF m
<1>3. QED BY <1>1, <1>2 DEF Goes

LEMMA Loads ==
  ASSUME Configured, NEW l, Typed(l), NEW c \in Channels, InRam(l, c)
  PROVE  Goes(l, Loaded(l, c))
<1> DEFINE d == l.da[c]
           e == Descriptor[d]
           k == [sof |-> e.sof, eof |-> e.eof, len |-> TRUE]
           m == [l EXCEPT !.da[c] = e.next, !.fid[c] = e.fid, !.desc = d, !.cmd[c] = k]
           n == IF e.sof THEN Latch(m, "SOF", e.fid) ELSE m
<1>1. d \in DOMAIN Descriptor /\ e.next \in Addresses /\ k \in Commands
  BY DEF Configured, InRam, Commands
<1>2. Loaded(l, c) = IF source[d] \in Buffers THEN [n EXCEPT !.buffer = source[d]] ELSE n
  BY DEF Loaded
<1> DEFINE x == e.next
           f == e.fid
<1>3. Typed(m) /\ m.ena = l.ena /\ m.masks = l.masks /\ m.state = l.state /\ m.iid = l.iid
  <2>1. d \in Addresses
    BY <1>1 DEF Addresses
  <2>2. l.da \in [Channels -> Addresses] /\ l.cmd \in [Channels -> Commands]
        /\ DOMAIN l.fid = Channels
    BY DEF Typed
  <2>3. [l.da EXCEPT ![c] = x] \in [Channels -> Addresses]
        /\ [l.cmd EXCEPT ![c] = k] \in [Channels -> Commands]
        /\ DOMAIN [l.fid EXCEPT ![c] = f] = Channels
    BY <1>1, <2>2
  <2>4. m = [l EXCEPT !.da = [l.da EXCEPT ![c] = x], !.fid = [l.fid EXCEPT ![c] = f],
                      !.desc = d, !.cmd = [l.cmd EXCEPT ![c] = k]]
    BY DEF Typed
  <2> HIDE DEF d, e, k, x, f
  <2> DEFINE D == [l.da EXCEPT ![c] = x]
             F == [l.fid EXCEPT ![c] = f]
             K == [l.cmd EXCEPT ![c] = k]
             M == [l EXCEPT !.da = D, !.fid = F, !.desc = d, !.cmd = K]
  <2>5. D \in [Channels -> Addresses] /\ K \in [Channels -> Commands] /\ DOMAIN F = Channels
    BY <2>3
  <2>6. m = M
    BY <2>4
  <2> HIDE DEF D, F, K, m
  <2>7. Typed(M) /\ M.ena = l.ena /\ M.masks = l.masks /\ M.state = l.state /\ M.iid = l.iid
    BY <2>1, <2>5 DEF Typed
  <2>8. QED BY <2>6, <2>7
<1>4. Goes(l, m)
  <2> HIDE DEF m
  <2>1. QED BY <1>3 DEF Goes
<1> HIDE DEF m, e
<1>5. Goes(l, n)
  <2>1. Goes(m, Latch(m, "SOF", e.fid))
    BY <1>3, Latches DEF Events
  <2>2. QED BY <1>4, <2>1, GoesOn
<1> HIDE DEF n
<1>6. ASSUME NEW b \in Buffers PROVE Goes(n, [n EXCEPT !.buffer = b])
  <2>1. Typed(n)
    BY <1>5 DEF Goes
  <2>2. Typed([n EXCEPT !.buffer = b]) /\ [n EXCEPT !.buffer = b].ena = n.ena
        /\ [n EXCEPT !.buffer = b].masks = n.masks /\ [n EXCEPT !.buffer = b].state = n.state
        /\ [n EXCEPT !.buffer = b].iid = n.iid
    BY <2>1 DEF Typed
  <2>3. QED BY <2>2 DEF Goes
<1>7. QED BY <1>2, <1>5, <1>6, GoesOn

LEMMA Fetches ==
  ASSUME Configured, NEW l, Typed(l), NEW c \in Channels
  PROVE  Goes(l, Fetch(l, c))
<1>1. Goes(l, l)
  BY DEF Goes
<1>2. QED BY <1>1, Loads DEF Fetch

LEMMA Finishes ==
  ASSUME Configured, NEW l, Typed(l), NEW c \in Channels
  PROVE  Goes(l, Finish(l, c))
<1> DEFINE k == l.cmd[c]
           K == [l.cmd EXCEPT ![c] = [k EXCEPT !.len = FALSE]]
           m == [l EXCEPT !.cmd[c].len = FALSE]
           n == IF k.eof THEN Latch(m, "EOF", l.fid[c]) ELSE m
<1>1. Finish(l, c) = IF k = NoCommand THEN l ELSE IF n.da[c] # 0 THEN Fetch(n, c) ELSE n
  BY DEF Finish
<1>2. l.cmd \in [Channels -> Commands]
  BY DEF Typed
<1>3. [k EXCEPT !.len = FALSE] \in Commands
  BY <1>2 DEF Commands
<1>4. K \in [Channels -> Commands]
  BY <1>2, <1>3
<1>5. m = [l EXCEPT !.cmd = K]
  BY <1>2 DEF Typed, Commands
<1> HIDE DEF K, m
<1>6. Typed(m) /\ m.ena = l.ena /\ m.masks = l.masks /\ m.state = l.state /\ m.iid = l.iid
  BY <1>4, <1>5 DEF Typed
<1>7. Goes(l, m)
  BY <1>6 DEF Goes
<1>8. Goes(l, n)
  <2>1. Goes(m, Latch(m, "EOF", l.fid[c]))
    BY <1>6, Latches DEF Events
  <2>2. QED BY <1>7, <2>1, GoesOn
<1> HIDE DEF n, k
<1>9. Goes(n, Fetch(n, c))
  BY <1>8, Fetches DEF Goes
<1>10. Goes(l, l) /\ Goes(l, Fetch(n, c))
  BY <1>8, <1>9, GoesOn DEF Goes
<1>11. QED BY <1>1, <1>8, <1>10

(* A handler ends in jz4740_lcd_update_irq.                                      *)
LEMMA Updates ==
  ASSUME NEW l, Typed(l)
  PROVE  LET m == UpdateIrq(l)
         IN  Typed(m) /\ m.irq = Pending(m) /\ Pending(m) = Pending(l) /\ m.iid = l.iid
<1> DEFINE b == Pending(l)
           m == [l EXCEPT !.irq = b]
<1>1. b \in BOOLEAN /\ UpdateIrq(l) = m
  BY DEF Pending, UpdateIrq
<1> HIDE DEF b
<1>2. Typed(m) /\ m.irq = b /\ m.state = l.state /\ m.masks = l.masks /\ m.iid = l.iid
  BY <1>1 DEF Typed
<1> HIDE DEF m
<1>3. QED BY <1>1, <1>2 DEF Pending, b

(* A frame that is over keeps the frame of an interrupt that is pending.         *)
LEMMA FramesEnd ==
  ASSUME Configured, NEW l, Typed(l), l.irq = Pending(l)
  PROVE  LET m == FrameDone(l)
         IN  Typed(m) /\ m.irq = Pending(m) /\ (Pending(l) => m.iid = l.iid)
<1> DEFINE m == Finish(l, 0)
           n == IF m.da[1] # 0 \/ m.cmd[1] # NoCommand THEN Finish(m, 1) ELSE m
<1>1. FrameDone(l) = IF ~l.ena THEN l ELSE UpdateIrq(n)
  BY DEF FrameDone
<1>2. Goes(l, m)
  BY Finishes DEF Channels
<1> HIDE DEF m
<1>3. Goes(l, n)
  <2>1. Typed(m)
    BY <1>2 DEF Goes
  <2>2. Goes(m, Finish(m, 1))
    BY <2>1, Finishes DEF Channels
  <2>3. QED BY <1>2, <2>2, GoesOn
<1> HIDE DEF n
<1>4. QED BY <1>1, <1>3, Updates DEF Goes

LEMMA Refreshes ==
  ASSUME NEW l, Typed(l)
  PROVE  LET m == Refreshed(l)
         IN  /\ Typed(m) /\ m.irq = l.irq /\ m.iid = l.iid /\ Pending(m) = Pending(l)
<1>1. CASE l.desc # 0 /\ source[l.desc] \in Buffers
  <2> DEFINE b == source[l.desc]
             m == [l EXCEPT !.buffer = b]
  <2>1. b \in Buffers /\ Refreshed(l) = m
    BY <1>1 DEF Refreshed
  <2> HIDE DEF b
  <2>2. Typed(m) /\ m.irq = l.irq /\ m.iid = l.iid /\ m.state = l.state /\ m.masks = l.masks
    BY <2>1 DEF Typed
  <2> HIDE DEF m
  <2>3. QED BY <2>1, <2>2 DEF Pending
<1>2. CASE ~(l.desc # 0 /\ source[l.desc] \in Buffers)
  <2>1. Refreshed(l) = l
    BY <1>2 DEF Refreshed
  <2>2. QED BY <2>1
<1>3. QED BY <1>1, <1>2

----------------------------------------------------------------------------
LEMMA Times == ASSUME Configured PROVE {0, 1, Period} \subseteq 0 .. Period
BY DEF Configured

LEMMA Settles ==
  ASSUME DisplayInv, Typed(lcd'), LineAgrees',
         host' \in Hosts, client' \in Sessions, panelDone' \in BOOLEAN, pixels' \in [Buffers -> Pictures]
  PROVE  DisplayInv'
BY DEF DisplayInv, TypeOK, Typed, Hosts, Sessions, Addresses, Events, Commands

LEMMA Starts == ASSUME Configured, Init PROVE DisplayInv
<1>1. PICK p \in Pictures : pixels = [x \in Buffers |-> p]
  BY DEF Init
<1>2. lcd = ResetLcd /\ panelDone = FALSE
      /\ host = [last |-> None, sent |-> FALSE, timer |-> Period, hold |-> 0]
      /\ client = [who |-> None, shows |-> None]
  BY DEF Init
<1>3. Typed(lcd)
  BY <1>2 DEF ResetLcd, Typed, Addresses, Commands, NoCommand
<1>4. LineAgrees
  BY <1>2 DEF ResetLcd, LineAgrees, Pending
<1>5. host \in Hosts /\ client \in Sessions /\ panelDone \in BOOLEAN
  BY <1>2, Times DEF Hosts, Sessions
<1>6. TypeOK
  BY <1>3, <1>5 DEF TypeOK, Typed, Hosts, Sessions, Addresses, Events
<1>7. QED BY <1>1, <1>3, <1>4, <1>5, <1>6 DEF DisplayInv

LEMMA Writes ==
  ASSUME Configured, DisplayInv, NEW l, Typed(l), NEW changed, Written(l, changed)
  PROVE  DisplayInv' /\ OnlyLateClientsMiss /\ lcd'.iid = l.iid
<1>1. Typed(lcd') /\ lcd'.irq = Pending(lcd') /\ lcd'.iid = l.iid
  BY Updates DEF Written
<1>2. UNCHANGED <<source, pixels, client>>
  BY DEF Written
<1>3. host \in Hosts /\ client \in Sessions /\ panelDone \in BOOLEAN
      /\ pixels \in [Buffers -> Pictures]
  BY DEF DisplayInv
<1>4. CASE SourceChanged
  <2>1. host' \in Hosts /\ host'.sent = FALSE
    BY <1>3, <1>4, Times DEF SourceChanged, Hosts
  <2>2. panelDone' \in BOOLEAN
    BY <1>4 DEF SourceChanged
  <2>3. DisplayInv'
    BY <1>1, <1>2, <1>3, <2>1, <2>2, Settles DEF LineAgrees
  <2>4. QED BY <1>1, <2>1, <2>3 DEF OnlyLateClientsMiss, Behind
<1>5. CASE UNCHANGED <<panelDone, host>>
  <2>1. DisplayInv'
    BY <1>1, <1>2, <1>3, <1>5, Settles DEF LineAgrees
  <2>2. QED BY <1>1, <1>2, <1>5, <2>1 DEF OnlyLateClientsMiss, Behind, Connected
<1>6. QED BY <1>4, <1>5 DEF Written

(* A handler that leaves controller and host bridge alone.                       *)
LEMMA Elsewhere ==
  ASSUME DisplayInv, UNCHANGED <<lcd, host, client>>, panelDone' \in BOOLEAN,
         pixels' \in [Buffers -> Pictures]
  PROVE  DisplayInv' /\ OnlyLateClientsMiss /\ Held
<1>1. DisplayInv'
  BY Settles DEF DisplayInv, LineAgrees, Pending
<1>2. QED BY <1>1 DEF OnlyLateClientsMiss, Behind, Connected, Held

LEMMA Copies ==
  ASSUME Configured, DisplayInv, NEW s \in 0 .. Period, NEW u \in 0 .. Period,
         Update(s, u), UNCHANGED <<source, pixels>>
  PROVE  DisplayInv' /\ OnlyLateClientsMiss /\ Held
<1> DEFINE l == Refreshed(lcd)
           picture == Copied(l)
           changed == picture # host.last
           sent == (host.sent /\ ~changed) \/ Connected
           time == IF sent THEN s ELSE u
<1>1. /\ Typed(lcd) /\ lcd.irq = Pending(lcd) /\ host \in Hosts /\ client \in Sessions
      /\ panelDone \in BOOLEAN /\ pixels \in [Buffers -> Pictures]
  BY DEF DisplayInv, LineAgrees
<1>2. Typed(l) /\ l.irq = lcd.irq /\ l.iid = lcd.iid /\ Pending(l) = Pending(lcd)
  BY <1>1, Refreshes
<1>3. CASE l.buffer = None
  <2>1. lcd' = l /\ host' \in {[host EXCEPT !.timer = s], [host EXCEPT !.timer = u]}
        /\ UNCHANGED <<panelDone, client>>
    BY <1>3 DEF Update
  <2> HIDE DEF l
  <2>2. host' \in Hosts /\ host'.sent = host.sent /\ host'.last = host.last
    BY <1>1, <2>1 DEF Hosts
  <2>3. DisplayInv'
    BY <1>1, <1>2, <2>1, <2>2, Settles DEF LineAgrees, Pending
  <2>4. Held
    BY <1>2, <2>1 DEF Held
  <2>5. QED BY <2>1, <2>2, <2>3, <2>4 DEF OnlyLateClientsMiss, Behind, Connected
<1>4. CASE l.buffer # None
  <2>1. /\ lcd' = IF changed THEN FrameDone(l) ELSE l
        /\ panelDone' = (panelDone \/ changed)
        /\ host' = [host EXCEPT !.last = picture, !.sent = sent, !.timer = time]
        /\ client' = IF Connected /\ (changed \/ ~host.sent)
                     THEN [client EXCEPT !.shows = picture] ELSE client
    BY <1>4 DEF Update
  <2>2. picture \in Pictures
    <3>1. l.buffer \in Buffers
      BY <1>2, <1>4 DEF Typed
    <3>2. QED BY <1>1, <3>1 DEF Copied
  <2>3. Typed(lcd') /\ lcd'.irq = Pending(lcd') /\ (Pending(l) => lcd'.iid = l.iid)
    <3> HIDE DEF l
    <3>1. l.irq = Pending(l)
      BY <1>1, <1>2
    <3>2. QED BY <1>2, <2>1, <3>1, FramesEnd
  <2> HIDE DEF l, picture
  <2>4. host' \in Hosts /\ host'.last = picture /\ host'.sent = sent
    <3>1. sent \in BOOLEAN /\ time \in 0 .. Period
      BY <1>1 DEF Hosts, Connected
    <3> HIDE DEF sent, time
    <3>2. QED BY <1>1, <2>1, <2>2, <3>1 DEF Hosts
  <2>5. client' \in Sessions /\ client'.who = client.who
        /\ client'.shows = IF Connected /\ (changed \/ ~host.sent) THEN picture
                           ELSE client.shows
    BY <1>1, <2>1, <2>2 DEF Sessions
  <2>6. DisplayInv'
    BY <1>1, <2>1, <2>3, <2>4, <2>5, Settles DEF LineAgrees
  <2>7. Held
    BY <1>1, <1>2, <2>3 DEF Held
  <2>8. OnlyLateClientsMiss
    BY <2>4, <2>5 DEF OnlyLateClientsMiss, Behind, Connected
  <2>9. QED BY <2>6, <2>7, <2>8
<1>5. QED BY <1>3, <1>4

LEMMA Controls ==
  ASSUME Configured, DisplayInv, NEW e \in BOOLEAN, NEW d \in BOOLEAN, NEW m \in EnableSets,
         WriteControl(e, d, m)
  PROVE  DisplayInv' /\ OnlyLateClientsMiss
<1> DEFINE on == e /\ ~d
           t == (IF on THEN lcd.state \ {"LDD", "QD"} ELSE lcd.state) \cup
                  (IF d THEN {"LDD"} ELSE IF lcd.ena /\ ~on THEN {"QD"} ELSE {})
           l == [lcd EXCEPT !.ena = on, !.masks = m, !.state = t]
           f == Fetch(l, 0)
<1>1. Typed(lcd)
  BY DEF DisplayInv
<1>2. t \subseteq Events /\ m \subseteq Events /\ on \in BOOLEAN
  BY <1>1 DEF Typed, Events, Configured
<1>3. \/ Written(l, FALSE)
      \/ \E c \in BOOLEAN : Written(f, c)
      \/ \E c \in BOOLEAN : Written(Fetch(f, 1), c)
  <2>1. FindsFrame(l, 0) \in BOOLEAN /\ FindsFrame(f, 1) \in BOOLEAN
    BY DEF FindsFrame
  <2>2. CASE ~on
    BY <2>2 DEF WriteControl
  <2>3. CASE on /\ f.da[1] = 0
    BY <2>1, <2>3 DEF WriteControl
  <2>4. CASE on /\ f.da[1] # 0
    <3>1. Written(Fetch(f, 1), FindsFrame(l, 0) \/ FindsFrame(f, 1))
      BY <2>4 DEF WriteControl
    <3> HIDE DEF f, l
    <3>2. QED BY <2>1, <3>1
  <2>5. QED BY <2>2, <2>3, <2>4
<1> HIDE DEF t, on
<1>4. Typed(l)
  BY <1>1, <1>2 DEF Typed
<1> HIDE DEF l
<1>5. Typed(f)
  BY <1>4, Fetches DEF Goes, Channels
<1> HIDE DEF f
<1>6. Typed(Fetch(f, 1))
  BY <1>5, Fetches DEF Goes, Channels
<1>7. QED BY <1>3, <1>4, <1>5, <1>6, Writes

LEMMA Steps ==
  ASSUME Configured, DisplayInv, Next \/ UNCHANGED vars
  PROVE  DisplayInv' /\ OnlyLateClientsMiss /\ IidHeld
<1>1. /\ Typed(lcd) /\ lcd.irq = Pending(lcd) /\ host \in Hosts /\ client \in Sessions
      /\ panelDone \in BOOLEAN /\ pixels \in [Buffers -> Pictures]
  BY DEF DisplayInv, LineAgrees
<1>2. Held => IidHeld
  BY DEF Held, IidHeld
<1>3. ASSUME NEW e \in BOOLEAN, NEW d \in BOOLEAN, NEW m \in EnableSets, WriteControl(e, d, m)
      PROVE  DisplayInv' /\ OnlyLateClientsMiss /\ IidHeld
  BY <1>3, Controls DEF IidHeld
<1>4. ASSUME NEW s, WriteState(s) PROVE DisplayInv' /\ OnlyLateClientsMiss /\ Held
  <2> DEFINE t == lcd.state \ s
             l == [lcd EXCEPT !.state = t]
  <2>1. Written(l, FALSE)
    BY <1>4 DEF WriteState
  <2>2. t \subseteq Events
    BY <1>1 DEF Typed
  <2> HIDE DEF t
  <2>3. Typed(l) /\ l.iid = lcd.iid
    BY <1>1, <2>2 DEF Typed
  <2> HIDE DEF l
  <2>4. QED BY <2>1, <2>3, Writes DEF Held
<1>5. ASSUME NEW a \in Arms, WriteDescriptor(a[1], a[2])
      PROVE  DisplayInv' /\ OnlyLateClientsMiss /\ Held
  <2> DEFINE c == a[1]
             D == [lcd.da EXCEPT ![c] = a[2]]
             l == [lcd EXCEPT !.da[c] = a[2]]
  <2>1. c \in Channels /\ a[2] \in Addresses
    BY DEF Configured
  <2>2. Written(Fetch(l, c), FindsFrame(l, c)) \/ Written(l, FALSE)
    BY <1>5 DEF WriteDescriptor
  <2>3. D \in [Channels -> Addresses] /\ l = [lcd EXCEPT !.da = D]
    BY <1>1, <2>1 DEF Typed
  <2> HIDE DEF c, D, l
  <2>4. Typed(l) /\ l.iid = lcd.iid /\ l.state = lcd.state /\ l.masks = lcd.masks
    BY <1>1, <2>3 DEF Typed
  <2>5. Goes(l, Fetch(l, c)) /\ Pending(l) = Pending(lcd)
    BY <2>1, <2>4, Fetches DEF Pending
  <2>6. CASE Written(l, FALSE)
    BY <2>4, <2>6, Writes DEF Held
  <2>7. CASE Written(Fetch(l, c), FindsFrame(l, c))
    <3>1. DisplayInv' /\ OnlyLateClientsMiss /\ lcd'.iid = Fetch(l, c).iid
      BY <2>5, <2>7, Writes DEF Goes
    <3>2. lcd.irq => lcd'.iid = lcd.iid
      BY <1>1, <2>4, <2>5, <3>1 DEF Goes
    <3>3. QED BY <3>1, <3>2 DEF Held
  <2>8. QED BY <2>2, <2>6, <2>7
<1>6. ASSUME NEW b \in Buffers, NEW p \in Pictures, Draw(b, p)
      PROVE  DisplayInv' /\ OnlyLateClientsMiss /\ Held
  BY <1>1, <1>6, Elsewhere DEF Draw
<1>7. ASSUME NEW d, NEW b, Repoint(d, b) PROVE DisplayInv' /\ OnlyLateClientsMiss /\ Held
  BY <1>1, <1>7, Elsewhere DEF Repoint
<1>8. CASE AckPanel
  BY <1>2, <1>1, <1>8, Elsewhere DEF AckPanel
<1>9. CASE Refresh
  <2>1. CASE host.hold > 0
    <3>1. host' = [host EXCEPT !.timer = host.hold] /\ UNCHANGED <<lcd, panelDone, client, source, pixels>>
      BY <1>9, <2>1 DEF Refresh
    <3>2. host' \in Hosts /\ host'.sent = host.sent /\ host'.last = host.last
      BY <1>1, <3>1 DEF Hosts
    <3>3. DisplayInv'
      BY <1>1, <3>1, <3>2, Settles DEF LineAgrees, Pending
    <3>4. QED BY <1>2, <3>1, <3>2, <3>3 DEF OnlyLateClientsMiss, Behind, Connected, Held
  <2>2. CASE ~(host.hold > 0)
    <3>1. Update(Period, 1) /\ UNCHANGED <<source, pixels>>
      BY <1>9, <2>2 DEF Refresh
    <3>2. Period \in 0 .. Period /\ 1 \in 0 .. Period
      BY DEF Configured
    <3>3. QED BY <1>2, <3>1, <3>2, Copies
  <2>3. QED BY <2>1, <2>2
<1>10. CASE ConsoleUpdate
  <2>1. host.timer \in 0 .. Period
    BY <1>1 DEF Hosts
  <2>2. QED BY <1>2, <1>10, <2>1, Copies DEF ConsoleUpdate
<1>11. CASE Tick
  <2> DEFINE t == IF host.timer > 0 THEN host.timer - 1 ELSE 0
             h == IF host.hold > 0 THEN host.hold - 1 ELSE 0
  <2>1. host' = [host EXCEPT !.timer = t, !.hold = h]
        /\ UNCHANGED <<lcd, panelDone, source, pixels, client>>
    BY <1>11 DEF Tick
  <2>2. t \in 0 .. Period /\ h \in 0 .. Period
    BY <1>1 DEF Hosts, Configured
  <2> HIDE DEF t, h
  <2>3. host' \in Hosts /\ host'.sent = host.sent /\ host'.last = host.last
    BY <1>1, <2>1, <2>2 DEF Hosts
  <2>4. DisplayInv'
    BY <1>1, <2>1, <2>3, Settles DEF LineAgrees, Pending
  <2>5. QED BY <1>2, <2>1, <2>3, <2>4 DEF OnlyLateClientsMiss, Behind, Connected, Held
<1>12. ASSUME NEW w \in Clients, Connect(w) PROVE DisplayInv' /\ OnlyLateClientsMiss /\ Held
  <2>1. client' \in Sessions /\ UNCHANGED <<lcd, panelDone, source, pixels, host>>
    BY <1>12 DEF Connect, Sessions
  <2>2. DisplayInv'
    BY <1>1, <2>1, Settles DEF LineAgrees, Pending
  <2>3. OnlyLateClientsMiss
    BY <1>12 DEF OnlyLateClientsMiss
  <2>4. QED BY <2>1, <2>2, <2>3 DEF Held
<1>13. CASE Disconnect
  <2>1. client' = [client EXCEPT !.who = None] /\ UNCHANGED <<lcd, panelDone, source, pixels, host>>
    BY <1>13 DEF Disconnect
  <2>2. client' \in Sessions /\ client'.who = None
    BY <1>1, <2>1 DEF Sessions
  <2>3. DisplayInv'
    BY <1>1, <2>1, <2>2, Settles DEF LineAgrees, Pending
  <2>4. QED BY <1>2, <2>1, <2>2, <2>3 DEF OnlyLateClientsMiss, Behind, Connected, Held
<1>14. CASE Reset
  <2>1. lcd' = ResetLcd /\ panelDone' = FALSE /\ UNCHANGED <<source, pixels, host, client>>
    BY <1>14 DEF Reset
  <2>2. Typed(lcd')
    BY <2>1 DEF ResetLcd, Typed, Addresses, Commands, NoCommand
  <2>3. LineAgrees' /\ lcd'.irq = FALSE
    BY <2>1 DEF ResetLcd, LineAgrees, Pending
  <2>4. DisplayInv'
    BY <1>1, <2>1, <2>2, <2>3, Settles
  <2>5. QED BY <1>2, <2>1, <2>3, <2>4 DEF OnlyLateClientsMiss, Behind, Connected, Held
<1>15. CASE Restore
  <2>1. lcd' = UpdateIrq(lcd) /\ UNCHANGED <<panelDone, source, pixels, host, client>>
    BY <1>15 DEF Restore
  <2>2. Typed(lcd') /\ lcd'.irq = Pending(lcd') /\ lcd'.iid = lcd.iid
    BY <1>1, <2>1, Updates
  <2>3. DisplayInv'
    BY <1>1, <2>1, <2>2, Settles DEF LineAgrees
  <2>4. QED BY <1>2, <2>1, <2>2, <2>3 DEF OnlyLateClientsMiss, Behind, Connected, Held
<1>16. CASE UNCHANGED vars
  BY <1>2, <1>1, <1>16, Elsewhere DEF vars
<1>17. QED
  BY <1>2, <1>3, <1>4, <1>5, <1>6, <1>7, <1>8, <1>9, <1>10, <1>11, <1>12, <1>13, <1>14,
     <1>15, <1>16
  DEF Next
============================================================================
