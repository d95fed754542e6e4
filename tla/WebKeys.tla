------------------------------- MODULE WebKeys -------------------------------
(***************************************************************************)
(* Keys and USB power from the pages to the guest: FrontendState.key(),    *)
(* set_usb_power_connected(), the safe shutdown that presses the power key *)
(* itself (emu/web/frontend_state.py), and what QemuProcessBackend sends   *)
(* to QEMU for them (emu/qemu/system.py).                                  *)
(*                                                                         *)
(* A page that holds a key has a lease on it, which its heartbeat renews.  *)
(* A code is active while some page leases it; only a change of that is    *)
(* sent, so what QEMU holds is meant to follow the active codes.           *)
(***************************************************************************)
EXTENDS FiniteSets

CONSTANTS
  Presses,       \* <<page, key>>: what each page may press
  Power,         \* the power key, FRONTEND_POWER_KEY_CODE
  Pages          \* the pages of the browsers

VARIABLES
  leases,        \* frontend_key_leases
  ripe,          \* those of them whose deadline has passed
  active,        \* frontend_active_key_codes
  qemu,          \* the process: up, sock (its input socket), held, usb, starting
  wish,          \* usb_power_connected
  shut,          \* how far a safe shutdown is, and whether it restores USB power
  from,          \* last_input_event["source"]
  pages          \* the pages that are connected

vars == <<leases, ripe, active, qemu, wish, shut, from, pages>>

Keys == {p[2] : p \in Presses} \cup {Power}
Codes(ls) == {l[2] : l \in ls}
Settled == {"idle", "complete", "failed"}
Underway == {"requesting", "holding", "waiting"}

TypeOK ==
  /\ leases \subseteq Presses /\ ripe \subseteq leases
  /\ active \subseteq Keys
  /\ qemu \in [up : BOOLEAN, sock : BOOLEAN, held : SUBSET Keys, usb : BOOLEAN,
               starting : BOOLEAN]
  /\ wish \in BOOLEAN
  /\ shut \in [state : Settled \cup Underway, restore : BOOLEAN]
  /\ from \in {"none", "page", "api", "expired", "shutdown"}
  /\ pages \subseteq Pages

(* The process is down: its sockets are closed, and its keys and its power switch *)
(* are gone with it.                                                           *)
Down == [up |-> FALSE, sock |-> FALSE, held |-> {}, usb |-> TRUE, starting |-> FALSE]

(* start(): the power key is pressed over the input socket, if it could be      *)
(* connected, and a thread will release it.  A new machine has USB power on.   *)
Started ==
  {[up |-> TRUE, sock |-> s, held |-> IF s THEN {Power} ELSE {}, usb |-> TRUE,
    starting |-> s] : s \in BOOLEAN}

Init ==
  /\ leases = {} /\ ripe = {} /\ active = {}
  /\ qemu \in Started
  /\ wish = TRUE
  /\ shut = [state |-> "idle", restore |-> FALSE]
  /\ from = "none"
  /\ pages = {}

----------------------------------------------------------------------------
(* What the backend does for a request: the pairs of the state it leaves and     *)
(* whether it was applied.  A failed send closes the socket for good.           *)
Held(q, k, down) ==
  [q EXCEPT !.held = IF down THEN @ \cup {k} ELSE @ \ {k}]

Apply(q, k, down) ==
  IF ~q.up \/ ~q.sock THEN {<<q, FALSE>>}
  ELSE {<<Held(q, k, down), TRUE>>, <<[q EXCEPT !.sock = FALSE], FALSE>>}

SetUsb(q, on) ==
  IF ~q.up THEN {<<q, FALSE>>} ELSE {<<[q EXCEPT !.usb = on], TRUE>>, <<q, FALSE>>}

(* _ensure_qemu_started_locked: an exited QEMU is started and told the USB power. *)
Ensured ==
  IF qemu.up THEN {<<qemu, TRUE>>} ELSE UNION {SetUsb(q, wish) : q \in Started}

(* A request that fails there has started QEMU and nothing else.               *)
Unanswered ==
  /\ \E e \in Ensured : ~e[2] /\ qemu' = e[1]
  /\ UNCHANGED <<leases, ripe, active, wish, shut, from, pages>>

----------------------------------------------------------------------------
(* key(): leases that ran out are dropped first, _expire_frontend_key_leases.    *)
(* What then differs from the codes that were active is sent.                  *)
Living == leases \ ripe
LapsedAlone == Codes(ripe)
Lapsed == active \ Codes(Living)

(* The codes that lapsed are released one after the other; after a failed send  *)
(* the rest are refused.                                                       *)
Expired(q) ==
  IF ~q.up \/ ~q.sock THEN {q}
  ELSE {[q EXCEPT !.held = @ \ ks, !.sock = (ks = Lapsed)] : ks \in SUBSET Lapsed}

KeepActive == active
AfterExpiry == IF ripe = {} THEN active ELSE Codes(Living)

(* A page presses or renews (down), or releases.  Only a change of the active   *)
(* codes is sent; a refused one is not tried again by the next renewal.         *)
Renewed(l, down) == IF down THEN Living \cup {l} ELSE Living \ {l}

Key(l, down) ==
  /\ l[1] \in pages
  /\ leases' = Renewed(l, down)
  /\ ripe' = {}
  /\ active' = Codes(leases')
  /\ \E e \in Ensured :
       /\ e[2]
       /\ \E q \in Expired(e[1]) :
            LET was == l[2] \in AfterExpiry
                is == l[2] \in active'
            IN IF was = is
               THEN /\ qemu' = q
                    /\ from' = IF ripe # {} /\ Lapsed # {} THEN "expired" ELSE from
               ELSE /\ from' = "page"
                    /\ \E r \in Apply(q, l[2], is) : qemu' = r[1]
  /\ UNCHANGED <<wish, shut, pages>>

(* A message without a session: it ends every page's lease on the code, and is  *)
(* sent as it is.                                                              *)
ApiKey(k, down) ==
  /\ leases' = {l \in Living : l[2] # k}
  /\ ripe' = {}
  /\ active' = AfterExpiry \ {k}
  /\ \E e \in Ensured :
       /\ e[2]
       /\ \E q \in Expired(e[1]) : \E r \in Apply(q, k, down) : qemu' = r[1]
  /\ from' = "api"
  /\ UNCHANGED <<wish, shut, pages>>

(* The switch of the pages follows only when QEMU took it.                       *)
WishedAnyway(on, ok) == on
Wished(on, ok) == IF ok THEN on ELSE wish

SetPower(on) ==
  /\ \E e \in Ensured :
       /\ e[2]
       /\ \E r \in SetUsb(e[1], on) : qemu' = r[1] /\ wish' = Wished(on, r[2])
  /\ UNCHANGED <<leases, ripe, active, shut, from, pages>>

(* A status snapshot, which the pages are sent twice a second: the only other    *)
(* place where leases run out.                                                 *)
SnapshotOnly == pages # {} /\ UNCHANGED vars
Snapshot ==
  /\ pages # {}
  /\ leases' = Living /\ ripe' = {}
  /\ active' = AfterExpiry
  /\ qemu' \in Expired(qemu)
  /\ from' = IF qemu.up /\ ripe # {} /\ Lapsed # {} THEN "expired" ELSE from
  /\ UNCHANGED <<wish, shut, pages>>

(* A lease that was not renewed in time.                                       *)
Ripen(l) ==
  /\ l \in Living
  /\ ripe' = ripe \cup {l}
  /\ UNCHANGED <<leases, active, qemu, wish, shut, from, pages>>

Connect(p) ==
  /\ pages' = pages \cup {p}
  /\ UNCHANGED <<leases, ripe, active, qemu, wish, shut, from>>

(* A page goes away without a word.                                            *)
Leave(p) ==
  /\ pages' = pages \ {p}
  /\ UNCHANGED <<leases, ripe, active, qemu, wish, shut, from>>

----------------------------------------------------------------------------
(* What happens to the process.                                                *)

Exit ==
  /\ qemu.up
  /\ qemu' = Down
  /\ UNCHANGED <<leases, ripe, active, wish, shut, from, pages>>

(* reset(): a new backend and no leases.                                       *)
Reset ==
  /\ shut.state \in Settled
  /\ leases' = {} /\ ripe' = {} /\ active' = {}
  /\ qemu' \in {r[1] : r \in UNION {SetUsb(q, wish) : q \in Started}}
  /\ shut' = [state |-> "idle", restore |-> FALSE]
  /\ from' = "none"
  /\ UNCHANGED <<wish, pages>>

(* _release_startup_power_key, after the first frame or in time.                *)
ReleaseStart ==
  /\ qemu.starting
  /\ \E r \in Apply([qemu EXCEPT !.starting = FALSE], Power, FALSE) : qemu' = r[1]
  /\ UNCHANGED <<leases, ripe, active, wish, shut, from, pages>>

----------------------------------------------------------------------------
(* _request_guest_shutdown_locked.  The lifecycle lock keeps a second one out,  *)
(* but not the keys.                                                           *)

ShutdownPower ==
  /\ shut.state \in Settled /\ qemu.up
  /\ \E r \in SetUsb(qemu, FALSE) :
       /\ qemu' = r[1]
       /\ shut' = [state |-> IF r[2] THEN "requesting" ELSE "failed", restore |-> wish]
  /\ UNCHANGED <<leases, ripe, active, wish, from, pages>>

(* The pages' leases on the power key are taken away; a refused press ends it.   *)
LeftAll == leases
Left == {l \in leases : l[2] # Power}

ShutdownPress ==
  /\ shut.state = "requesting"
  /\ leases' = Left
  /\ ripe' = ripe \cap leases'
  /\ active' = active \ {Power}
  /\ from' = "shutdown"
  /\ \E r \in Apply(qemu, Power, TRUE) :
       IF r[2] THEN qemu' = r[1] /\ shut' = [shut EXCEPT !.state = "holding"]
       ELSE /\ shut' = [shut EXCEPT !.state = "failed"]
            /\ IF shut.restore THEN \E u \in SetUsb(r[1], TRUE) : qemu' = u[1]
               ELSE qemu' = r[1]
  /\ UNCHANGED <<wish, pages>>

ShutdownRelease ==
  /\ shut.state = "holding"
  /\ shut' = [shut EXCEPT !.state = "waiting"]
  /\ IF qemu.up
     THEN from' = "shutdown" /\ \E r \in Apply(qemu, Power, FALSE) : qemu' = r[1]
     ELSE UNCHANGED <<qemu, from>>
  /\ UNCHANGED <<leases, ripe, active, wish, pages>>

(* The firmware shut down, or QEMU ended in another way, or the time is up.     *)
ShutdownEnd ==
  /\ shut.state = "waiting"
  /\ IF qemu.up
     THEN /\ shut' = [shut EXCEPT !.state = "failed"]
          /\ IF shut.restore THEN \E u \in SetUsb(qemu, TRUE) : qemu' = u[1]
             ELSE UNCHANGED qemu
     ELSE \E s \in {"complete", "failed"} : shut' = [shut EXCEPT !.state = s] /\ UNCHANGED qemu
  /\ UNCHANGED <<leases, ripe, active, wish, from, pages>>

Shutdown == ShutdownPower \/ ShutdownPress \/ ShutdownRelease \/ ShutdownEnd

Next ==
  \/ Unanswered
  \/ \E l \in Presses, down \in BOOLEAN : Key(l, down)
  \/ \E k \in Keys, down \in BOOLEAN : ApiKey(k, down)
  \/ \E on \in BOOLEAN : SetPower(on)
  \/ Snapshot \/ \E l \in Presses : Ripen(l)
  \/ \E p \in Pages : Connect(p) \/ Leave(p)
  \/ Exit \/ Reset \/ ReleaseStart \/ Shutdown
----------------------------------------------------------------------------
(* Properties *)

(* The active codes are those that some page leases, whichever of the handlers   *)
(* that take leases away ran last.                                             *)
LeasedActive == active = Codes(leases)

Agree(k) == k \in active <=> k \in qemu.held

(* A key that QEMU holds just when a page leases it, for as many pages as press  *)
(* it and whatever lapses, parts from its leases only with the process or its   *)
(* socket, by a press without a session, and the power key by the presses of    *)
(* start() and of a shutdown.                                                  *)
OnlyInterrupted ==
  \A k \in Keys : Agree(k) /\ ~Agree(k)' =>
    \/ ~qemu.up \/ ~qemu'.sock
    \/ from' = "api" /\ k \in qemu'.held
    \/ k = Power /\ (shut' # shut \/ qemu'.starting # qemu.starting \/ from' = "none")

(* A key the pages hold and QEMU does not, because the press was refused or QEMU *)
(* was started again under it, is not pressed again by any renewal in time.     *)
RenewalsNeverHeal ==
  \A k \in active \ qemu.held : k \in qemu'.held =>
    \/ from' = "api"
    \/ \E l \in ripe : l[2] = k
    \/ k = Power /\ (~qemu.up \/ shut' # shut \/ from' = "none")

(* The power key that a shutdown holds down is let go before its time only by a  *)
(* page that pressed it meanwhile, a message without a session or the thread of *)
(* start(): no lease of before ends it.                                        *)
HoldKept ==
  /\ {shut.state, shut'.state} = {"holding"}
  /\ Power \in qemu.held /\ Power \notin qemu'.held
  => \/ ~qemu'.up \/ Power \in active
     \/ from' = "api" \/ qemu'.starting # qemu.starting

(* The USB switch of the machine leaves the one of the pages only when a shutdown *)
(* turns it off or turns on again what has been turned off meanwhile, or when a *)
(* new machine does not answer.                                                *)
UsbFollows ==
  qemu.up /\ qemu.usb = wish /\ qemu'.usb # wish' =>
    \/ ~qemu'.up
    \/ shut'.state = "requesting"
    \/ shut.state \in Underway /\ shut'.state = "failed" /\ shut.restore # wish
    \/ shut'.state = "idle" /\ from' = "none"

(* The lease of a page that went away ends, as long as another one is connected: *)
(* nothing else looks at the deadlines.                                        *)
Orphan(c) == \E l \in leases : l[1] = c /\ c \notin pages
=============================================================================
