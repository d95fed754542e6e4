-------------------------------- MODULE Udc --------------------------------
(***************************************************************************)
(* The registers of the JZ4740 USB device controller (hw/usb/jz4740_udc.c).*)
(* No host is attached and no packet moves: what the guest meets is a bank *)
(* of byte lanes, masked to the endpoints that exist, of which the ones    *)
(* behind INDEX change meaning with every write of INDEX.                  *)
(*                                                                         *)
(* A register is the set of its bits; a lane is its low or its high byte.  *)
(***************************************************************************)
EXTENDS Naturals, Sequences

CONSTANTS
  Endpoints,     \* values that the guest writes to INDEX
  Lanes,         \* sets of bits that it writes to one byte of a register
  Accesses       \* the bytes of one access: a set of sequences of <<reg, lane>>

VARIABLE udc     \* pending, enable, index, ep (one bank per endpoint), irq

Low == 0 .. 7
High == 8 .. 15
Lane == [low |-> Low, high |-> High]

InEndpoints == 0 .. 3         \* UDC_INTRIN_ENDPOINT_MASK
OutEndpoints == 1 .. 2        \* UDC_INTROUT_ENDPOINT_MASK
Exists == [in |-> InEndpoints, out |-> OutEndpoints, usb |-> 0 .. 3]
Kinds == DOMAIN Exists

(* The writable bits of a bank, and the endpoints that have the register.      *)
BankMask ==
  [inmaxp |-> 0 .. 10, outmaxp |-> 0 .. 10,
   incsr |-> {4} \cup 10 .. 15, outcsr |-> {5} \cup 11 .. 15]
BankEndpoints ==
  [inmaxp |-> InEndpoints, incsr |-> InEndpoints \ {0},
   outmaxp |-> OutEndpoints, outcsr |-> OutEndpoints]

(* udc_reset_hold *)
ResetUdc ==
  [pending |-> [k \in Kinds |-> {}],
   enable |-> [in |-> InEndpoints, out |-> OutEndpoints, usb |-> {1, 2}],
   index |-> 0,
   ep |-> [e \in Endpoints |-> [r \in DOMAIN BankMask |-> {}]],
   irq |-> FALSE]

Init == udc = ResetUdc

----------------------------------------------------------------------------
(* udc_irq_pending, udc_update_irq *)
Pending(u) == \E k \in Kinds : u.pending[k] \cap u.enable[k] \cap Exists[k] # {}

Update(u) == [u EXCEPT !.irq = Pending(u)]

(* udc_write_byte: the other byte of the register keeps its bits. *)
Merge(old, reg, bytes, values, mask) ==
  LET mine == {i \in DOMAIN bytes : bytes[i][1] = reg}
      kept == old \ UNION {Lane[bytes[i][2]] : i \in mine}
  IN  (kept \cup UNION {values[i] \cap Lane[bytes[i][2]] : i \in mine}) \cap mask

WriteByte(u, bytes, values) ==
  [u EXCEPT
     !.enable = [k \in Kinds |-> Merge(@[k], k, bytes, values, Exists[k])],
     !.ep[u.index] = [r \in DOMAIN BankMask |->
        IF u.index \in BankEndpoints[r] THEN Merge(@[r], r, bytes, values, BankMask[r])
        ELSE @[r]]]

(* udc_write: all bytes of the access, none of which is INDEX, then the output *)
Write(bytes, values) == udc' = Update(WriteByte(udc, bytes, values))

WriteIndex(e) == udc' = Update([udc EXCEPT !.index = e])

(* udc_read: touching one byte of a status register clears the whole of it.    *)
Read(kinds) ==
  udc' = Update([udc EXCEPT !.pending = [k \in Kinds |-> IF k \in kinds THEN {} ELSE @[k]]])

(* udc_post_load *)
Restore == udc' = Update(udc)

Reset == udc' = ResetUdc

Next ==
  \/ \E a \in Accesses : \E v \in [DOMAIN a -> Lanes] : Write(a, v)
  \/ \E e \in Endpoints : WriteIndex(e)
  \/ \E k \in SUBSET Kinds : Read(k)
  \/ Reset \/ Restore

Spec == Init /\ [][Next]_udc

----------------------------------------------------------------------------
TypeOK ==
  /\ udc.index \in Endpoints /\ udc.irq \in BOOLEAN
  /\ \A k \in Kinds : udc.pending[k] \cup udc.enable[k] \subseteq Exists[k]
  /\ \A e \in Endpoints, r \in DOMAIN BankMask :
       udc.ep[e][r] \subseteq BankMask[r]
       /\ (e \notin BankEndpoints[r] => udc.ep[e][r] = {})

(* Without a host no cause is ever raised, whatever the guest enables.         *)
LineAgrees == udc.irq = Pending(udc) /\ ~udc.irq

(* Through INDEX the guest reaches one endpoint, the one it named before this   *)
(* access, and one register of it per byte; only a reset touches the others.   *)
OneEndpoint ==
  \A e \in Endpoints \ {udc.index} : udc'.ep[e] # udc.ep[e] => udc' = ResetUdc
=============================================================================
