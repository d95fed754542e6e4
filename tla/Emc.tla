-------------------------------- MODULE Emc --------------------------------
(***************************************************************************)
(* The NAND part of the JZ4740 memory controller (hw/mem/jz4740_emc.c): it *)
(* listens to the bytes that the guest moves to or from the chip, computes *)
(* or checks the code of a block and interrupts.  The block, the parity    *)
(* and the status are the guest's to mix: it may ask for a correction at   *)
(* any moment, and starts a block by itself.                               *)
(***************************************************************************)
EXTENDS Naturals, FiniteSets

CONSTANTS
  RsEncode(_),   \* the codes of module Ecc
  RsDecode(_, _),
  Hamming(_),
  BlockBytes,    \* 512
  ByteBits,      \* 8
  Controls,      \* what the guest writes to NFECCR
  Parities,      \* parities it loads from the spare area
  Parts,         \* the bits of a parity in NFPAR0, NFPAR1 and NFPAR2
  Enables,       \* what it writes to NFINTE
  Keeps,         \* what it writes to NFINTS, where a zero clears
  Sizes,         \* bytes of one access to the chip
  Values         \* and what they hold

VARIABLE emc     \* control, data, count, parity, hamming, status, errors, enable, irq

Status == {"ERR", "UNCOR", "ENCF", "DECF", "PADF"}

(* emc_update_irq: the end of an encoding and of a decoding share an enable.    *)
Raises(e) ==
  \/ e.status \cap e.enable \cap {"PADF", "UNCOR", "ERR"} # {}
  \/ e.status \cap {"ENCF", "DECF"} # {} /\ "ENCF" \in e.enable

Update(e) == [e EXCEPT !.irq = Raises(e)]

(* emc_reset_hold; NFCSR and the rest of the window are plain storage. *)
ResetEmc ==
  [control |-> {}, data |-> {}, count |-> 0, parity |-> {}, hamming |-> {},
   status |-> {}, errors |-> {}, enable |-> {}, irq |-> FALSE]

Init == emc = ResetEmc

----------------------------------------------------------------------------
(* emc_ecc_begin_block, emc_ecc_clear_results *)
Begin(e) == [e EXCEPT !.data = {}, !.count = 0]

Clear(e) ==
  Update([Begin(e) EXCEPT !.hamming = {}, !.parity = {}, !.status = {}, !.errors = {}])

(* emc_rs_decode_complete: of whatever the block holds by now. *)
Decode(e) ==
  LET d == RsDecode(e.data, e.parity)
      found == IF ~d.ok THEN {"UNCOR", "ERR"} ELSE IF d.at # {} THEN {"ERR"} ELSE {}
  IN  Update([e EXCEPT !.status = (@ \ {"UNCOR", "ERR"}) \cup {"DECF"} \cup found,
                       !.errors = d.at])

(* emc_nand_data: the bytes of one access join the block as far as it has room. *)
Full(e) == e.count = BlockBytes

Complete(e) ==
  IF "RSE" \notin e.control THEN [e EXCEPT !.hamming = Hamming(e.data)]
  ELSE IF "ENCE" \in e.control
       THEN Update([e EXCEPT !.parity = RsEncode(e.data), !.status = @ \cup {"ENCF"}])
       ELSE Update([e EXCEPT !.status = @ \cup {"PADF"}])

NandData(value, size, write) ==
  LET room == BlockBytes - emc.count
      n == IF size < room THEN size ELSE room
      e == [emc EXCEPT !.data = @ \cup {ByteBits * emc.count + b :
                                          b \in {v \in value : v < ByteBits * n}},
                       !.count = @ + n]
  IN  IF "ECCE" \notin emc.control \/ ("ENCE" \in emc.control) # write \/ room = 0
      THEN UNCHANGED emc
      ELSE emc' = IF Full(e) THEN Complete(e) ELSE e

(* emc_write_reg: NFECCR, which keeps neither ERST nor PRDY *)
WriteControl(v) ==
  LET c == IF "ERST" \in v THEN Clear(emc) ELSE emc
      k == [c EXCEPT !.control = v \cap {"ECCE", "RSE", "ENCE"}]
      b == IF "ECCE" \in v /\ "ECCE" \notin emc.control /\ "ERST" \notin v
           THEN Begin(k) ELSE k
  IN  emc' = IF "PRDY" \in v /\ k.control = {"ECCE", "RSE"} THEN Decode(b) ELSE b

WriteParity(part, p) ==
  emc' = [emc EXCEPT !.parity = (@ \ part) \cup (p \cap part)]

WriteStatus(keep) == emc' = Update([emc EXCEPT !.status = @ \cap keep])

WriteEnable(v) == emc' = Update([emc EXCEPT !.enable = v])

(* emc_read_reg: NFECC of a block that may be going on *)
ReadEcc ==
  /\ "ECCE" \in emc.control /\ "RSE" \notin emc.control
  /\ emc' = [emc EXCEPT !.hamming =
       Hamming({d \in emc.data : d < ByteBits * emc.count})]

Reset == emc' = ResetEmc

(* emc_post_load *)
Restore == emc' = Update(emc)

Next ==
  \/ \E s \in Sizes, v \in Values, w \in BOOLEAN : NandData(v, s, w)
  \/ \E v \in Controls : WriteControl(v)
  \/ \E part \in Parts, p \in Parities : WriteParity(part, p)
  \/ \E v \in Keeps : WriteStatus(v)
  \/ \E v \in Enables : WriteEnable(v)
  \/ ReadEcc \/ Reset \/ Restore

Spec == Init /\ [][Next]_emc

----------------------------------------------------------------------------
TypeOK ==
  /\ emc.control \subseteq {"ECCE", "RSE", "ENCE"} /\ emc.status \subseteq Status
  /\ emc.count \in 0 .. BlockBytes /\ emc.irq \in BOOLEAN
  /\ \A d \in emc.data : d < ByteBits * emc.count

LineAgrees == emc.irq = Raises(emc)

(* A correction leads to the nearest word of the code or gives the block up,    *)
(* and the registers say which.                                                *)
Corrects(Nearest(_, _)) ==
  (\E v \in Controls :
     "PRDY" \in v /\ v \cap {"ECCE", "RSE", "ENCE"} = {"ECCE", "RSE"} /\ WriteControl(v))
  => /\ [ok |-> "UNCOR" \notin emc'.status, at |-> emc'.errors]
          = Nearest(emc'.data, emc'.parity)
     /\ "ERR" \in emc'.status <=> ("UNCOR" \in emc'.status \/ emc'.errors # {})
     /\ "DECF" \in emc'.status

(* The parity of a block that was encoded is the parity of these very bytes,    *)
(* until the guest loads another or clears it.                                 *)
OnlyFullBlocks ==
  /\ "ENCF" \in emc'.status \ emc.status =>
       Full(emc') /\ RsDecode(emc'.data, emc'.parity) = [ok |-> TRUE, at |-> {}]
  /\ "PADF" \in emc'.status \ emc.status => Full(emc')
=============================================================================
