-------------------------------- MODULE Cim --------------------------------
(***************************************************************************)
(* The JZ4740 camera interface (hw/misc/jz4740_cim.c).  No sensor is       *)
(* attached: the one event is the controller's answer to being disabled.   *)
(***************************************************************************)
EXTENDS Naturals

CONSTANTS
  Controls,      \* what the guest writes to CR
  Keeps          \* what it writes to ST, where a zero clears

VARIABLE cim     \* control, status, irq; CFG and DA are plain storage

(* Interrupt by interrupt, the status bit and the mask that lets it out.       *)
Masks == {"DMA_SOF", "DMA_EOF", "DMA_STOP", "RF_OF", "RF_TRIG", "VDD"}
Transfer == Masks \ {"VDD"}
Clearable == Masks \ {"RF_TRIG"}      \* CIM_ST_W0C_MASK

(* cim_reset_hold *)
ResetCim == [control |-> {}, status |-> {"RF_EMPTY"}, irq |-> FALSE]

Init == cim = ResetCim

(* cim_irq_pending, cim_update_irq *)
Pending(c) == c.status \cap c.control \cap Masks # {}

Update(c) == [c EXCEPT !.irq = Pending(c)]

(* cim_write_control; a mask in CR bears the name of its status bit.           *)
Answered(old, c) ==
  LET s == IF "RF_RST" \in c.control THEN (c.status \ Transfer) \cup {"RF_EMPTY"}
           ELSE c.status
  IN  [c EXCEPT !.status = IF "ENA" \in c.control THEN s \ {"VDD"}
                           ELSE IF "ENA" \in old THEN s \cup {"VDD"} ELSE s]

WriteControl(v) ==
  cim' = Update(Answered(cim.control, [cim EXCEPT !.control = v]))

WriteStatus(keep) ==
  cim' = Update([cim EXCEPT !.status =
                   (@ \ (Clearable \ keep)) \cup {"RF_EMPTY"}])

(* Any other register, and cim_post_load *)
WriteOther == cim' = Update(cim)

Restore == cim' = Update([cim EXCEPT !.status = @ \cup {"RF_EMPTY"}])

Reset == cim' = ResetCim

Next ==
  \/ \E v \in Controls : WriteControl(v)
  \/ \E k \in Keeps : WriteStatus(k)
  \/ WriteOther \/ Restore \/ Reset

Spec == Init /\ [][Next]_cim

----------------------------------------------------------------------------
TypeOK ==
  /\ cim.control \in Controls \cup {{}} /\ cim.irq \in BOOLEAN
  /\ "RF_EMPTY" \in cim.status /\ cim.status \subseteq Masks \cup {"RF_EMPTY"}

(* The output is what status and masks say, and nothing but a disabled          *)
(* controller ever interrupts.                                                 *)
LineAgrees ==
  /\ cim.irq = Pending(cim)
  /\ cim.irq => {"VDD"} = cim.status \cap Masks /\ "ENA" \notin cim.control

(* A guest that disables the controller finds VDD, until it clears it or        *)
(* enables the controller again.                                               *)
DisableAnswered ==
  /\ "ENA" \in cim.control /\ "ENA" \notin cim'.control =>
       "VDD" \in cim'.status \/ cim' = ResetCim
  /\ "VDD" \in cim.status /\ "VDD" \notin cim'.status =>
       \/ "ENA" \in cim'.control \/ cim' = ResetCim
       \/ \E k \in Keeps : "VDD" \notin k /\ WriteStatus(k)
=============================================================================
