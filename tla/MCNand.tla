-------------------------------- MODULE MCNand --------------------------------
(* A model value for Nand: an image whose first page is partly, whose second   *)
(* is fully and whose others are not programmed.                               *)
EXTENDS Nand

MCImages ==
  {[p \in Pages |->
      [c \in Columns |-> IF p = 1 \/ (p = 0 /\ c = 0) THEN 0 ELSE 1]]}
=============================================================================
