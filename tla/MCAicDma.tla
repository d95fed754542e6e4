------------------------------- MODULE MCAicDma -------------------------------
(* Model values for AicDma: units of two samples moved while the request      *)
(* lasts, and single samples in block mode.                                   *)
EXTENDS AicDma

MCCommands == {[unit |-> 2, tm |-> FALSE], [unit |-> 1, tm |-> TRUE]}
=============================================================================
