------------------------------- MODULE MCHost -------------------------------
(***************************************************************************)
(* The front end for TLC.  Of two pages one presses a key of the menu, and *)
(* both the power key.                                                     *)
(***************************************************************************)
EXTENDS Host

MCPower == 11
MCPresses == {<<"p", 6>>, <<"p", MCPower>>, <<"r", MCPower>>}
=============================================================================
