--------------------------- MODULE MCStratumSession ---------------------------
(* StratumSession for TLC.                                                 *)
EXTENDS StratumSession

Unlimited == -1
=============================================================================
