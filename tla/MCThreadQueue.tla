---------------------------- MODULE MCThreadQueue ----------------------------
(* ThreadQueue for TLC: the values are two work units and the null pointer. *)
EXTENDS ThreadQueue

CONSTANTS work1, work2
MCValue == {work1, work2, Null}
=============================================================================
