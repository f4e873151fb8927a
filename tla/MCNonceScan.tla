----------------------------- MODULE MCNonceScan -----------------------------
(* NonceScan for TLC: the numbers are in MCNonceScan.cfg.  Twelve nonces,   *)
(* two threads: each has a range of four and a gap of two.                  *)
EXTENDS NonceScan
=============================================================================
