------------------------------ MODULE MCWorkIO ------------------------------
(* WorkIO for TLC.                                                         *)
EXTENDS WorkIO

CONSTANTS m1, m2
MCMiners == {m1, m2}
Unlimited == -1

(* The miners are alike: sound for the safety properties.                  *)
Symmetry == Permutations(Miners)
=============================================================================
