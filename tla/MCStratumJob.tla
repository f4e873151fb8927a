----------------------------- MODULE MCStratumJob -----------------------------
(* StratumJob for TLC.                                                     *)
EXTENDS StratumJob, TLC

CONSTANTS m1, m2

MCMiners == {m1, m2}
OneMiner == {m1}

(* The miners are alike: sound for the safety properties.                  *)
Symmetry == Permutations(MCMiners)
=============================================================================
