---------------------------- MODULE MCShareTarget ----------------------------
(* ShareTarget for TLC: bytes of one bit and hashes of three words.        *)
EXTENDS ShareTarget

MCJobDiffs == {Fraction(n, d) : n \in {1, 2, 3, 4, 5, 7, 12, 13, 48, 65}, d \in {1, 3, 8}}
MCCompacts == {[mantissa |-> m, length |-> l] : m \in {1, 4, 7}, l \in {3, 5, 8, 11, 12}}

Around(S) == {h \in UNION {{e - 1, e, e + 1} : e \in S} : h \in 0..(Power(Radix, Words) - 1)}
(* Where the top word, or the next, of n changes.                          *)
Edges(n) == {(n \div Power(Radix, k)) * Power(Radix, k) : k \in 0..2}
HashesOf(job) ==
  Around(Edges(NetTarget(job.nbits)) \cup {1}
           \cup UNION {Edges(Number(t)) : t \in diff_to_target(Scaled(job.diff))})

(* Every job for itself; a pool that gives two jobs, and a node that gives *)
(* two and changes to Stratum, with few hashes and two shares.             *)
OfPool ==
  {[began |-> "stratum", next |-> {}, jobs |-> {j}, hashes |-> HashesOf(j), shares |-> 1] :
     j \in [diff : MCJobDiffs, nbits : MCCompacts]}
OfNode ==
  {[began |-> p, next |-> {}, jobs |-> {[diff |-> Fraction(1, 1), nbits |-> c]},
    hashes |-> Around(Edges(NetTarget(c)) \cup {1}), shares |-> 1] :
     p \in {"gbt", "getwork"}, c \in MCCompacts}

Easy == [diff |-> Fraction(1, 8), nbits |-> [mantissa |-> 7, length |-> 11]]
Hard == [diff |-> Fraction(3, 8), nbits |-> [mantissa |-> 1, length |-> 11]]
OfTwo ==
  {[began |-> "stratum", next |-> {}, jobs |-> {Easy, Hard}, hashes |-> {3, 200, 1000}, shares |-> 2],
   [began |-> "getwork", next |-> {"stratum"}, jobs |-> {Easy, Hard}, hashes |-> {200, 1000}, shares |-> 2],
   [began |-> "gbt", next |-> {"getwork", "stratum"}, jobs |-> {Hard}, hashes |-> {200}, shares |-> 2]}

MCSettings == OfPool \cup OfNode \cup OfTwo
=============================================================================
