---------------------------- MODULE MCBlockTemplate ----------------------------
(* BlockTemplate for TLC: the heights around those where a byte is added,  *)
(* and below zero; lengths around the limits of the pushes; coinbases that *)
(* are too short, or whose script is too long for consensus or for them;   *)
(* and trees with odd levels.                                              *)
EXTENDS BlockTemplate

Plain == [height |-> 300, txs |-> 2, segwit |-> TRUE, given |-> None, append |-> TRUE,
          aux |-> <<4>>, sig |-> 20, pk |-> 25, bad |-> "nothing"]

Heights == {0, 1, 127, 128, 255, 256, 32767, 32768, 65535, 65536, 8388607, 8388608,
            16777216, 2147483647, -1, -256, -IntMax - 1}
Auxes == {<<>>, <<5, 20>>, <<66>>, <<90, 4>>}

(* Coinbases with one output behind the script, and others.                *)
Coinbases ==
  {[size |-> 42 + l + 60, len |-> l] : l \in {4, 75, 98, 101, 255}}
    \cup {[size |-> 59, len |-> 4], [size |-> 60, len |-> 18], [size |-> 60, len |-> 19],
          [size |-> 102, len |-> 255]}

MCTemplates ==
  {[Plain EXCEPT !.height = h, !.segwit = s] : h \in Heights, s \in BOOLEAN}
    \cup {[Plain EXCEPT !.given = g, !.append = a, !.aux = x, !.sig = k, !.pk = p] :
            g \in {None} \cup Coinbases, a \in BOOLEAN, x \in Auxes,
            k \in {0, 20, 70, 92, 94}, p \in {0, 42}}
    \cup {[Plain EXCEPT !.height = 16777216, !.pk = 42, !.sig = k] : k \in 60..100}
    \cup {[Plain EXCEPT !.txs = t, !.segwit = s] : t \in 0..11, s \in BOOLEAN}
    \cup {[Plain EXCEPT !.bad = b, !.segwit = s] : b \in {"field", "hash", "target"}, s \in BOOLEAN}
=============================================================================
