----------------------------- MODULE MCLongPoll -----------------------------
(* LongPoll for TLC.                                                       *)
EXTENDS LongPoll

CONSTANT m1
MCMiners == {m1}
=============================================================================
