------------------------------ MODULE FifoQueue ------------------------------
(***************************************************************************)
(* What a thread_q (miner.h, util.c) promises to the threads that use it:  *)
(* an unbounded first-in first-out mailbox of one owner thread.  Any       *)
(* thread may put a value in while the mailbox is open; only the owner     *)
(* takes values out, one at a time and in the order they were put in; the  *)
(* owner closes it once, when it ends.  The owner is handed nothing that   *)
(* was not put in, with one exception if MayGiveUp: once, when there is    *)
(* nothing to take, it may be handed Null, and takes nothing after that.   *)
(*                                                                         *)
(* ThreadQueue is the implementation with its mutex and its condition      *)
(* variable.                                                               *)
(***************************************************************************)
EXTENDS Sequences

CONSTANTS Value,                   \* what can be put in a mailbox
          Null,                    \* what the owner is handed for nothing
          MayGiveUp                \* may that happen?

VARIABLES contents,                \* what was put in and not yet taken
          gaveUp,                  \* it has happened
          closed,                  \* the owner has ended
          accepted,                \* history: every value put in, in order
          delivered                \* history: what the owner was handed

vars == <<contents, gaveUp, closed, accepted, delivered>>

Init == /\ contents = <<>>
        /\ gaveUp = FALSE
        /\ closed = FALSE
        /\ accepted = <<>>
        /\ delivered = <<>>

Put(v) == /\ ~closed
          /\ contents' = Append(contents, v)
          /\ accepted' = Append(accepted, v)
          /\ UNCHANGED <<gaveUp, closed, delivered>>

Take == /\ ~closed /\ ~gaveUp
        /\ contents # <<>>
        /\ contents' = Tail(contents)
        /\ delivered' = Append(delivered, Head(contents))
        /\ UNCHANGED <<gaveUp, closed, accepted>>

(* The owner is handed something that was never put in.                    *)
GiveUp == /\ MayGiveUp
          /\ ~closed /\ ~gaveUp
          /\ contents = <<>>
          /\ gaveUp' = TRUE
          /\ delivered' = Append(delivered, Null)
          /\ UNCHANGED <<contents, closed, accepted>>

Close == /\ ~closed
         /\ closed' = TRUE
         /\ UNCHANGED <<contents, gaveUp, accepted, delivered>>

Next == Take \/ GiveUp \/ Close \/ \E v \in Value : Put(v)

Safety == Init /\ [][Next]_vars
=============================================================================
