----------------------------- MODULE ThreadQueue -----------------------------
(***************************************************************************)
(* struct thread_q of util.c: the mailbox by which the threads of the      *)
(* miner hand work to each other.  A queue is a linked list, a mutex, a    *)
(* condition variable and a "frozen" flag.  Each queue belongs to one      *)
(* thread: only thr_info[i]'s own thread pops from thr_info[i].q (workio,  *)
(* longpoll, stratum and each miner), and only that thread freezes it,     *)
(* when it ends.  Any other thread pushes.                                 *)
(*                                                                         *)
(* A step of this module is what a thread does between two points at       *)
(* which another thread can be seen to run: taking the mutex, the work     *)
(* done under it, the signal, the release.  The owner runs the loop of     *)
(* workio_thread: pop, leave on a NULL result, else handle the value,      *)
(* leave if that fails; on leaving it freezes the queue.                   *)
(*                                                                         *)
(* tq_thaw and tq_free have no caller and abstime is NULL in every call    *)
(* of tq_pop, so neither they nor the timed wait are modelled.             *)
(***************************************************************************)
EXTENDS Naturals, Sequences

CONSTANTS
  Producers,       \* the threads that push
  Owner,           \* the thread whose queue this is
  Free,            \* "no thread holds the mutex"
  Value,           \* the pointers that are pushed
  Null,            \* the null pointer, pushed by stratum_thread to stop workio
  MaxPush,         \* bound: calls of tq_push in a behaviour
  SpuriousWakeups  \* may pthread_cond_wait return without a signal?

ASSUME QueueAssumption ==
  /\ Owner \notin Producers
  /\ Free \notin Producers \cup {Owner}
  /\ Null \in Value
  /\ MaxPush \in Nat
  /\ SpuriousWakeups \in BOOLEAN

VARIABLES
  q,           \* the list tq->q
  frozen,      \* tq->frozen
  mutex,       \* the holder of tq->mutex, or Free
  ppc,         \* where each producer is in tq_push
  data,        \* the argument of each producer's call
  opc,         \* where the owner is
  rval,        \* the owner's local rval in tq_pop
  calls,       \* calls of tq_push so far (bounded by MaxPush)
  accepted,    \* history: values linked into the list, in order
  delivered    \* history: the results of tq_pop, in order

vars == <<q, frozen, mutex, ppc, data, opc, rval, calls, accepted, delivered>>
pushVars == <<ppc, data, calls, accepted>>
ownerVars == <<opc, rval, delivered>>

Init == /\ q = <<>>
        /\ frozen = FALSE
        /\ mutex = Free
        /\ ppc = [p \in Producers |-> "idle"]
        /\ data = [p \in Producers |-> Null]
        /\ opc = "run"
        /\ rval = Null
        /\ calls = 0
        /\ accepted = <<>>
        /\ delivered = <<>>

-----------------------------------------------------------------------------
(* tq_push                                                                 *)

(* A call whose calloc succeeds.  One whose calloc fails returns false     *)
(* before it touches the queue, and changes nothing here.                  *)
PushCall(p) ==
  /\ ppc[p] = "idle"
  /\ calls < MaxPush
  /\ calls' = calls + 1
  /\ \E v \in Value : data' = [data EXCEPT ![p] = v]
  /\ ppc' = [ppc EXCEPT ![p] = "lock"]
  /\ UNCHANGED <<q, frozen, mutex, accepted, ownerVars>>

PushLock(p) ==
  /\ ppc[p] = "lock"
  /\ mutex = Free
  /\ mutex' = p
  /\ ppc' = [ppc EXCEPT ![p] = "link"]
  /\ UNCHANGED <<q, frozen, data, calls, accepted, ownerVars>>

(* Mutant: the condition is not signalled.                                 *)
PushLinkSilent(p) ==
  /\ ppc[p] = "link"
  /\ q' = Append(q, data[p])
  /\ accepted' = Append(accepted, data[p])
  /\ ppc' = [ppc EXCEPT ![p] = "unlock"]
  /\ UNCHANGED <<frozen, mutex, data, calls, ownerVars>>

(* A frozen queue takes nothing: the entry is freed, the call returns false. *)
PushLink(p) ==
  /\ ppc[p] = "link"
  /\ IF frozen
     THEN UNCHANGED <<q, accepted>>
     ELSE /\ q' = Append(q, data[p])
          /\ accepted' = Append(accepted, data[p])
  /\ ppc' = [ppc EXCEPT ![p] = "signal"]
  /\ UNCHANGED <<frozen, mutex, data, calls, ownerVars>>

(* Mutant: the signal is lost.                                             *)
SignalLost == UNCHANGED opc

(* pthread_cond_signal: it wakes the owner if the owner is waiting, and is *)
(* not remembered otherwise.                                               *)
Signal == opc' = IF opc = "wait" THEN "woken" ELSE opc

PushSignal(p) ==
  /\ ppc[p] = "signal"
  /\ Signal
  /\ ppc' = [ppc EXCEPT ![p] = "unlock"]
  /\ UNCHANGED <<q, frozen, mutex, data, calls, accepted, rval, delivered>>

PushUnlock(p) ==
  /\ ppc[p] = "unlock"
  /\ mutex' = Free
  /\ ppc' = [ppc EXCEPT ![p] = "idle"]
  /\ UNCHANGED <<q, frozen, data, calls, accepted, ownerVars>>

Push(p) == PushLock(p) \/ PushLink(p) \/ PushSignal(p) \/ PushUnlock(p)

-----------------------------------------------------------------------------
(* tq_pop                                                                  *)

(* The owner takes the mutex at the head of tq_pop, on return from the     *)
(* wait, and at the head of tq_freezethaw.                                 *)
OwnerLock(from, to) ==
  /\ opc = from
  /\ mutex = Free
  /\ mutex' = Owner
  /\ opc' = to
  /\ UNCHANGED <<q, frozen, rval, delivered, pushVars>>

PopLock == OwnerLock("run", "check")
PopReacquire == OwnerLock("woken", "recheck")

(* Nothing to take: pthread_cond_wait releases the mutex and waits, in one *)
(* step with respect to signals.                                           *)
PopWait ==
  /\ opc = "check"
  /\ q = <<>>
  /\ opc' = "wait"
  /\ mutex' = Free
  /\ UNCHANGED <<q, frozen, rval, delivered, pushVars>>

(* POSIX lets pthread_cond_wait return although nothing was signalled.     *)
SpuriousWakeup ==
  /\ SpuriousWakeups
  /\ opc = "wait"
  /\ opc' = "woken"
  /\ UNCHANGED <<q, frozen, mutex, rval, delivered, pushVars>>

(* Mutant: the entry stays on the list (no list_del).                      *)
PopTakeKeep ==
  /\ opc \in {"check", "recheck"}
  /\ q # <<>>
  /\ rval' = Head(q)
  /\ delivered' = Append(delivered, Head(q))
  /\ opc' = "return"
  /\ UNCHANGED <<q, frozen, mutex, pushVars>>

(* The code at label "pop", reached when the list is found non-empty       *)
(* before the wait or after it.                                            *)
PopTake ==
  /\ opc \in {"check", "recheck"}
  /\ q # <<>>
  /\ rval' = Head(q)
  /\ q' = Tail(q)
  /\ delivered' = Append(delivered, Head(q))
  /\ opc' = "return"
  /\ UNCHANGED <<frozen, mutex, pushVars>>

(* "goto out" after the wait: the list is still empty.  The wait is not    *)
(* repeated; the call gives NULL.                                          *)
PopGiveUp ==
  /\ opc = "recheck"
  /\ q = <<>>
  /\ rval' = Null
  /\ delivered' = Append(delivered, Null)
  /\ opc' = "return"
  /\ UNCHANGED <<q, frozen, mutex, pushVars>>

(* The release of the mutex, and the owner's test of the result: NULL ends *)
(* the thread.                                                             *)
PopReturn ==
  /\ opc = "return"
  /\ mutex' = Free
  /\ opc' = IF rval = Null THEN "leave" ELSE "run"
  /\ UNCHANGED <<q, frozen, rval, delivered, pushVars>>

Pop == \/ PopLock \/ PopWait \/ PopReacquire
       \/ PopTake \/ PopGiveUp \/ PopReturn

-----------------------------------------------------------------------------
(* The end of the owner thread.                                            *)

(* What the owner does with a value fails (retries exhausted).             *)
HandlerFails ==
  /\ opc = "run"
  /\ delivered # <<>>
  /\ opc' = "leave"
  /\ UNCHANGED <<q, frozen, mutex, rval, delivered, pushVars>>

(* tq_freeze: set the flag under the mutex and signal.  The only thread    *)
(* that ever waits on the condition is the one that is freezing, so the    *)
(* signal wakes nobody.                                                    *)
FreezeLock == OwnerLock("leave", "freeze")

FreezeSet ==
  /\ opc = "freeze"
  /\ frozen' = TRUE
  /\ mutex' = Free
  /\ opc' = "done"
  /\ UNCHANGED <<q, rval, delivered, pushVars>>

Freeze == FreezeLock \/ FreezeSet

(* The owner is gone and the producers make no more calls.                 *)
Quiescent ==
  /\ opc \in {"wait", "done"}
  /\ calls = MaxPush
  /\ \A p \in Producers : ppc[p] = "idle"
  /\ UNCHANGED vars

Next == \/ \E p \in Producers : PushCall(p) \/ Push(p)
        \/ Pop \/ SpuriousWakeup \/ HandlerFails \/ Freeze
        \/ Quiescent

Safety == Init /\ [][Next]_vars

(* A thread that is inside tq_push, tq_pop or tq_freeze is scheduled again *)
(* and, the number of calls being finite, gets the mutex.                  *)
Fairness == /\ \A p \in Producers : WF_vars(Push(p))
            /\ WF_vars(Pop)
            /\ WF_vars(Freeze)

Spec == Safety /\ Fairness

-----------------------------------------------------------------------------
(* Properties                                                              *)

TypeOK ==
  /\ q \in Seq(Value)
  /\ frozen \in BOOLEAN
  /\ mutex \in Producers \cup {Owner, Free}
  /\ ppc \in [Producers -> {"idle", "lock", "link", "signal", "unlock"}]
  /\ data \in [Producers -> Value]
  /\ opc \in {"run", "check", "wait", "woken", "recheck", "return",
              "leave", "freeze", "done"}
  /\ rval \in Value
  /\ calls \in 0..MaxPush
  /\ accepted \in Seq(Value)
  /\ delivered \in Seq(Value)

ProducerInside(p) == ppc[p] \in {"link", "signal", "unlock"}
OwnerInside == opc \in {"check", "recheck", "return", "freeze"}

(* The list is only touched by the thread that holds the mutex: the owner  *)
(* and the producers are never inside their critical sections together.    *)
MutualExclusion ==
  /\ \A p \in Producers : ProducerInside(p) => ~OwnerInside
  /\ \A p, r \in Producers : ProducerInside(p) /\ ProducerInside(r) => p = r

(* No lost wakeup: whenever the owner sleeps in pthread_cond_wait and the  *)
(* list is not empty, the producer that filled it still holds the mutex    *)
(* and is about to signal.                                                 *)
NoLostWakeup ==
  opc = "wait" /\ q # <<>> => \E p \in Producers : ppc[p] = "signal"

(* What tq_pop is used for: "wait for workio_cmd sent to us, on our queue" *)
(* (cpu-miner.c).  Every result of tq_pop is a value some thread pushed,   *)
(* in the order of the pushes, none lost and none twice.                   *)
DeliveredInOrder == accepted = delivered \o q

(* With spurious wakeups the above is too much to ask, but the damage is   *)
(* bounded: the only result made up is one NULL, it is the last result,    *)
(* and the owner is on its way out because of it.                          *)
InOrderUntilGivingUp ==
  \/ DeliveredInOrder
  \/ LET n == Len(delivered)
     IN /\ n > 0
        /\ delivered[n] = Null
        /\ accepted = SubSeq(delivered, 1, n - 1) \o q
        /\ opc \in {"return", "leave", "freeze", "done"}

(* A thread that has left takes nothing more from its queue, and nothing   *)
(* is linked into a list that nobody will read again.                      *)
FrozenIsFinal == [][frozen => frozen' /\ UNCHANGED <<q, accepted, delivered>>]_vars

(* Every value that tq_push accepted is handed to the owner, unless the    *)
(* owner ends first.                                                       *)
EveryPushDelivered ==
  \A n \in 1..MaxPush : Len(accepted) >= n ~> (Len(delivered) >= n \/ frozen)

(* The queue keeps the promise of FifoQueue; with spurious wakeups, the    *)
(* one that allows to give up.  The owner has been handed a made-up value  *)
(* when it has been handed more than was pushed and taken off the list.    *)
Fifo == INSTANCE FifoQueue
          WITH contents <- q, closed <- frozen, MayGiveUp <- SpuriousWakeups,
               gaveUp <- Len(accepted) # Len(delivered) + Len(q)
ImplementsFifo == Fifo!Safety
=============================================================================
