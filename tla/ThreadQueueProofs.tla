-------------------------- MODULE ThreadQueueProofs --------------------------
(***************************************************************************)
(* Proofs about ThreadQueue, for any number of producers, any values and   *)
(* any number of calls.  The inductive invariant says who is inside the    *)
(* mutex, what the owner knows about the list while it holds it or is on   *)
(* its way back from the wait, and when the queue is frozen.               *)
(***************************************************************************)
EXTENDS ThreadQueue, SequenceTheorems, TLAPS

(* The mutex is held by exactly the thread that is inside.                 *)
LockInv ==
  /\ \A p \in Producers : ProducerInside(p) <=> mutex = p
  /\ OwnerInside <=> mutex = Owner

(* The queue is frozen when, and only when, its owner is done.             *)
FrozenInv == frozen <=> opc = "done"

(* Without spurious wakeups the owner is woken by a push only, and nobody  *)
(* else empties the list.                                                  *)
WokenInv == ~SpuriousWakeups /\ opc \in {"woken", "recheck"} => q # <<>>

(* A push that is about to signal has filled the list, or was refused.     *)
SignalInv == \A p \in Producers : ppc[p] = "signal" => q # <<>> \/ frozen

IInv == /\ TypeOK
        /\ LockInv /\ FrozenInv /\ SignalInv
        /\ NoLostWakeup /\ WokenInv

-----------------------------------------------------------------------------
(* Sequences                                                               *)

(* Appending to a concatenation is appending to its second part.           *)
LEMMA AppendToConcat ==
  ASSUME NEW S, NEW e \in S, NEW s \in Seq(S), NEW t \in Seq(S)
  PROVE  Append(s \o t, e) = s \o Append(t, e)
<1>1. s \o t \in Seq(S) /\ <<e>> \in Seq(S)
  BY ConcatProperties
<1>2. Append(s \o t, e) = (s \o t) \o <<e>>
  BY <1>1, AppendIsConcat
<1>3. Append(t, e) = t \o <<e>>
  BY AppendIsConcat
<1>4. QED
  BY <1>1, <1>2, <1>3, ConcatAssociative

(* A non-empty sequence is its head followed by its tail.                  *)
LEMMA HeadThenTail ==
  ASSUME NEW S, NEW t \in Seq(S), t # <<>>
  PROVE  <<Head(t)>> \o Tail(t) = t
<1>1. Head(t) \in S /\ Tail(t) \in Seq(S) /\ Len(Tail(t)) = Len(t) - 1
  BY HeadTailProperties
<1>2. <<Head(t)>> \in Seq(S) /\ Len(<<Head(t)>>) = 1
  BY <1>1
<1> DEFINE u == <<Head(t)>> \o Tail(t)
<1>3. u \in Seq(S) /\ Len(u) = Len(t)
  BY <1>1, <1>2, ConcatProperties, LenProperties
<1>4. ASSUME NEW i \in 1..Len(t) PROVE u[i] = t[i]
  <2>1. u[i] = IF i <= 1 THEN <<Head(t)>>[i] ELSE Tail(t)[i - 1]
    BY <1>1, <1>2, <1>3, ConcatProperties, LenProperties
  <2>2. CASE i = 1
    BY <2>1, <2>2
  <2>3. CASE i # 1
    <3>1. i - 1 \in 1..Len(Tail(t))
      BY <1>1, <2>3, LenProperties
    <3>2. Tail(t)[i - 1] = t[i - 1 + 1]
      BY <3>1, HeadTailProperties
    <3>3. i \in Nat
      BY LenProperties
    <3>4. QED
      BY <2>1, <2>3, <3>2, <3>3
  <2>4. QED
    BY <2>2, <2>3
<1>5. u = t
  BY <1>3, <1>4, SeqEqual
<1>6. QED
  BY <1>5

(* Moving the head of t to the end of s leaves s followed by t unchanged.  *)
LEMMA MoveHead ==
  ASSUME NEW S, NEW s \in Seq(S), NEW t \in Seq(S), t # <<>>
  PROVE  Append(s, Head(t)) \o Tail(t) = s \o t
<1>1. Head(t) \in S /\ Tail(t) \in Seq(S)
  BY HeadTailProperties
<1>2. Append(s, Head(t)) = s \o <<Head(t)>> /\ <<Head(t)>> \in Seq(S)
  BY <1>1, AppendIsConcat
<1>3. (s \o <<Head(t)>>) \o Tail(t) = s \o (<<Head(t)>> \o Tail(t))
  BY <1>1, <1>2, ConcatAssociative
<1>4. QED
  BY <1>2, <1>3, HeadThenTail

(* Taking off what was appended last.                                      *)
LEMMA SubSeqOfAppended ==
  ASSUME NEW S, NEW s \in Seq(S), NEW e \in S
  PROVE  SubSeq(Append(s, e), 1, Len(s)) = s
<1> DEFINE u == SubSeq(Append(s, e), 1, Len(s))
<1>1. Append(s, e) \in Seq(S) /\ Len(Append(s, e)) = Len(s) + 1
  BY AppendProperties
<1>2. Len(s) \in Nat
  BY LenProperties
<1>3. u \in Seq(S) /\ Len(u) = Len(s)
  BY <1>1, <1>2, SubSeqProperties
<1>4. ASSUME NEW i \in 1..Len(s) PROVE u[i] = s[i]
  BY <1>1, <1>2, AppendProperties, SubSeqProperties
<1>5. QED
  BY <1>3, <1>4, SeqEqual

-----------------------------------------------------------------------------
(* Type correctness                                                        *)

LEMMA TypeInit == Init => TypeOK
<1> SUFFICES ASSUME Init PROVE TypeOK
  OBVIOUS
<1>1. <<>> \in Seq(Value)
  BY EmptySeq
<1>2. q \in Seq(Value) /\ accepted \in Seq(Value) /\ delivered \in Seq(Value)
  BY <1>1 DEF Init
<1>3. calls \in 0..MaxPush
  BY QueueAssumption DEF Init
<1>4. /\ ppc \in [Producers -> {"idle", "lock", "link", "signal", "unlock"}]
      /\ data \in [Producers -> Value]
  BY QueueAssumption DEF Init
<1>5. QED
  BY <1>2, <1>3, <1>4, QueueAssumption DEF Init, TypeOK

(* Every variable keeps its type: the list holds pushed pointers only, and *)
(* the mutex is held by a thread of this queue or free.                    *)
THEOREM TypeCorrect == Safety => []TypeOK
<1>1. Init => TypeOK
  BY TypeInit
<1>2. TypeOK /\ [Next]_vars => TypeOK'
  <2> SUFFICES ASSUME TypeOK, [Next]_vars PROVE TypeOK'
    OBVIOUS
  <2> USE QueueAssumption DEF TypeOK, pushVars, ownerVars
  <2>1. ASSUME NEW p \in Producers, PushCall(p) PROVE TypeOK'
    BY <2>1 DEF PushCall
  <2>2. ASSUME NEW p \in Producers, PushLock(p) PROVE TypeOK'
    BY <2>2 DEF PushLock
  <2>3. ASSUME NEW p \in Producers, PushLink(p) PROVE TypeOK'
    <3>1. data[p] \in Value
      OBVIOUS
    <3>2. Append(q, data[p]) \in Seq(Value) /\ Append(accepted, data[p]) \in Seq(Value)
      BY <3>1, AppendProperties
    <3>3. q' \in Seq(Value) /\ accepted' \in Seq(Value)
      BY <2>3, <3>2 DEF PushLink
    <3>4. QED
      BY <2>3, <3>3 DEF PushLink
  <2>4. ASSUME NEW p \in Producers, PushSignal(p) PROVE TypeOK'
    BY <2>4 DEF PushSignal, Signal
  <2>5. ASSUME NEW p \in Producers, PushUnlock(p) PROVE TypeOK'
    BY <2>5 DEF PushUnlock
  <2>6. CASE PopLock \/ PopReacquire \/ FreezeLock
    BY <2>6 DEF PopLock, PopReacquire, FreezeLock, OwnerLock
  <2>7. CASE PopWait
    BY <2>7 DEF PopWait
  <2>8. CASE SpuriousWakeup
    BY <2>8 DEF SpuriousWakeup
  <2>9. CASE PopTake
    <3>1. Head(q) \in Value /\ Tail(q) \in Seq(Value)
      BY <2>9, HeadTailProperties DEF PopTake
    <3>2. delivered' \in Seq(Value)
      BY <2>9, <3>1, AppendProperties DEF PopTake
    <3>3. QED
      BY <2>9, <3>1, <3>2 DEF PopTake
  <2>10. CASE PopGiveUp
    <3>1. delivered' \in Seq(Value)
      BY <2>10, AppendProperties DEF PopGiveUp
    <3>2. QED
      BY <2>10, <3>1 DEF PopGiveUp
  <2>11. CASE PopReturn
    BY <2>11 DEF PopReturn
  <2>12. CASE HandlerFails
    BY <2>12 DEF HandlerFails
  <2>13. CASE FreezeSet
    BY <2>13 DEF FreezeSet
  <2>14. CASE UNCHANGED vars
    BY <2>14 DEF vars
  <2>15. QED
    BY <2>1, <2>2, <2>3, <2>4, <2>5, <2>6, <2>7, <2>8, <2>9, <2>10, <2>11,
       <2>12, <2>13, <2>14 DEF Next, Push, Pop, Freeze, Quiescent
<1>3. QED
  BY <1>1, <1>2, PTL DEF Safety

-----------------------------------------------------------------------------
(* The inductive invariant                                                 *)

LEMMA IInvInit == Init => IInv
<1> SUFFICES ASSUME Init PROVE IInv
  OBVIOUS
<1>1. TypeOK
  BY TypeInit
<1>2. LockInv
  BY QueueAssumption DEF Init, LockInv, ProducerInside, OwnerInside
<1>3. FrozenInv /\ SignalInv /\ NoLostWakeup /\ WokenInv
  BY DEF Init, FrozenInv, SignalInv, NoLostWakeup, WokenInv
<1>4. QED
  BY <1>1, <1>2, <1>3 DEF IInv

(* A producer's step preserves what is not about types.                    *)
LEMMA ProducerStep ==
  ASSUME IInv, NEW p \in Producers, PushCall(p) \/ Push(p)
  PROVE  (LockInv /\ FrozenInv /\ SignalInv /\ NoLostWakeup /\ WokenInv)'
<1> USE QueueAssumption
      DEF IInv, TypeOK, LockInv, FrozenInv, SignalInv, NoLostWakeup, WokenInv,
          ProducerInside, OwnerInside, pushVars, ownerVars
<1>1. CASE PushCall(p)
  BY <1>1 DEF PushCall
<1>2. CASE PushLock(p)
  BY <1>2 DEF PushLock
<1>3. CASE PushLink(p)
  <2>1. q' # <<>> \/ (q' = q /\ frozen)
    BY <1>3, AppendProperties DEF PushLink
  <2>2. LockInv' /\ FrozenInv' /\ SignalInv'
    BY <1>3, <2>1 DEF PushLink
  <2>3. NoLostWakeup'
    BY <1>3 DEF PushLink
  <2>4. WokenInv'
    BY <1>3, <2>1 DEF PushLink
  <2>5. QED
    BY <2>2, <2>3, <2>4
<1>4. CASE PushSignal(p)
  <2>1. LockInv' /\ FrozenInv' /\ SignalInv'
    BY <1>4 DEF PushSignal, Signal
  <2>2. NoLostWakeup'
    BY <1>4 DEF PushSignal, Signal
  <2>3. WokenInv'
    BY <1>4 DEF PushSignal, Signal
  <2>4. QED
    BY <2>1, <2>2, <2>3
<1>5. CASE PushUnlock(p)
  BY <1>5 DEF PushUnlock
<1>6. QED
  BY <1>1, <1>2, <1>3, <1>4, <1>5 DEF Push

(* An owner's step preserves what is not about types.                      *)
LEMMA OwnerStep ==
  ASSUME IInv, Pop \/ SpuriousWakeup \/ HandlerFails \/ Freeze
  PROVE  (LockInv /\ FrozenInv /\ SignalInv /\ NoLostWakeup /\ WokenInv)'
<1> USE QueueAssumption
      DEF IInv, TypeOK, LockInv, FrozenInv, SignalInv, NoLostWakeup, WokenInv,
          ProducerInside, OwnerInside, pushVars, ownerVars
<1>1. CASE PopLock \/ FreezeLock
  BY <1>1 DEF PopLock, FreezeLock, OwnerLock
<1>2. CASE PopReacquire
  BY <1>2 DEF PopReacquire, OwnerLock
<1>3. CASE PopWait
  BY <1>3 DEF PopWait
<1>4. CASE SpuriousWakeup
  BY <1>4 DEF SpuriousWakeup
<1>5. CASE PopTake
  \* The owner holds the mutex, so no producer is about to signal.
  <2>1. \A p \in Producers : ppc[p] # "signal"
    BY <1>5 DEF PopTake
  <2>2. QED
    BY <1>5, <2>1 DEF PopTake
<1>6. CASE PopGiveUp
  BY <1>6 DEF PopGiveUp
<1>7. CASE PopReturn
  BY <1>7 DEF PopReturn
<1>8. CASE HandlerFails
  BY <1>8 DEF HandlerFails
<1>9. CASE FreezeSet
  BY <1>9 DEF FreezeSet
<1>10. QED
  BY <1>1, <1>2, <1>3, <1>4, <1>5, <1>6, <1>7, <1>8, <1>9 DEF Pop, Freeze

(* The invariant holds in every state of every behaviour.                  *)
THEOREM Invariance == Safety => []IInv
<1>1. Init => IInv
  BY IInvInit
<1>2. TypeOK' /\ IInv /\ [Next]_vars => IInv'
  <2> SUFFICES ASSUME TypeOK', IInv, [Next]_vars PROVE IInv'
    OBVIOUS
  <2>1. CASE \E p \in Producers : PushCall(p) \/ Push(p)
    BY <2>1, ProducerStep DEF IInv
  <2>2. CASE Pop \/ SpuriousWakeup \/ HandlerFails \/ Freeze
    BY <2>2, OwnerStep DEF IInv
  <2>3. CASE UNCHANGED vars
    BY <2>3 DEF vars, IInv, LockInv, FrozenInv, SignalInv, NoLostWakeup,
       WokenInv, ProducerInside, OwnerInside
  <2>4. QED
    BY <2>1, <2>2, <2>3 DEF Next, Quiescent
<1>3. QED
  BY <1>1, <1>2, TypeCorrect, PTL DEF Safety

-----------------------------------------------------------------------------
(* What follows                                                            *)

(* The owner and the producers are never inside the mutex together.        *)
THEOREM MutexSafe == Safety => []MutualExclusion
<1>1. IInv => MutualExclusion
  BY QueueAssumption DEF IInv, LockInv, MutualExclusion
<1>2. QED
  BY <1>1, Invariance, PTL

(* The owner never sleeps on a non-empty list without a signal to come.    *)
THEOREM WakeupSafe == Safety => []NoLostWakeup
<1>1. IInv => NoLostWakeup
  BY DEF IInv
<1>2. QED
  BY <1>1, Invariance, PTL

(* Once the owner has frozen its queue, the list and the history are       *)
(* final.                                                                  *)
THEOREM FrozenFinal == Safety => FrozenIsFinal
<1>1. IInv /\ [Next]_vars
        => [frozen => frozen' /\ UNCHANGED <<q, accepted, delivered>>]_vars
  <2> SUFFICES ASSUME IInv, [Next]_vars, frozen
               PROVE  frozen' /\ UNCHANGED <<q, accepted, delivered>>
    OBVIOUS
  <2>1. opc = "done"
    BY DEF IInv, FrozenInv
  <2>2. CASE \E p \in Producers : PushCall(p) \/ Push(p)
    BY <2>2 DEF Push, PushCall, PushLock, PushLink, PushSignal, PushUnlock,
       ownerVars
  <2>3. CASE Pop \/ SpuriousWakeup \/ HandlerFails \/ Freeze
    BY <2>1, <2>3 DEF Pop, PopLock, PopWait, PopReacquire, PopTake, PopGiveUp,
       PopReturn, SpuriousWakeup, HandlerFails, Freeze, FreezeLock, FreezeSet,
       OwnerLock
  <2>4. CASE UNCHANGED vars
    BY <2>4 DEF vars
  <2>5. QED
    BY <2>2, <2>3, <2>4 DEF Next, Quiescent
<1>2. QED
  BY <1>1, Invariance, PTL DEF Safety, FrozenIsFinal

-----------------------------------------------------------------------------
(* The order of what the owner is handed                                   *)

(* On its way out of tq_pop the owner has the last result in its hand.     *)
RvalInv ==
  opc = "return" => Len(delivered) > 0 /\ rval = delivered[Len(delivered)]

OrderInv == RvalInv /\ InOrderUntilGivingUp

(* A made-up NULL is the last result, and only on the owner's way out.     *)
GaveUp ==
  LET n == Len(delivered)
  IN /\ n > 0
     /\ delivered[n] = Null
     /\ accepted = SubSeq(delivered, 1, n - 1) \o q
     /\ opc \in {"return", "leave", "freeze", "done"}

LEMMA GaveUpDef == InOrderUntilGivingUp <=> DeliveredInOrder \/ GaveUp
BY DEF InOrderUntilGivingUp, GaveUp

LEMMA OrderInit == Init => OrderInv
<1> SUFFICES ASSUME Init PROVE OrderInv
  OBVIOUS
<1>1. <<>> \o <<>> = <<>>
  BY EmptySeq, ConcatEmptySeq
<1>2. DeliveredInOrder
  BY <1>1 DEF Init, DeliveredInOrder
<1>3. RvalInv
  BY DEF Init, RvalInv
<1>4. QED
  BY <1>2, <1>3, GaveUpDef DEF OrderInv

(* The list and both histories stay as they are, and the owner does not    *)
(* leave the way out.                                                      *)
LEMMA OrderKept ==
  ASSUME OrderInv, UNCHANGED <<q, accepted, delivered>>,
         opc \in {"return", "leave", "freeze", "done"}
           => opc' \in {"return", "leave", "freeze", "done"} \/ ~GaveUp,
         opc' = "return" => opc = "return" /\ UNCHANGED rval
  PROVE  OrderInv'
<1>1. RvalInv'
  BY DEF OrderInv, RvalInv
<1>2. CASE DeliveredInOrder
  BY <1>1, <1>2 DEF OrderInv, InOrderUntilGivingUp, DeliveredInOrder
<1>3. CASE GaveUp
  <2>1. GaveUp'
    BY <1>3 DEF GaveUp
  <2>2. QED
    BY <1>1, <2>1 DEF OrderInv, InOrderUntilGivingUp, GaveUp
<1>4. QED
  BY <1>2, <1>3, GaveUpDef DEF OrderInv

LEMMA OrderStep == TypeOK /\ IInv /\ OrderInv /\ [Next]_vars => OrderInv'
<1> SUFFICES ASSUME TypeOK, IInv, OrderInv, [Next]_vars PROVE OrderInv'
  OBVIOUS
<1> USE DEF pushVars, ownerVars
<1>1. ASSUME NEW p \in Producers, PushLink(p) PROVE OrderInv'
  <2>1. CASE frozen
    BY <1>1, <2>1, OrderKept DEF PushLink
  <2>2. CASE ~frozen
    <3>1. data[p] \in Value /\ q \in Seq(Value) /\ delivered \in Seq(Value)
      BY DEF TypeOK
    <3>2. RvalInv'
      BY <1>1 DEF PushLink, OrderInv, RvalInv
    <3>3. CASE DeliveredInOrder
      <4>1. Append(delivered \o q, data[p]) = delivered \o Append(q, data[p])
        BY <3>1, AppendToConcat
      <4>2. DeliveredInOrder'
        BY <1>1, <2>2, <3>3, <4>1 DEF PushLink, DeliveredInOrder
      <4>3. QED
        BY <3>2, <4>2 DEF OrderInv, InOrderUntilGivingUp
    <3>4. CASE GaveUp
      <4> DEFINE d == SubSeq(delivered, 1, Len(delivered) - 1)
      <4>1. d \in Seq(Value)
        BY <3>1, <3>4, LenProperties, SubSeqProperties DEF GaveUp
      <4>2. Append(d \o q, data[p]) = d \o Append(q, data[p])
        BY <3>1, <4>1, AppendToConcat
      <4>3. accepted' = Append(accepted, data[p]) /\ q' = Append(q, data[p])
        BY <1>1, <2>2 DEF PushLink
      <4>4. UNCHANGED <<delivered, opc>>
        BY <1>1 DEF PushLink
      <4>5. accepted = d \o q
        BY <3>4 DEF GaveUp
      <4>6. accepted' = d \o q'
        BY <4>2, <4>3, <4>5
      <4>7. GaveUp'
        BY <3>4, <4>4, <4>6 DEF GaveUp
      <4>8. QED
        BY <3>2, <4>7 DEF OrderInv, InOrderUntilGivingUp, GaveUp
    <3>5. QED
      BY <3>3, <3>4, GaveUpDef DEF OrderInv
  <2>3. QED
    BY <2>1, <2>2
<1>2. CASE PopTake
  <2>1. q \in Seq(Value) /\ delivered \in Seq(Value) /\ q # <<>>
    BY <1>2 DEF TypeOK, PopTake
  <2>2. DeliveredInOrder
    BY <1>2 DEF PopTake, OrderInv, InOrderUntilGivingUp
  <2>3. DeliveredInOrder'
    BY <1>2, <2>1, <2>2, MoveHead DEF PopTake, DeliveredInOrder
  <2>4. Head(q) \in Value
    BY <2>1, HeadTailProperties
  <2>5. RvalInv'
    BY <1>2, <2>1, <2>4, AppendProperties, LenProperties DEF PopTake, RvalInv
  <2>6. QED
    BY <2>3, <2>5 DEF OrderInv, InOrderUntilGivingUp
<1>3. CASE PopGiveUp
  <2>1. delivered \in Seq(Value) /\ Null \in Value
    BY QueueAssumption DEF TypeOK
  <2>2. delivered' = Append(delivered, Null) /\ q = <<>> /\ UNCHANGED <<q, accepted>>
    BY <1>3 DEF PopGiveUp
  <2>3. Len(delivered') = Len(delivered) + 1 /\ delivered'[Len(delivered')] = Null
    BY <2>1, <2>2, AppendProperties, LenProperties
  <2>4. SubSeq(delivered', 1, Len(delivered)) = delivered
    BY <2>1, <2>2, SubSeqOfAppended
  <2>5. accepted = delivered \o <<>>
    BY <1>3, <2>2 DEF PopGiveUp, OrderInv, InOrderUntilGivingUp, DeliveredInOrder
  <2>6. Len(delivered) \in Nat /\ Len(delivered') - 1 = Len(delivered)
    BY <2>1, <2>3, LenProperties
  <2>7. opc' = "return" /\ rval' = Null
    BY <1>3 DEF PopGiveUp
  <2>8. GaveUp'
    BY <2>2, <2>3, <2>4, <2>5, <2>6, <2>7 DEF GaveUp
  <2>9. RvalInv'
    BY <2>3, <2>6, <2>7 DEF RvalInv
  <2>10. QED
    BY <2>8, <2>9 DEF OrderInv, InOrderUntilGivingUp, GaveUp
<1>4. CASE PopReturn
  \* After NULL the owner leaves; after anything else it has not given up.
  <2>1. GaveUp => rval = Null
    BY <1>4 DEF PopReturn, GaveUp, OrderInv, RvalInv
  <2>2. QED
    BY <1>4, <2>1, OrderKept DEF PopReturn
<1>5. ASSUME NEW p \in Producers,
             PushCall(p) \/ PushLock(p) \/ PushUnlock(p)
      PROVE  OrderInv'
  BY <1>5, OrderKept DEF PushCall, PushLock, PushUnlock
<1>6. ASSUME NEW p \in Producers, PushSignal(p) PROVE OrderInv'
  BY <1>6, OrderKept DEF PushSignal, Signal
<1>7. CASE \/ PopLock \/ PopWait \/ PopReacquire
           \/ SpuriousWakeup \/ HandlerFails \/ Freeze
  BY <1>7, OrderKept DEF PopLock, PopWait, PopReacquire, SpuriousWakeup,
     HandlerFails, Freeze, FreezeLock, FreezeSet, OwnerLock
<1>8. CASE UNCHANGED vars
  BY <1>8, OrderKept DEF vars
<1>9. QED
  BY <1>1, <1>2, <1>3, <1>4, <1>5, <1>6, <1>7, <1>8
     DEF Next, Push, Pop, Quiescent

THEOREM OrderInvariance == Safety => []OrderInv
<1>1. Init => OrderInv
  BY OrderInit
<1>2. QED
  BY <1>1, OrderStep, TypeCorrect, Invariance, PTL DEF Safety

(* Whatever wakes the owner, what it is handed was pushed, in that order,  *)
(* but for one NULL at the end, on which it leaves.                        *)
THEOREM OrderUntilGivingUp == Safety => []InOrderUntilGivingUp
<1>1. OrderInv => InOrderUntilGivingUp
  BY DEF OrderInv
<1>2. QED
  BY <1>1, OrderInvariance, PTL

-----------------------------------------------------------------------------
(* Refinement                                                              *)

(* In terms of lengths: while the owner is not on its way out it has been  *)
(* handed exactly what was taken off the list.                             *)
LEMMA Lengths ==
  ASSUME TypeOK, OrderInv, opc \notin {"return", "leave", "freeze", "done"}
  PROVE  Len(accepted) = Len(delivered) + Len(q)
<1>1. accepted = delivered \o q
  BY DEF OrderInv, InOrderUntilGivingUp, DeliveredInOrder
<1>2. QED
  BY <1>1, ConcatProperties DEF TypeOK

(* Every step of the implementation is a step of the mailbox, or none.     *)
LEMMA StepRefines ==
  ASSUME IInv, OrderInv, [Next]_vars
  PROVE  [Fifo!Next]_Fifo!vars
<1> USE DEF IInv, pushVars, ownerVars, Fifo!vars
<1>0. /\ q \in Seq(Value) /\ accepted \in Seq(Value) /\ delivered \in Seq(Value)
      /\ Len(q) \in Nat /\ Len(accepted) \in Nat /\ Len(delivered) \in Nat
  BY LenProperties DEF TypeOK
<1>1. ASSUME NEW p \in Producers, PushLink(p) PROVE [Fifo!Next]_Fifo!vars
  <2>1. CASE frozen
    BY <1>1, <2>1 DEF PushLink
  <2>2. CASE ~frozen
    <3>1. data[p] \in Value
      BY DEF TypeOK
    <3>2. q' = Append(q, data[p]) /\ accepted' = Append(accepted, data[p])
      BY <1>1, <2>2 DEF PushLink
    <3>3. Len(q') = Len(q) + 1 /\ Len(accepted') = Len(accepted) + 1
      BY <1>0, <3>1, <3>2, AppendProperties
    <3>4. UNCHANGED <<frozen, delivered>>
      BY <1>1 DEF PushLink
    <3>5. UNCHANGED (Len(accepted) # Len(delivered) + Len(q))
      BY <1>0, <3>3, <3>4
    <3>6. Fifo!Put(data[p])
      BY <2>2, <3>2, <3>4, <3>5 DEF Fifo!Put
    <3>7. QED
      BY <3>1, <3>6 DEF Fifo!Next
  <2>3. QED
    BY <2>1, <2>2
<1>2. CASE PopTake
  <2>1. Len(accepted) = Len(delivered) + Len(q)
    BY <1>2, Lengths DEF PopTake
  <2>2. q # <<>> /\ Head(q) \in Value
    BY <1>0, <1>2, HeadTailProperties DEF PopTake
  <2>3. Len(q') = Len(q) - 1 /\ Len(delivered') = Len(delivered) + 1
    BY <1>0, <1>2, <2>2, HeadTailProperties, AppendProperties DEF PopTake
  <2>4. accepted' = accepted
    BY <1>2 DEF PopTake
  <2>5. ~ (Len(accepted) # Len(delivered) + Len(q))'
    BY <1>0, <2>1, <2>3, <2>4
  <2>6. Fifo!Take
    BY <1>2, <2>1, <2>5 DEF PopTake, Fifo!Take, FrozenInv
  <2>7. QED
    BY <2>6 DEF Fifo!Next
<1>3. CASE PopGiveUp
  <2>1. Len(accepted) = Len(delivered) + Len(q)
    BY <1>3, Lengths DEF PopGiveUp
  <2>2. SpuriousWakeups
    BY <1>3 DEF PopGiveUp, WokenInv
  <2>3. Len(delivered') = Len(delivered) + 1
    BY <1>0, <1>3, AppendProperties, QueueAssumption DEF PopGiveUp
  <2>4. UNCHANGED <<q, accepted>>
    BY <1>3 DEF PopGiveUp
  <2>5. (Len(accepted) # Len(delivered) + Len(q))'
    BY <1>0, <2>1, <2>3, <2>4
  <2>6. Fifo!GiveUp
    BY <1>3, <2>1, <2>2, <2>5 DEF PopGiveUp, Fifo!GiveUp, FrozenInv
  <2>7. QED
    BY <2>6 DEF Fifo!Next
<1>4. CASE FreezeSet
  <2>1. Fifo!Close
    BY <1>4 DEF FreezeSet, Fifo!Close, FrozenInv
  <2>2. QED
    BY <2>1 DEF Fifo!Next
<1>5. ASSUME NEW p \in Producers,
             PushCall(p) \/ PushLock(p) \/ PushSignal(p) \/ PushUnlock(p)
      PROVE  [Fifo!Next]_Fifo!vars
  BY <1>5 DEF PushCall, PushLock, PushSignal, PushUnlock
<1>6. CASE \/ PopLock \/ PopWait \/ PopReacquire \/ PopReturn
           \/ SpuriousWakeup \/ HandlerFails \/ FreezeLock
  BY <1>6 DEF PopLock, PopWait, PopReacquire, PopReturn, SpuriousWakeup,
     HandlerFails, FreezeLock, OwnerLock
<1>7. CASE UNCHANGED vars
  BY <1>7 DEF vars
<1>8. QED
  BY <1>1, <1>2, <1>3, <1>4, <1>5, <1>6, <1>7
     DEF Next, Push, Pop, Freeze, Quiescent

(* The queue implements the mailbox; where pthread_cond_wait returns only  *)
(* when it is signalled, the strict one, whose owner never gives up.       *)
THEOREM Refinement == Safety => ImplementsFifo
<1>1. Init => Fifo!Init
  BY EmptySeq DEF Init, Fifo!Init
<1>2. IInv /\ OrderInv /\ [Next]_vars => [Fifo!Next]_Fifo!vars
  BY StepRefines
<1>3. QED
  BY <1>1, <1>2, Invariance, OrderInvariance, PTL
     DEF Safety, ImplementsFifo, Fifo!Safety

(* Without spurious wakeups what the owner receives is what was pushed, in *)
(* that order, and nothing else.                                           *)
THEOREM InOrder ==
  ASSUME ~SpuriousWakeups
  PROVE  Safety => []DeliveredInOrder
<1>1. Init => DeliveredInOrder
  <2> SUFFICES ASSUME Init PROVE DeliveredInOrder
    OBVIOUS
  <2>1. <<>> \o <<>> = <<>>
    BY EmptySeq, ConcatEmptySeq
  <2>2. QED
    BY <2>1 DEF Init, DeliveredInOrder
<1>2. TypeOK /\ DeliveredInOrder /\ [Fifo!Next]_Fifo!vars => DeliveredInOrder'
  <2> SUFFICES ASSUME TypeOK, DeliveredInOrder, [Fifo!Next]_Fifo!vars
               PROVE  DeliveredInOrder'
    OBVIOUS
  <2> USE DEF TypeOK, DeliveredInOrder
  <2>1. ASSUME NEW v \in Value, Fifo!Put(v) PROVE DeliveredInOrder'
    <3>1. Append(delivered \o q, v) = delivered \o Append(q, v)
      BY AppendToConcat
    <3>2. QED
      BY <2>1, <3>1 DEF Fifo!Put
  <2>2. CASE Fifo!Take
    <3>1. Append(delivered, Head(q)) \o Tail(q) = delivered \o q
      BY <2>2, MoveHead DEF Fifo!Take
    <3>2. QED
      BY <2>2, <3>1 DEF Fifo!Take
  <2>3. CASE Fifo!Close
    BY <2>3 DEF Fifo!Close
  <2>4. CASE Fifo!GiveUp
    BY <2>4 DEF Fifo!GiveUp
  <2>5. CASE UNCHANGED Fifo!vars
    BY <2>5 DEF Fifo!vars
  <2>6. QED
    BY <2>1, <2>2, <2>3, <2>4, <2>5 DEF Fifo!Next
<1>3. IInv /\ OrderInv /\ [Next]_vars => [Fifo!Next]_Fifo!vars
  BY StepRefines
<1>4. QED
  BY <1>1, <1>2, <1>3, TypeCorrect, Invariance, OrderInvariance, PTL DEF Safety
=============================================================================
