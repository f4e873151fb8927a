--------------------------- MODULE NonceScanProofs ---------------------------
(* Proofs about NonceScan, for any number of threads, headers and nonces.  *)
EXTENDS NonceScan, TLAPS

(* Multiplication by a natural number is monotone.                         *)
LEMMA TimesMonotone ==
  ASSUME NEW b \in Nat, NEW i \in Nat, NEW j \in Nat, i <= j
  PROVE  b * i <= b * j
<1> DEFINE d == j - i
<1>1. d \in Nat /\ j = i + d
  OBVIOUS
<1>2. b * (i + d) = b * i + b * d
  BY <1>1
<1>3. b * d \in Nat
  BY <1>1
<1> QED
  BY <1>1, <1>2, <1>3

(* What N threads can use of the nonces fits in uint32_t.                  *)
LEMMA BaseFits == Base \in Nat /\ Base * N <= Top
BY NonceAssumption DEF Base

(* The ranges of the threads, with their gaps, follow one another: each is *)
(* not empty and ends where, after the gap, the next one starts.           *)
LEMMA Ranges ==
  ASSUME NEW t \in Threads
  PROVE  /\ Start(t) \in Nat /\ End(t) \in Nat /\ Start(t + 1) \in Nat
         /\ Start(t) < End(t)
         /\ End(t) + Gap = Start(t + 1)
         /\ Start(t + 1) <= Top
<1>1. t \in Nat /\ t + 1 \in Nat /\ t + 1 <= N /\ N \in Nat
  BY NonceAssumption DEF Threads
<1>2. Base * (t + 1) <= Base * N
  BY <1>1, BaseFits, TimesMonotone
<1>3. Base * (t + 1) = Base * t + Base /\ Base * t \in Nat
  BY <1>1, BaseFits
<1>4. Base * N \in Nat
  BY <1>1, BaseFits
<1> QED
  BY <1>1, <1>2, <1>3, <1>4, BaseFits, NonceAssumption DEF Start, End

(* A later thread starts no earlier than the one before it ends.           *)
LEMMA RangesOrdered ==
  ASSUME NEW t \in Threads, NEW u \in Threads, t < u
  PROVE  Start(t + 1) <= Start(u)
<1>1. t + 1 \in Nat /\ u \in Nat /\ t + 1 <= u
  BY NonceAssumption DEF Threads
<1> QED
  BY <1>1, BaseFits, TimesMonotone DEF Start

-----------------------------------------------------------------------------
(* The inductive invariant.  A thread that has work stands inside its      *)
(* range, except for two nonces for each time it was handed the same       *)
(* header again, and a third between a scan and the next piece of work.    *)
PlaceInv ==
  \A t \in Threads :
    IF work[t] = 0
    THEN nonce[t] = 0 /\ end[t] = 0 /\ pc[t] = "fetch"
    ELSE /\ end[t] = End(t)
         /\ Start(t) <= nonce[t]
         /\ nonce[t] <= End(t) + 2 * refetched[t]
                          + (IF pc[t] = "fetch" THEN 1 ELSE 0)

(* Whatever the header, a thread tries no nonce of another thread's.       *)
HashedInv ==
  \A v \in 1..MaxVersion : \A t \in Threads :
    \A n \in hashed[v][t] : Start(t) <= n /\ n < Start(t + 1)

(* The nonce before the one a thread takes work with, or that one, has     *)
(* been tried.                                                             *)
LastTriedInv ==
  \A t \in Threads :
    work[t] # 0 /\ pc[t] = "fetch" =>
      nonce[t] \in hashed[work[t]][t] \/ nonce[t] - 1 \in hashed[work[t]][t]

IInv == TypeOK /\ PlaceInv /\ HashedInv

SkipInv == LastTriedInv /\ SkipsAreSingle

LEMMA IInvInit == Init => IInv
BY NonceAssumption DEF Init, IInv, TypeOK, PlaceInv, HashedInv, Nonce

(* Taking a new header puts the thread at the start of its range.          *)
LEMMA FetchNewStep ==
  ASSUME IInv, NEW t \in Threads, FetchNew(t)
  PROVE  IInv'
<1> USE NonceAssumption
<1>1. /\ Start(t) \in Nat /\ End(t) \in Nat /\ Start(t) <= Top /\ End(t) <= Top
      /\ Start(t) < End(t)
  BY Ranges
<1>2. PICK v \in (1..MaxVersion) \cap {g, g + 1} :
        g' = v /\ work' = [work EXCEPT ![t] = v]
  BY DEF FetchNew
<1>3. TypeOK'
  BY <1>1, <1>2 DEF FetchNew, IInv, TypeOK, Nonce
<1>4. PlaceInv'
  <2>1. /\ work'[t] # 0 /\ end'[t] = End(t) /\ nonce'[t] = Start(t)
        /\ pc'[t] = "scan" /\ refetched'[t] = 0
    BY <1>2 DEF FetchNew, IInv, TypeOK
  <2>2. \A u \in Threads \ {t} :
          /\ work'[u] = work[u] /\ end'[u] = end[u] /\ nonce'[u] = nonce[u]
          /\ pc'[u] = pc[u] /\ refetched'[u] = refetched[u]
    BY <1>2 DEF FetchNew, IInv, TypeOK
  <2>3. \A u \in Threads \ {t} : IF work'[u] = 0
          THEN nonce'[u] = 0 /\ end'[u] = 0 /\ pc'[u] = "fetch"
          ELSE /\ end'[u] = End(u)
               /\ Start(u) <= nonce'[u]
               /\ nonce'[u] <= End(u) + 2 * refetched'[u]
                                + (IF pc'[u] = "fetch" THEN 1 ELSE 0)
    BY <2>2, Zenon DEF IInv, PlaceInv
  <2>4. /\ Start(t) <= nonce'[t]
        /\ nonce'[t] <= End(t) + 2 * refetched'[t]
                         + (IF pc'[t] = "fetch" THEN 1 ELSE 0)
    <3> HIDE DEF Start, End
    <3> QED
      BY <1>1, <2>1
  <2> QED
    BY <2>1, <2>3, <2>4 DEF PlaceInv
<1>5. HashedInv'
  BY DEF FetchNew, IInv, HashedInv, Start
<1> QED
  BY <1>3, <1>4, <1>5 DEF IInv

(* The same header again: one nonce further on.                            *)
LEMMA FetchSameStep ==
  ASSUME IInv, NEW t \in Threads, FetchSame(t)
  PROVE  IInv'
<1> USE NonceAssumption
<1>1. /\ Start(t) \in Nat /\ End(t) \in Nat
      /\ End(t) + Gap = Start(t + 1) /\ Start(t + 1) <= Top
  BY Ranges
<1>2. /\ work[t] # 0 /\ pc[t] = "fetch" /\ end[t] = End(t)
      /\ Start(t) <= nonce[t] /\ nonce[t] <= End(t) + 2 * refetched[t] + 1
      /\ nonce[t] \in Nat /\ refetched[t] \in 0..MaxRefetch
  BY DEF FetchSame, IInv, PlaceInv, TypeOK, Nonce
<1>3. nonce[t] < Top /\ nonce'[t] = nonce[t] + 1
  BY <1>1, <1>2 DEF FetchSame, IInv, TypeOK, Next32
<1>4. TypeOK'
  <2>1. nonce' \in [Threads -> Nonce]
    BY <1>2, <1>3 DEF FetchSame, IInv, TypeOK, Nonce
  <2>2. refetched' \in [Threads -> 0..MaxRefetch]
    <3>1. CASE nonce[t] >= end[t]
      <4>1. refetched[t] + 1 \in 0..MaxRefetch
        BY <3>1, <1>2 DEF FetchSame
      <4>2. refetched' = [refetched EXCEPT ![t] = refetched[t] + 1]
        BY <3>1 DEF FetchSame
      <4> QED
        BY <4>1, <4>2 DEF IInv, TypeOK
    <3>2. CASE ~(nonce[t] >= end[t])
      BY <3>2 DEF FetchSame, IInv, TypeOK
    <3> QED
      BY <3>1, <3>2
  <2> QED
    BY <2>1, <2>2 DEF FetchSame, IInv, TypeOK
<1>5. PlaceInv'
  <2> SUFFICES ASSUME NEW u \in Threads
               PROVE  IF work'[u] = 0
                      THEN nonce'[u] = 0 /\ end'[u] = 0 /\ pc'[u] = "fetch"
                      ELSE /\ end'[u] = End(u)
                           /\ Start(u) <= nonce'[u]
                           /\ nonce'[u] <= End(u) + 2 * refetched'[u]
                                + (IF pc'[u] = "fetch" THEN 1 ELSE 0)
    BY DEF PlaceInv, Start, End
  <2>1. CASE u = t
    BY <2>1, <1>1, <1>2, <1>3 DEF FetchSame, IInv, TypeOK
  <2>2. CASE u # t
    BY <2>2 DEF FetchSame, IInv, TypeOK, PlaceInv
  <2> QED
    BY <2>1, <2>2
<1>6. HashedInv'
  BY DEF FetchSame, IInv, HashedInv, Start
<1> QED
  BY <1>4, <1>5, <1>6 DEF IInv

(* A scan: the nonces tried stay below the end of the range, except for    *)
(* the first, which may stand past it but not past the gap.                *)
LEMMA ScanStep ==
  ASSUME IInv, NEW t \in Threads, Scan(t)
  PROVE  IInv'
<1> USE NonceAssumption
<1>1. /\ Start(t) \in Nat /\ End(t) \in Nat
      /\ End(t) + Gap = Start(t + 1) /\ Start(t + 1) <= Top
  BY Ranges
<1>2. /\ work[t] \in 1..MaxVersion /\ pc[t] = "scan" /\ end[t] = End(t)
      /\ Start(t) <= nonce[t] /\ nonce[t] <= End(t) + 2 * refetched[t]
      /\ nonce[t] \in Nat /\ refetched[t] \in 0..MaxRefetch
  BY DEF Scan, Hash, IInv, PlaceInv, TypeOK, Nonce
<1>3. PICK last \in nonce[t]..(nonce[t] + MaxScan) :
        /\ Hash(t, last)
        /\ \E n \in {last, Next32(last)} : nonce' = [nonce EXCEPT ![t] = n]
  BY DEF Scan
<1>4. PICK n \in {last, Next32(last)} : nonce' = [nonce EXCEPT ![t] = n]
  BY <1>3
<1>5. PICK max64 \in 1..MaxScan : last = nonce[t] \/ last < MaxNonce(t, max64)
  BY <1>3 DEF Hash
<1>6. /\ last \in Nat /\ nonce[t] <= last
      /\ last <= End(t) + 2 * refetched[t] /\ last < Start(t + 1)
  BY <1>1, <1>2, <1>5 DEF MaxNonce
<1>7. n \in {last, last + 1} /\ n \in Nonce
  BY <1>1, <1>6 DEF Next32, Nonce
<1>8. /\ hashed' = [hashed EXCEPT ![work[t]][t] = @ \cup nonce[t]..last]
      /\ pc' = [pc EXCEPT ![t] = "fetch"]
      /\ UNCHANGED <<g, work, end, refetched>>
  BY <1>3 DEF Hash
<1>9. TypeOK'
  <2>1. nonce' \in [Threads -> Nonce]
    BY <1>4, <1>7 DEF IInv, TypeOK
  <2>2. hashed' \in [1..MaxVersion -> [Threads -> SUBSET Nonce]]
    <3>1. nonce[t]..last \subseteq Nonce
      BY <1>1, <1>2, <1>6 DEF Nonce
    <3> QED
      BY <3>1, <1>2, <1>8 DEF IInv, TypeOK
  <2> QED
    BY <2>1, <2>2, <1>8 DEF IInv, TypeOK
<1>10. PlaceInv'
  <2> SUFFICES ASSUME NEW u \in Threads
               PROVE  IF work'[u] = 0
                      THEN nonce'[u] = 0 /\ end'[u] = 0 /\ pc'[u] = "fetch"
                      ELSE /\ end'[u] = End(u)
                           /\ Start(u) <= nonce'[u]
                           /\ nonce'[u] <= End(u) + 2 * refetched'[u]
                                + (IF pc'[u] = "fetch" THEN 1 ELSE 0)
    BY DEF PlaceInv, Start, End
  <2>1. CASE u = t
    BY <2>1, <1>1, <1>2, <1>4, <1>6, <1>7, <1>8 DEF IInv, TypeOK
  <2>2. CASE u # t
    BY <2>2, <1>4, <1>8 DEF IInv, TypeOK, PlaceInv
  <2> QED
    BY <2>1, <2>2
<1>11. HashedInv'
  <2> SUFFICES ASSUME NEW v \in 1..MaxVersion, NEW u \in Threads,
                      NEW k \in hashed'[v][u]
               PROVE  Start(u) <= k /\ k < Start(u + 1)
    BY DEF HashedInv, Start
  <2>1. CASE k \in hashed[v][u]
    BY <2>1 DEF IInv, HashedInv
  <2>2. CASE k \notin hashed[v][u]
    <3>1. u = t /\ k \in nonce[t]..last
      BY <2>2, <1>2, <1>8 DEF IInv, TypeOK
    <3> QED
      BY <3>1, <1>1, <1>2, <1>6
  <2> QED
    BY <2>1, <2>2
<1> QED
  BY <1>9, <1>10, <1>11 DEF IInv

THEOREM Invariance == Spec => []IInv
<1>1. IInv /\ [Next]_vars => IInv'
  <2> SUFFICES ASSUME IInv, [Next]_vars PROVE IInv'
    OBVIOUS
  <2>1. CASE Next
    BY <2>1, FetchNewStep, FetchSameStep, ScanStep DEF Next
  <2>2. CASE UNCHANGED vars
    BY <2>2 DEF vars, IInv, TypeOK, PlaceInv, HashedInv, Start, End, Nonce
  <2> QED
    BY <2>1, <2>2
<1> QED
  BY <1>1, IInvInit, PTL DEF Spec

(* Every variable keeps its type: no nonce goes beyond the largest one.    *)
THEOREM TypeCorrect == Spec => []TypeOK
<1>1. IInv => TypeOK
  BY DEF IInv
<1> QED
  BY <1>1, Invariance, PTL

(* No nonce of a header is tried by two threads.                           *)
THEOREM NoDuplicates == Spec => []NoDuplicateHash
<1>1. IInv => NoDuplicateHash
  <2> SUFFICES ASSUME IInv, NEW v \in 1..MaxVersion,
                      NEW t \in Threads, NEW u \in Threads, t < u,
                      NEW n \in hashed[v][t], n \in hashed[v][u]
               PROVE  FALSE
    BY NonceAssumption DEF NoDuplicateHash, Threads
  <2>1. n < Start(t + 1) /\ Start(u) <= n /\ n \in Nat
    BY NonceAssumption DEF IInv, HashedInv, TypeOK, Nonce
  <2>2. Start(t + 1) <= Start(u) /\ Start(u) \in Nat /\ Start(t + 1) \in Nat
    BY Ranges, RangesOrdered
  <2> QED
    BY <2>1, <2>2
<1> QED
  BY <1>1, Invariance, PTL

-----------------------------------------------------------------------------
(* What a thread leaves out                                                *)

(* A scan tries every nonce from the one the thread stands at to the last, *)
(* so that at most the one before it is left out.                          *)
LEMMA ScanSkips ==
  ASSUME IInv, SkipInv, NEW t \in Threads, Scan(t)
  PROVE  SkipInv'
<1> USE NonceAssumption
<1>1. /\ work[t] \in 1..MaxVersion /\ pc[t] = "scan" /\ Start(t) \in Nat
      /\ Start(t) <= nonce[t] /\ nonce[t] \in Nat
  BY Ranges DEF Scan, Hash, IInv, PlaceInv, TypeOK, Nonce
<1>2. PICK last \in nonce[t]..(nonce[t] + MaxScan) :
        /\ Hash(t, last)
        /\ \E n \in {last, Next32(last)} : nonce' = [nonce EXCEPT ![t] = n]
  BY DEF Scan
<1>3. PICK n \in {last, Next32(last)} : nonce' = [nonce EXCEPT ![t] = n]
  BY <1>2
<1>4. last \in Nat /\ n \in Nat /\ (n = last \/ n = last + 1 \/ n = 0)
  BY <1>1 DEF Next32
<1>5. n = last \/ n = last + 1
  <2>1. nonce'[t] = n /\ work'[t] = work[t] /\ work[t] # 0 /\ pc'[t] = "fetch"
    BY <1>1, <1>2, <1>3 DEF Hash, IInv, TypeOK
  <2>2. PICK max64 \in 1..MaxScan : last = nonce[t] \/ last < MaxNonce(t, max64)
    BY <1>2 DEF Hash
  <2>3. refetched[t] \in 0..MaxRefetch /\ End(t) \in Nat
    BY Ranges DEF IInv, TypeOK
  <2>4. end[t] = End(t) /\ nonce[t] <= End(t) + 2 * refetched[t]
    BY <2>1, <2>3, <1>1 DEF IInv, PlaceInv
  <2>5. last < Top
    BY <2>2, <2>3, <2>4, <1>1, Ranges DEF MaxNonce
  <2> QED
    BY <2>5, <1>1 DEF Next32
<1>6. /\ hashed' = [hashed EXCEPT ![work[t]][t] = @ \cup nonce[t]..last]
      /\ work' = work /\ pc' = [pc EXCEPT ![t] = "fetch"]
  BY <1>2 DEF Hash
<1>7. hashed'[work[t]][t] = hashed[work[t]][t] \cup nonce[t]..last
  BY <1>1, <1>6 DEF IInv, TypeOK
<1>8. nonce'[t] = n
  BY <1>3 DEF IInv, TypeOK
<1>9. ASSUME NEW u \in Threads, u # t
      PROVE  /\ nonce'[u] = nonce[u] /\ pc'[u] = pc[u]
             /\ \A v \in 1..MaxVersion : hashed'[v][u] = hashed[v][u]
  BY <1>1, <1>3, <1>6, <1>9 DEF IInv, TypeOK
<1>10. \A u \in Threads : work[u] # 0 => work[u] \in 1..MaxVersion
  BY DEF IInv, TypeOK
<1>11. LastTriedInv'
  <2> SUFFICES ASSUME NEW u \in Threads, work[u] # 0, pc'[u] = "fetch"
               PROVE  \/ nonce'[u] \in hashed'[work[u]][u]
                      \/ nonce'[u] - 1 \in hashed'[work[u]][u]
    BY <1>6 DEF LastTriedInv
  <2>1. CASE u = t
    BY <2>1, <1>1, <1>4, <1>5, <1>7, <1>8
  <2>2. CASE u # t
    BY <2>2, <1>9, <1>10 DEF SkipInv, LastTriedInv
  <2> QED
    BY <2>1, <2>2
<1>12. SkipsAreSingle'
  <2> SUFFICES ASSUME NEW u \in Threads, work[u] # 0,
                      NEW k \in Start(u)..(nonce'[u] - 2)
               PROVE  k \in hashed'[work[u]][u] \/ k + 1 \in hashed'[work[u]][u]
    BY <1>6 DEF SkipsAreSingle, Start
  <2>1. CASE u = t
    <3>1. k \in Int /\ Start(t) <= k /\ k <= n - 2
      BY <2>1, <1>1, <1>4, <1>8
    <3>2. CASE k <= nonce[t] - 2
      BY <2>1, <3>1, <3>2, <1>1, <1>7 DEF SkipInv, SkipsAreSingle
    <3>3. CASE k > nonce[t] - 2
      BY <2>1, <3>1, <3>3, <1>1, <1>4, <1>5, <1>7
    <3> QED
      BY <3>1, <3>2, <3>3, <1>1
  <2>2. CASE u # t
    BY <2>2, <1>9, <1>10 DEF SkipInv, SkipsAreSingle
  <2> QED
    BY <2>1, <2>2
<1> QED
  BY <1>11, <1>12 DEF SkipInv

(* A new header leaves nothing behind it, and the same header again leaves *)
(* out the one nonce that was not tried.                                   *)
LEMMA FetchSkips ==
  ASSUME IInv, SkipInv, NEW t \in Threads, FetchNew(t) \/ FetchSame(t)
  PROVE  SkipInv'
<1> USE NonceAssumption
<1>1. /\ hashed' = hashed /\ pc' = [pc EXCEPT ![t] = "scan"]
      /\ pc[t] = "fetch"
  BY DEF FetchNew, FetchSame
<1>2. Start(t) \in Nat /\ nonce[t] \in Nat
  BY Ranges DEF IInv, TypeOK, Nonce
<1>3. ASSUME NEW u \in Threads, u # t
      PROVE  nonce'[u] = nonce[u] /\ work'[u] = work[u] /\ pc'[u] = pc[u]
  BY <1>3 DEF FetchNew, FetchSame, IInv, TypeOK
<1>4. pc'[t] = "scan"
  BY <1>1 DEF IInv, TypeOK
<1>5. LastTriedInv'
  BY <1>1, <1>3, <1>4 DEF SkipInv, LastTriedInv
<1>6. SkipsAreSingle'
  <2> SUFFICES ASSUME NEW u \in Threads, work'[u] # 0,
                      NEW k \in Start(u)..(nonce'[u] - 2)
               PROVE  k \in hashed[work'[u]][u] \/ k + 1 \in hashed[work'[u]][u]
    BY <1>1 DEF SkipsAreSingle, Start
  <2>1. CASE u # t
    BY <2>1, <1>3 DEF SkipInv, SkipsAreSingle
  <2>2. CASE u = t /\ FetchNew(t)
    <3>1. nonce'[t] = Start(t)
      BY <2>2 DEF FetchNew, IInv, TypeOK
    <3> QED
      BY <2>2, <3>1, <1>2
  <2>3. CASE u = t /\ FetchSame(t)
    <3>1. work'[t] = work[t] /\ work[t] # 0
      BY <2>3 DEF FetchSame
    <3>2. nonce'[t] = nonce[t] + 1 \/ nonce'[t] = 0
      BY <2>3 DEF FetchSame, IInv, TypeOK, Next32
    <3>3. CASE k <= nonce[t] - 2
      BY <2>3, <3>1, <3>3, <1>2 DEF SkipInv, SkipsAreSingle
    <3>4. CASE k > nonce[t] - 2
      <4>1. k = nonce[t] - 1
        BY <2>3, <3>2, <3>4, <1>2
      <4> QED
        BY <2>3, <3>1, <4>1, <1>1, <1>2 DEF SkipInv, LastTriedInv
    <3> QED
      BY <2>3, <3>2, <3>3, <3>4, <1>2
  <2> QED
    BY <2>1, <2>2, <2>3
<1> QED
  BY <1>5, <1>6 DEF SkipInv

(* A thread leaves out at most single nonces of what it has passed.        *)
THEOREM SingleSkips == Spec => []SkipsAreSingle
<1>1. Init => SkipInv
  BY DEF Init, SkipInv, LastTriedInv, SkipsAreSingle
<1>2. IInv /\ SkipInv /\ [Next]_vars => SkipInv'
  <2> SUFFICES ASSUME IInv, SkipInv, [Next]_vars PROVE SkipInv'
    OBVIOUS
  <2>1. CASE Next
    BY <2>1, FetchSkips, ScanSkips DEF Next
  <2>2. CASE UNCHANGED vars
    BY <2>2 DEF vars, SkipInv, LastTriedInv, SkipsAreSingle, Start
  <2> QED
    BY <2>1, <2>2
<1>3. SkipInv => SkipsAreSingle
  BY DEF SkipInv
<1> QED
  BY <1>1, <1>2, <1>3, Invariance, PTL DEF Spec
=============================================================================
