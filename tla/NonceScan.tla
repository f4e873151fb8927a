------------------------------ MODULE NonceScan ------------------------------
(***************************************************************************)
(* How the miner threads divide the nonces of a block header among them    *)
(* (std_get_new_work, miner_thread) and walk through them                  *)
(* (scanhash_yespower), in solo mining.                                    *)
(*                                                                         *)
(* A header without its nonce, the bytes that std_get_new_work compares,   *)
(* is abstracted to a version number; 0 is the zeroed work a thread starts *)
(* with.  Nonces are uint32_t: Top stands for 0xffffffff and Gap for the   *)
(* 0x20 nonces left free at the end of a range.  The option --randomize    *)
(* is off.                                                                 *)
(***************************************************************************)
EXTENDS Integers

CONSTANTS
  Top,          \* the largest nonce
  Gap,          \* nonces left free at the end of each range
  N,            \* opt_n_threads
  MaxVersion,   \* bound: headers the node hands out
  MaxRefetch,   \* bound: times a thread that has used up its range is handed
                \* the header it has already
  MaxScan       \* bound: nonces planned for one scan (max64)

Base == Top \div N

ASSUME NonceAssumption ==
  /\ Top \in Nat /\ Gap \in Nat /\ N \in Nat \ {0}
  /\ Gap < Base
  /\ MaxVersion \in Nat /\ MaxScan \in Nat \ {0}
  /\ MaxRefetch \in Nat /\ 2 * MaxRefetch < Gap

Threads == 0..(N - 1)

VARIABLES
  g,         \* the header in g_work
  work,      \* the header in each thread's work
  nonce,     \* work.data[19] of each thread
  end,       \* end_nonce of each thread
  pc,        \* "fetch" (about to take work) or "scan"
  refetched, \* times the header was handed out again after the range's end
  hashed     \* history: the nonces each thread has tried, by header

vars == <<g, work, nonce, end, pc, refetched, hashed>>

(* The range of a thread, and a mutant: no nonces are left free.           *)
Start(t) == Base * t
EndAtNext(t) == Base * (t + 1)
End(t) == Base * (t + 1) - Gap

(* uint32_t increment, and a mutant.                                       *)
Next32ByTwo(n) == IF n >= Top - 1 THEN 0 ELSE n + 2
Next32(n) == IF n = Top THEN 0 ELSE n + 1

Init == /\ g = 0
        /\ work = [t \in Threads |-> 0]
        /\ nonce = [t \in Threads |-> 0]
        /\ end = [t \in Threads |-> 0]
        /\ pc = [t \in Threads |-> "fetch"]
        /\ refetched = [t \in Threads |-> 0]
        /\ hashed = [v \in 1..MaxVersion |-> [t \in Threads |-> {}]]

(* Under g_work_lock: g_work is replaced when it is old or the thread's    *)
(* range is used up, by the same header or by a new one; then              *)
(* get_new_work either copies g_work and goes to the start of the range,   *)
(* or moves on by one nonce.                                               *)
FetchNew(t) ==
  /\ pc[t] = "fetch"
  /\ \E v \in (1..MaxVersion) \cap {g, g + 1} :
       /\ v # g => g < MaxVersion
       /\ v # work[t]
       /\ g' = v
       /\ work' = [work EXCEPT ![t] = v]
  /\ nonce' = [nonce EXCEPT ![t] = Start(t)]
  /\ end' = [end EXCEPT ![t] = End(t)]
  /\ refetched' = [refetched EXCEPT ![t] = 0]
  /\ pc' = [pc EXCEPT ![t] = "scan"]
  /\ UNCHANGED hashed

FetchSame(t) ==
  /\ pc[t] = "fetch"
  /\ work[t] # 0
  /\ work[t] = g
  /\ nonce' = [nonce EXCEPT ![t] = Next32(@)]
  /\ IF nonce[t] >= end[t]
     THEN /\ refetched[t] < MaxRefetch
          /\ refetched' = [refetched EXCEPT ![t] = @ + 1]
     ELSE UNCHANGED refetched
  /\ pc' = [pc EXCEPT ![t] = "scan"]
  /\ UNCHANGED <<g, work, end, hashed>>

(* max_nonce: the nonces for the target scan time, but not beyond the end  *)
(* of the range.                                                           *)
MaxNonce(t, max64) == IF nonce[t] + max64 > end[t] THEN end[t] ELSE nonce[t] + max64

(* The nonces tried in a scan that goes on to "last".  The loop of         *)
(* scanhash tests its bound after the first nonce.                         *)
Hash(t, last) ==
  /\ \E max64 \in 1..MaxScan : last = nonce[t] \/ last < MaxNonce(t, max64)
  /\ hashed' = [hashed EXCEPT ![work[t]][t] = @ \cup nonce[t]..last]
  /\ pc' = [pc EXCEPT ![t] = "fetch"]
  /\ UNCHANGED <<g, work, end, refetched>>

(* The last nonce tried gives a share and is left in the work; or the scan *)
(* ends at max_nonce or because of a restart, one nonce further on.        *)
Scan(t) ==
  /\ pc[t] = "scan"
  /\ \E last \in nonce[t]..(nonce[t] + MaxScan) :
       /\ Hash(t, last)
       /\ \E n \in {last, Next32(last)} : nonce' = [nonce EXCEPT ![t] = n]

Next == \E t \in Threads : FetchNew(t) \/ FetchSame(t) \/ Scan(t)

Spec == Init /\ [][Next]_vars

-----------------------------------------------------------------------------
(* Properties                                                              *)

Nonce == 0..Top

TypeOK ==
  /\ g \in 0..MaxVersion
  /\ work \in [Threads -> 0..MaxVersion]
  /\ nonce \in [Threads -> Nonce]
  /\ end \in [Threads -> Nonce]
  /\ pc \in [Threads -> {"fetch", "scan"}]
  /\ refetched \in [Threads -> 0..MaxRefetch]
  /\ hashed \in [1..MaxVersion -> [Threads -> SUBSET Nonce]]

(* No nonce of a header is tried by two threads, although a thread runs    *)
(* past the end of its range by two nonces whenever it is handed the same  *)
(* header again: the gap takes that up.                                    *)
NoDuplicateHash ==
  \A v \in 1..MaxVersion : \A t, u \in Threads :
    t # u => hashed[v][t] \cap hashed[v][u] = {}

(* A thread leaves out at most single nonces of what it has passed: one    *)
(* for each scan that ended without a share.                               *)
SkipsAreSingle ==
  \A t \in Threads : work[t] # 0 =>
    \A n \in Start(t)..(nonce[t] - 2) :
      n \in hashed[work[t]][t] \/ n + 1 \in hashed[work[t]][t]
=============================================================================
