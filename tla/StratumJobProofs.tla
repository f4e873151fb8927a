--------------------------- MODULE StratumJobProofs ---------------------------
(* Proofs about StratumJob, for any number of miners, jobs and extranonces *)
(* and any behaviour of the pool.                                          *)
EXTENDS StratumJob, SequenceTheorems, TLAPS

(* Work with a header of job j or an older one, labelled with what was     *)
(* hashed; a header of j itself has an extranonce2 below x.                *)
Usable(j, x) ==
  {w \in Work : /\ w.id = w.header.job /\ w.xn2 = w.header.xn2
                /\ w.header.job <= j
                /\ w.header # NoHeader /\ w.header.job = j => w.header.xn2 < x}

PlainType ==
  /\ link \in BOOLEAN /\ exited \in BOOLEAN
  /\ ext \in Nat /\ xn2 \in Nat /\ nextDiff \in Diffs \cup {0}
  /\ job \in Job \cup {NoJob}
  /\ wLock \in Threads \cup {None} /\ gLock \in Threads \cup {None}
  /\ gTime \in {"zero", "recent", "old"}
  /\ restart \in [Miners -> BOOLEAN]
  /\ pc \in [Threads -> Place]
  /\ spent \in [Miners -> BOOLEAN]
  /\ wpc \in {"pop", "test", "send"}
  /\ sfailures \in Nat /\ wfailures \in Nat
  /\ found \in Nat /\ drops \in Nat /\ resent \in Nat
  /\ offered \in SUBSET Job
  /\ restartedFor \in Nat
  /\ slipped \in SUBSET Miners
  /\ link => nextDiff \in Diffs        \* stratum_subscribe sets it
  /\ wpc # "pop" => share # None       \* the share in hand

(* A thread that writes or copies g_work holds g_work_lock; one that       *)
(* writes its header, and nobody else, holds work_lock.                    *)
LockInv ==
  /\ \A t \in Threads : pc[t] = "header" <=> wLock = t
  /\ \A t \in Threads : pc[t] \in {"header", "target", "take"} => gLock = t

(* g_work is usable except while its header is written, when its label is  *)
(* already that of the header to come.                                     *)
GWorkInv ==
  /\ gWork \in Work
  /\ (\A t \in Threads : pc[t] # "header") => gWork \in Usable(job.id, xn2)
  /\ \A t \in Threads : pc[t] = "header" =>
       gWork.id = job.id /\ gWork.xn2 = xn2 /\ gWork.header = NoHeader

CopiesInv ==
  /\ mwork \in [Miners -> Usable(job.id, xn2)]
  /\ workq \in Seq(Usable(job.id, xn2) \cup {None})
  /\ share \in Usable(job.id, xn2) \cup {None}
  /\ sent \in SUBSET Usable(job.id, xn2)

IInv == PlainType /\ LockInv /\ GWorkInv /\ CopiesInv

-----------------------------------------------------------------------------
(* What is usable stays so when the extranonce2 moves on.                  *)
LEMMA UsableLater ==
  ASSUME NEW j \in Nat, NEW x \in Nat
  PROVE  Usable(j, x) \subseteq Usable(j, x + 1)
BY DEF Usable, Work, Header

(* And when the next job comes, whatever extranonce2 it starts with.       *)
LEMMA UsableNextJob ==
  ASSUME NEW j \in Nat, NEW x \in Nat
  PROVE  Usable(j, x) \subseteq Usable(j + 1, 0)
BY DEF Usable, Work, Header

LEMMA SeqMonotone ==
  ASSUME NEW S, NEW T, S \subseteq T, NEW q \in Seq(S)
  PROVE  q \in Seq(T)
<1>1. Len(q) \in Nat /\ q \in [1..Len(q) -> S]
  BY LenProperties
<1>2. q \in [1..Len(q) -> T]
  BY <1>1
<1> QED
  BY <1>1, <1>2, SeqDef

(* The copies stay usable when what is usable grows.                       *)
LEMMA CopiesGrow ==
  ASSUME CopiesInv, UNCHANGED <<mwork, workq, share, sent>>,
         Usable(job.id, xn2) \subseteq Usable(job'.id, xn2')
  PROVE  CopiesInv'
<1> DEFINE S == Usable(job.id, xn2) \cup {None}
           T == Usable(job'.id, xn2') \cup {None}
<1>1. S \subseteq T
  OBVIOUS
<1>2. workq \in Seq(S)
  BY DEF CopiesInv
<1> HIDE DEF S, T
<1>3. workq \in Seq(T)
  BY <1>1, <1>2, SeqMonotone
<1>4. workq' \in Seq(Usable(job'.id, xn2') \cup {None})
  BY <1>3 DEF T
<1> QED
  BY <1>4 DEF CopiesInv

LEMMA JobType ==
  ASSUME PlainType
  PROVE  job.id \in Nat /\ job.tip \in Nat /\ job.ext \in Nat /\ job.diff \in Nat
<1>1. CASE job = NoJob
  BY <1>1 DEF NoJob
<1>2. CASE job \in Job
  BY <1>2, StratumAssumption DEF Job
<1> QED
  BY <1>1, <1>2 DEF PlainType

(* The pool's jobs are jobs, one id after the other.                       *)
LEMMA JobSet ==
  ASSUME PlainType, NewJob \/ ResentJob
  PROVE  \E new \in Job : SetJob(new) /\ new.id \in {job.id, job.id + 1}
<1>1. ext \in Nat /\ job.id \in Nat /\ job.tip \in Nat
  BY JobType DEF PlainType
<1>2. nextDiff \in Diffs
  BY DEF NewJob, ResentJob, SetJob, Receiving, PlainType
<1>3. CASE NewJob
  <2>1. PICK clean \in BOOLEAN :
          SetJob([id |-> job.id + 1,
                  tip |-> IF clean THEN job.tip + 1 ELSE job.tip,
                  ext |-> ext, diff |-> nextDiff, clean |-> clean])
    BY <1>3 DEF NewJob
  <2> DEFINE new == [id |-> job.id + 1,
                     tip |-> IF clean THEN job.tip + 1 ELSE job.tip,
                     ext |-> ext, diff |-> nextDiff, clean |-> clean]
  <2>2. new \in Job /\ new.id = job.id + 1
    BY <1>1, <1>2 DEF Job
  <2> QED
    BY <2>1, <2>2
<1>4. CASE ResentJob
  <2> DEFINE new == [job EXCEPT !.ext = ext, !.diff = nextDiff]
  <2>1. job \in Job
    BY <1>4 DEF ResentJob, PlainType
  <2>2. new \in Job /\ new.id = job.id
    BY <1>1, <1>2, <2>1 DEF Job
  <2> QED
    BY <1>4, <2>2 DEF ResentJob
<1> QED
  BY <1>3, <1>4

LEMMA InitInv == Init => IInv
<1> SUFFICES ASSUME Init PROVE IInv
  OBVIOUS
<1> USE DEF Init
<1>1. PlainType
  BY DEF PlainType, NoJob, Place, Threads, Job
<1>2. LockInv
  BY StratumAssumption DEF LockInv, Threads
<1>3. NoWork \in Usable(0, 0)
  BY DEF NoWork, Usable, Work, Header, NoHeader
<1>4. job.id = 0 /\ xn2 = 0
  BY DEF NoJob
<1>5. GWorkInv
  <2>1. NoWork \in Work
    BY <1>3 DEF Usable
  <2>2. \A t \in Threads : pc[t] # "header"
    BY DEF Threads
  <2> QED
    BY <1>3, <1>4, <2>1, <2>2 DEF GWorkInv
<1>6. CopiesInv
  <2>1. <<>> \in Seq(Usable(0, 0) \cup {None})
    BY EmptySeq
  <2> QED
    BY <1>3, <1>4, <2>1 DEF CopiesInv
<1> QED
  BY <1>1, <1>2, <1>5, <1>6 DEF IInv

-----------------------------------------------------------------------------
(* The simple types, action by action.                                     *)
LEMMA PoolTypes ==
  ASSUME PlainType, PoolStep
  PROVE  PlainType'
<1> USE StratumAssumption DEF Goto, Place, Threads
<1>1. CASE Subscribe
  BY <1>1 DEF PlainType, Subscribe, InitialDiff, sharedVars, minerVars,
     workioVars, boundVars, historyVars
<1>2. CASE HandshakeFails
  <2>1. link' \in BOOLEAN /\ ~link'
    BY <1>2 DEF HandshakeFails
  <2>2. pc' \in [Threads -> Place]
    BY <1>2 DEF PlainType, HandshakeFails
  <2>3. drops' \in Nat /\ sfailures' \in Nat
    BY <1>2 DEF PlainType, HandshakeFails, Count
  <2> QED
    BY <1>2, <2>1, <2>2, <2>3 DEF PlainType, HandshakeFails, sharedVars,
       minerVars, historyVars
<1>3. CASE Authorized
  BY <1>3 DEF PlainType, Authorized, poolVars, sharedVars, minerVars,
     workioVars, boundVars, historyVars
<1>4. CASE Disconnect
  <2>1. link' \in BOOLEAN /\ ~link'
    BY <1>4 DEF Disconnect
  <2>2. pc' \in [Threads -> Place] /\ drops' \in Nat
    BY <1>4 DEF PlainType, Disconnect
  <2> QED
    BY <1>4, <2>1, <2>2 DEF PlainType, Disconnect, sharedVars, minerVars,
       workioVars, historyVars
<1>5. ASSUME NEW new \in Job, SetJob(new), resent' \in Nat
      PROVE  PlainType'
  BY <1>5 DEF PlainType, SetJob, Xn2After, AfterLine, Receiving, sharedVars,
     minerVars, workioVars
<1>6. CASE NewJob \/ ResentJob
  <2>1. PICK new \in Job : SetJob(new)
    BY <1>6, JobSet
  <2>2. resent' \in Nat
    BY <1>6 DEF NewJob, ResentJob, PlainType
  <2> QED
    BY <1>5, <2>1, <2>2
<1>7. CASE SetDifficulty
  BY <1>7 DEF PlainType, SetDifficulty, AfterLine, sharedVars, minerVars,
     workioVars, boundVars, historyVars
<1>8. CASE SetExtranonce
  BY <1>8 DEF PlainType, SetExtranonce, AfterLine, sharedVars, minerVars,
     workioVars, boundVars, historyVars
<1> QED
  BY <1>1, <1>2, <1>3, <1>4, <1>6, <1>7, <1>8 DEF PoolStep

LEMMA HeaderTypes ==
  ASSUME PlainType, NEW t \in Threads, GenHeader(t)
  PROVE  PlainType'
BY StratumAssumption DEF PlainType, GenHeader, Goto, Place, Threads, poolVars,
   minerVars, workioVars, boundVars, historyVars

LEMMA StratumTypes ==
  ASSUME PlainType, StratumStep
  PROVE  PlainType'
<1> USE StratumAssumption
    DEF Goto, Place, Threads, poolVars, sharedVars, minerVars, workioVars,
        boundVars, historyVars
<1>1. CASE StopMiners
  BY <1>1 DEF PlainType, StopMiners, restart_threads
<1>2. CASE CheckNew
  BY <1>2 DEF PlainType, CheckNew
<1>3. CASE CheckOld
  BY <1>3 DEF PlainType, CheckOld
<1>4. CASE LockForJob
  BY <1>4 DEF PlainType, LockForJob, BeginWork
<1>5. CASE GenHeader(Stratum)
  BY <1>5, HeaderTypes
<1>6. CASE PublishJob
  BY <1>6 DEF PlainType, PublishJob
<1>7. CASE Announce
  <2>1. restart' \in [Miners -> BOOLEAN] /\ restartedFor' \in Nat
    BY <1>7, JobType DEF PlainType, Announce, restart_threads
  <2>2. /\ pc' \in [Threads -> Place]
        /\ UNCHANGED <<sfailures, poolVars, xn2, wLock, sharedVars, minerVars, workioVars,
                       exited, sent, slipped, offered, boundVars>>
    BY <1>7 DEF PlainType, Announce
  <2> QED
    BY <2>1, <2>2 DEF PlainType
<1> QED
  BY <1>1, <1>2, <1>3, <1>4, <1>5, <1>6, <1>7 DEF StratumStep

LEMMA MinerTypes ==
  ASSUME PlainType, NEW m \in Miners, MinerStep(m) \/ FindShare(m)
  PROVE  PlainType'
<1> USE StratumAssumption
    DEF Goto, Place, Threads, poolVars, sharedVars, minerVars, workioVars,
        boundVars, historyVars
<1>1. CASE WaitForDiff(m)
  BY <1>1 DEF PlainType, WaitForDiff
<1>2. CASE LockWork(m)
  BY <1>2 DEF PlainType, LockWork, BeginWork
<1>3. CASE GenHeader(m)
  BY <1>3, HeaderTypes
<1>4. CASE TakeWork(m)
  BY <1>4 DEF PlainType, TakeWork
<1>5. CASE StartScan(m)
  BY <1>5 DEF PlainType, StartScan
<1>6. CASE EndScan(m)
  <2>1. pc' \in [Threads -> Place] /\ slipped' \in SUBSET Miners
    BY <1>6 DEF PlainType, EndScan, LeaveScan
  <2>2. spent' \in [Miners -> BOOLEAN]
    BY <1>6 DEF PlainType, EndScan
  <2>3. UNCHANGED <<link, ext, nextDiff, job, exited, xn2, wLock, gLock, gTime,
                    restart, wpc, share, sfailures, wfailures, found, drops,
                    resent, offered, restartedFor>>
    BY <1>6 DEF EndScan
  <2> QED
    BY <2>1, <2>2, <2>3 DEF PlainType
<1>7. CASE FindShare(m)
  <2>1. pc' \in [Threads -> Place] /\ slipped' \in SUBSET Miners
    BY <1>7 DEF PlainType, FindShare, LeaveScan
  <2>2. found' \in Nat
    BY <1>7 DEF PlainType, FindShare
  <2>3. UNCHANGED <<link, ext, nextDiff, job, exited, xn2, wLock, gLock, gTime,
                    restart, spent, wpc, share, sfailures, wfailures, drops,
                    resent, offered, restartedFor>>
    BY <1>7 DEF FindShare
  <2> QED
    BY <2>1, <2>2, <2>3 DEF PlainType
<1> QED
  BY <1>1, <1>2, <1>3, <1>4, <1>5, <1>6, <1>7 DEF MinerStep

LEMMA WorkioTypes ==
  ASSUME PlainType, Workio \/ TimePasses
  PROVE  PlainType'
<1> USE DEF poolVars, sharedVars, minerVars, workioVars, boundVars, historyVars
<1>1. CASE PopShare
  <2>1. exited' \in BOOLEAN
    BY <1>1, Zenon DEF PlainType, PopShare
  <2>2. wpc' \in {"pop", "test", "send"} /\ wfailures' \in Nat
    BY <1>1 DEF PlainType, PopShare
  <2> QED
    BY <1>1, <2>1, <2>2 DEF PlainType, PopShare
<1>2. CASE TestShare
  BY <1>2 DEF PlainType, TestShare
<1>3. CASE SendShare
  BY <1>3 DEF PlainType, SendShare
<1>4. CASE SendFails
  <2>1. exited' \in BOOLEAN
    BY <1>4, Zenon DEF PlainType, SendFails
  <2>2. wpc' \in {"pop", "test", "send"}
    BY <1>4 DEF PlainType, SendFails
  <2>3. wfailures' \in Nat
    BY <1>4 DEF PlainType, SendFails, Count
  <2> QED
    BY <1>4, <2>1, <2>2, <2>3 DEF PlainType, SendFails
<1>5. CASE TimePasses
  BY <1>5 DEF PlainType, TimePasses
<1> QED
  BY <1>1, <1>2, <1>3, <1>4, <1>5 DEF Workio

-----------------------------------------------------------------------------
(* Steps that leave the locks, g_work and its copies, the job's id and its *)
(* extranonce2 alone, and that move no thread to or from g_work.           *)
AtWork == {"header", "target", "take"}

Quiet ==
  /\ UNCHANGED <<job, xn2, wLock, gLock, gWork, mwork, workq, share, sent>>
  /\ \A t \in Threads : pc[t] \in AtWork \/ pc'[t] \in AtWork => pc'[t] = pc[t]

LEMMA QuietStep ==
  ASSUME IInv, Quiet
  PROVE  LockInv' /\ GWorkInv' /\ CopiesInv'
<1>1. \A t \in Threads : pc'[t] = "header" <=> pc[t] = "header"
  BY DEF Quiet, AtWork
<1>2. LockInv'
  BY DEF IInv, LockInv, Quiet, AtWork
<1>3. GWorkInv'
  BY <1>1 DEF IInv, GWorkInv, Quiet
<1>4. CopiesInv'
  BY CopiesGrow DEF IInv, Quiet
<1> QED
  BY <1>2, <1>3, <1>4

(* Such is any step of one thread between other places.                    *)
LEMMA QuietGoto ==
  ASSUME PlainType, NEW t \in Threads, NEW where, Goto(t, where),
         pc[t] \notin AtWork, where \notin AtWork,
         UNCHANGED <<job, xn2, wLock, gLock, gWork, mwork, workq, share, sent>>
  PROVE  Quiet
<1> SUFFICES ASSUME NEW s \in Threads, pc[s] \in AtWork \/ pc'[s] \in AtWork
             PROVE  pc'[s] = pc[s]
  BY DEF Quiet
<1>1. pc' = [pc EXCEPT ![t] = where]
  BY DEF Goto
<1> QED
  BY <1>1 DEF PlainType

LEMMA QuietStratum ==
  ASSUME PlainType,
         \/ StopMiners \/ CheckNew \/ CheckOld \/ Announce
         \/ Subscribe \/ Authorized \/ Disconnect
         \/ SetDifficulty \/ SetExtranonce
  PROVE  Quiet
<1>0. Stratum \in Threads
  BY DEF Threads
<1> DEFINE Frame ==
      UNCHANGED <<job, xn2, wLock, gLock, gWork, mwork, workq, share, sent>>
<1>1. Frame
  BY DEF StopMiners, CheckNew, CheckOld, Announce, Subscribe, Authorized,
     Disconnect, SetDifficulty, SetExtranonce, poolVars, sharedVars, minerVars,
     workioVars, historyVars
<1>2. pc[Stratum] \notin AtWork
  BY DEF StopMiners, CheckNew, CheckOld, AtCheck, Announce, Subscribe,
     Authorized, Disconnect, SetDifficulty, SetExtranonce, Receiving, AtWork
<1>3. \E where \in {"connect", "gen", "recv", "authorize", "check", "loop"} :
        Goto(Stratum, where)
  BY DEF StopMiners, CheckNew, CheckOld, Announce, Subscribe, Authorized,
     Disconnect, SetDifficulty, SetExtranonce, AfterLine
<1>4. PICK where \in {"connect", "gen", "recv", "authorize", "check", "loop"} :
        Goto(Stratum, where)
  BY <1>3
<1> HIDE DEF Frame
<1>5. where \notin AtWork
  BY DEF AtWork
<1> QED
  BY <1>0, <1>1, <1>2, <1>4, <1>5, QuietGoto DEF Frame

LEMMA QuietMiner ==
  ASSUME PlainType, NEW m \in Miners, WaitForDiff(m) \/ StartScan(m) \/ EndScan(m)
  PROVE  Quiet
<1>0. m \in Threads
  BY DEF Threads
<1>1. UNCHANGED <<job, xn2, wLock, gLock, gWork, mwork, workq, share, sent>>
  BY DEF WaitForDiff, StartScan, EndScan, poolVars, sharedVars, minerVars,
     workioVars, historyVars
<1>2. pc[m] \notin AtWork
  BY DEF WaitForDiff, StartScan, EndScan, AtWork
<1>3. PICK where \in {"lock", "scan", "wait"} : Goto(m, where)
  BY DEF WaitForDiff, StartScan, EndScan, LeaveScan
<1>4. where \notin AtWork
  BY DEF AtWork
<1> QED
  BY <1>0, <1>1, <1>2, <1>3, <1>4, QuietGoto

LEMMA QuietRest ==
  ASSUME SendFails \/ TimePasses
  PROVE  Quiet
BY DEF SendFails, TimePasses, Quiet, poolVars, sharedVars, minerVars,
   workioVars, historyVars

-----------------------------------------------------------------------------
(* Steps at g_work.                                                        *)

(* A header is begun: g_work_lock was free, so nobody was at g_work.       *)
LEMMA BeginStep ==
  ASSUME IInv, NEW t \in Threads, gLock = None, gLock' = t, BeginWork(t),
         UNCHANGED <<job, xn2, mwork, workq, share, sent>>
  PROVE  LockInv' /\ GWorkInv' /\ CopiesInv'
<1> USE DEF IInv
<1>1. pc' = [pc EXCEPT ![t] = "header"] /\ pc \in [Threads -> Place]
  BY DEF BeginWork, Goto, PlainType
<1>2. \A s \in Threads : pc[s] \notin AtWork
  BY StratumAssumption DEF LockInv, AtWork, Threads
<1>3. \A s \in Threads : pc'[s] = IF s = t THEN "header" ELSE pc[s]
  BY <1>1
<1>4. LockInv'
  BY <1>2, <1>3 DEF LockInv, BeginWork, AtWork
<1>5. GWorkInv'
  <2>1. gWork' = [gWork EXCEPT !.id = job.id, !.xn2 = xn2, !.header = NoHeader]
    BY DEF BeginWork
  <2>2. gWork \in Work /\ job.id \in Nat /\ xn2 \in Nat /\ NoHeader \in Header
    BY JobType DEF GWorkInv, PlainType, NoHeader, Header
  <2>3. gWork' \in Work
    BY <2>1, <2>2 DEF Work
  <2>4. gWork'.id = job.id /\ gWork'.xn2 = xn2 /\ gWork'.header = NoHeader
    BY <2>1, <2>2 DEF Work
  <2>5. pc'[t] = "header"
    BY <1>3
  <2> QED
    BY <2>3, <2>4, <2>5 DEF GWorkInv
<1>6. CopiesInv'
  BY CopiesGrow
<1> QED
  BY <1>4, <1>5, <1>6

(* A miner with nonces left only looks at g_work.                          *)
LEMMA TakeOldStep ==
  ASSUME IInv, NEW m \in Miners, gLock = None, gLock' = m, Goto(m, "take"),
         UNCHANGED <<wLock, gWork, job, xn2, mwork, workq, share, sent>>
  PROVE  LockInv' /\ GWorkInv' /\ CopiesInv'
<1> USE DEF IInv
<1>1. \A s \in Threads : pc[s] \notin AtWork
  BY StratumAssumption DEF LockInv, AtWork, Threads
<1>2. \A s \in Threads : pc'[s] = IF s = m THEN "take" ELSE pc[s]
  BY DEF Goto, PlainType
<1>3. LockInv'
  BY <1>1, <1>2 DEF LockInv, AtWork
<1>4. \A s \in Threads : pc[s] # "header" /\ pc'[s] # "header"
  BY <1>1, <1>2 DEF AtWork
<1>5. GWorkInv'
  BY <1>4 DEF GWorkInv
<1>6. CopiesInv'
  BY CopiesGrow
<1> QED
  BY <1>3, <1>5, <1>6

(* The header is filled in: by the only thread that is at g_work, with the *)
(* job and the extranonce2 that its label has.                             *)
LEMMA GenHeaderStep ==
  ASSUME IInv, NEW t \in Threads, GenHeader(t)
  PROVE  LockInv' /\ GWorkInv' /\ CopiesInv'
<1> USE DEF IInv
<1>1. pc' = [pc EXCEPT ![t] = "target"] /\ pc \in [Threads -> Place]
  BY DEF GenHeader, Goto, PlainType
<1>2. \A s \in Threads : pc'[s] = IF s = t THEN "target" ELSE pc[s]
  BY <1>1
<1>3. wLock = t /\ gLock = t /\ pc[t] = "header"
  BY DEF LockInv, GenHeader
<1>4. \A s \in Threads : s # t => pc[s] \notin AtWork
  BY <1>3 DEF LockInv, AtWork
<1>5. gLock' = gLock /\ wLock' = None /\ job' = job /\ xn2' = xn2 + 1
      /\ UNCHANGED <<mwork, workq, share, sent>>
  BY DEF GenHeader, poolVars, minerVars, workioVars, historyVars
<1>6. LockInv'
  BY <1>2, <1>3, <1>4, <1>5, StratumAssumption DEF LockInv, AtWork, Threads
<1>7. job.id \in Nat /\ xn2 \in Nat
  BY JobType DEF PlainType
<1>8. GWorkInv'
  <2>1. gWork' = [gWork EXCEPT !.header = HeaderOfJob]
    BY DEF GenHeader
  <2>2. gWork \in Work /\ gWork.id = job.id /\ gWork.xn2 = xn2
    BY <1>3 DEF GWorkInv
  <2>3. HeaderOfJob \in Header
    BY <1>7, JobType DEF HeaderOfJob, Header
  <2>4. gWork' \in Work /\ gWork'.id = job.id /\ gWork'.xn2 = xn2
        /\ gWork'.header = HeaderOfJob
    BY <2>1, <2>2, <2>3 DEF Work
  <2>5. HeaderOfJob.job = job.id /\ HeaderOfJob.xn2 = xn2
    BY DEF HeaderOfJob
  <2>6. gWork' \in Usable(job'.id, xn2')
    BY <1>5, <1>7, <2>4, <2>5 DEF Usable
  <2>7. \A s \in Threads : pc'[s] # "header"
    BY <1>2, <1>4 DEF AtWork
  <2> QED
    BY <2>4, <2>6, <2>7 DEF GWorkInv
<1>9. CopiesInv'
  <2>1. Usable(job.id, xn2) \subseteq Usable(job'.id, xn2')
    BY <1>5, <1>7, UsableLater
  <2> QED
    BY <1>5, <2>1, CopiesGrow
<1> QED
  BY <1>6, <1>8, <1>9

(* The target and the miner's copy do not disturb header and label.        *)
LEMMA WithTargetUsable ==
  ASSUME PlainType, gWork \in Usable(job.id, xn2)
  PROVE  WithTarget(gWork) \in Usable(job.id, xn2)
<1>1. job.diff \in Nat
  BY JobType
<1> QED
  BY <1>1 DEF WithTarget, Usable, Work

LEMMA LeaveWorkStep ==
  ASSUME IInv, NEW t \in Threads, pc[t] \in {"target", "take"},
         NEW where \in {"announce", "ready"}, Goto(t, where), gLock' = None,
         UNCHANGED wLock
  PROVE  /\ \A s \in Threads : pc[s] # "header" /\ pc'[s] # "header"
         /\ LockInv'
<1> USE DEF IInv
<1>1. pc' = [pc EXCEPT ![t] = where] /\ pc \in [Threads -> Place]
  BY DEF Goto, PlainType
<1>2. \A s \in Threads : pc'[s] = IF s = t THEN where ELSE pc[s]
  BY <1>1
<1>3. gLock = t
  BY DEF LockInv
<1>4. \A s \in Threads : s # t => pc[s] \notin AtWork
  BY <1>3 DEF LockInv, AtWork
<1> QED
  BY <1>2, <1>4 DEF LockInv, AtWork

LEMMA PublishStep ==
  ASSUME IInv, PublishJob
  PROVE  LockInv' /\ GWorkInv' /\ CopiesInv'
<1> USE DEF IInv
<1>1. /\ \A s \in Threads : pc[s] # "header" /\ pc'[s] # "header"
      /\ LockInv'
  BY LeaveWorkStep DEF PublishJob, Threads
<1>2. UNCHANGED <<job, xn2, mwork, workq, share, sent>>
  BY DEF PublishJob, poolVars, minerVars, workioVars, historyVars
<1>3. GWorkInv'
  <2>1. gWork \in Usable(job.id, xn2)
    BY <1>1 DEF GWorkInv
  <2>2. gWork' \in Usable(job'.id, xn2')
    BY <1>2, <2>1, WithTargetUsable DEF PublishJob
  <2> QED
    BY <1>1, <2>2 DEF GWorkInv, Usable
<1>4. CopiesInv'
  BY <1>2, CopiesGrow
<1> QED
  BY <1>1, <1>3, <1>4

LEMMA TakeStep ==
  ASSUME IInv, NEW m \in Miners, TakeWork(m)
  PROVE  LockInv' /\ GWorkInv' /\ CopiesInv'
<1> USE DEF IInv
<1>1. /\ \A s \in Threads : pc[s] # "header" /\ pc'[s] # "header"
      /\ LockInv'
  BY LeaveWorkStep DEF TakeWork, Threads
<1>2. UNCHANGED <<job, xn2, workq, share, sent>>
  BY DEF TakeWork, poolVars, workioVars, historyVars
<1>3. gWork' \in Usable(job.id, xn2)
  <2>1. gWork \in Usable(job.id, xn2)
    BY <1>1 DEF GWorkInv
  <2> QED
    BY <2>1, WithTargetUsable DEF TakeWork
<1>4. GWorkInv'
  BY <1>1, <1>2, <1>3 DEF GWorkInv, Usable
<1>5. mwork' \in [Miners -> Usable(job'.id, xn2')]
  BY <1>2, <1>3 DEF TakeWork, CopiesInv
<1>6. CopiesInv'
  BY <1>2, <1>5 DEF CopiesInv
<1> QED
  BY <1>1, <1>4, <1>6

(* The pool's next job, or the last one again: nobody is making a header,  *)
(* since work_lock is free.                                                *)
LEMMA SetJobStep ==
  ASSUME IInv, NEW new \in Job, SetJob(new), new.id \in {job.id, job.id + 1}
  PROVE  LockInv' /\ GWorkInv' /\ CopiesInv'
<1> USE DEF IInv
<1>0. job.id \in Nat /\ xn2 \in Nat
  BY JobType DEF PlainType
<1>1. /\ UNCHANGED <<wLock, gLock, gWork, mwork, workq, share, sent>>
      /\ job' = new /\ xn2' = IF job.id # new.id THEN 0 ELSE xn2
  BY DEF SetJob, Xn2After, sharedVars, minerVars, workioVars
<1>2. Usable(job.id, xn2) \subseteq Usable(job'.id, xn2')
  <2>1. CASE new.id = job.id
    BY <1>1, <2>1
  <2>2. CASE new.id = job.id + 1
    BY <1>0, <1>1, <2>2, UsableNextJob
  <2> QED
    BY <2>1, <2>2
<1>3. PICK where \in {"loop", "authorize"} : Goto(Stratum, where)
  BY DEF SetJob, AfterLine
<1>4. pc[Stratum] \in {"recv", "authorize"}
  BY DEF SetJob, Receiving
<1>5. \A s \in Threads : pc'[s] = IF s = Stratum THEN where ELSE pc[s]
  BY <1>3 DEF Goto, PlainType
<1>6. LockInv'
  BY <1>1, <1>3, <1>4, <1>5 DEF LockInv
<1>7. \A s \in Threads : pc[s] # "header" /\ pc'[s] # "header"
  <2>1. wLock = None
    BY DEF SetJob
  <2>2. None \notin Threads
    BY StratumAssumption DEF Threads
  <2> QED
    BY <1>1, <1>6, <2>1, <2>2 DEF LockInv
<1>8. GWorkInv'
  BY <1>1, <1>2, <1>7 DEF GWorkInv
<1>9. CopiesInv'
  BY <1>1, <1>2, CopiesGrow
<1> QED
  BY <1>6, <1>8, <1>9

-----------------------------------------------------------------------------
(* Steps on the workio thread's queue.                                     *)
LEMMA FailStep ==
  ASSUME IInv, HandshakeFails
  PROVE  LockInv' /\ GWorkInv' /\ CopiesInv'
<1> USE DEF IInv
<1>1. UNCHANGED <<job, xn2, wLock, gLock, gWork, mwork, share, sent>>
  BY DEF HandshakeFails, sharedVars, minerVars, historyVars
<1>2. PICK where \in {"done", "loop"} : Goto(Stratum, where)
  BY DEF HandshakeFails
<1>3. pc[Stratum] \in {"connect", "authorize"}
  BY DEF HandshakeFails
<1>4. \A s \in Threads : pc'[s] = IF s = Stratum THEN where ELSE pc[s]
  BY <1>2 DEF Goto, PlainType
<1>5. LockInv'
  BY <1>1, <1>2, <1>3, <1>4 DEF LockInv
<1>6. \A s \in Threads : pc'[s] = "header" <=> pc[s] = "header"
  BY <1>2, <1>3, <1>4
<1>7. GWorkInv'
  BY <1>1, <1>6 DEF GWorkInv
<1>8. CopiesInv'
  <2> DEFINE S == Usable(job.id, xn2) \cup {None}
  <2>1. workq \in Seq(S) /\ None \in S
    BY DEF CopiesInv
  <2> HIDE DEF S
  <2>2. workq' \in Seq(S)
    BY <2>1, AppendProperties DEF HandshakeFails
  <2>3. workq' \in Seq(Usable(job'.id, xn2') \cup {None})
    BY <1>1, <2>2 DEF S
  <2> QED
    BY <1>1, <2>3 DEF CopiesInv
<1> QED
  BY <1>5, <1>7, <1>8

LEMMA FindStep ==
  ASSUME IInv, NEW m \in Miners, FindShare(m)
  PROVE  LockInv' /\ GWorkInv' /\ CopiesInv'
<1> USE DEF IInv
<1>1. UNCHANGED <<job, xn2, wLock, gLock, gWork, mwork, share, sent>>
  BY DEF FindShare, poolVars, sharedVars, minerVars
<1>2. pc[m] = "scan" /\ pc' = [pc EXCEPT ![m] = "wait"]
  BY DEF FindShare, LeaveScan, Goto
<1>3. \A s \in Threads : pc'[s] = IF s = m THEN "wait" ELSE pc[s]
  BY <1>2 DEF PlainType
<1>4. LockInv'
  BY <1>1, <1>2, <1>3 DEF LockInv
<1>5. \A s \in Threads : pc'[s] = "header" <=> pc[s] = "header"
  BY <1>2, <1>3
<1>6. GWorkInv'
  BY <1>1, <1>5 DEF GWorkInv
<1>7. CopiesInv'
  <2> DEFINE S == Usable(job.id, xn2) \cup {None}
  <2>1. workq \in Seq(S) /\ mwork[m] \in S
    BY DEF CopiesInv
  <2> HIDE DEF S
  <2>2. workq' \in Seq(S)
    BY <2>1, AppendProperties DEF FindShare, WorkCopy
  <2>3. workq' \in Seq(Usable(job'.id, xn2') \cup {None})
    BY <1>1, <2>2 DEF S
  <2> QED
    BY <1>1, <2>3 DEF CopiesInv
<1> QED
  BY <1>4, <1>6, <1>7

LEMMA WorkioStep ==
  ASSUME IInv, PopShare \/ TestShare \/ SendShare
  PROVE  LockInv' /\ GWorkInv' /\ CopiesInv'
<1> USE DEF IInv
<1>1. UNCHANGED <<job, xn2, wLock, gLock, gWork, pc, mwork>>
  BY DEF PopShare, TestShare, SendShare, poolVars, sharedVars, minerVars
<1>2. LockInv' /\ GWorkInv'
  BY <1>1 DEF LockInv, GWorkInv
<1> DEFINE S == Usable(job.id, xn2) \cup {None}
<1>3. workq \in Seq(S)
  BY DEF CopiesInv
<1>4. CASE PopShare
  <2> HIDE DEF S
  <2>1. workq # <<>> /\ workq' = Tail(workq)
    BY <1>4 DEF PopShare
  <2>2. workq' \in Seq(S) /\ Head(workq) \in S
    BY <1>3, <2>1, HeadTailProperties
  <2>3. share' \in S /\ sent' = sent
    BY <1>4, <2>2 DEF PopShare, CopiesInv, S, historyVars
  <2>4. Usable(job'.id, xn2') = Usable(job.id, xn2)
    BY <1>1
  <2> QED
    BY <1>1, <1>2, <2>2, <2>3, <2>4 DEF CopiesInv, S
<1>5. CASE TestShare
  BY <1>1, <1>2, <1>5 DEF TestShare, CopiesInv, historyVars
<1>6. CASE SendShare
  <2>1. share \in Usable(job.id, xn2)
    BY <1>6 DEF SendShare, PlainType, CopiesInv
  <2>2. workq' = workq /\ share' = None /\ sent' = sent \cup {share}
    BY <1>6 DEF SendShare
  <2> QED
    BY <1>1, <1>2, <2>1, <2>2 DEF CopiesInv
<1> QED
  BY <1>2, <1>4, <1>5, <1>6

-----------------------------------------------------------------------------
(* Every step of the program keeps the invariant.                          *)
LEMMA StepInv ==
  ASSUME IInv, [Next]_vars
  PROVE  IInv'
<1>1. CASE UNCHANGED vars
  BY <1>1 DEF vars, poolVars, sharedVars, minerVars, workioVars, boundVars,
     historyVars, IInv, PlainType, LockInv, GWorkInv, CopiesInv
<1>2. CASE StratumStep
  <2>1. PlainType'
    BY <1>2, StratumTypes DEF IInv
  <2>2. CASE StopMiners \/ CheckNew \/ CheckOld \/ Announce
    BY <2>1, <2>2, QuietStratum, QuietStep DEF IInv
  <2>3. CASE LockForJob
    <3>1. UNCHANGED <<job, xn2, mwork, workq, share, sent>>
      BY <2>3 DEF LockForJob, poolVars, minerVars, workioVars, historyVars
    <3>2. Stratum \in Threads
      BY DEF Threads
    <3> QED
      BY <2>1, <2>3, <3>1, <3>2, BeginStep DEF LockForJob, IInv
  <2>4. CASE GenHeader(Stratum)
    BY <2>1, <2>4, GenHeaderStep DEF IInv, Threads
  <2>5. CASE PublishJob
    BY <2>1, <2>5, PublishStep DEF IInv
  <2> QED
    BY <1>2, <2>2, <2>3, <2>4, <2>5 DEF StratumStep
<1>3. CASE PoolStep
  <2>1. PlainType'
    BY <1>3, PoolTypes DEF IInv
  <2>2. CASE \/ Subscribe \/ Authorized \/ Disconnect \/ SetDifficulty
             \/ SetExtranonce
    BY <2>1, <2>2, QuietStratum, QuietStep DEF IInv
  <2>3. CASE HandshakeFails
    BY <2>1, <2>3, FailStep DEF IInv
  <2>4. CASE NewJob \/ ResentJob
    <3>1. PICK new \in Job : SetJob(new) /\ new.id \in {job.id, job.id + 1}
      BY <2>4, JobSet DEF IInv
    <3> QED
      BY <2>1, <3>1, SetJobStep DEF IInv
  <2> QED
    BY <1>3, <2>2, <2>3, <2>4 DEF PoolStep
<1>4. ASSUME NEW m \in Miners, MinerStep(m) \/ FindShare(m)
      PROVE  IInv'
  <2>1. PlainType'
    BY <1>4, MinerTypes DEF IInv
  <2>2. CASE WaitForDiff(m) \/ StartScan(m) \/ EndScan(m)
    BY <2>1, <2>2, QuietMiner, QuietStep DEF IInv
  <2>3. CASE LockWork(m)
    <3>1. UNCHANGED <<job, xn2, mwork, workq, share, sent>>
      BY <2>3 DEF LockWork, poolVars, minerVars, workioVars, historyVars
    <3>2. CASE spent[m]
      BY <2>1, <2>3, <3>1, <3>2, BeginStep DEF LockWork, IInv, Threads
    <3>3. CASE ~spent[m]
      BY <2>1, <2>3, <3>1, <3>3, TakeOldStep DEF LockWork, IInv
    <3> QED
      BY <3>2, <3>3
  <2>4. CASE GenHeader(m)
    BY <2>1, <2>4, GenHeaderStep DEF IInv, Threads
  <2>5. CASE TakeWork(m)
    BY <2>1, <2>5, TakeStep DEF IInv
  <2>6. CASE FindShare(m)
    BY <2>1, <2>6, FindStep DEF IInv
  <2> QED
    BY <1>4, <2>2, <2>3, <2>4, <2>5, <2>6 DEF MinerStep
<1>5. CASE Workio \/ TimePasses
  <2>1. PlainType'
    BY <1>5, WorkioTypes DEF IInv
  <2>2. CASE SendFails \/ TimePasses
    BY <2>1, <2>2, QuietRest, QuietStep DEF IInv
  <2>3. CASE PopShare \/ TestShare \/ SendShare
    BY <2>1, <2>3, WorkioStep DEF IInv
  <2> QED
    BY <1>5, <2>2, <2>3 DEF Workio
<1> QED
  BY <1>1, <1>2, <1>3, <1>4, <1>5 DEF Next, Silent

(* The inductive invariant holds in every reachable state.                 *)
THEOREM Invariance == Safety => []IInv
<1>1. Init => IInv
  BY InitInv
<1>2. IInv /\ [Next]_vars => IInv'
  BY StepInv
<1> QED
  BY <1>1, <1>2, PTL DEF Safety

(* Every variable of the program has its type, whatever the pool sends: no *)
(* work has a difficulty or an extranonce2 that nobody set.                *)
THEOREM TypeCorrect == Safety => []TypeOK
<1>1. IInv => TypeOK
  <2> SUFFICES ASSUME IInv PROVE TypeOK
    OBVIOUS
  <2>1. Usable(job.id, xn2) \subseteq Work
    BY DEF Usable
  <2>2. workq \in Seq(Work \cup {None})
    <3> DEFINE S == Usable(job.id, xn2) \cup {None}
               T == Work \cup {None}
    <3>1. workq \in Seq(S) /\ S \subseteq T
      BY <2>1 DEF IInv, CopiesInv
    <3> HIDE DEF S, T
    <3>2. workq \in Seq(T)
      BY <3>1, SeqMonotone
    <3> QED
      BY <3>2 DEF T
  <2>3. mwork \in [Miners -> Work] /\ share \in Work \cup {None}
        /\ sent \subseteq Work /\ gWork \in Work
    BY <2>1 DEF IInv, CopiesInv, GWorkInv
  <2> QED
    BY <2>2, <2>3 DEF IInv, PlainType, TypeOK
<1> QED
  BY <1>1, Invariance, PTL

(* What the miners, the queue and the workio thread hold is usable.        *)
LEMMA CopiesUsable ==
  ASSUME IInv, NEW w \in Copies
  PROVE  w \in Usable(job.id, xn2)
<1> DEFINE S == Usable(job.id, xn2) \cup {None}
<1>1. w # None
  BY DEF Copies
<1>2. ASSUME NEW i \in DOMAIN workq PROVE workq[i] \in S
  <2>1. workq \in Seq(S)
    BY DEF IInv, CopiesInv
  <2> HIDE DEF S
  <2> QED
    BY <2>1, ElementOfSeq, LenProperties
<1>3. w \in S
  BY <1>2 DEF IInv, CopiesInv, Copies
<1> QED
  BY <1>1, <1>3

(* A share names what was hashed into its header, for any number of miners *)
(* that make headers of a job the pool changes at any time.                *)
THEOREM LabelsRight == Safety => []LabelMatchesHeader
<1>1. IInv => LabelMatchesHeader
  BY CopiesUsable DEF LabelMatchesHeader, Usable
<1> QED
  BY <1>1, Invariance, PTL

(* The next header of a job has an extranonce2 not used with it before.    *)
THEOREM FreshNext == Safety => []NextIsFresh
<1>1. IInv => NextIsFresh
  <2> SUFFICES ASSUME IInv, NEW w \in {gWork} \cup Copies,
                      w.header # NoHeader, w.header.job = job.id
               PROVE  w.header.xn2 < xn2
    BY DEF NextIsFresh
  <2>1. w \in Usable(job.id, xn2)
    BY CopiesUsable DEF IInv, GWorkInv
  <2> QED
    BY <2>1 DEF Usable
<1> QED
  BY <1>1, Invariance, PTL

-----------------------------------------------------------------------------
(* What g_work comes to be, whom a restart reaches, and which shares are   *)
(* thrown away                                                             *)

NoneWriting == \A t \in Threads : pc[t] # "header"
NoneMaking == \A t \in Threads : pc[t] \notin {"header", "target"}

(* g_work's header is of the pool's job.                                   *)
OfJob == gWork.header.job = job.id
Offers(e) == \E o \in offered : o.id = job.id /\ o.ext = e
OffersDiff(d) == \E o \in offered : o.id = job.id /\ o.diff = d

(* A header of the pool's job has an extranonce1 the job was sent with,    *)
(* and its target is one of the job's once whoever made it is done.  It is *)
(* of the pool's job when the Stratum thread has made it or has seen that  *)
(* no other is needed, and from then on until the job changes.             *)
SettledInv ==
  job # NoJob =>
    /\ job \in offered
    /\ NoneWriting /\ OfJob => Offers(gWork.header.ext)
    /\ NoneMaking /\ OfJob => OffersDiff(gWork.diff)
    /\ NoneWriting /\ (pc[Stratum] \in {"target", "announce", "recv"} \/ restartedFor = job.id) => OfJob
    /\ pc[Stratum] \in {"announce", "recv"} => gTime # "zero"

(* After a restart for the pool's job, a miner about to scan an older one  *)
(* has its flag up still.                                                  *)
RestartInv ==
  /\ restartedFor <= job.id
  /\ job # NoJob /\ restartedFor = job.id =>
       \A m \in Miners :
         /\ pc[m] = "ready" => mwork[m].header.job = job.id \/ restart[m]
         /\ pc[m] = "scan" => mwork[m].header.job = job.id \/ restart[m] \/ m \in slipped

WInv == IInv /\ SettledInv /\ RestartInv

-----------------------------------------------------------------------------
LEMMA StratumIsNoMiner == Stratum \in Threads /\ Stratum \notin Miners /\ Miners \subseteq Threads
BY StratumAssumption DEF Threads

(* A thread at g_work is the only one.                                     *)
LEMMA OneAtWork ==
  ASSUME IInv
  PROVE  /\ gLock = None => \A t \in Threads : pc[t] \notin AtWork
         /\ \A s, t \in Threads : pc[s] \in AtWork /\ pc[t] \in AtWork => s = t
BY StratumAssumption DEF IInv, LockInv, AtWork, Threads

(* Steps that leave the work and the job alone.                            *)
LEMMA SettledStays ==
  ASSUME SettledInv, UNCHANGED <<job, offered, gWork, restartedFor>>,
         NoneWriting' => NoneWriting, NoneMaking' => NoneMaking,
         pc'[Stratum] \in {"target", "announce", "recv"} =>
           pc[Stratum] \in {"target", "announce", "recv"},
         pc'[Stratum] \in {"announce", "recv"} =>
           pc[Stratum] \in {"announce", "recv"} /\ gTime' # "zero"
  PROVE  SettledInv'
BY DEF SettledInv, OfJob, Offers, OffersDiff

(* Such is every quiet step that does not bring the Stratum thread to      *)
(* "announce" or "recv" or make the time zero.                             *)
LEMMA SettledQuiet ==
  ASSUME SettledInv, Quiet, UNCHANGED <<offered, restartedFor>>,
         pc'[Stratum] \in {"announce", "recv"} =>
           pc[Stratum] \in {"announce", "recv"} /\ gTime' # "zero"
  PROVE  SettledInv'
<1>1. UNCHANGED <<job, gWork>>
  BY DEF Quiet
<1>2. /\ NoneWriting' => NoneWriting
      /\ NoneMaking' => NoneMaking
  BY DEF Quiet, AtWork, NoneWriting, NoneMaking
<1>3. pc'[Stratum] = "target" => pc[Stratum] = "target"
  BY StratumIsNoMiner DEF Quiet, AtWork
<1> QED
  BY <1>1, <1>2, <1>3, SettledStays

(* Flags that stay or are raised, miners that stay or leave their scan.    *)
LEMMA RestartStays ==
  ASSUME RestartInv, UNCHANGED <<job, mwork, restartedFor>>,
         \A m \in Miners : /\ restart[m] => restart'[m]
                           /\ m \in slipped => m \in slipped' \/ pc'[m] # "scan"
                           /\ pc'[m] \in {"ready", "scan"} => pc'[m] = pc[m]
  PROVE  RestartInv'
BY DEF RestartInv

LEMMA WorkBegins ==
  ASSUME WInv, NEW t \in Threads, pc' = [pc EXCEPT ![t] = "header"],
         UNCHANGED <<job, offered, restartedFor, mwork, restart, slipped, gTime>>
  PROVE  SettledInv' /\ RestartInv'
<1>1. pc \in [Threads -> Place]
  BY DEF WInv, IInv, PlainType
<1>2. \A s \in Threads : pc'[s] = IF s = t THEN "header" ELSE pc[s]
  BY <1>1
<1>3. ~NoneWriting' /\ ~NoneMaking'
  BY <1>2 DEF NoneWriting, NoneMaking
<1>4. SettledInv'
  BY <1>2, <1>3, StratumIsNoMiner DEF WInv, SettledInv
<1>5. RestartInv'
  BY <1>2, RestartStays, StratumIsNoMiner DEF WInv
<1> QED
  BY <1>4, <1>5

LEMMA HeaderSettles ==
  ASSUME WInv, NEW t \in Threads, GenHeader(t)
  PROVE  SettledInv' /\ RestartInv'
<1>0. pc \in [Threads -> Place] /\ pc[t] = "header"
  BY DEF WInv, IInv, PlainType, GenHeader
<1>1. /\ pc' = [pc EXCEPT ![t] = "target"] /\ gWork' = [gWork EXCEPT !.header = HeaderOfJob]
      /\ UNCHANGED <<job, offered, restartedFor, mwork, restart, slipped, gTime>>
  BY DEF GenHeader, Goto, poolVars, minerVars, historyVars
<1>2. \A s \in Threads : pc'[s] = IF s = t THEN "target" ELSE pc[s]
  BY <1>0, <1>1
<1>3. gWork'.header = HeaderOfJob
  BY <1>1 DEF WInv, IInv, GWorkInv, Work
<1>4. gWork'.header.job = job.id /\ gWork'.header.ext = job.ext
  BY <1>3 DEF HeaderOfJob
<1>5. ~NoneMaking'
  BY <1>2 DEF NoneMaking
<1>6. SettledInv'
  BY <1>1, <1>2, <1>4, <1>5, StratumIsNoMiner DEF WInv, SettledInv, OfJob, Offers
<1>7. RestartInv'
  BY <1>1, <1>2, RestartStays, StratumIsNoMiner DEF WInv
<1> QED
  BY <1>6, <1>7

LEMMA JobUnsettles ==
  ASSUME WInv, NEW new \in Job, SetJob(new), new.id \in {job.id, job.id + 1}, new.id = job.id => job # NoJob
  PROVE  SettledInv' /\ RestartInv'
<1>0. /\ pc \in [Threads -> Place] /\ job.id \in Nat /\ restartedFor \in Nat
      /\ gWork \in Work
  BY JobType DEF WInv, IInv, PlainType, GWorkInv
<1>1. /\ job' = new /\ offered' = {o \in offered : o.id = new.id} \cup {new}
      /\ UNCHANGED <<gWork, restartedFor, mwork, restart, slipped, gTime>>
      /\ wLock = None /\ pc[Stratum] \in {"recv", "authorize"}
  BY DEF SetJob, Receiving, sharedVars, minerVars, historyVars
<1>2. PICK where \in {"loop", "authorize"} : pc' = [pc EXCEPT ![Stratum] = where]
  BY DEF SetJob, AfterLine, Goto
<1>3. \A s \in Threads : pc'[s] = IF s = Stratum THEN where ELSE pc[s]
  BY <1>0, <1>2
<1>4. NoneWriting
  BY <1>1, StratumAssumption DEF WInv, IInv, LockInv, NoneWriting, Threads
<1>5. gWork.header.job <= job.id /\ gWork.header.job \in Nat
  BY <1>0, <1>4 DEF WInv, IInv, GWorkInv, Usable, NoneWriting, Work, Header
<1>6. NoneMaking' => NoneMaking
  BY <1>1, <1>3 DEF NoneMaking
<1>7. CASE new.id = job.id
  <2>1. job # NoJob /\ SettledInv
    BY <1>7 DEF WInv
  <2>2. /\ \A e : Offers(e) => Offers(e)'
        /\ \A d : OffersDiff(d) => OffersDiff(d)'
    BY <1>1, <1>7 DEF Offers, OffersDiff
  <2>3. OfJob' <=> OfJob
    BY <1>1, <1>7 DEF OfJob
  <2>4. SettledInv'
    BY <1>1, <1>3, <1>4, <1>6, <1>7, <2>1, <2>2, <2>3, StratumIsNoMiner DEF SettledInv
  <2>5. RestartInv'
    BY <1>1, <1>3, <1>7, <2>1, StratumIsNoMiner DEF WInv, RestartInv
  <2> QED
    BY <2>4, <2>5
<1>8. CASE new.id = job.id + 1
  <2>1. ~OfJob' /\ restartedFor' < job'.id
    BY <1>0, <1>1, <1>5, <1>8 DEF WInv, RestartInv, OfJob
  <2>2. SettledInv'
    BY <1>0, <1>1, <1>3, <1>8, <2>1, StratumIsNoMiner DEF SettledInv
  <2>3. RestartInv'
    BY <1>0, <1>1, <1>8, <2>1 DEF RestartInv
  <2> QED
    BY <2>2, <2>3
<1> QED
  BY <1>7, <1>8

(* The test finds that g_work is of the job already, or a miner is making  *)
(* it so.                                                                  *)
LEMMA OldSettles ==
  ASSUME WInv, CheckOld
  PROVE  SettledInv' /\ RestartInv'
<1>0. pc \in [Threads -> Place]
  BY DEF WInv, IInv, PlainType
<1>1. /\ pc' = [pc EXCEPT ![Stratum] = "recv"] /\ pc[Stratum] \in {"check", "loop"}
      /\ UNCHANGED <<job, gWork, gTime, offered, restartedFor, mwork, restart, slipped>>
  BY DEF CheckOld, AtCheck, Goto, poolVars, sharedVars, minerVars, historyVars
<1>2. \A s \in Threads : pc'[s] = IF s = Stratum THEN "recv" ELSE pc[s]
  BY <1>0, <1>1
<1>3. /\ NoneWriting' <=> NoneWriting
      /\ NoneMaking' <=> NoneMaking
  BY <1>1, <1>2 DEF NoneWriting, NoneMaking
<1>4. job # NoJob => gTime # "zero" /\ (job.id = gWork.id \/ Replacing)
  BY DEF CheckOld, JobIsNew
<1>5. Replacing => ~NoneWriting
  BY StratumIsNoMiner DEF Replacing, NoneWriting
<1>6. NoneWriting => gWork.id = gWork.header.job
  BY DEF WInv, IInv, GWorkInv, NoneWriting, Usable
<1>7. SettledInv'
  <2>1. job # NoJob /\ NoneWriting => OfJob
    BY <1>4, <1>5, <1>6 DEF OfJob
  <2> QED
    BY <1>1, <1>3, <1>4, <2>1 DEF WInv, SettledInv, OfJob, Offers, OffersDiff
<1>8. RestartInv'
  BY <1>1, <1>2, RestartStays, StratumIsNoMiner DEF WInv
<1> QED
  BY <1>7, <1>8

LEMMA PublishSettles ==
  ASSUME WInv, PublishJob
  PROVE  SettledInv' /\ RestartInv'
<1>0. pc \in [Threads -> Place] /\ gWork \in Work
  BY DEF WInv, IInv, PlainType, GWorkInv
<1>1. /\ pc[Stratum] = "target" /\ pc' = [pc EXCEPT ![Stratum] = "announce"]
      /\ gTime' = "recent" /\ gWork' = [gWork EXCEPT !.diff = job.diff]
      /\ UNCHANGED <<job, offered, restartedFor, mwork, restart, slipped>>
  BY DEF PublishJob, WithTarget, Goto, poolVars, minerVars, historyVars
<1>2. \A s \in Threads : pc'[s] = IF s = Stratum THEN "announce" ELSE pc[s]
  BY <1>0, <1>1
<1>3. gWork'.header = gWork.header /\ gWork'.diff = job.diff
  BY <1>0, <1>1 DEF Work
<1>4. NoneWriting' <=> NoneWriting
  BY <1>1, <1>2 DEF NoneWriting
<1>5. SettledInv'
  BY <1>1, <1>3, <1>4 DEF WInv, SettledInv, OfJob, Offers, OffersDiff
<1>6. RestartInv'
  BY <1>1, <1>2, RestartStays, StratumIsNoMiner DEF WInv
<1> QED
  BY <1>5, <1>6

LEMMA AnnounceRestarts ==
  ASSUME WInv, Announce
  PROVE  SettledInv' /\ RestartInv'
<1>0. pc \in [Threads -> Place] /\ job.id \in Nat
  BY JobType DEF WInv, IInv, PlainType
<1>1. /\ pc[Stratum] = "announce" /\ pc' = [pc EXCEPT ![Stratum] = "recv"]
      /\ UNCHANGED <<job, gWork, gTime, offered, mwork, slipped>>
      /\ \/ UNCHANGED <<restart, restartedFor>>
         \/ restart' = [m \in Miners |-> TRUE] /\ restartedFor' = job.id
  BY DEF Announce, restart_threads, Goto, poolVars, sharedVars, minerVars
<1>2. \A s \in Threads : pc'[s] = IF s = Stratum THEN "recv" ELSE pc[s]
  BY <1>0, <1>1
<1>3. /\ NoneWriting' <=> NoneWriting
      /\ NoneMaking' <=> NoneMaking
  BY <1>1, <1>2 DEF NoneWriting, NoneMaking
<1>4. SettledInv'
  BY <1>1, <1>3 DEF WInv, SettledInv, OfJob, Offers, OffersDiff
<1>5. CASE UNCHANGED <<restart, restartedFor>>
  BY <1>1, <1>2, <1>4, <1>5, RestartStays, StratumIsNoMiner DEF WInv
<1>6. CASE restart' = [m \in Miners |-> TRUE] /\ restartedFor' = job.id
  BY <1>0, <1>1, <1>4, <1>6 DEF RestartInv
<1> QED
  BY <1>1, <1>5, <1>6

(* What a miner takes is of the pool's job, if that was announced.         *)
LEMMA TakeSettles ==
  ASSUME WInv, NEW m \in Miners, TakeWork(m)
  PROVE  SettledInv' /\ RestartInv'
<1>0. /\ pc \in [Threads -> Place] /\ gWork \in Work /\ m \in Threads /\ m # Stratum
      /\ DOMAIN mwork = Miners
  BY StratumIsNoMiner DEF WInv, IInv, PlainType, GWorkInv, CopiesInv
<1>1. /\ pc[m] \in {"target", "take"} /\ pc' = [pc EXCEPT ![m] = "ready"]
      /\ gWork' = gWork \/ gWork' = [gWork EXCEPT !.diff = job.diff]
      /\ pc[m] = "target" => gWork' = [gWork EXCEPT !.diff = job.diff]
      /\ UNCHANGED <<job, gTime, offered, restartedFor, restart, slipped>>
      /\ \/ mwork' = [mwork EXCEPT ![m] = gWork']
         \/ mwork[m].header = gWork.header /\ UNCHANGED mwork
  BY DEF TakeWork, WithTarget, WorkDiffers, Goto, poolVars, historyVars
<1>2. \A s \in Threads : pc'[s] = IF s = m THEN "ready" ELSE pc[s]
  BY <1>0, <1>1
<1>3. /\ gWork'.header = gWork.header
      /\ pc[m] = "target" => gWork'.diff = job.diff
  BY <1>0, <1>1 DEF Work
<1>4. \A s \in Threads : s # m => pc[s] \notin AtWork
  BY <1>0, <1>1, OneAtWork DEF WInv, AtWork
<1>5. NoneWriting /\ (pc[m] # "target" => NoneMaking)
  BY <1>1, <1>4 DEF NoneWriting, NoneMaking, AtWork
<1>6. SettledInv'
  <2>1. CASE pc[m] = "target"
    BY <1>0, <1>1, <1>2, <1>3, <1>5, <2>1, StratumIsNoMiner
       DEF WInv, SettledInv, OfJob, Offers, OffersDiff
  <2>2. CASE pc[m] # "target"
    <3>1. gWork' = gWork
      BY <2>2 DEF TakeWork
    <3> QED
      BY <1>0, <1>1, <1>2, <1>5, <2>2, <3>1, StratumIsNoMiner
         DEF WInv, SettledInv, OfJob, Offers, OffersDiff
  <2> QED
    BY <2>1, <2>2
<1>7. RestartInv'
  <2>1. mwork'[m].header = gWork.header /\ \A n \in Miners : n # m => mwork'[n] = mwork[n]
    BY <1>0, <1>1, <1>3
  <2>2. job # NoJob /\ restartedFor = job.id => gWork.header.job = job.id
    BY <1>5 DEF WInv, SettledInv, OfJob
  <2> QED
    BY <1>0, <1>1, <1>2, <2>1, <2>2, StratumIsNoMiner DEF WInv, RestartInv
<1> QED
  BY <1>6, <1>7

LEMMA ScanRestarts ==
  ASSUME WInv, NEW m \in Miners, StartScan(m)
  PROVE  SettledInv' /\ RestartInv'
<1>0. /\ pc \in [Threads -> Place] /\ m \in Threads /\ m # Stratum
      /\ restart \in [Miners -> BOOLEAN]
  BY StratumIsNoMiner DEF WInv, IInv, PlainType
<1>1. /\ pc[m] = "ready" /\ pc' = [pc EXCEPT ![m] = "scan"]
      /\ restart' = [restart EXCEPT ![m] = FALSE]
      /\ slipped' = IF restart[m] THEN slipped \cup {m} ELSE slipped
      /\ UNCHANGED <<job, gTime, offered, restartedFor, mwork>>
  BY DEF StartScan, Goto, poolVars, sharedVars, minerVars
<1>2. \A s \in Threads : pc'[s] = IF s = m THEN "scan" ELSE pc[s]
  BY <1>0, <1>1
<1>3. SettledInv'
  <2>1. Quiet
    BY QuietMiner DEF WInv, IInv
  <2>2. pc'[Stratum] = pc[Stratum]
    BY <1>0, <1>2, StratumIsNoMiner
  <2>3. CASE job # NoJob
    BY <1>1, <2>1, <2>2, <2>3, SettledQuiet DEF WInv, SettledInv
  <2>4. CASE job = NoJob
    BY <1>1, <2>4 DEF SettledInv
  <2> QED
    BY <2>3, <2>4
<1>4. RestartInv'
  BY <1>0, <1>1, <1>2, StratumIsNoMiner DEF WInv, RestartInv
<1> QED
  BY <1>3, <1>4

-----------------------------------------------------------------------------
(* Every step of the program keeps the invariant.                          *)
LEMMA WorkStep ==
  ASSUME WInv, [Next]_vars
  PROVE  SettledInv' /\ RestartInv'
<1> USE DEF poolVars, sharedVars, minerVars, workioVars, boundVars, historyVars
<1>0. /\ pc \in [Threads -> Place] /\ SettledInv /\ RestartInv /\ IInv /\ PlainType
  BY DEF WInv, IInv, PlainType
<1>1. ASSUME UNCHANGED <<job, offered, gWork, gTime, restartedFor, mwork, restart, slipped, pc>>
      PROVE  SettledInv' /\ RestartInv'
  <2>1. SettledInv'
    BY <1>0, <1>1 DEF SettledInv, OfJob, Offers, OffersDiff, NoneWriting, NoneMaking
  <2>2. RestartInv'
    BY <1>0, <1>1 DEF RestartInv
  <2> QED
    BY <2>1, <2>2
<1>2. ASSUME NEW where \in {"connect", "gen", "authorize", "check", "loop", "done"},
             Goto(Stratum, where), pc[Stratum] \notin AtWork,
             UNCHANGED <<job, offered, gWork, restartedFor, mwork, slipped>>,
             restart' = restart \/ restart' = [m \in Miners |-> TRUE]
      PROVE  SettledInv' /\ RestartInv'
  <2>1. \A s \in Threads : pc'[s] = IF s = Stratum THEN where ELSE pc[s]
    BY <1>0, <1>2 DEF Goto
  <2>2. /\ NoneWriting' => NoneWriting
        /\ NoneMaking' => NoneMaking
    BY <1>2, <2>1 DEF NoneWriting, NoneMaking, AtWork
  <2>3. SettledInv'
    BY <1>0, <1>2, <2>1, <2>2, SettledStays, StratumIsNoMiner
  <2>4. RestartInv'
    BY <1>0, <1>2, <2>1, RestartStays, StratumIsNoMiner
  <2> QED
    BY <2>3, <2>4
<1>3. ASSUME NEW m \in Miners, pc[m] \notin AtWork,
             Goto(m, "lock") \/ (LeaveScan(m) /\ pc[m] = "scan"),
             Goto(m, "lock") => slipped' = slipped,
             UNCHANGED <<job, offered, gWork, gTime, restartedFor, mwork, restart>>
      PROVE  SettledInv' /\ RestartInv'
  <2>0. m \in Threads /\ m # Stratum
    BY StratumIsNoMiner
  <2>1. PICK where \in {"lock", "wait"} :
          /\ \A s \in Threads : pc'[s] = IF s = m THEN where ELSE pc[s]
          /\ slipped' = slipped \/ slipped' = slipped \ {m}
    BY <1>0, <1>3, <2>0 DEF Goto, LeaveScan
  <2>2. /\ NoneWriting' => NoneWriting
        /\ NoneMaking' => NoneMaking
    BY <1>3, <2>1 DEF NoneWriting, NoneMaking, AtWork
  <2>3. pc'[Stratum] = pc[Stratum]
    BY <2>0, <2>1, StratumIsNoMiner
  <2>4. SettledInv'
    <3>1. CASE job # NoJob
      BY <1>0, <1>3, <2>2, <2>3, <3>1, SettledStays DEF SettledInv
    <3>2. CASE job = NoJob
      BY <1>3, <3>2 DEF SettledInv
    <3> QED
      BY <3>1, <3>2
  <2>5. RestartInv'
    BY <1>0, <1>3, <2>1, RestartStays, StratumIsNoMiner
  <2> QED
    BY <2>4, <2>5
<1>4. CASE StratumStep
  <2>1. CASE StopMiners
    BY <1>2, <2>1 DEF StopMiners, restart_threads, AtWork
  <2>2. CASE CheckNew
    BY <1>2, <2>2 DEF CheckNew, AtCheck, AtWork
  <2>3. CASE LockForJob
    <3>1. /\ pc' = [pc EXCEPT ![Stratum] = "header"]
          /\ UNCHANGED <<job, offered, restartedFor, mwork, restart, slipped, gTime>>
      BY <2>3 DEF LockForJob, BeginWork, Goto
    <3> QED
      BY <3>1, WorkBegins, StratumIsNoMiner
  <2> QED
    BY <1>4, <2>1, <2>2, <2>3, OldSettles, PublishSettles, AnnounceRestarts, HeaderSettles,
       StratumIsNoMiner DEF StratumStep
<1>5. CASE PoolStep
  <2>1. CASE Subscribe \/ Authorized
    BY <1>2, <2>1 DEF Subscribe, Authorized, AtWork
  <2>2. CASE HandshakeFails \/ Disconnect
    <3>1. /\ pc[Stratum] \notin AtWork
          /\ UNCHANGED <<job, offered, gWork, restartedFor, mwork, slipped, restart>>
          /\ Goto(Stratum, "done") \/ Goto(Stratum, "loop")
      BY <2>2 DEF HandshakeFails, Disconnect, AtWork
    <3> QED
      BY <1>2, <3>1
  <2>3. CASE SetDifficulty \/ SetExtranonce
    <3>1. /\ pc[Stratum] \notin AtWork
          /\ UNCHANGED <<job, offered, gWork, restartedFor, mwork, slipped, restart>>
          /\ Goto(Stratum, "loop") \/ Goto(Stratum, "authorize")
      BY <2>3 DEF SetDifficulty, SetExtranonce, Receiving, AfterLine, AtWork
    <3> QED
      BY <1>2, <3>1
  <2>4. CASE NewJob \/ ResentJob
    <3>1. PICK new \in Job : SetJob(new) /\ new.id \in {job.id, job.id + 1}
      BY <1>0, <2>4, JobSet
    <3>2. new.id = job.id => job # NoJob
      <4>1. CASE ResentJob
        BY <4>1 DEF ResentJob
      <4>2. CASE NewJob
        <5>1. job' = new /\ job'.id = job.id + 1 /\ job.id \in Nat
          BY <1>0, <3>1, <4>2, JobType DEF NewJob, SetJob
        <5> QED
          BY <5>1
      <4> QED
        BY <2>4, <4>1, <4>2
    <3> QED
      BY <3>1, <3>2, JobUnsettles
  <2> QED
    BY <1>5, <2>1, <2>2, <2>3, <2>4 DEF PoolStep
<1>6. ASSUME NEW m \in Miners, MinerStep(m) \/ FindShare(m)
      PROVE  SettledInv' /\ RestartInv'
  <2>1. CASE WaitForDiff(m)
    BY <1>3, <2>1 DEF WaitForDiff, AtWork
  <2>2. CASE EndScan(m) \/ FindShare(m)
    <3>1. /\ pc[m] = "scan" /\ LeaveScan(m)
          /\ UNCHANGED <<job, offered, gWork, gTime, restartedFor, mwork, restart>>
      BY <2>2 DEF EndScan, FindShare
    <3>2. ~Goto(m, "lock")
      <4>1. m \in Threads
        BY StratumIsNoMiner
      <4> QED
        BY <1>0, <3>1, <4>1 DEF LeaveScan, Goto
    <3> QED
      BY <1>3, <3>1, <3>2 DEF AtWork
  <2>3. CASE LockWork(m)
    <3>1. UNCHANGED <<job, offered, restartedFor, mwork, restart, slipped, gTime>> /\ gLock = None
      BY <2>3 DEF LockWork
    <3>2. m \in Threads /\ m # Stratum
      BY StratumIsNoMiner
    <3>3. CASE spent[m]
      <4>1. pc' = [pc EXCEPT ![m] = "header"]
        BY <2>3, <3>3 DEF LockWork, BeginWork, Goto
      <4> QED
        BY <3>1, <3>2, <4>1, WorkBegins
    <3>4. CASE ~spent[m]
      <4>1. pc' = [pc EXCEPT ![m] = "take"] /\ UNCHANGED gWork
        BY <2>3, <3>4 DEF LockWork, Goto
      <4>2. \A s \in Threads : pc'[s] = IF s = m THEN "take" ELSE pc[s]
        BY <1>0, <4>1
      <4>3. pc[m] = "lock"
        BY <2>3 DEF LockWork
      <4>4. /\ NoneWriting' => NoneWriting
            /\ NoneMaking' => NoneMaking
        BY <4>2, <4>3 DEF NoneWriting, NoneMaking
      <4>5. SettledInv'
        <5>1. CASE job # NoJob
          BY <1>0, <3>1, <3>2, <4>1, <4>2, <4>4, <5>1, SettledStays, StratumIsNoMiner DEF SettledInv
        <5>2. CASE job = NoJob
          BY <3>1, <5>2 DEF SettledInv
        <5> QED
          BY <5>1, <5>2
      <4>6. RestartInv'
        BY <1>0, <3>1, <4>2, RestartStays, StratumIsNoMiner
      <4> QED
        BY <4>5, <4>6
    <3> QED
      BY <3>3, <3>4
  <2> QED
    BY <1>6, <2>1, <2>2, <2>3, HeaderSettles, TakeSettles, ScanRestarts, StratumIsNoMiner DEF MinerStep
<1>7. CASE Workio
  BY <1>1, <1>7 DEF Workio, PopShare, TestShare, SendShare, SendFails
<1>8. CASE TimePasses
  <2>1. /\ UNCHANGED <<job, offered, gWork, restartedFor, mwork, restart, slipped, pc>>
        /\ gTime' # "zero"
    BY <1>8 DEF TimePasses
  <2>2. SettledInv'
    BY <1>0, <2>1 DEF SettledInv, OfJob, Offers, OffersDiff, NoneWriting, NoneMaking
  <2>3. RestartInv'
    BY <1>0, <2>1 DEF RestartInv
  <2> QED
    BY <2>2, <2>3
<1>9. CASE UNCHANGED vars
  BY <1>1, <1>9 DEF vars
<1> QED
  BY <1>4, <1>5, <1>6, <1>7, <1>8, <1>9 DEF Next, Silent

LEMMA WorkInit == Init => SettledInv /\ RestartInv
<1> SUFFICES ASSUME Init PROVE SettledInv /\ RestartInv
  OBVIOUS
<1>1. job = NoJob /\ restartedFor = 0 /\ job.id = 0
  BY DEF Init, NoJob
<1> QED
  BY <1>1 DEF SettledInv, RestartInv

THEOREM WorkInvariance == Safety => []WInv
<1>1. Init => WInv
  BY InitInv, WorkInit DEF WInv
<1>2. WInv /\ [Next]_vars => WInv'
  BY StepInv, WorkStep DEF WInv
<1> QED
  BY <1>1, <1>2, PTL DEF Safety

(* While the Stratum thread waits for a line and nobody is at g_work, it   *)
(* is of the pool's last job, with an extranonce1 and a target of it, for  *)
(* any number of miners and jobs (stratum_thread, stratum_gen_work).       *)
THEOREM SettledSafe == Safety => []WorkSettled
<1>1. WInv => WorkSettled
  <2> SUFFICES ASSUME WInv, pc[Stratum] = "recv", gLock = None, job # NoJob
               PROVE  /\ gWork.header.job = job.id
                      /\ \E o \in offered : o.id = job.id /\ o.ext = gWork.header.ext
                      /\ \E o \in offered : o.id = job.id /\ o.diff = gWork.diff
                      /\ gTime # "zero"
    BY DEF WorkSettled
  <2>1. NoneWriting /\ NoneMaking
    BY OneAtWork DEF WInv, AtWork, NoneWriting, NoneMaking
  <2> QED
    BY <2>1 DEF WInv, SettledInv, OfJob, Offers, OffersDiff
<1> QED
  BY <1>1, WorkInvariance, PTL

(* A restart for a clean job reaches every miner that scans something      *)
(* else, but one that clears its flag on the way into the scan             *)
(* (restart_threads, miner_thread).                                        *)
THEOREM RestartSafe == Safety => []RestartHeeded
<1>1. WInv => RestartHeeded
  BY DEF WInv, RestartInv, RestartHeeded
<1> QED
  BY <1>1, WorkInvariance, PTL

-----------------------------------------------------------------------------
(* The block a share builds on.                                            *)

(* The block of g_work, or of the header that is being written.            *)
Reach == IF gWork.header = NoHeader THEN job.tip ELSE gWork.header.tip

(* Neither g_work nor a copy of it is ahead of the pool's job, and no copy *)
(* is ahead of g_work.                                                     *)
BlockInv ==
  /\ Reach <= job.tip
  /\ \A w \in Copies : w.header.tip <= Reach

LEMMA TipsType ==
  ASSUME IInv
  PROVE  /\ job.tip \in Nat /\ gWork.header.tip \in Int /\ Reach \in Int
         /\ \A w \in Copies : w.header.tip \in Int
<1>1. job.tip \in Nat /\ gWork.header.tip \in Int
  BY JobType DEF IInv, GWorkInv, Work, Header
<1>2. ASSUME NEW w \in Copies PROVE w.header.tip \in Int
  BY <1>2, CopiesUsable DEF Usable, Work, Header
<1> QED
  BY <1>1, <1>2 DEF Reach

(* g_work only goes forward, and to the pool's job.                        *)
LEMMA ReachGrows ==
  ASSUME IInv, BlockInv, Copies' \subseteq Copies,
         Reach' \in Int, job'.tip \in Int, Reach <= Reach', Reach' <= job'.tip
  PROVE  BlockInv'
<1>1. ASSUME NEW w \in Copies' PROVE w.header.tip <= Reach'
  BY <1>1, TipsType DEF BlockInv
<1> QED
  BY <1>1 DEF BlockInv

LEMMA ReachStays ==
  ASSUME BlockInv, Copies' \subseteq Copies, job' = job, gWork'.header = gWork.header
  PROVE  BlockInv'
BY DEF BlockInv, Reach

LEMMA CopiesSame ==
  ASSUME UNCHANGED <<mwork, workq, share, sent>>
  PROVE  Copies' = Copies
BY DEF Copies

LEMMA ReachJob ==
  ASSUME IInv, BlockInv, UNCHANGED <<job, mwork, workq, share, sent>>,
         gWork'.header \in {NoHeader, HeaderOfJob}
  PROVE  BlockInv'
<1>1. Reach' = job.tip
  BY DEF Reach, HeaderOfJob
<1> QED
  BY <1>1, TipsType, CopiesSame, ReachGrows DEF BlockInv

LEMMA JobMoves ==
  ASSUME IInv, BlockInv, NEW new, SetJob(new), new.tip \in {job.tip, job.tip + 1}
  PROVE  BlockInv'
<1>1. job' = new /\ UNCHANGED <<gWork, mwork, workq, share, sent>>
  BY DEF SetJob, sharedVars, minerVars, workioVars
<1>2. Reach \in Int /\ Reach' \in Int /\ Reach <= Reach' /\ Reach' <= job'.tip
  BY <1>1, TipsType DEF Reach, BlockInv
<1> QED
  BY <1>1, <1>2, TipsType, CopiesSame, ReachGrows

LEMMA TakeCopies ==
  ASSUME IInv, BlockInv, NEW m \in Miners, TakeWork(m)
  PROVE  BlockInv'
<1>1. /\ UNCHANGED <<job, workq, share, sent>>
      /\ gWork'.header = gWork.header
  BY DEF TakeWork, WithTarget, poolVars, workioVars, historyVars, IInv, GWorkInv, Work
<1>2. \A k \in Miners : mwork'[k] \in {mwork[k], gWork'}
  BY DEF TakeWork, IInv, CopiesInv
<1>3. Copies' \subseteq Copies \cup {gWork'}
  BY <1>1, <1>2 DEF Copies
<1>4. Reach' = Reach
  BY <1>1 DEF Reach
<1>5. gWork.header.tip <= Reach
  BY TipsType DEF Reach, NoHeader
<1> QED
  BY <1>1, <1>3, <1>4, <1>5 DEF BlockInv

(* A copy goes from a miner through the queue to the workio thread.        *)
LEMMA CopyQueued ==
  ASSUME NEW w, NEW S, workq \in Seq(S), w \in S, workq' = Append(workq, w),
         w = None \/ \E m \in Miners : w = mwork[m],
         UNCHANGED <<mwork, share, sent>>
  PROVE  Copies' \subseteq Copies
<1>1. ASSUME NEW j \in DOMAIN workq' PROVE workq'[j] = w \/ \E k \in DOMAIN workq : workq'[j] = workq[k]
  BY <1>1, AppendProperties, LenProperties
<1> QED
  BY <1>1 DEF Copies

LEMMA CopyPopped ==
  ASSUME NEW S, workq \in Seq(S), workq # <<>>, workq' = Tail(workq),
         share' \in {share, Head(workq)}, UNCHANGED <<mwork, sent>>
  PROVE  Copies' \subseteq Copies
<1>1. ASSUME NEW j \in DOMAIN workq' PROVE \E k \in DOMAIN workq : workq'[j] = workq[k]
  BY <1>1, HeadTailProperties, LenProperties
<1>2. Head(workq) = workq[1] /\ 1 \in DOMAIN workq
  BY HeadTailProperties, LenProperties, EmptySeq
<1> QED
  BY <1>1, <1>2 DEF Copies

LEMMA BlockStep ==
  ASSUME IInv, BlockInv, [Next]_vars
  PROVE  BlockInv'
<1> DEFINE S == Usable(job.id, xn2) \cup {None}
<1>1. workq \in Seq(S) /\ None \in S /\ \A m \in Miners : mwork[m] \in S
  BY DEF IInv, CopiesInv
<1> HIDE DEF S
<1>2. ASSUME UNCHANGED <<job, gWork, mwork, workq, share, sent>>
      PROVE  BlockInv'
  BY <1>2, CopiesSame, ReachStays
<1>3. ASSUME Quiet PROVE BlockInv'
  BY <1>2, <1>3 DEF Quiet
<1>4. ASSUME NEW t \in Threads, BeginWork(t), UNCHANGED <<job, mwork, workq, share, sent>>
      PROVE  BlockInv'
  <2>1. gWork'.header = NoHeader
    BY <1>4 DEF BeginWork, IInv, GWorkInv, Work
  <2> QED
    BY <1>4, <2>1, ReachJob
<1>5. ASSUME NEW t \in Threads, GenHeader(t)
      PROVE  BlockInv'
  <2>1. gWork'.header = HeaderOfJob
    BY <1>5 DEF GenHeader, IInv, GWorkInv, Work
  <2> QED
    BY <1>5, <2>1, ReachJob DEF GenHeader, poolVars, minerVars, workioVars, historyVars
<1>6. CASE StratumStep
  <2>1. CASE LockForJob
    BY <1>4, <2>1, StratumIsNoMiner DEF LockForJob, poolVars, minerVars, workioVars, historyVars
  <2>2. CASE PublishJob
    <3>1. gWork'.header = gWork.header
      BY <2>2 DEF PublishJob, WithTarget, IInv, GWorkInv, Work
    <3> QED
      BY <2>2, <3>1, CopiesSame, ReachStays DEF PublishJob, poolVars, minerVars, workioVars, historyVars
  <2> QED
    BY <1>3, <1>5, <1>6, <2>1, <2>2, QuietStratum, StratumIsNoMiner DEF StratumStep, IInv
<1>7. CASE PoolStep
  <2>1. CASE HandshakeFails
    <3>1. UNCHANGED <<job, gWork, mwork, share, sent>> /\ workq' \in {workq, Append(workq, None)}
      BY <2>1 DEF HandshakeFails, sharedVars, minerVars, historyVars
    <3>2. CASE workq' = Append(workq, None)
      BY <1>1, <3>1, <3>2, CopyQueued, ReachStays
    <3> QED
      BY <1>2, <3>1, <3>2
  <2>2. CASE NewJob
    BY <2>2, JobMoves, JobType DEF NewJob, IInv
  <2>3. CASE ResentJob
    <3>1. [job EXCEPT !.ext = ext, !.diff = nextDiff].tip = job.tip
      BY <2>3 DEF ResentJob, IInv, PlainType, Job
    <3> QED
      BY <2>3, <3>1, JobMoves DEF ResentJob
  <2> QED
    BY <1>3, <1>7, <2>1, <2>2, <2>3, QuietStratum DEF PoolStep, IInv
<1>8. ASSUME NEW m \in Miners, MinerStep(m) \/ FindShare(m)
      PROVE  BlockInv'
  <2>1. CASE LockWork(m)
    <3>1. UNCHANGED <<job, mwork, workq, share, sent>>
      BY <2>1 DEF LockWork, poolVars, minerVars, workioVars, historyVars
    <3> QED
      BY <1>2, <1>4, <2>1, <3>1, StratumIsNoMiner DEF LockWork
  <2>2. CASE FindShare(m)
    <3>1. UNCHANGED <<job, gWork, mwork, share, sent>> /\ workq' = Append(workq, mwork[m])
      BY <2>2 DEF FindShare, WorkCopy, poolVars, sharedVars, minerVars
    <3> QED
      BY <1>1, <3>1, CopyQueued, ReachStays
  <2> QED
    BY <1>3, <1>5, <1>8, <2>1, <2>2, TakeCopies, QuietMiner, StratumIsNoMiner DEF MinerStep, IInv
<1>9. CASE Workio
  <2>1. CASE PopShare
    <3>1. UNCHANGED <<job, gWork, mwork, sent>> /\ workq # <<>> /\ workq' = Tail(workq)
          /\ share' \in {share, Head(workq)}
      BY <2>1 DEF PopShare, poolVars, sharedVars, minerVars, historyVars
    <3> QED
      BY <1>1, <3>1, CopyPopped, ReachStays
  <2>2. CASE TestShare \/ SendShare
    <3>1. UNCHANGED <<job, gWork, mwork, workq>> /\ share' \in {share, None}
          /\ sent' \in {sent, sent \cup {share}}
      BY <2>2 DEF TestShare, SendShare, poolVars, sharedVars, minerVars, historyVars
    <3>2. Copies' \subseteq Copies
      BY <3>1 DEF Copies
    <3> QED
      BY <3>1, <3>2, ReachStays
  <2> QED
    BY <1>3, <1>9, <2>1, <2>2, QuietRest DEF Workio
<1>10. CASE TimePasses \/ UNCHANGED vars
  BY <1>2, <1>3, <1>10, QuietRest DEF vars, poolVars, sharedVars, minerVars, workioVars, historyVars
<1> QED
  BY <1>6, <1>7, <1>8, <1>9, <1>10 DEF Next, Silent

LEMMA BlockInit == Init => BlockInv
<1> SUFFICES ASSUME Init PROVE BlockInv
  OBVIOUS
<1>1. Copies \subseteq {NoWork} /\ gWork = NoWork /\ job = NoJob
  BY EmptySeq DEF Init, Copies
<1> QED
  BY <1>1 DEF BlockInv, Reach, NoWork, NoHeader, NoJob

(* No share of the pool's block is thrown away, but while somebody writes  *)
(* a header into g_work (submit_upstream_work, std_build_block_header).    *)
THEOREM DropsSound == Safety => DropsOnlyStale
<1>1. IInv /\ BlockInv /\ [Next]_vars =>
        [wpc = "test" /\ wpc' = "pop" => share.header.tip # job.tip \/ gWork.header = NoHeader]_vars
  <2> SUFFICES ASSUME IInv, BlockInv, [Next]_vars, wpc = "test", wpc' = "pop",
                      share.header.tip = job.tip, gWork.header # NoHeader
               PROVE  FALSE
    OBVIOUS
  <2>1. TestShare
    BY DEF Next, Silent, vars, StratumStep, PoolStep, MinerStep, Workio, StopMiners, CheckNew,
       CheckOld, LockForJob, GenHeader, PublishJob, Announce, Subscribe, HandshakeFails,
       Authorized, Disconnect, NewJob, ResentJob, SetJob, SetDifficulty, SetExtranonce,
       WaitForDiff, LockWork, TakeWork, StartScan, EndScan, FindShare, PopShare, SendShare,
       SendFails, TimePasses, workioVars
  <2>2. share \in Copies
    BY DEF IInv, PlainType, Copies
  <2>3. share.header.tip = gWork.header.tip
    BY <2>2, TipsType DEF BlockInv, Reach
  <2> QED
    BY <2>1, <2>3 DEF TestShare, SameBlock
<1>2. IInv /\ BlockInv /\ [Next]_vars => BlockInv'
  BY BlockStep
<1> QED
  BY <1>1, <1>2, BlockInit, Invariance, PTL DEF Safety, DropsOnlyStale
=============================================================================
