----------------------------- MODULE WorkIOProofs -----------------------------
(* Proofs about WorkIO, for any number of miners, shares, failed calls and *)
(* blocks.                                                                 *)
EXTENDS WorkIO, SequenceTheorems, FiniteSetTheorems, TLAPS

IsGet(c) == c.op = "WC_GET_WORK"

(* A submit command names a share that was found.                          *)
WellFormed(c, n) == IF IsGet(c) THEN c.share = 0 ELSE c.share \in 1..n

(* What the workio thread is handling goes with where it is.               *)
CommandInv ==
  /\ Len(fate) = Len(shares)
  /\ \A i \in 1..Len(workq) : WellFormed(workq[i], Len(shares))
  /\ wpc \in {"get", "getinfo", "badinfo"} => cmd \in Cmd /\ IsGet(cmd) /\ cmd.share = 0
  /\ wpc \in {"check", "info", "send"} =>
       cmd \in Cmd /\ ~IsGet(cmd) /\ cmd.share \in 1..Len(shares)
  /\ wpc = "freeze" => cmd \in Cmd /\ WellFormed(cmd, Len(shares))
  /\ wpc \in {"pop", "dead"} => cmd = NoCmd

(* g_work_lock is held by the miner that is in get_work or has just left   *)
(* it, and by nobody else between two steps.                               *)
LockInv ==
  \A m \in Miners : mpc[m] \in {"waiting", "copying", "stored"} <=> gLock = m

(* There is one request, the lock holder's, and it is in one place.        *)
Requested == (\E i \in 1..Len(workq) : IsGet(workq[i])) \/ IsGet(cmd)
RequestInv ==
  /\ \A i \in 1..Len(workq) : IsGet(workq[i]) =>
       /\ mpc[workq[i].thr] = "waiting"
       /\ ~IsGet(cmd)
       /\ \A j \in 1..Len(workq) : IsGet(workq[j]) => i = j
  /\ IsGet(cmd) => mpc[cmd.thr] = "waiting"
  /\ \A m \in Miners : Len(inbox[m]) <= 1
  /\ \A m \in Miners : inbox[m] # <<>> => mpc[m] = "waiting" /\ ~Requested
  /\ \A m \in Miners : mpc[m] = "waiting" /\ wpc # "dead" =>
       Requested \/ inbox[m] # <<>>

(* A submit command in the queue or in hand is of an undecided share, and  *)
(* no two are of the same; an undecided share has one, or the thread ended.*)
Handled(s) == cmd.share = s \/ \E i \in 1..Len(workq) : workq[i].share = s
ShareInv ==
  /\ \A i \in 1..Len(workq) : ~IsGet(workq[i]) =>
       /\ fate[workq[i].share] = "queued"
       /\ workq[i].share # cmd.share
       /\ \A j \in 1..Len(workq) : workq[j].share = workq[i].share => i = j
  /\ cmd.share # 0 => fate[cmd.share] = "queued"
  /\ \A s \in 1..Len(fate) : fate[s] = "queued" /\ wpc # "dead" => Handled(s)

(* Once a miner has reset g_work_time after a share, no work comes to any  *)
(* miner before the share is decided: a request is behind it in the queue. *)
Before(s, i) == cmd.share = s \/ \E j \in 1..i - 1 : workq[j].share = s
NoWorkComing ==
  /\ ~fresh /\ ~IsGet(cmd)
  /\ \A m \in Miners : mpc[m] \notin {"copying", "stored"} /\ inbox[m] = <<>>
SettledAt(s) ==
  /\ mpc[shares[s].miner] # "scan"
  /\ mpc[shares[s].miner] # "expire" =>
       /\ NoWorkComing
       /\ \A i \in 1..Len(workq) : IsGet(workq[i]) /\ wpc # "dead" => Before(s, i)
SettledInv == \A s \in 1..Len(fate) : fate[s] = "queued" => SettledAt(s)

(* The answer on its way is not older than g_work, and nothing is newer    *)
(* than the chain.                                                         *)
Recent(t) == gWork.tip <= t /\ t <= chain
TipInv ==
  /\ gWork.tip <= chain
  /\ \A m \in Miners : mwork[m].tip <= gWork.tip
  /\ wpc = "getinfo" => Recent(reply.tip)
  /\ \A m \in Miners : inbox[m] # <<>> => Recent(Head(inbox[m]).tip)
  /\ \A m \in Miners : mpc[m] = "copying" => Recent(heap[m].tip)
  /\ \A s \in 1..Len(shares) : shares[s].tip <= gWork.tip
  /\ netBlocks <= chain

IInv == /\ TypeOK /\ CommandInv /\ LockInv /\ RequestInv /\ ShareInv
        /\ SettledInv /\ TipInv

-----------------------------------------------------------------------------
(* Types                                                                   *)

LEMMA WorkType == NoWork \in Work /\ \A w \in Work : w.tip \in Int /\ w.height \in Nat
BY DEF Work, NoWork

LEMMA CommandType ==
  \A m \in Miners : /\ GetCmd(m) \in Cmd /\ IsGet(GetCmd(m))
                    /\ \A s \in Nat : SubmitCmd(m, s) \in Cmd /\ ~IsGet(SubmitCmd(m, s))
BY DEF Cmd, GetCmd, SubmitCmd, IsGet

(* What get_mininginfo leaves behind.                                      *)
LEMMA InfoType ==
  ASSUME TypeOK, NEW out, MiningInfo(out)
  PROVE  /\ netBlocks' \in Nat /\ infoAllowed' \in BOOLEAN
         /\ \A w \in Work : WithHeight(w, out) \in Work
<1>1. chain \in Nat /\ netBlocks \in Nat /\ infoAllowed \in BOOLEAN
  BY DEF TypeOK
<1>2. \A w \in Work : [w EXCEPT !.height = chain + 1] \in Work
  BY <1>1 DEF Work
<1> QED
  BY <1>1, <1>2 DEF MiningInfo, WithHeight

LEMMA FailureType ==
  ASSUME TypeOK, NEW again \in {"get", "check"}, CallFailed(again)
  PROVE  failures' \in Nat /\ wpc' \in {again, "freeze"}
BY WorkIOAssumption DEF TypeOK, CallFailed

Fates == {"queued", "stale", "solved", "accepted", "rejected", "refused"}

(* Deciding a share that was found.                                        *)
LEMMA DecideType ==
  ASSUME TypeOK, NEW s \in 1..Len(fate), NEW what \in Fates, Decide(s, what)
  PROVE  /\ fate' \in Seq(Fates) /\ Len(fate') = Len(fate)
         /\ \A k \in 1..Len(fate) : fate'[k] = IF k = s THEN what ELSE fate[k]
<1>1. fate \in Seq(Fates)
  BY DEF TypeOK, Fates
<1> QED
  BY <1>1, ExceptSeq DEF Decide

LEMMA MinerTypes ==
  ASSUME TypeOK, NEW m \in Miners, Miner(m)
  PROVE  TypeOK'
<1> USE DEF nodeVars, sharedVars, workioVars, historyVars, Goto
<1>1. CASE RequestWork(m)
  <2>1. workq' \in Seq(Cmd)
    <3>1. workq \in Seq(Cmd) /\ GetCmd(m) \in Cmd
      BY CommandType DEF TypeOK
    <3> QED
      BY <1>1, <3>1, AppendProperties DEF RequestWork
  <2> QED
    BY <1>1, <2>1 DEF RequestWork, TypeOK
<1>2. CASE ReceiveWork(m)
  <2>1. Head(inbox[m]) \in Work /\ Tail(inbox[m]) \in Seq(Work)
    BY <1>2 DEF ReceiveWork, TypeOK
  <2> QED
    BY <1>2, <2>1 DEF ReceiveWork, TypeOK
<1>3. CASE StoreWork(m)
  BY <1>3, WorkType DEF StoreWork, TypeOK
<1>4. CASE TakeWork(m)
  BY <1>4 DEF TakeWork, TypeOK
<1>5. CASE ScanNothing(m)
  <2>1. spent' \in [Miners -> BOOLEAN]
    BY <1>5 DEF ScanNothing, TypeOK
  <2>2. mpc' \in [Miners -> {"top", "waiting", "copying", "stored", "scan", "expire", "gone"}]
    BY <1>5 DEF ScanNothing, TypeOK
  <2> QED
    BY <1>5, <2>1, <2>2 DEF ScanNothing, TypeOK
<1>6. CASE SubmitShare(m)
  <2>1. /\ Len(shares) + 1 \in Nat
        /\ [miner |-> m, tip |-> mwork[m].tip, height |-> mwork[m].height]
             \in [miner : Miners, tip : Int, height : Nat]
    BY WorkType DEF TypeOK
  <2>2. shares' \in Seq([miner : Miners, tip : Int, height : Nat])
    BY <1>6, <2>1 DEF SubmitShare, TypeOK
  <2>3. fate' \in Seq(Fates)
    <3>1. fate \in Seq(Fates) /\ "refused" \in Fates /\ "queued" \in Fates
      BY DEF TypeOK, Fates
    <3>2. fate' = Append(fate, "refused") \/ fate' = Append(fate, "queued")
      BY <1>6 DEF SubmitShare
    <3> QED
      BY <3>1, <3>2, AppendProperties
  <2>4. workq' \in Seq(Cmd)
    <3>1. workq \in Seq(Cmd) /\ SubmitCmd(m, Len(shares) + 1) \in Cmd
      BY <2>1, CommandType DEF TypeOK
    <3>2. workq' = workq \/ workq' = Append(workq, SubmitCmd(m, Len(shares) + 1))
      BY <1>6 DEF SubmitShare
    <3> QED
      BY <3>1, <3>2, AppendProperties
  <2> QED
    BY <1>6, <2>2, <2>3, <2>4 DEF SubmitShare, TypeOK, Fates
<1>7. CASE ExpireWork(m)
  BY <1>7 DEF ExpireWork, TypeOK
<1> QED
  BY <1>1, <1>2, <1>3, <1>4, <1>5, <1>6, <1>7 DEF Miner

(* What a share does to the chain.                                         *)
LEMMA SentBlock ==
  ASSUME NEW out, SendShare(out)
  PROVE  \/ chain' = chain /\ won' = won
         \/ chain' = chain + 1 /\ won' = won \cup {chain + 1}
<1>1. UNCHANGED nodeVars \/ \E formed : NodeTakes(cmd.share, formed)
  BY Zenon DEF SendShare
<1> QED
  BY <1>1 DEF NodeTakes, nodeVars

(* What the steps of a submit command have in common: it goes on, or its   *)
(* share is decided.                                                       *)
Submitting ==
  /\ ~exited /\ wpc \in {"check", "info", "send"}
  /\ \/ wpc' \in {"check", "info", "send", "freeze"} /\ UNCHANGED <<cmd, fate>>
     \/ /\ \E what \in Fates \ {"queued"} : Decide(cmd.share, what)
        /\ wpc' = "pop" /\ cmd' = NoCmd
  /\ chain' \in {chain, chain + 1} /\ netBlocks' \in {netBlocks, chain}
  /\ UNCHANGED <<gLock, gWork, fresh, mpc, mwork, spent, inbox, heap, workq, reply,
                 exited, shares>>

LEMMA SubmitSteps ==
  ASSUME CheckStale \/ CheckSolved \/ \E out \in CallOutcomes : SendShare(out)
  PROVE  Submitting
<1> USE DEF sharedVars, minerVars
<1>1. CASE CheckStale
  <2>1. \/ wpc' \in {"info", "send"} /\ UNCHANGED <<cmd, fate>>
        \/ Decide(cmd.share, "stale") /\ Finish
    BY <1>1 DEF CheckStale
  <2> QED
    BY <1>1, <2>1 DEF CheckStale, Submitting, Finish, Fates, nodeVars
<1>2. CASE CheckSolved
  <2>1. \/ wpc' = "send" /\ UNCHANGED <<cmd, fate>>
        \/ Decide(cmd.share, "solved") /\ Finish
    BY <1>2 DEF CheckSolved
  <2>2. netBlocks' \in {netBlocks, chain}
    BY <1>2 DEF CheckSolved, MiningInfo
  <2> QED
    BY <1>2, <2>1, <2>2 DEF CheckSolved, Submitting, Finish, Fates, nodeVars
<1>3. ASSUME NEW out \in CallOutcomes, SendShare(out)
      PROVE  Submitting
  <2>1. \/ Decide(cmd.share, "accepted") /\ Finish
        \/ Decide(cmd.share, "rejected") /\ Finish
        \/ CallFailed("check") /\ UNCHANGED <<cmd, fate>>
    BY <1>3 DEF SendShare
  <2> QED
    BY <1>3, <2>1, SentBlock DEF SendShare, Submitting, Finish, CallFailed, Fates
<1> QED
  BY <1>1, <1>2, <1>3

(* The same for a request, until its answer goes out.                      *)
Fetching ==
  /\ ~exited /\ wpc \in {"get", "badinfo"}
  /\ wpc' \in {"get", "getinfo", "badinfo", "freeze"}
  /\ wpc' = "getinfo" => reply'.tip = chain /\ (Gbt => reply'.height = chain + 1)
  /\ netBlocks' \in {netBlocks, chain}
  /\ UNCHANGED <<chain, gLock, gWork, fresh, mpc, mwork, spent, inbox, heap, workq,
                 cmd, exited, shares, fate>>

LEMMA FetchSteps ==
  ASSUME RejectWork \/ \E out \in CallOutcomes : CallGetWork(out)
  PROVE  Fetching
<1> USE DEF nodeVars, sharedVars, minerVars, historyVars
<1>1. CASE RejectWork
  BY <1>1 DEF RejectWork, MiningInfo, CallFailed, Fetching
<1>2. ASSUME NEW out \in CallOutcomes, CallGetWork(out)
      PROVE  Fetching
  <2>1. \/ reply' = Template /\ wpc' = "getinfo"
        \/ wpc' = "badinfo" \/ CallFailed("get")
    BY <1>2 DEF CallGetWork
  <2> QED
    BY <1>2, <2>1 DEF CallGetWork, CallFailed, Template, Fetching
<1> QED
  BY <1>1, <1>2

LEMMA SubmitFate ==
  ASSUME TypeOK, CommandInv, Submitting
  PROVE  /\ fate' \in Seq(Fates) /\ Len(fate') = Len(fate)
         /\ cmd' \in Cmd \cup {NoCmd}
<1>1. cmd.share \in 1..Len(fate) /\ cmd \in Cmd
  BY DEF Submitting, CommandInv
<1>2. CASE UNCHANGED <<cmd, fate>>
  BY <1>1, <1>2 DEF TypeOK, Fates
<1>3. CASE \E what \in Fates \ {"queued"} : Decide(cmd.share, what) /\ cmd' = NoCmd
  BY <1>1, <1>3, DecideType
<1> QED
  BY <1>2, <1>3 DEF Submitting

LEMMA WorkioTypes ==
  ASSUME TypeOK, CommandInv, Workio
  PROVE  TypeOK'
<1> USE DEF nodeVars, sharedVars, minerVars, historyVars
<1>1. CASE PopCommand
  <2>1. Head(workq) \in Cmd /\ Tail(workq) \in Seq(Cmd)
    BY <1>1 DEF PopCommand, TypeOK
  <2> QED
    BY <1>1, <2>1 DEF PopCommand, TypeOK
<1>2. CASE DeliverWork
  <2>1. PICK out \in InfoCalls :
          /\ MiningInfo(out)
          /\ inbox' = [inbox EXCEPT ![cmd.thr] = Append(@, WithHeight(reply, out))]
    BY <1>2 DEF DeliverWork
  <2>2. WithHeight(reply, out) \in Work /\ netBlocks' \in Nat /\ infoAllowed' \in BOOLEAN
    BY <2>1, InfoType DEF TypeOK
  <2>3. cmd.thr \in Miners
    BY <1>2 DEF DeliverWork, CommandInv, Cmd
  <2>4. inbox' \in [Miners -> Seq(Work)]
    BY <2>1, <2>2, <2>3 DEF TypeOK
  <2> QED
    BY <1>2, <2>2, <2>4, WorkType DEF DeliverWork, Finish, TypeOK
<1>3. CASE RejectWork
  <2>1. PICK out \in InfoCalls : MiningInfo(out) /\ reply' = WithHeight(reply, out)
    BY <1>3 DEF RejectWork
  <2>2. reply' \in Work /\ netBlocks' \in Nat /\ infoAllowed' \in BOOLEAN
    BY <2>1, InfoType DEF TypeOK
  <2>3. failures' \in Nat /\ wpc' \in {"get", "freeze"}
    BY <1>3, FailureType DEF RejectWork
  <2> QED
    BY <1>3, <2>2, <2>3 DEF RejectWork, TypeOK
<1>4. CASE CheckStale
  <2>1. fate' \in Seq(Fates) /\ cmd' \in Cmd \cup {NoCmd}
    BY <1>4, SubmitSteps, SubmitFate
  <2>2. wpc' \in {"info", "send", "pop"} /\ encoded' \in BOOLEAN /\ failures' \in Nat
    <3>1. \/ wpc' \in {"info", "send"} /\ encoded' = encoded /\ failures' = failures
          \/ wpc' = "pop" /\ encoded' = FALSE /\ failures' = 0
      BY <1>4 DEF CheckStale, Finish
    <3>2. encoded \in BOOLEAN /\ failures \in Nat
      BY DEF TypeOK
    <3>3. encoded' \in BOOLEAN
      BY <3>1, <3>2, Zenon
    <3> QED
      BY <3>1, <3>2, <3>3
  <2>3. UNCHANGED <<nodeVars, sharedVars, minerVars, workq, reply, netBlocks,
                    infoAllowed, exited, shares, faults>>
    BY <1>4 DEF CheckStale
  <2> QED
    BY <2>1, <2>2, <2>3 DEF TypeOK, Fates
<1>5. CASE CheckSolved
  <2>1. fate' \in Seq(Fates) /\ cmd' \in Cmd \cup {NoCmd}
    BY <1>5, SubmitSteps, SubmitFate
  <2>2. wpc' \in {"send", "pop"} /\ encoded' \in BOOLEAN /\ failures' \in Nat
    <3>1. \/ wpc' = "send" /\ encoded' = encoded /\ failures' = failures
          \/ wpc' = "pop" /\ encoded' = FALSE /\ failures' = 0
      BY <1>5 DEF CheckSolved, Finish
    <3>2. encoded \in BOOLEAN /\ failures \in Nat
      BY DEF TypeOK
    <3>3. encoded' \in BOOLEAN
      BY <3>1, <3>2, Zenon
    <3> QED
      BY <3>1, <3>2, <3>3
  <2>3. netBlocks' \in Nat /\ infoAllowed' \in BOOLEAN
    BY <1>5, InfoType DEF CheckSolved
  <2>4. UNCHANGED <<nodeVars, sharedVars, minerVars, workq, reply, exited,
                    shares, faults>>
    BY <1>5 DEF CheckSolved
  <2> QED
    BY <2>1, <2>2, <2>3, <2>4 DEF TypeOK, Fates
<1>6. CASE FreezeQueue
  BY <1>6 DEF FreezeQueue, TypeOK
<1>7. ASSUME NEW out \in CallOutcomes, CallGetWork(out)
      PROVE  TypeOK'
  <2>1. Template \in Work
    BY DEF TypeOK, Template, Work
  <2>2. reply' \in Work /\ faults' \in 0..MaxFaults
    BY <1>7, <2>1, WorkIOAssumption DEF CallGetWork, TypeOK
  <2>3. failures' \in Nat /\ wpc' \in {"get", "getinfo", "badinfo", "freeze"}
    BY <1>7, FailureType DEF CallGetWork, TypeOK
  <2> QED
    BY <1>7, <2>2, <2>3 DEF CallGetWork, TypeOK
<1>8. ASSUME NEW out \in CallOutcomes, SendShare(out)
      PROVE  TypeOK'
  <2>1. chain' \in Nat /\ won' \in SUBSET Nat
    <3>1. chain \in Nat /\ won \in SUBSET Nat
      BY DEF TypeOK
    <3>2. \/ chain' = chain /\ won' = won
          \/ chain' = chain + 1 /\ won' = won \cup {chain + 1}
      BY <1>8, SentBlock
    <3>3. CASE chain' = chain /\ won' = won
      BY <3>1, <3>3
    <3>4. CASE chain' = chain + 1 /\ won' = won \cup {chain + 1}
      BY <3>1, <3>4
    <3> QED
      BY <3>2, <3>3, <3>4
  <2>2. fate' \in Seq(Fates) /\ cmd' \in Cmd \cup {NoCmd}
    BY <1>8, SubmitSteps, SubmitFate
  <2>3. \/ Finish /\ UNCHANGED faults
        \/ faults < MaxFaults /\ faults' = faults + 1 /\ CallFailed("check")
    BY <1>8 DEF SendShare
  <2>4. failures' \in Nat /\ wpc' \in {"pop", "check", "freeze"}
    BY <2>3, FailureType DEF Finish
  <2>5. faults' \in 0..MaxFaults
    BY <2>3, WorkIOAssumption DEF TypeOK
  <2>6. encoded' \in BOOLEAN
    BY <1>8 DEF SendShare, Finish, TypeOK
  <2>7. UNCHANGED <<sharedVars, minerVars, workq, reply, netBlocks, infoAllowed,
                    exited, shares>>
    BY <1>8 DEF SendShare
  <2> QED
    BY <2>1, <2>2, <2>4, <2>5, <2>6, <2>7 DEF TypeOK, Fates
<1> QED
  BY <1>1, <1>2, <1>3, <1>4, <1>5, <1>6, <1>7, <1>8 DEF Workio

(* main, the other miners of the network, the clock.                       *)
Others == MainReturns \/ OthersFindBlock \/ TimePasses \/ UNCHANGED vars

LEMMA OtherTypes ==
  ASSUME TypeOK, Others
  PROVE  TypeOK'
<1> USE DEF nodeVars, sharedVars, minerVars, workioVars, historyVars
<1>1. CASE MainReturns
  BY <1>1 DEF MainReturns, TypeOK
<1>2. CASE OthersFindBlock
  BY <1>2 DEF OthersFindBlock, TypeOK
<1>3. CASE TimePasses
  BY <1>3 DEF TimePasses, TypeOK
<1>4. CASE UNCHANGED vars
  BY <1>4 DEF vars, TypeOK
<1> QED
  BY <1>1, <1>2, <1>3, <1>4 DEF Others

(* Type invariant and what the workio thread handles.                      *)
LEMMA TypeStep ==
  ASSUME TypeOK, CommandInv, [Next]_vars
  PROVE  TypeOK'
BY MinerTypes, WorkioTypes, OtherTypes DEF Next, Others, Terminated

(* A step of the system, by what it does to the commands.                  *)
LEMMA StepCases ==
  ASSUME [Next]_vars
  PROVE  \/ \E m \in Miners : Miner(m)
         \/ PopCommand \/ DeliverWork \/ Fetching \/ Submitting \/ FreezeQueue
         \/ Others
BY FetchSteps, SubmitSteps DEF Next, Workio, Others, Terminated

(* The queue after a push and after a pop.                                 *)
LEMMA Pushed ==
  ASSUME TypeOK, NEW c \in Cmd, workq' = Append(workq, c)
  PROVE  /\ Len(workq) \in Nat /\ Len(workq') = Len(workq) + 1
         /\ \A i \in 1..Len(workq) : workq'[i] = workq[i]
         /\ workq'[Len(workq) + 1] = c
<1>1. workq \in Seq(Cmd)
  BY DEF TypeOK
<1> QED
  BY <1>1, AppendProperties, LenProperties

LEMMA Popped ==
  ASSUME TypeOK, PopCommand
  PROVE  /\ Len(workq) \in Nat /\ Len(workq) >= 1 /\ Len(workq') = Len(workq) - 1
         /\ cmd' = workq[1] /\ workq[1] \in Cmd
         /\ \A i \in 1..Len(workq') : workq'[i] = workq[i + 1] /\ i + 1 \in 2..Len(workq)
<1>1. workq \in Seq(Cmd) /\ workq # <<>>
  BY DEF TypeOK, PopCommand
<1>2. /\ Len(workq) \in Nat /\ Len(workq) >= 1 /\ Head(workq) = workq[1]
      /\ Head(workq) \in Cmd /\ Len(Tail(workq)) = Len(workq) - 1
      /\ \A i \in 1..Len(Tail(workq)) : Tail(workq)[i] = workq[i + 1]
  BY <1>1, HeadTailProperties, LenProperties
<1> QED
  BY <1>2 DEF PopCommand

LEMMA CommandStep ==
  ASSUME TypeOK, CommandInv, [Next]_vars
  PROVE  CommandInv'
<1> USE DEF nodeVars, sharedVars, minerVars, workioVars, historyVars
<1>0. Len(workq) \in Nat /\ Len(fate) \in Nat /\ Len(shares) \in Nat
  BY LenProperties DEF TypeOK
<1>1. ASSUME UNCHANGED <<workq, wpc, cmd, shares, fate>>
      PROVE  CommandInv'
  BY <1>1 DEF CommandInv, WellFormed
<1>2. ASSUME NEW m \in Miners, Miner(m)
      PROVE  CommandInv'
  <2>1. CASE RequestWork(m)
    <3>1. CASE wpc = "dead"
      BY <1>1, <2>1, <3>1 DEF RequestWork
    <3>2. CASE wpc # "dead"
      <4>1. workq' = Append(workq, GetCmd(m)) /\ UNCHANGED <<wpc, cmd, shares, fate>>
        BY <2>1, <3>2 DEF RequestWork
      <4>2. GetCmd(m) \in Cmd /\ WellFormed(GetCmd(m), Len(shares))
        BY CommandType DEF WellFormed, GetCmd
      <4>3. \A i \in 1..Len(workq') : WellFormed(workq'[i], Len(shares))
        BY <4>1, <4>2, Pushed DEF CommandInv
      <4> QED
        BY <4>1, <4>3 DEF CommandInv
    <3> QED
      BY <3>1, <3>2
  <2>2. CASE SubmitShare(m)
    <3>1. /\ Len(shares') = Len(shares) + 1 /\ Len(fate') = Len(fate) + 1
          /\ UNCHANGED <<wpc, cmd>>
      BY <2>2, <1>0, AppendProperties DEF SubmitShare, TypeOK
    <3>2. \A c : WellFormed(c, Len(shares)) => WellFormed(c, Len(shares'))
      BY <1>0, <3>1 DEF WellFormed
    <3>3. \A i \in 1..Len(workq') : WellFormed(workq'[i], Len(shares'))
      <4>1. /\ SubmitCmd(m, Len(shares) + 1) \in Cmd
            /\ WellFormed(SubmitCmd(m, Len(shares) + 1), Len(shares'))
        BY <1>0, <3>1, CommandType DEF WellFormed, SubmitCmd
      <4>2. CASE workq' = workq
        BY <4>2, <3>2 DEF CommandInv
      <4>3. CASE workq' = Append(workq, SubmitCmd(m, Len(shares) + 1))
        BY <4>3, <4>1, <3>2, Pushed DEF CommandInv
      <4> QED
        BY <2>2, <4>2, <4>3 DEF SubmitShare
    <3> QED
      BY <1>0, <3>1, <3>2, <3>3 DEF CommandInv
  <2>3. CASE ReceiveWork(m) \/ StoreWork(m) \/ TakeWork(m) \/ ScanNothing(m) \/ ExpireWork(m)
    BY <1>1, <2>3 DEF ReceiveWork, StoreWork, TakeWork, ScanNothing, ExpireWork
  <2> QED
    BY <1>2, <2>1, <2>2, <2>3 DEF Miner
<1>3. CASE PopCommand
  <2>1. WellFormed(workq[1], Len(shares)) /\ UNCHANGED <<shares, fate>>
    BY <1>3, Popped DEF PopCommand, CommandInv
  <2>2. \A i \in 1..Len(workq') : WellFormed(workq'[i], Len(shares))
    BY <1>3, Popped DEF CommandInv
  <2>3. wpc' = IF IsGet(cmd') THEN "get" ELSE "check"
    BY <1>3 DEF PopCommand, IsGet
  <2> QED
    BY <1>3, Popped, <2>1, <2>2, <2>3 DEF CommandInv, WellFormed
<1>4. CASE DeliverWork
  BY <1>4 DEF DeliverWork, Finish, CommandInv
<1>5. CASE Fetching
  BY <1>5 DEF Fetching, CommandInv, WellFormed
<1>6. CASE Submitting
  BY <1>6, SubmitFate DEF Submitting, CommandInv, WellFormed
<1>7. CASE FreezeQueue
  BY <1>7 DEF FreezeQueue, CommandInv
<1>8. CASE Others
  <2>1. CASE MainReturns
    BY <2>1, <1>0 DEF MainReturns, CommandInv
  <2>2. CASE OthersFindBlock \/ TimePasses \/ UNCHANGED vars
    BY <1>1, <2>2 DEF OthersFindBlock, TimePasses, vars
  <2> QED
    BY <1>8, <2>1, <2>2 DEF Others
<1> QED
  BY StepCases, <1>2, <1>3, <1>4, <1>5, <1>6, <1>7, <1>8

(* The lock and the place of the request.                                  *)
LEMMA CommandKind == ASSUME TypeOK
                     PROVE  /\ IsGet(cmd) => cmd \in Cmd /\ cmd.thr \in Miners
                            /\ \A i \in 1..Len(workq) : workq[i] \in Cmd /\ workq[i].thr \in Miners
<1>1. workq \in Seq(Cmd) /\ (cmd \in Cmd \/ cmd = NoCmd) /\ ~IsGet(NoCmd)
  BY DEF TypeOK, IsGet, NoCmd
<1>2. \A c \in Cmd : c.thr \in Miners
  BY DEF Cmd
<1> QED
  BY <1>1, <1>2

LEMMA LockStep ==
  ASSUME TypeOK, LockInv, [Next]_vars
  PROVE  LockInv'
<1> USE DEF nodeVars, sharedVars, minerVars, workioVars, historyVars, Goto
<1>1. ASSUME UNCHANGED <<gLock, mpc>>
      PROVE  LockInv'
  BY <1>1 DEF LockInv
<1>2. ASSUME NEW m \in Miners, Miner(m)
      PROVE  LockInv'
  <2>0. m # None /\ mpc \in [Miners -> {"top", "waiting", "copying", "stored", "scan",
                                        "expire", "gone"}]
    BY WorkIOAssumption DEF TypeOK
  <2>1. CASE RequestWork(m)
    BY <2>0, <2>1, WorkIOAssumption DEF RequestWork, LockInv
  <2>2. CASE TakeWork(m)
    <3>1. gLock' = None /\ mpc' = [mpc EXCEPT ![m] = "scan"] /\ (gLock = None \/ mpc[m] = "stored")
      BY <2>2 DEF TakeWork
    <3> QED
      BY <2>0, <3>1, WorkIOAssumption DEF LockInv
  <2>3. CASE ReceiveWork(m) \/ StoreWork(m)
    BY <2>0, <2>3 DEF ReceiveWork, StoreWork, LockInv
  <2>4. CASE ScanNothing(m) \/ ExpireWork(m)
    BY <2>0, <2>4 DEF ScanNothing, ExpireWork, LockInv
  <2>5. CASE SubmitShare(m)
    <3>1. /\ UNCHANGED gLock /\ mpc[m] = "scan"
          /\ mpc' = [mpc EXCEPT ![m] = "gone"] \/ mpc' = [mpc EXCEPT ![m] = "expire"]
      BY <2>5 DEF SubmitShare
    <3> QED
      BY <2>0, <3>1 DEF LockInv
  <2> QED
    BY <1>2, <2>1, <2>2, <2>3, <2>4, <2>5 DEF Miner
<1>3. CASE PopCommand \/ DeliverWork \/ FreezeQueue
  BY <1>1, <1>3 DEF PopCommand, DeliverWork, FreezeQueue
<1>4. CASE Fetching \/ Submitting
  BY <1>1, <1>4 DEF Fetching, Submitting
<1>5. CASE Others
  BY <1>1, <1>5 DEF Others, MainReturns, OthersFindBlock, TimePasses, vars
<1> QED
  BY StepCases, <1>2, <1>3, <1>4, <1>5

LEMMA RequestStep ==
  ASSUME TypeOK, CommandInv, LockInv, RequestInv, [Next]_vars
  PROVE  RequestInv'
<1> USE DEF nodeVars, sharedVars, minerVars, workioVars, historyVars, Goto
<1>0. /\ Len(workq) \in Nat
      /\ mpc \in [Miners -> {"top", "waiting", "copying", "stored", "scan", "expire", "gone"}]
      /\ \A n \in Miners : inbox[n] \in Seq(Work) /\ Len(inbox[n]) \in Nat
  BY LenProperties DEF TypeOK
<1>1. ASSUME UNCHANGED <<workq, cmd, mpc, inbox>>, wpc' # "dead" => wpc # "dead"
      PROVE  RequestInv'
  BY <1>1 DEF RequestInv, Requested
<1>2. ASSUME NEW m \in Miners, Miner(m)
      PROVE  RequestInv'
  <2>1. CASE RequestWork(m)
    <3>1. CASE wpc = "dead"
      <4>1. mpc' = [mpc EXCEPT ![m] = "gone"] /\ mpc[m] = "top" /\ wpc' = "dead"
            /\ UNCHANGED <<workq, cmd, inbox>>
        BY <2>1, <3>1 DEF RequestWork
      <4>2. \A n \in Miners : mpc[n] = "waiting" => mpc'[n] = "waiting"
        BY <1>0, <4>1
      <4> QED
        BY <4>1, <4>2, CommandKind DEF RequestInv, Requested
    <3>2. CASE wpc # "dead"
      <4>1. /\ workq' = Append(workq, GetCmd(m)) /\ gLock = None
            /\ mpc' = [mpc EXCEPT ![m] = "waiting"] /\ UNCHANGED <<wpc, cmd, inbox>>
        BY <2>1, <3>2 DEF RequestWork
      <4>2. \A n \in Miners : mpc[n] # "waiting" /\ inbox[n] = <<>>
        BY <4>1, WorkIOAssumption DEF LockInv, RequestInv
      <4>3. ~IsGet(cmd) /\ \A i \in 1..Len(workq) : ~IsGet(workq[i])
        BY <4>2, CommandKind DEF RequestInv
      <4>4. GetCmd(m) \in Cmd /\ IsGet(GetCmd(m)) /\ GetCmd(m).thr = m
        BY CommandType DEF GetCmd
      <4>5. \A i \in 1..Len(workq') : IsGet(workq'[i]) <=> i = Len(workq) + 1
        BY <1>0, <4>1, <4>3, <4>4, Pushed
      <4>6. Len(workq) + 1 \in 1..Len(workq') /\ workq'[Len(workq) + 1] = GetCmd(m)
        BY <4>1, <4>4, Pushed
      <4>7. Requested'
        BY <4>5, <4>6 DEF Requested
      <4>8. mpc'[m] = "waiting" /\ \A n \in Miners : inbox'[n] = <<>>
        BY <1>0, <4>1, <4>2
      <4> QED
        BY <1>0, <4>1, <4>3, <4>4, <4>5, <4>6, <4>7, <4>8 DEF RequestInv
    <3> QED
      BY <3>1, <3>2
  <2>2. CASE ReceiveWork(m)
    <3>1. /\ mpc[m] = "waiting" /\ inbox[m] # <<>> /\ mpc' = [mpc EXCEPT ![m] = "copying"]
          /\ inbox' = [inbox EXCEPT ![m] = Tail(inbox[m])] /\ UNCHANGED <<workq, cmd, wpc>>
      BY <2>2 DEF ReceiveWork
    <3>2. ~Requested /\ Len(inbox[m]) <= 1
      BY <3>1 DEF RequestInv
    <3>3. \A n \in Miners : n # m => mpc[n] # "waiting" /\ inbox[n] = <<>>
      BY <3>1 DEF LockInv, RequestInv
    <3>4. Len(Tail(inbox[m])) = 0 /\ Tail(inbox[m]) = <<>>
      <4>1. inbox[m] \in Seq(Work) /\ Len(inbox[m]) \in Nat /\ Len(inbox[m]) # 0
        BY <1>0, <3>1, EmptySeq
      <4>2. Len(Tail(inbox[m])) = Len(inbox[m]) - 1 /\ Tail(inbox[m]) \in Seq(Work)
        BY <4>1, <3>1, HeadTailProperties
      <4>3. Len(Tail(inbox[m])) = 0
        <5>1. /\ Len(inbox[m]) \in Nat /\ Len(inbox[m]) # 0 /\ Len(inbox[m]) <= 1
              /\ Len(Tail(inbox[m])) = Len(inbox[m]) - 1
          BY <4>1, <4>2, <3>2
        <5> DEFINE l == Len(inbox[m])
                   t == Len(Tail(inbox[m]))
        <5>2. l \in Nat /\ l # 0 /\ l <= 1 /\ t = l - 1
          BY <5>1
        <5> HIDE DEF l, t
        <5>3. t = 0
          BY <5>2
        <5> QED
          BY <5>3 DEF t
      <4> QED
        BY <4>2, <4>3, EmptySeq
    <3>5. \A n \in Miners : mpc'[n] # "waiting" /\ inbox'[n] = <<>> /\ Len(inbox'[n]) = 0
      BY <1>0, <3>1, <3>3, <3>4 DEF TypeOK
    <3> QED
      BY <3>1, <3>2, <3>5 DEF RequestInv, Requested
  <2>3. CASE StoreWork(m) \/ TakeWork(m) \/ ScanNothing(m) \/ ExpireWork(m)
    <3>1. /\ UNCHANGED <<workq, cmd, inbox, wpc>> /\ mpc[m] # "waiting"
          /\ \E pc \in {"stored", "scan", "top"} : mpc' = [mpc EXCEPT ![m] = pc]
      BY <2>3 DEF StoreWork, TakeWork, ScanNothing, ExpireWork
    <3>2. \A n \in Miners : mpc'[n] = "waiting" <=> mpc[n] = "waiting"
      BY <1>0, <3>1
    <3> QED
      BY <3>1, <3>2, CommandKind DEF RequestInv, Requested
  <2>4. CASE SubmitShare(m)
    <3>1. /\ UNCHANGED <<cmd, inbox, wpc>> /\ mpc[m] # "waiting"
          /\ \E pc \in {"gone", "expire"} : mpc' = [mpc EXCEPT ![m] = pc]
          /\ workq' = workq \/ workq' = Append(workq, SubmitCmd(m, Len(shares) + 1))
      BY <2>4 DEF SubmitShare
    <3>2. \A n \in Miners : mpc'[n] = "waiting" <=> mpc[n] = "waiting"
      BY <1>0, <3>1
    <3>3. /\ \A i \in 1..Len(workq') :
               IsGet(workq'[i]) => i \in 1..Len(workq) /\ workq'[i] = workq[i]
          /\ \A i \in 1..Len(workq) : i \in 1..Len(workq') /\ workq'[i] = workq[i]
      <4>1. SubmitCmd(m, Len(shares) + 1) \in Cmd /\ ~IsGet(SubmitCmd(m, Len(shares) + 1))
        BY CommandType, LenProperties DEF TypeOK
      <4>2. CASE workq' = workq
        BY <4>2
      <4>3. CASE workq' = Append(workq, SubmitCmd(m, Len(shares) + 1))
        BY <4>1, <4>3, Pushed
      <4> QED
        BY <3>1, <4>2, <4>3
    <3>4. Requested' <=> Requested
      BY <3>1, <3>3 DEF Requested
    <3> QED
      BY <3>1, <3>2, <3>3, <3>4, CommandKind DEF RequestInv
  <2> QED
    BY <1>2, <2>1, <2>2, <2>3, <2>4 DEF Miner
<1>3. CASE PopCommand
  <2>1. /\ ~IsGet(cmd) /\ wpc = "pop" /\ UNCHANGED <<mpc, inbox>>
    BY <1>3 DEF PopCommand, CommandInv, IsGet, NoCmd
  <2>2. Requested' <=> Requested
    <3>1. ASSUME NEW i \in 1..Len(workq), IsGet(workq[i])
          PROVE  Requested'
      <4>1. CASE i = 1
        BY <1>3, <3>1, <4>1, Popped DEF Requested
      <4>2. CASE i # 1
        <5>1. i - 1 \in 1..Len(workq') /\ workq'[i - 1] = workq[i]
          BY <1>3, <4>2, Popped
        <5> QED
          BY <3>1, <5>1 DEF Requested
      <4> QED
        BY <4>1, <4>2
    <3>2. Requested' => \E i \in 1..Len(workq) : IsGet(workq[i])
      BY <1>3, Popped DEF Requested
    <3> QED
      BY <2>1, <3>1, <3>2 DEF Requested
  <2>3. \A i \in 1..Len(workq') : IsGet(workq'[i]) =>
          /\ mpc[workq'[i].thr] = "waiting" /\ ~IsGet(cmd')
          /\ \A j \in 1..Len(workq') : IsGet(workq'[j]) => i = j
    BY <1>3, Popped DEF RequestInv
  <2>4. IsGet(cmd') => mpc[cmd'.thr] = "waiting"
    BY <1>3, Popped DEF RequestInv
  <2> QED
    BY <2>1, <2>2, <2>3, <2>4 DEF RequestInv
<1>4. CASE DeliverWork
  <2>1. /\ IsGet(cmd) /\ cmd.thr \in Miners /\ UNCHANGED <<workq, mpc>>
        /\ cmd' = NoCmd /\ ~IsGet(cmd') /\ wpc' = "pop"
    BY <1>4, CommandKind DEF DeliverWork, Finish, CommandInv, IsGet, NoCmd
  <2>2. PICK w : inbox' = [inbox EXCEPT ![cmd.thr] = Append(inbox[cmd.thr], w)] /\ w \in Work
    <3>1. PICK out \in InfoCalls :
            /\ MiningInfo(out)
            /\ inbox' = [inbox EXCEPT ![cmd.thr] = Append(@, WithHeight(reply, out))]
      BY <1>4 DEF DeliverWork
    <3>2. WithHeight(reply, out) \in Work
      BY <3>1, InfoType DEF TypeOK
    <3> QED
      BY <3>1, <3>2
  <2>3. mpc[cmd.thr] = "waiting" /\ \A i \in 1..Len(workq) : ~IsGet(workq[i])
    BY <2>1 DEF RequestInv
  <2>4. \A n \in Miners : inbox[n] = <<>> /\ (n # cmd.thr => mpc[n] # "waiting")
    BY <2>1, <2>3 DEF RequestInv, Requested, LockInv
  <2>5. Len(Append(inbox[cmd.thr], w)) = 1 /\ Append(inbox[cmd.thr], w) # <<>>
    BY <1>0, <2>1, <2>2, <2>4, AppendProperties, EmptySeq
  <2>6. \A n \in Miners : IF n = cmd.thr THEN Len(inbox'[n]) = 1 /\ inbox'[n] # <<>>
                                         ELSE inbox'[n] = <<>> /\ Len(inbox'[n]) = 0
    BY <2>1, <2>2, <2>4, <2>5 DEF TypeOK
  <2>7. ~Requested'
    BY <2>1, <2>3 DEF Requested
  <2>8. \A n \in Miners : /\ Len(inbox'[n]) <= 1
                          /\ inbox'[n] # <<>> <=> n = cmd.thr
                          /\ mpc'[n] = "waiting" <=> n = cmd.thr
    <3>1. mpc' = mpc
      BY <2>1
    <3> SUFFICES ASSUME NEW n \in Miners
                 PROVE  /\ Len(inbox'[n]) <= 1
                        /\ inbox'[n] # <<>> <=> n = cmd.thr
                        /\ mpc'[n] = "waiting" <=> n = cmd.thr
      OBVIOUS
    <3>2. CASE n = cmd.thr
      <4>1. Len(inbox'[n]) = 1 /\ inbox'[n] # <<>> /\ mpc'[n] = "waiting"
        BY <2>3, <2>6, <3>1, <3>2
      <4> QED
        BY <3>2, <4>1
    <3>3. CASE n # cmd.thr
      <4>1. Len(inbox'[n]) = 0 /\ inbox'[n] = <<>> /\ mpc'[n] # "waiting"
        BY <2>4, <2>6, <3>1, <3>3
      <4> QED
        BY <3>3, <4>1
    <3> QED
      BY <3>2, <3>3
  <2>9. \A i \in 1..Len(workq') : ~IsGet(workq'[i])
    BY <2>1, <2>3
  <2> QED
    BY <2>1, <2>7, <2>8, <2>9 DEF RequestInv
<1>5. CASE Fetching
  BY <1>1, <1>5 DEF Fetching
<1>6. CASE Submitting
  <2>1. /\ ~IsGet(cmd) /\ ~IsGet(cmd') /\ UNCHANGED <<workq, mpc, inbox>> /\ wpc # "dead"
    BY <1>6 DEF Submitting, CommandInv, IsGet, NoCmd
  <2> QED
    BY <2>1 DEF RequestInv, Requested
<1>7. CASE FreezeQueue
  <2>1. ~IsGet(cmd') /\ wpc' = "dead" /\ UNCHANGED <<workq, mpc, inbox>>
    BY <1>7 DEF FreezeQueue, IsGet, NoCmd
  <2> QED
    BY <2>1 DEF RequestInv, Requested
<1>8. CASE Others
  BY <1>1, <1>8 DEF Others, MainReturns, OthersFindBlock, TimePasses, vars
<1> QED
  BY StepCases, <1>2, <1>3, <1>4, <1>5, <1>6, <1>7, <1>8

(* Commands and shares: a request carries no share, a submission one that  *)
(* was found.                                                              *)
LEMMA CommandShare ==
  ASSUME TypeOK, CommandInv
  PROVE  /\ Len(shares) \in Nat /\ Len(fate) = Len(shares) /\ Len(workq) \in Nat
         /\ cmd.share \in 0..Len(shares)
         /\ \A i \in 1..Len(workq) : /\ workq[i].share \in 0..Len(shares)
                                     /\ IsGet(workq[i]) <=> workq[i].share = 0
<1>1. Len(shares) \in Nat /\ Len(fate) = Len(shares) /\ Len(workq) \in Nat
  BY LenProperties DEF TypeOK, CommandInv
<1>2. NoCmd.share = 0
  BY DEF NoCmd
<1>3. cmd.share = 0 \/ cmd.share \in 1..Len(shares)
  <2>1. wpc \in {"pop", "get", "getinfo", "badinfo", "check", "info", "send", "freeze", "dead"}
    BY DEF TypeOK
  <2> QED
    BY <1>2, <2>1 DEF CommandInv, WellFormed
<1>4. \A i \in 1..Len(workq) : IF IsGet(workq[i]) THEN workq[i].share = 0
                                ELSE workq[i].share \in 1..Len(shares)
  BY DEF CommandInv, WellFormed
<1> QED
  BY <1>1, <1>3, <1>4

(* The shares and what became of them, after one more was found.           *)
LEMMA Found ==
  ASSUME TypeOK, CommandInv, NEW m \in Miners, SubmitShare(m)
  PROVE  /\ Len(shares') = Len(shares) + 1 /\ Len(fate') = Len(fate) + 1
         /\ \A s \in 1..Len(shares) : shares'[s] = shares[s] /\ fate'[s] = fate[s]
         /\ shares'[Len(shares) + 1].miner = m
         /\ shares'[Len(shares) + 1].tip = mwork[m].tip
         /\ shares'[Len(shares) + 1].height = mwork[m].height
         /\ fate'[Len(shares) + 1] = IF wpc = "dead" THEN "refused" ELSE "queued"
<1>1. PICK x : shares' = Append(shares, x) /\ x.miner = m /\ x.tip = mwork[m].tip
               /\ x.height = mwork[m].height /\ x \in [miner : Miners, tip : Int, height : Nat]
  <2>1. [miner |-> m, tip |-> mwork[m].tip, height |-> mwork[m].height]
          \in [miner : Miners, tip : Int, height : Nat]
    BY WorkType DEF TypeOK
  <2> QED
    BY <2>1 DEF SubmitShare
<1>2. PICK f : fate' = Append(fate, f) /\ f = (IF wpc = "dead" THEN "refused" ELSE "queued")
               /\ f \in Fates
  BY DEF SubmitShare, Fates
<1>3. shares \in Seq([miner : Miners, tip : Int, height : Nat]) /\ fate \in Seq(Fates)
  BY DEF TypeOK, Fates
<1>4. Len(shares) = Len(fate)
  BY DEF CommandInv
<1>5. /\ Len(shares') = Len(shares) + 1
      /\ \A s \in 1..Len(shares) : shares'[s] = shares[s]
      /\ shares'[Len(shares) + 1] = x
  BY <1>1, <1>3, AppendProperties
<1>6. /\ Len(fate') = Len(fate) + 1
      /\ \A s \in 1..Len(fate) : fate'[s] = fate[s]
      /\ fate'[Len(fate) + 1] = f
  BY <1>2, <1>3, AppendProperties
<1> QED
  BY <1>1, <1>2, <1>4, <1>5, <1>6

(* A share in hand goes on, or is decided and leaves the thread's hands.   *)
LEMMA Decided ==
  ASSUME TypeOK, CommandInv, Submitting, cmd' # cmd \/ fate' # fate
  PROVE  /\ cmd' = NoCmd /\ cmd'.share = 0 /\ cmd.share \in 1..Len(shares)
         /\ fate'[cmd.share] # "queued"
         /\ \A s \in 1..Len(shares) : s # cmd.share => fate'[s] = fate[s]
<1>1. PICK what \in Fates \ {"queued"} : Decide(cmd.share, what) /\ cmd' = NoCmd
  BY DEF Submitting
<1>2. cmd.share \in 1..Len(fate) /\ Len(fate) = Len(shares)
  BY DEF Submitting, CommandInv
<1> QED
  BY <1>1, <1>2, DecideType DEF NoCmd

LEMMA ShareStep ==
  ASSUME TypeOK, CommandInv, RequestInv, ShareInv, [Next]_vars
  PROVE  ShareInv'
<1> USE DEF nodeVars, sharedVars, minerVars, workioVars, historyVars, Goto
<1>1. ASSUME UNCHANGED <<workq, cmd, fate>>, wpc' # "dead" => wpc # "dead"
      PROVE  ShareInv'
  BY <1>1 DEF ShareInv, Handled
<1>2. ASSUME NEW m \in Miners, Miner(m)
      PROVE  ShareInv'
  <2>1. CASE RequestWork(m)
    <3>1. CASE wpc = "dead"
      BY <1>1, <2>1, <3>1 DEF RequestWork
    <3>2. CASE wpc # "dead"
      <4>1. workq' = Append(workq, GetCmd(m)) /\ UNCHANGED <<wpc, cmd, fate>>
        BY <2>1, <3>2 DEF RequestWork
      <4>2. GetCmd(m) \in Cmd /\ IsGet(GetCmd(m)) /\ GetCmd(m).share = 0
        BY CommandType DEF GetCmd
      <4>3. /\ Len(workq') = Len(workq) + 1 /\ workq'[Len(workq) + 1] = GetCmd(m)
            /\ \A i \in 1..Len(workq) : workq'[i] = workq[i]
        BY <4>1, <4>2, Pushed
      <4>4. \A i \in 1..Len(workq') : ~IsGet(workq'[i]) => i \in 1..Len(workq)
        BY <4>2, <4>3, CommandShare
      <4>5. \A s : Handled(s) => Handled(s)'
        BY <4>1, <4>3, CommandShare DEF Handled
      <4>6. \A i, j \in 1..Len(workq') :
              ~IsGet(workq'[i]) /\ workq'[j].share = workq'[i].share => i = j
        <5> SUFFICES ASSUME NEW i \in 1..Len(workq'), NEW j \in 1..Len(workq'),
                            ~IsGet(workq'[i]), workq'[j].share = workq'[i].share
                     PROVE  i = j
          OBVIOUS
        <5>1. i \in 1..Len(workq) /\ workq'[i] = workq[i] /\ workq[i].share # 0
          BY <4>3, <4>4, CommandShare
        <5>2. j \in 1..Len(workq)
          BY <4>2, <4>3, <5>1, CommandShare
        <5> QED
          BY <4>3, <5>1, <5>2 DEF ShareInv
      <4> QED
        BY <4>1, <4>3, <4>4, <4>5, <4>6 DEF ShareInv
    <3> QED
      BY <3>1, <3>2
  <2>2. CASE SubmitShare(m)
    <3>1. UNCHANGED <<wpc, cmd>>
      BY <2>2 DEF SubmitShare
    <3>2. cmd.share # 0 => fate'[cmd.share] = "queued"
      BY <2>2, Found, CommandShare DEF ShareInv
    <3>3. CASE wpc = "dead"
      <4>1. workq' = workq
        BY <2>2, <3>3 DEF SubmitShare
      <4>2. \A i \in 1..Len(workq) : ~IsGet(workq[i]) => fate'[workq[i].share] = "queued"
        BY <2>2, Found, CommandShare DEF ShareInv
      <4> QED
        BY <3>1, <3>2, <3>3, <4>1, <4>2 DEF ShareInv
    <3>4. CASE wpc # "dead"
      <4> DEFINE n == Len(shares) + 1
      <4>1. workq' = Append(workq, SubmitCmd(m, n)) /\ n \in Nat
        BY <2>2, <3>4, CommandShare DEF SubmitShare
      <4>2. SubmitCmd(m, n) \in Cmd /\ SubmitCmd(m, n).share = n
        BY <4>1, CommandType DEF SubmitCmd
      <4>3. /\ Len(workq') = Len(workq) + 1 /\ workq'[Len(workq) + 1].share = n
            /\ \A i \in 1..Len(workq) : workq'[i] = workq[i]
        BY <4>1, <4>2, Pushed
      <4>4. ASSUME NEW i \in 1..Len(workq'), ~IsGet(workq'[i])
            PROVE  /\ fate'[workq'[i].share] = "queued" /\ workq'[i].share # cmd.share
                   /\ \A j \in 1..Len(workq') : workq'[j].share = workq'[i].share => i = j
        <5>1. CASE i \in 1..Len(workq)
          <6>1. workq'[i].share \in 1..Len(shares) /\ workq'[i] = workq[i]
            BY <4>3, <4>4, <5>1, CommandShare
          <6>2. fate'[workq'[i].share] = "queued" /\ workq'[i].share # cmd.share
            BY <2>2, <4>4, <5>1, <6>1, Found DEF ShareInv
          <6>3. \A j \in 1..Len(workq') : workq'[j].share = workq'[i].share => j \in 1..Len(workq)
            BY <4>3, <6>1, CommandShare
          <6> QED
            BY <4>3, <4>4, <5>1, <6>1, <6>2, <6>3 DEF ShareInv
        <5>2. CASE i = Len(workq) + 1
          <6>1. fate'[n] = "queued" /\ n # cmd.share
            BY <2>2, <3>4, Found, CommandShare
          <6>2. \A j \in 1..Len(workq) : workq'[j].share # n
            BY <4>3, CommandShare
          <6> QED
            BY <4>3, <5>2, <6>1, <6>2, CommandShare
        <5> QED
          BY <4>3, <5>1, <5>2, CommandShare
      <4>5. ASSUME NEW s \in 1..Len(fate'), fate'[s] = "queued"
            PROVE  Handled(s)'
        <5>1. CASE s = n
          BY <4>3, <5>1, CommandShare DEF Handled
        <5>2. CASE s # n
          <6>1. s \in 1..Len(fate) /\ fate[s] = "queued"
            BY <2>2, <4>5, <5>2, Found, CommandShare
          <6> QED
            BY <3>1, <3>4, <4>3, <6>1, CommandShare DEF ShareInv, Handled
        <5> QED
          BY <5>1, <5>2
      <4> QED
        BY <3>1, <3>2, <4>4, <4>5 DEF ShareInv
    <3> QED
      BY <3>3, <3>4
  <2>3. CASE ReceiveWork(m) \/ StoreWork(m) \/ TakeWork(m) \/ ScanNothing(m) \/ ExpireWork(m)
    BY <1>1, <2>3 DEF ReceiveWork, StoreWork, TakeWork, ScanNothing, ExpireWork
  <2> QED
    BY <1>2, <2>1, <2>2, <2>3 DEF Miner
<1>3. CASE PopCommand
  <2>1. cmd.share = 0 /\ wpc = "pop" /\ UNCHANGED fate
    BY <1>3 DEF PopCommand, CommandInv, NoCmd
  <2>2. \A i \in 1..Len(workq') : ~IsGet(workq'[i]) =>
          /\ fate[workq'[i].share] = "queued" /\ workq'[i].share # cmd'.share
          /\ \A j \in 1..Len(workq') : workq'[j].share = workq'[i].share => i = j
    <3> SUFFICES ASSUME NEW i \in 1..Len(workq'), ~IsGet(workq'[i])
                 PROVE  /\ fate[workq'[i].share] = "queued" /\ workq'[i].share # cmd'.share
                        /\ \A j \in 1..Len(workq') : workq'[j].share = workq'[i].share => i = j
      OBVIOUS
    <3>1. /\ Len(workq) \in Nat /\ Len(workq) >= 1 /\ Len(workq') = Len(workq) - 1
          /\ cmd' = workq[1]
          /\ \A j \in 1..Len(workq') : workq'[j] = workq[j + 1]
      BY <1>3, Popped
    <3>2. i + 1 \in 1..Len(workq) /\ i + 1 # 1 /\ 1 \in 1..Len(workq) /\ workq'[i] = workq[i + 1]
      BY <3>1
    <3>3. ~IsGet(workq[i + 1])
      BY <3>2
    <3>4. /\ fate[workq[i + 1].share] = "queued"
          /\ \A j \in 1..Len(workq) : workq[j].share = workq[i + 1].share => i + 1 = j
      BY <3>2, <3>3 DEF ShareInv
    <3>5. workq[1].share # workq[i + 1].share
      BY <3>2, <3>4
    <3>6. ASSUME NEW j \in 1..Len(workq'), workq'[j].share = workq'[i].share
          PROVE  i = j
      <4>1. j + 1 \in 1..Len(workq) /\ workq[j + 1].share = workq[i + 1].share
        BY <3>1, <3>2, <3>6
      <4>2. i + 1 = j + 1
        BY <3>4, <4>1
      <4> QED
        BY <3>1, <4>2
    <3> QED
      BY <3>1, <3>2, <3>4, <3>5, <3>6
  <2>3. cmd'.share # 0 => fate[cmd'.share] = "queued"
    BY <1>3, Popped, CommandShare DEF ShareInv
  <2>4. ASSUME NEW s \in 1..Len(fate), Handled(s)
        PROVE  Handled(s)'
    <3>1. PICK i \in 1..Len(workq) : workq[i].share = s
      BY <2>1, <2>4 DEF Handled
    <3>2. CASE i = 1
      BY <1>3, <3>1, <3>2, Popped DEF Handled
    <3>3. CASE i # 1
      <4>1. i - 1 \in 1..Len(workq') /\ workq'[i - 1] = workq[i]
        BY <1>3, <3>3, Popped
      <4> QED
        BY <3>1, <4>1 DEF Handled
    <3> QED
      BY <3>2, <3>3
  <2> QED
    BY <2>1, <2>2, <2>3, <2>4 DEF ShareInv
<1>4. CASE DeliverWork
  <2>1. cmd.share = 0 /\ cmd'.share = 0 /\ wpc # "dead" /\ UNCHANGED <<workq, fate>>
    BY <1>4 DEF DeliverWork, Finish, CommandInv, NoCmd
  <2> QED
    BY <2>1 DEF ShareInv, Handled
<1>5. CASE Fetching
  BY <1>1, <1>5 DEF Fetching
<1>6. CASE Submitting
  <2>1. workq' = workq /\ wpc # "dead"
    BY <1>6 DEF Submitting
  <2>2. CASE UNCHANGED <<cmd, fate>>
    BY <1>1, <2>1, <2>2
  <2>3. CASE cmd' # cmd \/ fate' # fate
    <3>1. ASSUME NEW i \in 1..Len(workq), ~IsGet(workq[i])
          PROVE  fate'[workq[i].share] = "queued" /\ workq[i].share # 0
      <4>1. workq[i].share \in 1..Len(shares) /\ workq[i].share # cmd.share
        BY <3>1, CommandShare DEF ShareInv
      <4> QED
        BY <1>6, <2>3, <3>1, <4>1, Decided DEF ShareInv
    <3>2. Len(fate') = Len(shares)
      BY <1>6, SubmitFate, CommandShare
    <3>3. ASSUME NEW s \in 1..Len(shares), fate'[s] = "queued"
          PROVE  Handled(s)'
      <4>1. s # cmd.share /\ fate[s] = "queued"
        BY <1>6, <2>3, <3>3, Decided
      <4> QED
        BY <2>1, <4>1, CommandShare DEF ShareInv, Handled
    <3>4. cmd'.share = 0
      BY <1>6, <2>3, Decided
    <3> QED
      BY <2>1, <3>1, <3>2, <3>3, <3>4 DEF ShareInv
  <2> QED
    BY <2>2, <2>3
<1>7. CASE FreezeQueue
  <2>1. cmd'.share = 0 /\ wpc' = "dead" /\ UNCHANGED <<workq, fate>>
    BY <1>7 DEF FreezeQueue, NoCmd
  <2> QED
    BY <2>1, CommandShare DEF ShareInv
<1>8. CASE Others
  BY <1>1, <1>8 DEF Others, MainReturns, OthersFindBlock, TimePasses, vars
<1> QED
  BY StepCases, <1>2, <1>3, <1>4, <1>5, <1>6, <1>7, <1>8

(* While work is on its way no share waits of a miner that has reset       *)
(* g_work_time.                                                            *)
LEMMA WorkComing ==
  ASSUME SettledInv, ~NoWorkComing, NEW s \in 1..Len(fate), fate[s] = "queued"
  PROVE  mpc[shares[s].miner] = "expire"
BY DEF SettledInv, SettledAt

LEMMA FoundBy ==
  ASSUME TypeOK, CommandInv
  PROVE  \A s \in 1..Len(fate) : s \in 1..Len(shares) /\ shares[s].miner \in Miners
<1>1. shares \in Seq([miner : Miners, tip : Int, height : Nat]) /\ Len(fate) = Len(shares)
  BY DEF TypeOK, CommandInv
<1>2. \A s \in 1..Len(shares) : shares[s] \in [miner : Miners, tip : Int, height : Nat]
  BY <1>1, ElementOfSeq
<1> QED
  BY <1>1, <1>2

LEMMA SettledStep ==
  ASSUME TypeOK, CommandInv, LockInv, RequestInv, ShareInv, SettledInv, [Next]_vars
  PROVE  SettledInv'
<1> USE DEF nodeVars, sharedVars, minerVars, workioVars, historyVars, Goto
<1>0. mpc \in [Miners -> {"top", "waiting", "copying", "stored", "scan", "expire", "gone"}]
  BY DEF TypeOK
<1>1. ASSUME UNCHANGED <<workq, cmd, mpc, inbox, shares, fate>>, wpc' # "dead" => wpc # "dead",
             fresh' => fresh
      PROVE  SettledInv'
  BY <1>1 DEF SettledInv, SettledAt, NoWorkComing, Before
<1>2. ASSUME NEW m \in Miners, Miner(m)
      PROVE  SettledInv'
  <2>1. CASE RequestWork(m)
    <3>1. /\ mpc[m] = "top" /\ UNCHANGED <<wpc, cmd, inbox, fresh, shares, fate>>
          /\ mpc' = [mpc EXCEPT ![m] = "gone"] \/ mpc' = [mpc EXCEPT ![m] = "waiting"]
      BY <2>1 DEF RequestWork
    <3>2. NoWorkComing => NoWorkComing'
      BY <1>0, <3>1 DEF NoWorkComing
    <3>3. \A n \in Miners : mpc'[n] \in {"scan", "expire"} <=> mpc[n] \in {"scan", "expire"}
      BY <1>0, <3>1
    <3>4. CASE wpc = "dead"
      <4>1. workq' = workq
        BY <2>1, <3>4 DEF RequestWork
      <4> SUFFICES ASSUME NEW s \in 1..Len(fate), fate[s] = "queued"
                   PROVE  SettledAt(s)'
        BY <3>1 DEF SettledInv
      <4>2. SettledAt(s) /\ shares[s].miner \in Miners
        BY FoundBy DEF SettledInv
      <4> QED
        BY <1>0, <3>1, <3>2, <3>4, <4>1, <4>2 DEF SettledAt
    <3>5. CASE wpc # "dead"
      <4>1. workq' = Append(workq, GetCmd(m)) /\ GetCmd(m) \in Cmd
        BY <2>1, <3>5, CommandType DEF RequestWork
      <4>2. /\ Len(workq') = Len(workq) + 1 /\ Len(workq) \in Nat
            /\ \A i \in 1..Len(workq) : workq'[i] = workq[i]
        BY <4>1, Pushed
      <4> SUFFICES ASSUME NEW s \in 1..Len(fate), fate[s] = "queued"
                   PROVE  SettledAt(s)'
        BY <3>1 DEF SettledInv
      <4>3. SettledAt(s) /\ shares[s].miner \in Miners /\ Handled(s)
        BY <3>5, FoundBy DEF SettledInv, ShareInv
      <4>4. ASSUME NEW i \in 1..Len(workq'), IsGet(workq'[i]), mpc[shares[s].miner] # "expire"
            PROVE  Before(s, i)'
        <5>1. CASE i \in 1..Len(workq)
          <6>1. Before(s, i)
            BY <3>5, <4>2, <4>3, <4>4, <5>1 DEF SettledAt
          <6> QED
            BY <3>1, <4>2, <5>1, <6>1 DEF Before
        <5>2. CASE i = Len(workq) + 1
          BY <3>1, <4>2, <4>3, <5>2 DEF Before, Handled
        <5> QED
          BY <4>2, <5>1, <5>2
      <4> QED
        BY <1>0, <3>1, <3>2, <4>3, <4>4 DEF SettledAt
    <3> QED
      BY <3>4, <3>5
  <2>2. CASE ReceiveWork(m) \/ StoreWork(m) \/ TakeWork(m)
    <3>1. /\ ~NoWorkComing /\ mpc[m] # "expire" /\ UNCHANGED <<shares, fate>>
          /\ \E pc \in {"copying", "stored", "scan"} : mpc' = [mpc EXCEPT ![m] = pc]
      BY <2>2 DEF ReceiveWork, StoreWork, TakeWork, NoWorkComing
    <3>2. \A s \in 1..Len(fate) : fate[s] = "queued" => mpc'[shares[s].miner] = "expire"
      BY <1>0, <3>1, WorkComing, FoundBy
    <3> QED
      BY <3>1, <3>2 DEF SettledInv, SettledAt
  <2>3. CASE ScanNothing(m)
    <3>1. /\ mpc[m] = "scan" /\ mpc' = [mpc EXCEPT ![m] = "top"]
          /\ UNCHANGED <<wpc, cmd, workq, inbox, fresh, shares, fate>>
      BY <2>3 DEF ScanNothing
    <3>2. NoWorkComing => NoWorkComing'
      BY <1>0, <3>1 DEF NoWorkComing
    <3> SUFFICES ASSUME NEW s \in 1..Len(fate), fate[s] = "queued"
                 PROVE  SettledAt(s)'
      BY <3>1 DEF SettledInv
    <3>3. SettledAt(s) /\ shares[s].miner \in Miners \ {m}
      BY <3>1, FoundBy DEF SettledInv, SettledAt
    <3> QED
      BY <1>0, <3>1, <3>2, <3>3 DEF SettledAt, Before
  <2>4. CASE SubmitShare(m)
    <3>1. /\ mpc[m] = "scan" /\ UNCHANGED <<wpc, cmd, inbox, fresh>>
          /\ mpc' = [mpc EXCEPT ![m] = IF wpc = "dead" THEN "gone" ELSE "expire"]
          /\ wpc = "dead" => workq' = workq
          /\ wpc # "dead" => workq' = Append(workq, SubmitCmd(m, Len(shares) + 1))
      BY <2>4 DEF SubmitShare
    <3>2. NoWorkComing => NoWorkComing'
      BY <1>0, <3>1 DEF NoWorkComing
    <3>3. ASSUME NEW s \in 1..Len(fate), fate[s] = "queued"
          PROVE  SettledAt(s)'
      <4>1. SettledAt(s) /\ shares[s].miner \in Miners \ {m} /\ shares'[s] = shares[s]
        BY <2>4, <3>1, <3>3, FoundBy, Found DEF SettledInv, SettledAt
      <4>2. CASE wpc = "dead"
        BY <1>0, <3>1, <3>2, <4>1, <4>2 DEF SettledAt
      <4>3. CASE wpc # "dead"
        <5>1. /\ SubmitCmd(m, Len(shares) + 1) \in Cmd
              /\ ~IsGet(SubmitCmd(m, Len(shares) + 1))
          BY CommandShare, CommandType
        <5>2. /\ Len(workq') = Len(workq) + 1 /\ Len(workq) \in Nat
              /\ workq'[Len(workq) + 1] = SubmitCmd(m, Len(shares) + 1)
              /\ \A i \in 1..Len(workq) : workq'[i] = workq[i]
          BY <3>1, <4>3, <5>1, Pushed
        <5>3. ASSUME NEW i \in 1..Len(workq'), IsGet(workq'[i])
              PROVE  i \in 1..Len(workq) /\ IsGet(workq[i]) /\ (Before(s, i) => Before(s, i)')
          <6>1. i \in 1..Len(workq) /\ IsGet(workq[i])
            BY <5>1, <5>2, <5>3
          <6>2. \A j \in 1..i - 1 : workq'[j] = workq[j]
            BY <5>2, <6>1
          <6> QED
            BY <3>1, <6>1, <6>2 DEF Before
        <5>4. mpc'[shares[s].miner] = mpc[shares[s].miner]
          BY <1>0, <3>1, <4>1
        <5> QED
          BY <3>2, <4>1, <4>3, <5>3, <5>4 DEF SettledAt
      <4> QED
        BY <4>2, <4>3
    <3>4. ASSUME NEW s, s = Len(fate) + 1, fate'[s] = "queued"
          PROVE  SettledAt(s)'
      <4>1. wpc # "dead" /\ shares'[s].miner = m
        BY <2>4, <3>4, Found, CommandShare
      <4> QED
        BY <1>0, <3>1, <4>1 DEF SettledAt
    <3>5. ASSUME NEW s \in 1..Len(fate'), fate'[s] = "queued"
          PROVE  SettledAt(s)'
      <4>1. CASE s = Len(fate) + 1
        BY <3>4, <3>5, <4>1
      <4>2. CASE s # Len(fate) + 1
        <5>1. s \in 1..Len(fate) /\ fate[s] = "queued"
          BY <2>4, <3>5, <4>2, Found, CommandShare
        <5> QED
          BY <3>3, <5>1
      <4> QED
        BY <4>1, <4>2
    <3> QED
      BY <3>5 DEF SettledInv
  <2>5. CASE ExpireWork(m)
    <3>1. /\ gLock = None /\ ~fresh' /\ mpc' = [mpc EXCEPT ![m] = "top"]
          /\ UNCHANGED <<wpc, cmd, workq, inbox, shares, fate>>
      BY <2>5 DEF ExpireWork
    <3>2. \A n \in Miners : mpc[n] \notin {"waiting", "copying", "stored"}
      BY <3>1, WorkIOAssumption DEF LockInv
    <3>3. \A n \in Miners : mpc'[n] \notin {"copying", "stored"} /\ inbox'[n] = <<>>
      BY <1>0, <3>1, <3>2 DEF RequestInv
    <3>4. ~IsGet(cmd) /\ \A i \in 1..Len(workq) : ~IsGet(workq[i])
      BY <3>2, CommandKind DEF RequestInv
    <3>5. NoWorkComing'
      BY <3>1, <3>3, <3>4 DEF NoWorkComing
    <3> SUFFICES ASSUME NEW s \in 1..Len(fate), fate[s] = "queued"
                 PROVE  SettledAt(s)'
      BY <3>1 DEF SettledInv
    <3>6. mpc'[shares[s].miner] # "scan"
      BY <1>0, <3>1, FoundBy DEF SettledInv, SettledAt
    <3> QED
      BY <3>1, <3>4, <3>5, <3>6 DEF SettledAt
  <2> QED
    BY <1>2, <2>1, <2>2, <2>3, <2>4, <2>5 DEF Miner
<1>3. CASE PopCommand
  <2>1. cmd.share = 0 /\ wpc = "pop" /\ UNCHANGED <<fresh, mpc, inbox, shares, fate>>
    BY <1>3 DEF PopCommand, CommandInv, NoCmd
  <2> SUFFICES ASSUME NEW s \in 1..Len(fate), fate[s] = "queued",
                      mpc[shares[s].miner] # "expire"
               PROVE  /\ NoWorkComing'
                      /\ \A i \in 1..Len(workq') : IsGet(workq'[i]) => Before(s, i)'
    BY <2>1 DEF SettledInv, SettledAt
  <2>2. NoWorkComing /\ \A i \in 1..Len(workq) : IsGet(workq[i]) => Before(s, i)
    BY <2>1 DEF SettledInv, SettledAt
  <2>3. ~IsGet(cmd')
    <3>1. ~Before(s, 1)
      BY <2>1 DEF Before
    <3> QED
      BY <1>3, <2>2, <3>1, Popped
  <2>4. ASSUME NEW i \in 1..Len(workq'), IsGet(workq'[i])
        PROVE  Before(s, i)'
    <3>1. i + 1 \in 1..Len(workq) /\ IsGet(workq[i + 1])
      BY <1>3, <2>4, Popped
    <3>2. PICK j \in 1..i : workq[j].share = s
      BY <2>1, <2>2, <3>1 DEF Before
    <3>3. CASE j = 1
      BY <1>3, <3>2, <3>3, Popped DEF Before
    <3>4. CASE j # 1
      <4>1. j - 1 \in 1..i - 1 /\ j - 1 \in 1..Len(workq') /\ (j - 1) + 1 = j
        BY <1>3, <3>2, <3>4, Popped
      <4>2. workq'[j - 1] = workq[j]
        BY <1>3, <4>1, Popped
      <4> QED
        BY <3>2, <4>1, <4>2 DEF Before
    <3> QED
      BY <3>3, <3>4
  <2> QED
    BY <2>1, <2>2, <2>3, <2>4 DEF NoWorkComing
<1>4. CASE DeliverWork
  <2>1. ~NoWorkComing /\ UNCHANGED <<mpc, shares, fate>>
    BY <1>4 DEF DeliverWork, CommandInv, NoWorkComing
  <2> QED
    BY <2>1, WorkComing DEF SettledInv, SettledAt
<1>5. CASE Fetching
  BY <1>1, <1>5 DEF Fetching
<1>6. CASE Submitting
  <2>1. UNCHANGED <<workq, mpc, inbox, fresh, shares>> /\ wpc # "dead"
    BY <1>6 DEF Submitting
  <2>2. CASE UNCHANGED <<cmd, fate>>
    BY <1>1, <2>1, <2>2
  <2>3. CASE cmd' # cmd \/ fate' # fate
    <3>1. Len(fate') = Len(fate) /\ Len(fate) = Len(shares)
      BY <1>6, SubmitFate, CommandShare
    <3>2. ~IsGet(cmd') /\ cmd'.share = 0
      BY <1>6, <2>3, Decided DEF IsGet, NoCmd
    <3> SUFFICES ASSUME NEW s \in 1..Len(fate), fate'[s] = "queued"
                 PROVE  SettledAt(s)'
      BY <3>1 DEF SettledInv
    <3>3. fate[s] = "queued" /\ s # cmd.share
      BY <1>6, <2>3, <3>1, Decided
    <3>4. SettledAt(s)
      BY <3>3 DEF SettledInv
    <3>5. \A i : Before(s, i) => Before(s, i)'
      BY <2>1, <3>3 DEF Before
    <3>6. NoWorkComing => NoWorkComing'
      BY <2>1, <3>2 DEF NoWorkComing
    <3> QED
      BY <2>1, <3>4, <3>5, <3>6 DEF SettledAt
  <2> QED
    BY <2>2, <2>3
<1>7. CASE FreezeQueue
  <2>1. ~IsGet(cmd') /\ wpc' = "dead" /\ UNCHANGED <<workq, fresh, mpc, inbox, shares, fate>>
    BY <1>7 DEF FreezeQueue, IsGet, NoCmd
  <2> QED
    BY <2>1 DEF SettledInv, SettledAt, NoWorkComing
<1>8. CASE Others
  BY <1>1, <1>8 DEF Others, MainReturns, OthersFindBlock, TimePasses, vars
<1> QED
  BY StepCases, <1>2, <1>3, <1>4, <1>5, <1>6, <1>7, <1>8

(* The work that is delivered builds on the block of the answer.           *)
LEMMA Delivered ==
  ASSUME TypeOK, CommandInv, RequestInv, DeliverWork
  PROVE  /\ cmd.thr \in Miners
         /\ \A n \in Miners : n # cmd.thr => inbox'[n] = <<>>
         /\ Head(inbox'[cmd.thr]).tip = reply.tip
         /\ reply.height # 0 => Head(inbox'[cmd.thr]).height = reply.height
         /\ netBlocks' \in {netBlocks, chain}
<1>1. cmd.thr \in Miners /\ IsGet(cmd)
  BY CommandKind DEF DeliverWork, CommandInv
<1>2. PICK out \in InfoCalls :
        /\ MiningInfo(out)
        /\ inbox' = [inbox EXCEPT ![cmd.thr] = Append(@, WithHeight(reply, out))]
  BY DEF DeliverWork
<1>3. inbox \in [Miners -> Seq(Work)] /\ \A n \in Miners : inbox[n] = <<>>
  BY <1>1 DEF TypeOK, RequestInv, Requested
<1> DEFINE w == WithHeight(reply, out)
<1>4. w \in Work /\ w.tip = reply.tip /\ (reply.height # 0 => w.height = reply.height)
  <2>1. w \in Work /\ reply \in Work
    BY <1>2, InfoType DEF TypeOK
  <2> QED
    BY <2>1 DEF WithHeight, Work
<1> HIDE DEF w
<1>5. /\ inbox'[cmd.thr] = Append(inbox[cmd.thr], w)
      /\ \A n \in Miners : n # cmd.thr => inbox'[n] = inbox[n]
  BY <1>1, <1>2, <1>3 DEF w
<1>6. inbox[cmd.thr] \in Seq(Work) /\ Len(inbox[cmd.thr]) = 0
  BY <1>1, <1>3, EmptySeq
<1>7. /\ Append(inbox[cmd.thr], w) \in Seq(Work) /\ Append(inbox[cmd.thr], w) # <<>>
      /\ Append(inbox[cmd.thr], w)[Len(inbox[cmd.thr]) + 1] = w
  BY <1>4, <1>6, AppendProperties
<1>8. Head(Append(inbox[cmd.thr], w)) = Append(inbox[cmd.thr], w)[1]
  BY <1>7, HeadTailProperties
<1>9. Head(inbox'[cmd.thr]) = w
  BY <1>5, <1>6, <1>7, <1>8
<1> QED
  BY <1>1, <1>2, <1>3, <1>4, <1>5, <1>9 DEF MiningInfo

LEMMA TipTypes ==
  ASSUME TypeOK
  PROVE  /\ chain \in Nat /\ netBlocks \in Nat /\ gWork.tip \in Int /\ reply.tip \in Int
         /\ \A n \in Miners : mwork[n].tip \in Int /\ heap[n].tip \in Int
         /\ \A n \in Miners : inbox[n] # <<>> => Head(inbox[n]) \in Work /\ Head(inbox[n]).tip \in Int
         /\ \A s \in 1..Len(shares) : shares[s].tip \in Int /\ shares[s].height \in Nat
         /\ Len(shares) \in Nat
<1>1. /\ chain \in Nat /\ netBlocks \in Nat /\ gWork.tip \in Int /\ reply.tip \in Int
      /\ \A n \in Miners : mwork[n].tip \in Int /\ heap[n].tip \in Int
  BY WorkType DEF TypeOK
<1>2. \A n \in Miners : inbox[n] # <<>> => Head(inbox[n]) \in Work
  BY HeadTailProperties DEF TypeOK
<1>3. /\ Len(shares) \in Nat
      /\ \A s \in 1..Len(shares) : shares[s] \in [miner : Miners, tip : Int, height : Nat]
  BY ElementOfSeq, LenProperties DEF TypeOK
<1> QED
  BY <1>1, <1>2, <1>3, WorkType

(* A request in hand belongs to a miner that waits, so that nobody is      *)
(* copying.                                                                *)
LEMMA NobodyCopying ==
  ASSUME TypeOK, CommandInv, LockInv, RequestInv, NEW m \in Miners, mpc[m] \in {"copying", "stored"}
  PROVE  /\ wpc # "getinfo" /\ \A n \in Miners : inbox[n] = <<>>
         /\ \A n \in Miners : mpc[n] = "copying" => n = m
<1>1. \A n \in Miners : mpc[n] # "waiting" /\ (mpc[n] = "copying" => n = m)
  BY DEF LockInv
<1> QED
  BY <1>1, CommandKind DEF RequestInv, CommandInv

LEMMA TipStep ==
  ASSUME TypeOK, CommandInv, LockInv, RequestInv, TipInv, [Next]_vars
  PROVE  TipInv'
<1> USE DEF nodeVars, sharedVars, minerVars, workioVars, historyVars, Goto
<1>0. /\ mpc \in [Miners -> {"top", "waiting", "copying", "stored", "scan", "expire", "gone"}]
      /\ inbox \in [Miners -> Seq(Work)] /\ heap \in [Miners -> Work] /\ mwork \in [Miners -> Work]
  BY DEF TypeOK
<1>1. ASSUME UNCHANGED <<gWork, mwork, inbox, heap, shares>>,
             \A n \in Miners : mpc'[n] = "copying" => mpc[n] = "copying",
             chain' \in {chain, chain + 1}, netBlocks' \in {netBlocks, chain},
             wpc' = "getinfo" => \/ wpc = "getinfo" /\ UNCHANGED reply
                                 \/ reply'.tip = chain
      PROVE  TipInv'
  <2>1. \A t \in Int : /\ t <= chain => t <= chain'
                       /\ Recent(t) => Recent(t)'
    BY <1>1, TipTypes DEF Recent
  <2>2. wpc' = "getinfo" => Recent(reply.tip)'
    <3>1. CASE wpc = "getinfo" /\ UNCHANGED reply
      BY <2>1, <3>1, TipTypes DEF TipInv
    <3>2. CASE reply'.tip = chain
      BY <2>1, <3>2, TipTypes DEF TipInv, Recent
    <3> QED
      BY <1>1, <3>1, <3>2
  <2>3. gWork'.tip <= chain' /\ netBlocks' <= chain'
    BY <1>1, <2>1, TipTypes DEF TipInv
  <2>4. \A n \in Miners : /\ inbox'[n] # <<>> => Recent(Head(inbox[n]).tip)'
                          /\ mpc'[n] = "copying" => Recent(heap[n].tip)'
    BY <1>1, <2>1, TipTypes DEF TipInv
  <2>5. \A s \in 1..Len(shares') : shares'[s].tip <= gWork'.tip
    BY <1>1 DEF TipInv
  <2>6. \A n \in Miners : mwork'[n].tip <= gWork'.tip
    BY <1>1 DEF TipInv
  <2> QED
    BY <2>2, <2>3, <2>4, <2>5, <2>6 DEF TipInv
<1>2. ASSUME NEW m \in Miners, Miner(m)
      PROVE  TipInv'
  <2>1. CASE RequestWork(m) \/ ScanNothing(m) \/ ExpireWork(m)
    <3>1. /\ UNCHANGED <<gWork, mwork, inbox, heap, shares, chain, netBlocks, wpc, reply>>
          /\ \E pc \in {"waiting", "gone", "top"} : mpc' = [mpc EXCEPT ![m] = pc]
      BY <2>1 DEF RequestWork, ScanNothing, ExpireWork
    <3>2. \A n \in Miners : mpc'[n] = "copying" => mpc[n] = "copying"
      BY <1>0, <3>1
    <3> QED
      BY <1>1, <3>1, <3>2
  <2>2. CASE ReceiveWork(m)
    <3>1. /\ UNCHANGED <<gWork, mwork, shares, chain, netBlocks, wpc, reply>>
          /\ inbox[m] # <<>> /\ heap' = [heap EXCEPT ![m] = Head(inbox[m])]
          /\ mpc' = [mpc EXCEPT ![m] = "copying"]
      BY <2>2 DEF ReceiveWork
    <3>2. RequestInv'
      BY RequestStep
    <3>3. \A n \in Miners : inbox'[n] # <<>> => n # m /\ inbox'[n] = inbox[n]
      <4>1. \A n \in Miners : n # m => inbox'[n] = inbox[n]
        BY <1>0, <2>2 DEF ReceiveWork
      <4>2. mpc'[m] # "waiting"
        BY <1>0, <3>1
      <4> QED
        BY <3>2, <4>1, <4>2 DEF RequestInv
    <3>4. \A n \in Miners : mpc'[n] = "copying" => Recent(heap'[n].tip)
      BY <1>0, <3>1 DEF TipInv
    <3> QED
      BY <3>1, <3>3, <3>4 DEF TipInv, Recent
  <2>3. CASE StoreWork(m)
    <3>1. /\ mpc[m] = "copying" /\ gWork' = heap[m] /\ mpc' = [mpc EXCEPT ![m] = "stored"]
          /\ UNCHANGED <<mwork, inbox, shares, chain, netBlocks, wpc, reply>>
      BY <2>3 DEF StoreWork
    <3>2. /\ wpc # "getinfo" /\ \A n \in Miners : inbox[n] = <<>>
          /\ \A n \in Miners : mpc'[n] # "copying"
      BY <1>0, <3>1, NobodyCopying
    <3>3. gWork.tip <= gWork'.tip /\ gWork'.tip <= chain /\ gWork'.tip \in Int
      BY <3>1, TipTypes DEF TipInv, Recent
    <3>4. \A n \in Miners : mwork[n].tip <= gWork'.tip
      BY <3>3, TipTypes DEF TipInv
    <3>5. \A s \in 1..Len(shares) : shares[s].tip <= gWork'.tip
      BY <3>3, TipTypes DEF TipInv
    <3> QED
      BY <3>1, <3>2, <3>3, <3>4, <3>5 DEF TipInv
  <2>4. CASE TakeWork(m)
    <3>1. /\ UNCHANGED <<gWork, inbox, heap, shares, chain, netBlocks, wpc, reply>>
          /\ mpc' = [mpc EXCEPT ![m] = "scan"]
          /\ mwork' = [mwork EXCEPT ![m] = gWork] \/ mwork' = mwork
      BY <2>4 DEF TakeWork
    <3>2. \A n \in Miners : mwork'[n].tip <= gWork.tip
      <4>1. \A n \in Miners : mwork'[n] = mwork[n] \/ mwork'[n] = gWork
        BY <1>0, <3>1
      <4> QED
        BY <4>1, TipTypes DEF TipInv
    <3>3. \A n \in Miners : mpc'[n] = "copying" => mpc[n] = "copying"
      BY <1>0, <3>1
    <3> QED
      BY <3>1, <3>2, <3>3 DEF TipInv, Recent
  <2>5. CASE SubmitShare(m)
    <3>1. /\ UNCHANGED <<gWork, mwork, inbox, heap, chain, netBlocks, wpc, reply>>
          /\ \E pc \in {"gone", "expire"} : mpc' = [mpc EXCEPT ![m] = pc]
      BY <2>5 DEF SubmitShare
    <3>2. \A n \in Miners : mpc'[n] = "copying" => mpc[n] = "copying"
      BY <1>0, <3>1
    <3>3. ASSUME NEW s \in 1..Len(shares')
          PROVE  shares'[s].tip <= gWork.tip
      <4>1. CASE s = Len(shares) + 1
        BY <2>5, <4>1, Found DEF TipInv
      <4>2. CASE s # Len(shares) + 1
        <5>1. s \in 1..Len(shares)
          BY <2>5, <4>2, Found, TipTypes
        <5> QED
          BY <2>5, <5>1, Found DEF TipInv
      <4> QED
        BY <4>1, <4>2
    <3> QED
      BY <3>1, <3>2, <3>3 DEF TipInv, Recent
  <2> QED
    BY <1>2, <2>1, <2>2, <2>3, <2>4, <2>5 DEF Miner
<1>3. CASE PopCommand \/ FreezeQueue
  BY <1>1, <1>3 DEF PopCommand, FreezeQueue
<1>4. CASE DeliverWork
  <2>1. /\ UNCHANGED <<gWork, mwork, heap, shares, chain, mpc>> /\ wpc' = "pop"
        /\ Recent(reply.tip)
    BY <1>4 DEF DeliverWork, Finish, TipInv
  <2>2. \A n \in Miners : inbox'[n] # <<>> => Head(inbox'[n]).tip = reply.tip
    BY <1>4, Delivered
  <2>3. netBlocks' <= chain
    BY <1>4, Delivered, TipTypes DEF TipInv
  <2> QED
    BY <2>1, <2>2, <2>3 DEF TipInv, Recent
<1>5. CASE Fetching
  <2>1. /\ UNCHANGED <<gWork, mwork, inbox, heap, shares, mpc, chain>>
        /\ netBlocks' \in {netBlocks, chain}
        /\ wpc' = "getinfo" => reply'.tip = chain
    BY <1>5 DEF Fetching
  <2> QED
    BY <1>1, <2>1
<1>6. CASE Submitting
  <2>1. wpc' # "getinfo"
    BY <1>6 DEF Submitting
  <2>2. UNCHANGED <<gWork, mwork, inbox, heap, shares, mpc>>
    BY <1>6 DEF Submitting
  <2>3. chain' \in {chain, chain + 1} /\ netBlocks' \in {netBlocks, chain}
    BY <1>6 DEF Submitting
  <2> QED
    BY <1>1, <2>1, <2>2, <2>3
<1>7. CASE Others
  <2>1. /\ UNCHANGED <<gWork, mwork, inbox, heap, shares, mpc, netBlocks, wpc, reply>>
        /\ chain' \in {chain, chain + 1}
    BY <1>7 DEF Others, MainReturns, OthersFindBlock, TimePasses, vars
  <2> QED
    BY <1>1, <2>1
<1> QED
  BY StepCases, <1>2, <1>3, <1>4, <1>5, <1>6, <1>7

-----------------------------------------------------------------------------
(* The invariant and what follows from it                                  *)

LEMMA InitInv == Init => IInv
<1> SUFFICES ASSUME Init
             PROVE  IInv
  OBVIOUS
<1>1. TypeOK
  <2>1. NoWork \in Work /\ MaxFaults \in Nat
    BY WorkType, WorkIOAssumption
  <2>2. workq \in Seq(Cmd) /\ \A m \in Miners : inbox[m] \in Seq(Work)
    BY DEF Init
  <2>3. shares \in Seq([miner : Miners, tip : Int, height : Nat]) /\ fate \in Seq(Fates)
    BY DEF Init
  <2>4. /\ gLock \in Miners \cup {None} /\ fresh \in BOOLEAN
        /\ encoded \in BOOLEAN /\ infoAllowed \in BOOLEAN /\ exited \in BOOLEAN
    BY DEF Init
  <2>5. /\ mpc \in [Miners -> {"top", "waiting", "copying", "stored", "scan", "expire", "gone"}]
        /\ spent \in [Miners -> BOOLEAN] /\ inbox \in [Miners -> Seq(Work)]
        /\ mwork \in [Miners -> Work] /\ heap \in [Miners -> Work]
    BY <2>1, <2>2 DEF Init
  <2>6. /\ chain \in Nat /\ won \in SUBSET Nat /\ gWork \in Work /\ reply \in Work
        /\ failures \in Nat /\ netBlocks \in Nat /\ faults \in 0..MaxFaults
        /\ wpc = "pop" /\ cmd = NoCmd
    BY <2>1 DEF Init
  <2> QED
    BY <2>2, <2>3, <2>4, <2>5, <2>6 DEF TypeOK, Fates
<1>2. /\ Len(workq) = 0 /\ Len(fate) = 0 /\ Len(shares) = 0
      /\ \A m \in Miners : inbox[m] = <<>> /\ Len(inbox[m]) = 0
  BY EmptySeq DEF Init
<1>3. ~IsGet(NoCmd) /\ NoCmd.share = 0
  BY DEF IsGet, NoCmd
<1>4. CommandInv
  BY <1>2 DEF Init, CommandInv
<1>5. LockInv
  BY WorkIOAssumption DEF Init, LockInv
<1>6. RequestInv
  BY <1>2, <1>3 DEF Init, RequestInv, Requested
<1>7. ShareInv
  BY <1>2, <1>3 DEF Init, ShareInv
<1>8. SettledInv
  BY <1>2 DEF SettledInv
<1>9. TipInv
  BY <1>2 DEF Init, TipInv, NoWork
<1> QED
  BY <1>1, <1>4, <1>5, <1>6, <1>7, <1>8, <1>9 DEF IInv

(* Every reachable state satisfies the invariant.                          *)
THEOREM Invariance == Safety => []IInv
<1>1. Init => IInv
  BY InitInv
<1>2. IInv /\ [Next]_vars => IInv'
  BY TypeStep, CommandStep, LockStep, RequestStep, ShareStep, SettledStep, TipStep DEF IInv
<1> QED
  BY <1>1, <1>2, PTL DEF Safety

(* The variables of the miners, the workio thread and the node keep their  *)
(* types (miner_thread, workio_thread).                                    *)
THEOREM TypeCorrect == Safety => []TypeOK
<1>1. IInv => TypeOK
  BY DEF IInv
<1> QED
  BY <1>1, Invariance, PTL

(* A set of positions that are all the same one.                           *)
LEMMA OnePlace ==
  ASSUME NEW S, \A i, j \in S : i = j
  PROVE  Cardinality(S) = IF S = {} THEN 0 ELSE 1
<1>1. CASE S = {}
  BY <1>1, FS_EmptySet
<1>2. CASE S # {}
  <2>1. PICK x \in S : S = {x}
    BY <1>2
  <2> QED
    BY <1>2, <2>1, FS_Singleton
<1> QED
  BY <1>1, <1>2

(* At most one request for work is outstanding; it is the lock holder's,   *)
(* and it is not lost while the workio thread lives (get_work).            *)
THEOREM OneRequestSafe == Safety => []OneRequest
<1>1. ASSUME IInv
      PROVE  OneRequest
  <2> USE <1>1 DEF IInv
  <2>0. workq \in Seq(Cmd) /\ DOMAIN workq = 1..Len(workq) /\ Len(workq) \in Nat
    BY LenProperties DEF TypeOK
  <2>1. \A n \in Miners : Len(inbox[n]) \in 0..1 /\ (inbox[n] = <<>> <=> Len(inbox[n]) = 0)
    <3> SUFFICES ASSUME NEW n \in Miners
                 PROVE  Len(inbox[n]) \in 0..1 /\ (inbox[n] = <<>> <=> Len(inbox[n]) = 0)
      OBVIOUS
    <3>1. inbox[n] \in Seq(Work)
      BY DEF TypeOK
    <3>2. Len(inbox[n]) \in Nat /\ Len(inbox[n]) <= 1
      BY <3>1, LenProperties DEF RequestInv
    <3>3. inbox[n] = <<>> <=> Len(inbox[n]) = 0
      BY <3>1, EmptySeq
    <3> DEFINE l == Len(inbox[n])
    <3>4. l \in Nat /\ l <= 1
      BY <3>2
    <3> HIDE DEF l
    <3>5. l \in 0..1
      BY <3>4
    <3> QED
      BY <3>3, <3>5 DEF l
  <2>2. \A n \in Miners : IsGet(GetCmd(n)) /\ GetCmd(n).thr = n
    BY CommandType DEF GetCmd
  <2>3. \A c \in Cmd : IsGet(c) /\ c.share = 0 => c = GetCmd(c.thr)
    BY DEF Cmd, IsGet, GetCmd
  <2> DEFINE S(n) == {i \in DOMAIN workq : workq[i] = GetCmd(n)}
  <2>4. ASSUME NEW n \in Miners
        PROVE  /\ Cardinality(S(n)) = IF S(n) = {} THEN 0 ELSE 1
               /\ S(n) # {} => /\ mpc[n] = "waiting" /\ ~IsGet(cmd) /\ inbox[n] = <<>>
               /\ cmd = GetCmd(n) => mpc[n] = "waiting" /\ S(n) = {} /\ inbox[n] = <<>>
    <3>1. \A i, j \in S(n) : i = j
      BY <2>0, <2>2 DEF RequestInv
    <3>2. Cardinality(S(n)) = IF S(n) = {} THEN 0 ELSE 1
      BY <3>1, OnePlace
    <3>3. S(n) # {} => /\ mpc[n] = "waiting" /\ ~IsGet(cmd) /\ inbox[n] = <<>>
      BY <2>0, <2>2 DEF RequestInv, Requested
    <3>4. cmd = GetCmd(n) => mpc[n] = "waiting" /\ S(n) = {} /\ inbox[n] = <<>>
      BY <2>0, <2>2 DEF RequestInv, Requested
    <3> QED
      BY <3>2, <3>3, <3>4
  <2>5. ASSUME NEW n \in Miners
        PROVE  /\ Outstanding(n) <= 1
               /\ Outstanding(n) = 1 => mpc[n] = "waiting" /\ gLock = n
               /\ mpc[n] = "waiting" /\ wpc # "dead" => Outstanding(n) = 1
    <3>0. /\ Outstanding(n) = Cardinality(S(n)) + (IF cmd = GetCmd(n) THEN 1 ELSE 0)
                              + Len(inbox[n])
          /\ cmd = GetCmd(n) => IsGet(cmd)
          /\ mpc[n] = "waiting" => gLock = n
      BY <2>2 DEF Outstanding, LockInv
    <3>1. CASE S(n) # {}
      BY <2>1, <2>4, <3>0, <3>1
    <3>2. CASE cmd = GetCmd(n)
      BY <2>1, <2>4, <3>0, <3>2
    <3>3. CASE S(n) = {} /\ cmd # GetCmd(n) /\ inbox[n] # <<>>
      <4>1. Len(inbox[n]) = 1 /\ mpc[n] = "waiting"
        BY <2>1, <3>3 DEF RequestInv
      <4> QED
        BY <2>4, <3>0, <3>3, <4>1
    <3>4. CASE S(n) = {} /\ cmd # GetCmd(n) /\ inbox[n] = <<>>
      <4>1. mpc[n] = "waiting" /\ wpc # "dead" => FALSE
        <5> SUFFICES ASSUME mpc[n] = "waiting", Requested
                     PROVE  FALSE
          BY <3>4 DEF RequestInv
        <5>1. \A k \in Miners : mpc[k] = "waiting" => k = n
          BY DEF LockInv
        <5>2. CASE IsGet(cmd)
          <6>1. cmd \in Cmd /\ cmd.share = 0 /\ cmd.thr = n
            <7>1. cmd \in Cmd /\ cmd.thr = n
              BY <5>1, <5>2, CommandKind DEF RequestInv
            <7>2. cmd.share = 0
              <8>1. wpc \in {"pop", "get", "getinfo", "badinfo", "check", "info", "send",
                             "freeze", "dead"}
                BY DEF TypeOK
              <8>2. ~IsGet(NoCmd)
                BY DEF IsGet, NoCmd
              <8> QED
                BY <5>2, <8>1, <8>2 DEF CommandInv, WellFormed
            <7> QED
              BY <7>1, <7>2
          <6> QED
            BY <2>3, <3>4, <5>2, <6>1
        <5>3. ASSUME NEW i \in 1..Len(workq), IsGet(workq[i])
              PROVE  FALSE
          <6>1. workq[i] \in Cmd /\ workq[i].share = 0 /\ workq[i].thr = n
            BY <5>1, <5>3, CommandKind, CommandShare DEF RequestInv
          <6> QED
            BY <2>0, <2>3, <3>4, <5>3, <6>1
        <5> QED
          BY <5>2, <5>3 DEF Requested
      <4>2. Outstanding(n) = 0
        BY <2>1, <2>4, <3>0, <3>4
      <4> QED
        BY <4>1, <4>2
    <3> QED
      BY <3>1, <3>2, <3>3, <3>4
  <2> QED
    BY <2>5 DEF OneRequest
<1> QED
  BY <1>1, Invariance, PTL

(* Each share a miner has sent is in the workio thread's hands exactly     *)
(* once until its fate is decided (submit_work, workio_submit_work).       *)
THEOREM SharesSafe == Safety => []SharesAccounted
<1>1. ASSUME IInv
      PROVE  SharesAccounted
  <2> USE <1>1 DEF IInv
  <2>0. /\ DOMAIN workq = 1..Len(workq) /\ Len(workq) \in Nat
        /\ DOMAIN fate = 1..Len(fate) /\ Len(fate) \in Nat
    BY LenProperties DEF TypeOK
  <2> DEFINE S(s) == {i \in DOMAIN workq : workq[i].share = s}
  <2>1. ASSUME NEW s \in DOMAIN fate
        PROVE  LET places == Cardinality(S(s)) + (IF cmd.share = s THEN 1 ELSE 0)
               IN IF fate[s] = "queued" THEN places = 1 \/ wpc = "dead" ELSE places = 0
    <3>0. s \in 1..Len(fate) /\ s # 0
      BY <2>0
    <3>1. \A i \in S(s) : ~IsGet(workq[i])
      BY <2>0, <3>0, CommandShare
    <3>2. \A i, j \in S(s) : i = j
      BY <2>0, <3>1 DEF ShareInv
    <3>3. Cardinality(S(s)) = IF S(s) = {} THEN 0 ELSE 1
      BY <3>2, OnePlace
    <3>4. S(s) # {} => fate[s] = "queued" /\ cmd.share # s
      BY <2>0, <3>1 DEF ShareInv
    <3>5. cmd.share = s => fate[s] = "queued"
      BY <3>0 DEF ShareInv
    <3>6. fate[s] = "queued" /\ wpc # "dead" => S(s) # {} \/ cmd.share = s
      BY <2>0, <3>0 DEF ShareInv, Handled
    <3> QED
      BY <3>3, <3>4, <3>5, <3>6
  <2> QED
    BY <2>1 DEF SharesAccounted
<1> QED
  BY <1>1, Invariance, PTL

(* When a miner scans, none of the shares it has found is undecided        *)
(* (miner_thread, g_work_time = 0 after submit_work).                      *)
THEOREM Settled == Safety => []SettledBeforeScanning
<1>1. ASSUME IInv
      PROVE  SettledBeforeScanning
  <2>1. DOMAIN fate = 1..Len(fate)
    BY <1>1, LenProperties DEF IInv, TypeOK
  <2> QED
    BY <1>1, <2>1 DEF IInv, SettledInv, SettledAt, SettledBeforeScanning
<1> QED
  BY <1>1, Invariance, PTL

(* The shared work never goes back to an older block (get_work).           *)
THEOREM MovesForward == Safety => WorkMovesForward
<1>1. ASSUME IInv, [Next]_vars
      PROVE  [gWork'.tip >= gWork.tip]_vars
  <2>1. gWork' = gWork \/ \E m \in Miners : StoreWork(m)
    BY <1>1, StepCases DEF Miner, RequestWork, ReceiveWork, TakeWork, ScanNothing, SubmitShare,
       ExpireWork, PopCommand, DeliverWork, Fetching, Submitting, FreezeQueue, Others,
       MainReturns, OthersFindBlock, TimePasses, sharedVars, vars
  <2>2. gWork.tip \in Int
    BY <1>1, TipTypes DEF IInv
  <2>3. CASE gWork' = gWork
    BY <2>2, <2>3
  <2>4. ASSUME NEW m \in Miners, StoreWork(m)
        PROVE  gWork'.tip >= gWork.tip
    <3>1. gWork' = heap[m] /\ mpc[m] = "copying"
      BY <2>4 DEF StoreWork
    <3> QED
      BY <1>1, <2>2, <3>1, TipTypes DEF IInv, TipInv, Recent
  <2> QED
    BY <2>1, <2>3, <2>4
<1> QED
  BY <1>1, Invariance, PTL DEF Safety, WorkMovesForward

-----------------------------------------------------------------------------
(* What is discarded, and what is sent                                     *)

(* The height is that of the block to be mined: a template names it.  The  *)
(* zeroed structs, tip -1 and height 0, satisfy this too.                  *)
Named(w) == w.height = w.tip + 1
HeightInv ==
  /\ Named(gWork)
  /\ \A m \in Miners : Named(mwork[m]) /\ Named(heap[m])
  /\ \A m \in Miners : inbox[m] # <<>> => Named(Head(inbox[m]))
  /\ wpc = "getinfo" => Named(reply) /\ reply.tip \in Nat
  /\ \A s \in 1..Len(shares) : Named(shares[s])

LEMMA HeightStep ==
  ASSUME IInv, HeightInv, Gbt = TRUE, [Next]_vars
  PROVE  HeightInv'
<1> USE DEF IInv, nodeVars, sharedVars, minerVars, workioVars, historyVars, Goto
<1>0. /\ inbox \in [Miners -> Seq(Work)] /\ heap \in [Miners -> Work]
      /\ mwork \in [Miners -> Work] /\ chain \in Nat /\ TypeOK /\ CommandInv
      /\ mpc \in [Miners -> {"top", "waiting", "copying", "stored", "scan", "expire", "gone"}]
  BY DEF TypeOK
<1>1. ASSUME UNCHANGED <<gWork, mwork, inbox, heap, shares>>,
             wpc' = "getinfo" => \/ wpc = "getinfo" /\ UNCHANGED reply
                                 \/ reply'.tip = chain /\ reply'.height = chain + 1
      PROVE  HeightInv'
  BY <1>0, <1>1 DEF HeightInv, Named
<1>2. ASSUME NEW m \in Miners, Miner(m)
      PROVE  HeightInv'
  <2>1. CASE RequestWork(m) \/ ScanNothing(m) \/ ExpireWork(m)
    <3>1. UNCHANGED <<gWork, mwork, inbox, heap, shares, wpc, reply>>
      BY <2>1 DEF RequestWork, ScanNothing, ExpireWork
    <3> QED
      BY <1>1, <3>1
  <2>2. CASE ReceiveWork(m)
    <3>1. /\ UNCHANGED <<gWork, mwork, shares, wpc, reply>>
          /\ inbox[m] # <<>> /\ heap' = [heap EXCEPT ![m] = Head(inbox[m])]
          /\ mpc' = [mpc EXCEPT ![m] = "copying"]
          /\ inbox' = [inbox EXCEPT ![m] = Tail(inbox[m])]
      BY <2>2 DEF ReceiveWork
    <3>2. RequestInv'
      BY RequestStep
    <3>3. \A n \in Miners : inbox'[n] # <<>> => inbox'[n] = inbox[n]
      <4>1. \A n \in Miners : n # m => inbox'[n] = inbox[n]
        BY <1>0, <3>1
      <4>2. mpc'[m] # "waiting"
        BY <1>0, <3>1
      <4> QED
        BY <3>2, <4>1, <4>2 DEF RequestInv
    <3>4. \A n \in Miners : Named(heap'[n])
      BY <1>0, <3>1 DEF HeightInv
    <3> QED
      BY <3>1, <3>3, <3>4 DEF HeightInv, Named
  <2>3. CASE StoreWork(m)
    <3>1. /\ gWork' = heap[m] /\ heap' = [heap EXCEPT ![m] = NoWork]
          /\ UNCHANGED <<mwork, inbox, shares, wpc, reply>>
      BY <2>3 DEF StoreWork
    <3>2. \A n \in Miners : Named(heap'[n])
      BY <1>0, <3>1 DEF HeightInv, Named, NoWork
    <3> QED
      BY <3>1, <3>2 DEF HeightInv, Named
  <2>4. CASE TakeWork(m)
    <3>1. /\ UNCHANGED <<gWork, inbox, heap, shares, wpc, reply>>
          /\ mwork' = [mwork EXCEPT ![m] = gWork] \/ mwork' = mwork
      BY <2>4 DEF TakeWork
    <3>2. \A n \in Miners : mwork'[n] = mwork[n] \/ mwork'[n] = gWork
      BY <1>0, <3>1
    <3>3. \A n \in Miners : Named(mwork'[n])
      BY <3>2 DEF HeightInv
    <3> QED
      BY <3>1, <3>3 DEF HeightInv, Named
  <2>5. CASE SubmitShare(m)
    <3>1. UNCHANGED <<gWork, mwork, inbox, heap, wpc, reply>>
      BY <2>5 DEF SubmitShare
    <3>2. ASSUME NEW s \in 1..Len(shares')
          PROVE  Named(shares'[s])
      <4>1. CASE s = Len(shares) + 1
        BY <2>5, <4>1, Found DEF HeightInv, Named
      <4>2. CASE s # Len(shares) + 1
        <5>1. s \in 1..Len(shares)
          BY <2>5, <4>2, Found, TipTypes
        <5> QED
          BY <2>5, <5>1, Found DEF HeightInv
      <4> QED
        BY <4>1, <4>2
    <3> QED
      BY <3>1, <3>2 DEF HeightInv, Named
  <2> QED
    BY <1>2, <2>1, <2>2, <2>3, <2>4, <2>5 DEF Miner
<1>3. CASE PopCommand \/ FreezeQueue
  BY <1>1, <1>3 DEF PopCommand, FreezeQueue
<1>4. CASE DeliverWork
  <2>1. /\ UNCHANGED <<gWork, mwork, heap, shares>> /\ wpc' = "pop"
        /\ reply.height = reply.tip + 1 /\ reply.tip \in Nat
    BY <1>4 DEF DeliverWork, Finish, HeightInv, Named
  <2>2. reply.height # 0
    BY <2>1
  <2>3. \A n \in Miners : inbox'[n] # <<>> => Named(Head(inbox'[n]))
    BY <1>4, <2>1, <2>2, Delivered DEF Named
  <2> QED
    BY <2>1, <2>3 DEF HeightInv, Named
<1>5. CASE Fetching
  <2>1. /\ UNCHANGED <<gWork, mwork, inbox, heap, shares>>
        /\ wpc' = "getinfo" => reply'.tip = chain /\ reply'.height = chain + 1
    BY <1>5 DEF Fetching
  <2> QED
    BY <1>1, <2>1
<1>6. CASE Submitting
  <2>1. wpc' # "getinfo"
    BY <1>6 DEF Submitting
  <2>2. UNCHANGED <<gWork, mwork, inbox, heap, shares>>
    BY <1>6 DEF Submitting
  <2> QED
    BY <1>1, <2>1, <2>2
<1>7. CASE Others
  <2>1. UNCHANGED <<gWork, mwork, inbox, heap, shares, wpc, reply>>
    BY <1>7 DEF Others, MainReturns, OthersFindBlock, TimePasses, vars
  <2> QED
    BY <1>1, <2>1
<1> QED
  BY StepCases, <1>2, <1>3, <1>4, <1>5, <1>6, <1>7

LEMMA HeightInit == Init => HeightInv
<1> SUFFICES ASSUME Init
             PROVE  HeightInv
  OBVIOUS
<1>1. Len(shares) = 0
  BY EmptySeq DEF Init
<1> QED
  BY <1>1 DEF Init, HeightInv, Named, NoWork

(* Which steps leave the fate of the shares found so far alone.            *)
LEMMA FateSteps ==
  ASSUME IInv, [Next]_vars, NEW s \in 1..Len(fate), fate'[s] # fate[s]
  PROVE  CheckStale \/ CheckSolved \/ \E out \in CallOutcomes : SendShare(out)
<1> USE DEF IInv
<1>1. \/ CheckStale \/ CheckSolved \/ \E out \in CallOutcomes : SendShare(out)
      \/ \E m \in Miners : SubmitShare(m)
  <2>1. ~Fetching
    BY DEF Fetching
  <2> QED
    BY <2>1, FetchSteps DEF Next, Miner, Workio, Terminated, RequestWork, ReceiveWork, StoreWork,
       TakeWork, ScanNothing, ExpireWork, PopCommand, DeliverWork, FreezeQueue, MainReturns,
       OthersFindBlock, TimePasses, historyVars, vars
<1>2. ASSUME NEW m \in Miners, SubmitShare(m)
      PROVE  FALSE
  BY <1>2, Found, CommandShare
<1> QED
  BY <1>1, <1>2

(* The header in hand is as the miner left it: it is byte-swapped only for *)
(* a call of submitblock that fails.                                       *)
LEMMA EncodedStep ==
  ASSUME Gbt = FALSE \/ CallOutcomes = {"ok"}, encoded = FALSE, [Next]_vars
  PROVE  encoded' = FALSE
<1> USE DEF nodeVars, sharedVars, minerVars, workioVars, historyVars
<1>1. ASSUME NEW m \in Miners, Miner(m)
      PROVE  encoded' = FALSE
  BY <1>1 DEF Miner, RequestWork, ReceiveWork, StoreWork, TakeWork, ScanNothing, SubmitShare,
     ExpireWork
<1>2. CASE PopCommand \/ DeliverWork \/ RejectWork \/ FreezeQueue
  BY <1>2 DEF PopCommand, DeliverWork, RejectWork, FreezeQueue, Finish
<1>3. CASE CheckStale \/ CheckSolved
  BY <1>3 DEF CheckStale, CheckSolved, Finish
<1>4. ASSUME NEW out \in CallOutcomes, CallGetWork(out)
      PROVE  encoded' = FALSE
  BY <1>4 DEF CallGetWork
<1>5. ASSUME NEW out \in CallOutcomes, SendShare(out)
      PROVE  encoded' = FALSE
  <2>1. CASE out = "ok"
    BY <1>5, <2>1 DEF SendShare, Finish
  <2>2. CASE out # "ok"
    <3>1. Gbt = FALSE
      BY <2>2
    <3>2. encoded' = IF Gbt THEN ~encoded ELSE encoded
      BY <1>5, <2>2 DEF SendShare
    <3> QED
      BY <3>1, <3>2
  <2> QED
    BY <2>1, <2>2
<1>6. CASE MainReturns \/ OthersFindBlock \/ TimePasses \/ UNCHANGED vars
  BY <1>6 DEF MainReturns, OthersFindBlock, TimePasses, vars
<1> QED
  BY <1>1, <1>2, <1>3, <1>4, <1>5, <1>6 DEF Next, Workio, Terminated

(* Nothing that could win is thrown away (submit_upstream_work): always    *)
(* with getwork, and with getblocktemplate when no call fails.             *)
THEOREM DiscardSound ==
  ASSUME Gbt = FALSE \/ CallOutcomes = {"ok"}
  PROVE  Safety => DiscardJustified
<1> DEFINE J == encoded = FALSE /\ (Gbt = TRUE => HeightInv)
<1>1. Init => J
  BY HeightInit DEF Init
<1>2. IInv /\ J /\ [Next]_vars => J'
  <2> SUFFICES ASSUME IInv, J, [Next]_vars
               PROVE  J'
    OBVIOUS
  <2>1. encoded' = FALSE
    BY EncodedStep
  <2>2. Gbt = TRUE => HeightInv'
    BY HeightStep
  <2> QED
    BY <2>1, <2>2
<1>3. ASSUME IInv, J, [Next]_vars, NEW s \in DOMAIN fate,
             fate[s] = "queued", fate'[s] \in {"stale", "solved"}
      PROVE  \/ shares[s].tip # chain
             \/ HeightLeftOver(s) /\ fate'[s] = "solved"
  <2>1. s \in 1..Len(fate) /\ s \in 1..Len(shares) /\ TypeOK /\ CommandInv
    BY <1>3, LenProperties, CommandShare DEF IInv, TypeOK
  <2>2. fate'[s] # fate[s]
    BY <1>3
  <2>3. CheckStale \/ CheckSolved \/ \E out \in CallOutcomes : SendShare(out)
    BY <1>3, <2>1, <2>2, FateSteps
  <2>4. wpc \in {"check", "info", "send"} /\ cmd.share \in 1..Len(fate)
    BY <2>1, <2>3, SubmitSteps DEF Submitting, CommandInv
  <2>5. \A what \in Fates : Decide(cmd.share, what) => s = cmd.share /\ fate'[s] = what
    BY <2>1, <2>2, <2>4, DecideType
  <2>6. /\ shares[s].tip \in Int /\ shares[s].height \in Nat /\ chain \in Nat
        /\ netBlocks \in Nat /\ shares[s].tip <= gWork.tip /\ gWork.tip \in Int
        /\ gWork.tip <= chain /\ netBlocks <= chain
    BY <1>3, <2>1, TipTypes DEF IInv, TipInv
  <2>7. CASE CheckStale
    <3>1. PICK same \in SameAsShared(cmd.share) :
            IF Submitold \/ same THEN UNCHANGED fate ELSE Decide(cmd.share, "stale")
      BY <2>7 DEF CheckStale
    <3>2. s = cmd.share /\ same = FALSE
      <4>1. "stale" \in Fates
        BY DEF Fates
      <4> QED
        BY <2>2, <2>5, <3>1, <4>1 DEF SameAsShared
    <3>3. PICK w \in {gWork} \cup {heap[m] : m \in {n \in Miners : mpc[n] = "copying"}} :
            same = (shares[s].tip = w.tip)
      BY <1>3, <3>1, <3>2 DEF SameAsShared
    <3>4. gWork.tip <= w.tip /\ w.tip <= chain /\ w.tip \in Int
      BY <1>3, <2>1, <2>6, TipTypes DEF IInv, TipInv, Recent
    <3>5. shares[s].tip # w.tip
      BY <3>2, <3>3
    <3> QED
      BY <2>6, <3>4, <3>5
  <2>8. CASE CheckSolved
    <3>1. IF AlreadySolved(cmd.share) THEN Decide(cmd.share, "solved") ELSE UNCHANGED fate
      BY <2>8 DEF CheckSolved
    <3>2. s = cmd.share /\ AlreadySolved(s) /\ fate'[s] = "solved"
      <4>1. "solved" \in Fates
        BY DEF Fates
      <4> QED
        BY <2>2, <2>5, <3>1, <4>1
    <3>3. netBlocks' \in {netBlocks, chain}
      BY <2>8 DEF CheckSolved, MiningInfo
    <3>4. shares[s].height # 0 /\ shares[s].height <= chain
      BY <2>6, <3>2, <3>3 DEF AlreadySolved
    <3>5. CASE Gbt = TRUE
      <4>1. shares[s].height = shares[s].tip + 1
        BY <1>3, <2>1, <3>5 DEF HeightInv, Named
      <4> QED
        BY <2>6, <3>4, <4>1
    <3>6. CASE Gbt # TRUE
      <4>1. CASE shares[s].height = shares[s].tip + 1
        BY <2>6, <3>4, <4>1
      <4>2. CASE shares[s].height # shares[s].tip + 1
        BY <3>2, <3>4, <3>6, <4>2, WorkIOAssumption DEF HeightLeftOver
      <4> QED
        BY <4>1, <4>2
    <3> QED
      BY <3>5, <3>6
  <2>9. ASSUME NEW out \in CallOutcomes, SendShare(out)
        PROVE  FALSE
    <3>1. \/ Decide(cmd.share, "accepted") \/ Decide(cmd.share, "rejected")
          \/ UNCHANGED fate
      BY <2>9 DEF SendShare
    <3>2. "accepted" \in Fates /\ "rejected" \in Fates
      BY DEF Fates
    <3> QED
      BY <1>3, <2>2, <2>5, <3>1, <3>2
  <2> QED
    BY <2>3, <2>7, <2>8, <2>9
<1>4. IInv /\ J /\ [Next]_vars =>
        [\A s \in DOMAIN fate :
           fate[s] = "queued" /\ fate'[s] \in {"stale", "solved"}
             => shares[s].tip # chain
                \/ (HeightLeftOver(s) /\ fate'[s] = "solved")]_vars
  BY <1>3
<1> QED
  BY <1>1, <1>2, <1>4, Invariance, PTL DEF Safety, DiscardJustified

(* A block of ours is not above the chain, and what is about to be sent    *)
(* was compared with the height of the chain.                              *)
WonInv ==
  /\ won \subseteq 1..chain
  /\ infoAllowed = TRUE
  /\ wpc = "send" => shares[cmd.share].tip + 1 \notin won

LEMMA WonStep ==
  ASSUME Gbt = TRUE, InfoOutcomes = {"ok"}, IInv, HeightInv, WonInv, [Next]_vars
  PROVE  WonInv'
<1> USE DEF nodeVars, sharedVars, minerVars, workioVars, historyVars
<1>0. /\ TypeOK /\ CommandInv /\ chain \in Nat
      /\ \A s \in 1..Len(shares) : shares[s].tip \in Int /\ shares[s].height = shares[s].tip + 1
      /\ InfoCalls = {"ok"}
  BY TipTypes DEF IInv, HeightInv, Named, WonInv, InfoCalls
<1>1. ASSUME chain' \in {chain, chain + 1}, won' = won, infoAllowed' = TRUE, wpc' # "send"
      PROVE  WonInv'
  BY <1>0, <1>1 DEF WonInv
<1>2. ASSUME NEW m \in Miners, Miner(m)
      PROVE  WonInv'
  <2>1. UNCHANGED <<chain, won, infoAllowed, wpc, cmd>>
    BY <1>2 DEF Miner, RequestWork, ReceiveWork, StoreWork, TakeWork, ScanNothing, SubmitShare,
       ExpireWork
  <2>2. shares' = shares \/ SubmitShare(m)
    BY <1>2 DEF Miner, RequestWork, ReceiveWork, StoreWork, TakeWork, ScanNothing, ExpireWork
  <2>3. wpc = "send" => shares'[cmd.share] = shares[cmd.share]
    <3>1. wpc = "send" => cmd.share \in 1..Len(shares)
      BY <1>0 DEF CommandInv
    <3> QED
      BY <1>0, <2>2, <3>1, Found
  <2> QED
    BY <2>1, <2>3 DEF WonInv
<1>3. CASE PopCommand \/ FreezeQueue
  <2>1. UNCHANGED <<chain, won, infoAllowed>> /\ wpc' # "send"
    BY <1>3 DEF PopCommand, FreezeQueue
  <2> QED
    BY <1>0, <1>1, <2>1 DEF WonInv
<1>4. CASE DeliverWork \/ RejectWork
  <2>1. UNCHANGED <<chain, won>> /\ wpc' # "send"
    BY <1>4 DEF DeliverWork, RejectWork, Finish, CallFailed
  <2>2. \E out \in InfoCalls : MiningInfo(out)
    BY <1>4 DEF DeliverWork, RejectWork
  <2>3. infoAllowed' = TRUE
    BY <1>0, <2>2 DEF MiningInfo, WonInv
  <2> QED
    BY <1>0, <1>1, <2>1, <2>3
<1>5. ASSUME NEW out \in CallOutcomes, CallGetWork(out)
      PROVE  WonInv'
  <2>1. UNCHANGED <<chain, won, infoAllowed>>
    BY <1>5 DEF CallGetWork
  <2>2. wpc' # "send"
    BY <1>5 DEF CallGetWork, CallFailed
  <2> QED
    BY <1>0, <1>1, <2>1, <2>2 DEF WonInv
<1>6. CASE CheckStale
  <2>1. UNCHANGED <<chain, won, infoAllowed>>
    BY <1>6 DEF CheckStale
  <2>2. wpc' # "send"
    BY <1>6 DEF CheckStale, Finish, WonInv
  <2> QED
    BY <1>0, <1>1, <2>1, <2>2 DEF WonInv
<1>7. CASE CheckSolved
  <2>1. UNCHANGED <<chain, won, shares>>
    BY <1>7 DEF CheckSolved
  <2>2. netBlocks' = chain /\ infoAllowed' = TRUE
    <3>1. MiningInfo("ok")
      BY <1>0, <1>7 DEF CheckSolved
    <3> QED
      BY <3>1 DEF MiningInfo, WonInv
  <2>3. CASE AlreadySolved(cmd.share)
    <3>1. wpc' = "pop"
      BY <1>7, <2>3 DEF CheckSolved, Finish
    <3> QED
      BY <1>0, <1>1, <2>1, <2>2, <3>1
  <2>4. CASE ~AlreadySolved(cmd.share)
    <3>1. cmd' = cmd
      BY <1>7, <2>4 DEF CheckSolved
    <3>2. cmd.share \in 1..Len(shares)
      BY <1>0, <1>7 DEF CheckSolved, CommandInv
    <3>3. shares[cmd.share].tip + 1 = 0 \/ shares[cmd.share].tip + 1 > chain
      BY <1>0, <2>2, <2>4, <3>2 DEF AlreadySolved
    <3>4. shares[cmd.share].tip + 1 \notin 1..chain
      BY <1>0, <3>2, <3>3
    <3> QED
      BY <2>1, <2>2, <3>1, <3>4 DEF WonInv
  <2> QED
    BY <2>3, <2>4
<1>8. ASSUME NEW out \in CallOutcomes, SendShare(out)
      PROVE  WonInv'
  <2>1. wpc' # "send"
    <3>1. Finish \/ CallFailed("check")
      BY <1>8 DEF SendShare
    <3> QED
      BY <3>1 DEF Finish, CallFailed
  <2>2. infoAllowed' = TRUE
    BY <1>8 DEF SendShare, WonInv
  <2>3. won' \subseteq 1..chain'
    <3>1. CASE chain' = chain /\ won' = won
      BY <3>1 DEF WonInv
    <3>2. CASE chain' = chain + 1 /\ won' = won \cup {chain + 1}
      BY <1>0, <3>2 DEF WonInv
    <3> QED
      BY <1>8, <3>1, <3>2, SentBlock
  <2> QED
    BY <2>1, <2>2, <2>3 DEF WonInv
<1>9. CASE Others
  <2>1. UNCHANGED <<won, infoAllowed, wpc, cmd, shares>> /\ chain' \in {chain, chain + 1}
    BY <1>9 DEF Others, MainReturns, OthersFindBlock, TimePasses, vars
  <2>2. won \subseteq 1..chain'
    BY <1>0, <2>1 DEF WonInv
  <2> QED
    BY <2>1, <2>2 DEF WonInv
<1> QED
  BY <1>2, <1>3, <1>4, <1>5, <1>6, <1>7, <1>8, <1>9 DEF Next, Workio, Others, Terminated

(* "we can't submit twice a block!" holds when the node answers each call  *)
(* of getmininginfo: no share is sent for a height at which a block of     *)
(* ours has been accepted (submit_upstream_work, the net_blocks test).     *)
THEOREM SubmitOnceSafe ==
  ASSUME Gbt = TRUE, InfoOutcomes = {"ok"}
  PROVE  Safety => SubmitOnce
<1>1. Init => HeightInv /\ WonInv
  BY HeightInit DEF Init, WonInv
<1>2. IInv /\ HeightInv /\ WonInv /\ [Next]_vars => HeightInv' /\ WonInv'
  BY HeightStep, WonStep
<1>3. WonInv => [wpc = "send" /\ wpc' # "send" => shares[cmd.share].tip + 1 \notin won]_vars
  BY DEF WonInv
<1> QED
  BY <1>1, <1>2, <1>3, Invariance, PTL DEF Safety, SubmitOnce

-----------------------------------------------------------------------------
(* The wait for work.  That it ends (RequestAnswered) rests on fairness    *)
(* and is checked by TLC; the argument under it is proved here for any     *)
(* number of miners: while a miner waits with g_work_lock in its hands,    *)
(* each step of the workio thread uses up some of a supply that no step of *)
(* anybody fills again.  The supply is the failures still to come, the     *)
(* commands queued, the rest of the command in hand, and the miners that   *)
(* scan and can queue one share each before they, too, need the lock.      *)

Stage == [pop |-> 0, get |-> 2, getinfo |-> 1, badinfo |-> 3, check |-> 3,
          info |-> 2, send |-> 1, freeze |-> 1, dead |-> 0]
Scanning == {m \in Miners : mpc[m] = "scan"}
Rank == 5 * (MaxFaults - faults) + 5 * Len(workq) + Stage[wpc]
          + 6 * Cardinality(Scanning)

SomeoneWaits == \E m \in Miners : mpc[m] = "waiting"
WaitEnds == [][SomeoneWaits => Rank' <= Rank /\ (Workio => Rank' < Rank)]_vars

(* Whoever holds the lock can go on by itself, or has its answer, or there *)
(* is something for the workio thread to do, or that thread has ended.     *)
LockMoves ==
  \A m \in Miners : gLock = m =>
    \/ mpc[m] \in {"copying", "stored"}
    \/ mpc[m] = "waiting" /\ (inbox[m] # <<>> \/ wpc # "pop" \/ workq # <<>>)

LEMMA RankTypes ==
  ASSUME TypeOK
  PROVE  /\ Len(workq) \in Nat /\ faults \in Nat /\ faults <= MaxFaults /\ MaxFaults \in Nat
         /\ Stage[wpc] \in 0..3
         /\ IsFiniteSet(Scanning) /\ Cardinality(Scanning) \in Nat
         /\ Rank \in Nat
<1>1. Len(workq) \in Nat
  BY LenProperties DEF TypeOK
<1>2. faults \in Nat /\ faults <= MaxFaults /\ MaxFaults \in Nat
  BY WorkIOAssumption DEF TypeOK
<1>3. Stage[wpc] \in 0..3
  BY DEF TypeOK, Stage
<1>4. IsFiniteSet(Scanning) /\ Cardinality(Scanning) \in Nat
  <2>1. IsFiniteSet(Miners) /\ Scanning \in SUBSET Miners
    BY WorkIOAssumption DEF Scanning
  <2>2. IsFiniteSet(Scanning)
    BY <2>1, FS_Subset
  <2> QED
    BY <2>2, FS_CardinalityType
<1> QED
  BY <1>1, <1>2, <1>3, <1>4 DEF Rank

(* A step that leaves the scanning miners alone.                           *)
LEMMA SameScanning ==
  ASSUME UNCHANGED mpc
  PROVE  Scanning' = Scanning
BY DEF Scanning

(* A miner that stops scanning.                                            *)
LEMMA StopsScanning ==
  ASSUME TypeOK, NEW m \in Miners, NEW pc, mpc[m] = "scan", pc # "scan", Goto(m, pc)
  PROVE  Cardinality(Scanning') = Cardinality(Scanning) - 1
<1>1. Scanning' = Scanning \ {m} /\ m \in Scanning
  BY DEF TypeOK, Scanning, Goto
<1> QED
  BY <1>1, RankTypes, FS_RemoveElement

LEMMA WorkioUses ==
  ASSUME TypeOK, TypeOK', Workio
  PROVE  Rank' < Rank /\ Rank' <= Rank
<1> USE DEF minerVars, historyVars
<1>1. /\ Len(workq) \in Nat /\ faults \in Nat /\ MaxFaults \in Nat
      /\ Cardinality(Scanning) \in Nat /\ Stage[wpc] \in 0..3
  BY RankTypes
<1>2. Len(workq') \in Nat /\ faults' \in Nat /\ Stage[wpc'] \in 0..3
  <2>1. Len(workq') \in Nat
    BY LenProperties DEF TypeOK
  <2>2. faults' \in Nat
    BY WorkIOAssumption DEF TypeOK
  <2>3. Stage[wpc'] \in 0..3
    BY DEF TypeOK, Stage
  <2> QED
    BY <2>1, <2>2, <2>3
<1>3. UNCHANGED mpc
  BY DEF Workio, PopCommand, DeliverWork, RejectWork, CheckStale, CheckSolved, FreezeQueue,
     CallGetWork, SendShare
<1>4. /\ Rank = 5 * (MaxFaults - faults) + 5 * Len(workq) + Stage[wpc]
                  + 6 * Cardinality(Scanning)
      /\ Rank' = 5 * (MaxFaults - faults') + 5 * Len(workq') + Stage[wpc']
                   + 6 * Cardinality(Scanning)
  BY <1>3, SameScanning DEF Rank, Stage
<1> DEFINE Queued == Len(workq') = Len(workq)
           Down == \/ Len(workq') = Len(workq) - 1 /\ faults' = faults
                   \/ Queued /\ faults' = faults /\ Stage[wpc'] < Stage[wpc]
                   \/ Queued /\ faults' = faults + 1
<1>5. ASSUME PopCommand
      PROVE  Down
  BY <1>5, Popped DEF PopCommand
<1>6. ASSUME DeliverWork \/ RejectWork \/ CheckStale \/ CheckSolved \/ FreezeQueue
      PROVE  Down
  <2>1. UNCHANGED <<workq, faults>>
    BY <1>6 DEF DeliverWork, RejectWork, CheckStale, CheckSolved, FreezeQueue
  <2>2. Stage[wpc'] < Stage[wpc]
    BY <1>6 DEF DeliverWork, RejectWork, CheckStale, CheckSolved, FreezeQueue, Finish,
       CallFailed, Stage
  <2> QED
    BY <2>1, <2>2
<1>7. ASSUME NEW out \in CallOutcomes, CallGetWork(out)
      PROVE  Down
  BY <1>7 DEF CallGetWork, Stage
<1>8. ASSUME NEW out \in CallOutcomes, SendShare(out)
      PROVE  Down
  BY <1>8 DEF SendShare, Finish, Stage
<1>9. Down
  BY <1>5, <1>6, <1>7, <1>8 DEF Workio
<1>10. PICK q \in Nat, q1 \in Nat, f \in Nat, f1 \in Nat, g \in 0..3, g1 \in 0..3,
            c \in Nat, m \in Nat :
         /\ q = Len(workq) /\ q1 = Len(workq') /\ f = faults /\ f1 = faults'
         /\ g = Stage[wpc] /\ g1 = Stage[wpc'] /\ c = Cardinality(Scanning) /\ m = MaxFaults
  BY <1>1, <1>2
<1>11. \/ q1 = q - 1 /\ f1 = f
       \/ q1 = q /\ f1 = f /\ g1 < g
       \/ q1 = q /\ f1 = f + 1
  BY <1>9, <1>10
<1>12. LET r == 5 * (m - f) + 5 * q + g + 6 * c
           r1 == 5 * (m - f1) + 5 * q1 + g1 + 6 * c
       IN r1 < r /\ r1 <= r
  BY <1>11
<1>13. /\ Rank = 5 * (m - f) + 5 * q + g + 6 * c
       /\ Rank' = 5 * (m - f1) + 5 * q1 + g1 + 6 * c
  BY <1>4, <1>10
<1> QED
  BY <1>12, <1>13

(* While a miner waits the others can do nothing but come to the end of    *)
(* the scan they are in, and each queues at most one share then.           *)
LEMMA MinersUse ==
  ASSUME TypeOK, LockInv, SomeoneWaits, NEW m \in Miners, Miner(m)
  PROVE  Rank' <= Rank
<1> USE DEF nodeVars, sharedVars, workioVars, historyVars
<1>1. /\ Len(workq) \in Nat /\ faults \in Nat /\ MaxFaults \in Nat
      /\ Cardinality(Scanning) \in Nat /\ Stage[wpc] \in 0..3
  BY RankTypes
<1>2. gLock \in Miners /\ mpc[gLock] = "waiting" /\ gLock # None
  BY WorkIOAssumption DEF SomeoneWaits, LockInv
<1>3. mpc[m] \notin {"copying", "stored"}
  BY <1>2 DEF LockInv
<1>4. CASE ReceiveWork(m)
  <2>1. Scanning' = Scanning
    BY <1>4 DEF ReceiveWork, Goto, Scanning, TypeOK
  <2>2. UNCHANGED <<workq, faults, wpc>>
    BY <1>4 DEF ReceiveWork
  <2> QED
    BY <1>1, <2>1, <2>2 DEF Rank, Stage
<1>5. CASE ScanNothing(m)
  <2>1. Cardinality(Scanning') = Cardinality(Scanning) - 1
    BY <1>5, StopsScanning DEF ScanNothing
  <2>2. UNCHANGED <<workq, faults, wpc>>
    BY <1>5 DEF ScanNothing
  <2> QED
    BY <1>1, <2>1, <2>2 DEF Rank, Stage
<1>6. CASE SubmitShare(m)
  <2>1. Cardinality(Scanning') = Cardinality(Scanning) - 1
    <3>1. mpc[m] = "scan" /\ (Goto(m, "gone") \/ Goto(m, "expire"))
      BY <1>6 DEF SubmitShare
    <3> QED
      BY <3>1, StopsScanning
  <2>2. UNCHANGED <<faults, wpc>>
    BY <1>6 DEF SubmitShare
  <2>3. Len(workq') <= Len(workq) + 1 /\ Len(workq') \in Nat
    <3>1. workq' = workq \/ workq' = Append(workq, SubmitCmd(m, Len(shares) + 1))
      BY <1>6 DEF SubmitShare
    <3>2. SubmitCmd(m, Len(shares) + 1) \in Cmd
      BY CommandType, LenProperties DEF TypeOK
    <3> QED
      BY <1>1, <3>1, <3>2, Pushed
  <2> QED
    BY <1>1, <2>1, <2>2, <2>3 DEF Rank, Stage
<1>7. ~RequestWork(m) /\ ~StoreWork(m) /\ ~TakeWork(m) /\ ~ExpireWork(m)
  BY <1>2, <1>3 DEF RequestWork, StoreWork, TakeWork, ExpireWork
<1> QED
  BY <1>4, <1>5, <1>6, <1>7 DEF Miner

(* get_work waits without a time limit and with g_work_lock held, and the  *)
(* miners keep queueing shares before its request is reached: the workio   *)
(* thread can take only so many steps during one wait.                     *)
THEOREM WaitIsBounded == Safety => WaitEnds /\ [](Rank \in Nat)
<1>1. IInv => Rank \in Nat
  BY RankTypes DEF IInv
<1>2. ASSUME IInv, IInv', Next, SomeoneWaits
      PROVE  Rank' <= Rank /\ (Workio => Rank' < Rank)
  <2>1. Rank \in Nat
    BY <1>1, <1>2
  <2>2. ASSUME NEW m \in Miners, Miner(m)
        PROVE  Rank' <= Rank
    BY <1>2, <2>2, MinersUse DEF IInv
  <2>3. Workio => Rank' < Rank /\ Rank' <= Rank
    BY <1>2, WorkioUses DEF IInv
  <2>4. CASE MainReturns \/ OthersFindBlock \/ TimePasses \/ Terminated
    <3>1. UNCHANGED <<workq, faults, wpc, mpc>>
      BY <2>4 DEF MainReturns, OthersFindBlock, TimePasses, Terminated, minerVars, workioVars,
         historyVars, vars
    <3>2. Scanning' = Scanning
      BY <3>1, SameScanning
    <3>3. Rank' = Rank
      BY <3>1, <3>2 DEF Rank, Stage
    <3> QED
      BY <2>1, <2>3, <3>3
  <2> QED
    BY <1>2, <2>2, <2>3, <2>4 DEF Next
<1>3. IInv /\ IInv' /\ [Next]_vars =>
        [SomeoneWaits => Rank' <= Rank /\ (Workio => Rank' < Rank)]_vars
  BY <1>2
<1> QED
  BY <1>1, <1>3, Invariance, PTL DEF Safety, WaitEnds

(* g_work_lock is never held by a thread for which nothing is under way:   *)
(* get_work's wait, inside the lock, cannot be for an answer that nobody   *)
(* will send.                                                              *)
THEOREM LockMovesOn == Safety => []LockMoves
<1>1. ASSUME IInv, NEW m \in Miners, gLock = m, mpc[m] \notin {"copying", "stored"}
      PROVE  mpc[m] = "waiting" /\ (inbox[m] # <<>> \/ wpc # "pop" \/ workq # <<>>)
  <2>1. mpc[m] = "waiting"
    BY <1>1 DEF IInv, LockInv
  <2>2. ASSUME inbox[m] = <<>>, wpc = "pop"
        PROVE  workq # <<>>
    <3>1. Requested
      BY <1>1, <2>1, <2>2 DEF IInv, RequestInv
    <3>2. ~IsGet(cmd)
      BY <1>1, <2>2 DEF IInv, CommandInv, NoCmd, IsGet
    <3>3. Len(workq) # 0
      BY <3>1, <3>2 DEF Requested
    <3> QED
      BY <3>3, EmptySeq
  <2> QED
    BY <2>1, <2>2
<1>2. IInv => LockMoves
  BY <1>1 DEF LockMoves
<1> QED
  BY <1>2, Invariance, PTL
=============================================================================
