------------------------------- MODULE WorkIO -------------------------------
(***************************************************************************)
(* Solo mining (have_stratum = have_longpoll = false): the miner threads,  *)
(* the workio thread, the work they share and the node they mine for.      *)
(*                                                                         *)
(* A miner takes work from g_work under g_work_lock.  When g_work is too   *)
(* old, or the miner's nonce range is used up, it first sends a            *)
(* WC_GET_WORK command to the workio thread and, still holding the lock,   *)
(* waits on its own queue for the answer.  It scans without the lock, and  *)
(* sends a share it finds in a WC_SUBMIT_WORK command.  The workio thread  *)
(* handles the commands in order, each with one or several calls of the    *)
(* node, which fail or not; it retries after opt_fail_pause, opt_retries   *)
(* times.  When it gives up it freezes its queue and ends, and main, which *)
(* is joined to it, ends the process.                                      *)
(*                                                                         *)
(* Work is abstracted to the block it builds on: "tip" is the height of    *)
(* that block in the node's chain and stands for the previous-block hash   *)
(* in the header (there is no reorganisation, so one hash per height).     *)
(* "height" is work->height, the height of the block to be mined, or 0     *)
(* when it is not known.  A share is the work with a nonce that meets the  *)
(* target.  A queue is the mailbox of FifoQueue, which ThreadQueue         *)
(* implements.                                                             *)
(***************************************************************************)
EXTENDS Integers, Sequences, FiniteSets, SequencesExt

CONSTANTS
  Miners,          \* the miner threads
  None,            \* no thread, no command
  Gbt,             \* getblocktemplate (TRUE) or getwork (FALSE)
  Retries,         \* opt_retries; -1: without limit
  Submitold,       \* submit_old: shares of superseded work are wanted
  InfoOutcomes,    \* what a getmininginfo call can come to
  CallOutcomes,    \* what a getwork, getblocktemplate or submit call can come to;
                   \* "badReply" is an answer that is not a unit of work
  MaxHeight,       \* bound: height up to which others extend the chain
  MaxShares,       \* bound: shares found
  MaxFaults        \* bound: calls that fail

ASSUME WorkIOAssumption ==
  /\ IsFiniteSet(Miners) /\ Miners # {} /\ None \notin Miners
  /\ Gbt \in BOOLEAN /\ Submitold \in BOOLEAN
  /\ Retries \in Nat \cup {-1}
  /\ InfoOutcomes # {} /\ InfoOutcomes \subseteq {"ok", "fail", "unsupported"}
  /\ "ok" \in CallOutcomes
  /\ CallOutcomes \subseteq {"ok", "lostRequest", "lostReply", "badReply"}
  /\ MaxHeight \in Nat /\ MaxShares \in Nat /\ MaxFaults \in Nat

VARIABLES
  \* the node
  chain,       \* height of the node's best block
  won,         \* heights of blocks of ours in the chain
  \* shared memory
  gLock,       \* holder of g_work_lock, or None
  gWork,       \* g_work
  fresh,       \* time(NULL) - g_work_time < opt_scantime
  \* miner threads
  mpc,         \* where each miner is
  mwork,       \* each miner's own work
  spent,       \* nonce >= end_nonce in the miner's own work
  inbox,       \* each miner's queue
  heap,        \* the work a miner has popped and is copying to g_work
  \* workio thread
  workq,       \* its queue
  wpc,         \* where it is
  cmd,         \* the command it is handling
  reply,       \* ret_work in workio_get_work
  encoded,     \* the data of the share has been byte-swapped in place
  failures,    \* failures of the command being handled
  netBlocks,   \* net_blocks
  infoAllowed, \* allow_mininginfo
  \* the process, and history
  exited,      \* main has returned
  shares,      \* the shares found, in order
  fate,        \* what became of each of them
  faults       \* calls that failed so far (bounded by MaxFaults)

nodeVars == <<chain, won>>
sharedVars == <<gLock, gWork, fresh>>
minerVars == <<mpc, mwork, spent, inbox, heap>>
workioVars == <<workq, wpc, cmd, reply, encoded, failures, netBlocks, infoAllowed>>
historyVars == <<exited, shares, fate, faults>>
vars == <<nodeVars, sharedVars, minerVars, workioVars, historyVars>>

(* The zeroed structs the threads start with.                              *)
NoWork == [tip |-> -1, height |-> 0]

GetCmd(m) == [op |-> "WC_GET_WORK", thr |-> m, share |-> 0]
SubmitCmd(m, s) == [op |-> "WC_SUBMIT_WORK", thr |-> m, share |-> s]
NoCmd == [op |-> "none", thr |-> None, share |-> 0]

Init ==
  /\ chain = 0
  /\ won = {}
  /\ gLock = None
  /\ gWork = NoWork
  /\ fresh = FALSE                      \* g_work_time = 0
  /\ mpc = [m \in Miners |-> "top"]
  /\ mwork = [m \in Miners |-> NoWork]
  /\ spent = [m \in Miners |-> TRUE]    \* end_nonce = 0
  /\ inbox = [m \in Miners |-> <<>>]
  /\ heap = [m \in Miners |-> NoWork]
  /\ workq = <<>>
  /\ wpc = "pop"
  /\ cmd = NoCmd
  /\ reply = NoWork
  /\ encoded = FALSE
  /\ failures = 0
  /\ netBlocks = 0
  /\ infoAllowed = TRUE
  /\ exited = FALSE
  /\ shares = <<>>
  /\ fate = <<>>
  /\ faults = 0

Decide(s, what) == fate' = [fate EXCEPT ![s] = what]

-----------------------------------------------------------------------------
(* miner_thread                                                            *)

Goto(m, pc) == mpc' = [mpc EXCEPT ![m] = pc]

(* Mutant: the lock is released during the wait.                           *)
RequestWorkUnlocked(m) ==
  /\ ~exited
  /\ mpc[m] = "top"
  /\ gLock = None
  /\ ~fresh \/ spent[m]
  /\ wpc # "dead"
  /\ workq' = Append(workq, GetCmd(m))
  /\ Goto(m, "waiting")
  /\ UNCHANGED <<nodeVars, sharedVars, mwork, spent, inbox, heap, wpc, cmd,
                 reply, encoded, failures, netBlocks, infoAllowed, historyVars>>

(* g_work_lock is taken and the work is too old, or the range used up:     *)
(* get_work, up to the wait.  The command is queued, or the queue is       *)
(* frozen: then the lock is released and the thread ends.                  *)
RequestWork(m) ==
  /\ ~exited
  /\ mpc[m] = "top"
  /\ gLock = None
  /\ ~fresh \/ spent[m]
  /\ IF wpc = "dead"
     THEN /\ Goto(m, "gone")
          /\ UNCHANGED <<gLock, workq>>
     ELSE /\ gLock' = m
          /\ workq' = Append(workq, GetCmd(m))
          /\ Goto(m, "waiting")
  /\ UNCHANGED <<nodeVars, gWork, fresh, mwork, spent, inbox, heap, wpc, cmd,
                 reply, encoded, failures, netBlocks, infoAllowed, historyVars>>

(* get_work, after the wait: the unit of work is being copied to g_work.   *)
(* The workio thread reads g_work without the lock.                        *)
ReceiveWork(m) ==
  /\ ~exited
  /\ mpc[m] = "waiting"
  /\ inbox[m] # <<>>
  /\ heap' = [heap EXCEPT ![m] = Head(inbox[m])]
  /\ inbox' = [inbox EXCEPT ![m] = Tail(@)]
  /\ Goto(m, "copying")
  /\ UNCHANGED <<nodeVars, sharedVars, mwork, spent, workioVars, historyVars>>

StoreWork(m) ==
  /\ ~exited
  /\ mpc[m] = "copying"
  /\ gWork' = heap[m]
  /\ heap' = [heap EXCEPT ![m] = NoWork]
  /\ fresh' = TRUE
  /\ Goto(m, "stored")
  /\ UNCHANGED <<nodeVars, gLock, mwork, spent, inbox, workioVars, historyVars>>

(* get_new_work, under the lock, and the unlock.  The work is copied when  *)
(* the header differs from the miner's: always when it builds on another   *)
(* block, and perhaps (time stamp, transactions) when it does not.         *)
(* Otherwise the nonce moves on by one, which can end the range.           *)
TakeWork(m) ==
  /\ ~exited
  /\ \/ mpc[m] = "top" /\ gLock = None /\ fresh /\ ~spent[m]
     \/ mpc[m] = "stored"
  /\ \/ /\ mwork' = [mwork EXCEPT ![m] = gWork]
        /\ spent' = [spent EXCEPT ![m] = FALSE]
     \/ /\ mwork[m].tip = gWork.tip
        /\ \E full \in {spent[m], TRUE} : spent' = [spent EXCEPT ![m] = full]
        /\ UNCHANGED mwork
  /\ gLock' = None
  /\ Goto(m, "scan")
  /\ UNCHANGED <<nodeVars, gWork, fresh, inbox, heap, workioVars, historyVars>>

(* scanhash finds nothing: at the end of the range, at max_nonce, or       *)
(* because of a restart.                                                   *)
ScanNothing(m) ==
  /\ ~exited
  /\ mpc[m] = "scan"
  /\ \E full \in {spent[m], TRUE} : spent' = [spent EXCEPT ![m] = full]
  /\ Goto(m, "top")
  /\ UNCHANGED <<nodeVars, sharedVars, mwork, inbox, heap, workioVars,
                 historyVars>>

(* scanhash finds a share; submit_work queues a copy of the work, or the   *)
(* thread ends.                                                            *)
SubmitShare(m) ==
  /\ ~exited
  /\ mpc[m] = "scan"
  /\ Len(shares) < MaxShares
  /\ shares' = Append(shares, [miner |-> m, tip |-> mwork[m].tip,
                               height |-> mwork[m].height])
  /\ IF wpc = "dead"
     THEN /\ fate' = Append(fate, "refused")
          /\ Goto(m, "gone")
          /\ UNCHANGED workq
     ELSE /\ fate' = Append(fate, "queued")
          /\ workq' = Append(workq, SubmitCmd(m, Len(shares) + 1))
          /\ Goto(m, "expire")
  /\ UNCHANGED <<nodeVars, sharedVars, mwork, spent, inbox, heap, wpc, cmd,
                 reply, encoded, failures, netBlocks, infoAllowed, exited,
                 faults>>

(* Mutant: g_work_time is written without the lock.                        *)
ExpireWorkUnlocked(m) ==
  /\ ~exited
  /\ mpc[m] = "expire"
  /\ fresh' = FALSE
  /\ Goto(m, "top")
  /\ UNCHANGED <<nodeVars, gLock, gWork, mwork, spent, inbox, heap, workioVars,
                 historyVars>>

(* "we can't submit twice a block!": g_work_time = 0 under the lock, so    *)
(* that whoever comes next asks for new work.                              *)
ExpireWork(m) ==
  /\ ~exited
  /\ mpc[m] = "expire"
  /\ gLock = None
  /\ fresh' = FALSE
  /\ Goto(m, "top")
  /\ UNCHANGED <<nodeVars, gLock, gWork, mwork, spent, inbox, heap, workioVars,
                 historyVars>>

Miner(m) == \/ RequestWork(m) \/ ReceiveWork(m) \/ StoreWork(m) \/ TakeWork(m)
            \/ ScanNothing(m) \/ SubmitShare(m) \/ ExpireWork(m)

-----------------------------------------------------------------------------
(* workio_thread                                                           *)

(* Mutant: the switch lacks WC_SUBMIT_WORK.                                *)
PopCommandSkip ==
  /\ ~exited
  /\ wpc = "pop"
  /\ workq # <<>>
  /\ workq' = Tail(workq)
  /\ IF Head(workq).op = "WC_GET_WORK"
     THEN cmd' = Head(workq) /\ wpc' = "get"
     ELSE UNCHANGED <<cmd, wpc>>
  /\ UNCHANGED <<nodeVars, sharedVars, minerVars, reply, encoded, failures,
                 netBlocks, infoAllowed, historyVars>>

PopCommand ==
  /\ ~exited
  /\ wpc = "pop"
  /\ workq # <<>>
  /\ cmd' = Head(workq)
  /\ workq' = Tail(workq)
  /\ wpc' = IF Head(workq).op = "WC_GET_WORK" THEN "get" ELSE "check"
  /\ UNCHANGED <<nodeVars, sharedVars, minerVars, reply, encoded, failures,
                 netBlocks, infoAllowed, historyVars>>

(* The command is done: workio_cmd_free, and back to tq_pop.               *)
Finish == /\ wpc' = "pop"
          /\ cmd' = NoCmd
          /\ encoded' = FALSE
          /\ failures' = 0

(* The pause before the next try, or the end of the thread.  A failed call *)
(* of submitblock or getwork leaves the command as it is.                  *)
CallFailed(again) ==
  /\ failures' = IF Retries >= 0 THEN failures + 1 ELSE failures
  /\ wpc' = IF Retries >= 0 /\ failures + 1 > Retries THEN "freeze" ELSE again

(* The template names its height; getwork does not, and leaves in place    *)
(* what an earlier try has filled in.                                      *)
Template == [tip |-> chain, height |-> IF Gbt THEN chain + 1 ELSE reply.height]

(* get_upstream_work: the call of getblocktemplate or getwork.  An answer  *)
(* that cannot be decoded takes the same way as one that can, and fails at *)
(* its end.                                                                *)
CallGetWork(out) ==
  /\ ~exited
  /\ wpc = "get"
  /\ IF out = "ok"
     THEN /\ reply' = Template
          /\ wpc' = "getinfo"
          /\ UNCHANGED <<failures, faults>>
     ELSE /\ faults < MaxFaults
          /\ faults' = faults + 1
          /\ IF out = "badReply"
             THEN wpc' = "badinfo" /\ UNCHANGED failures
             ELSE CallFailed("get")
          /\ UNCHANGED reply
  /\ UNCHANGED <<nodeVars, sharedVars, minerVars, workq, cmd, encoded,
                 netBlocks, infoAllowed, exited, shares, fate>>

(* get_mininginfo: sets net_blocks; the first answer "not supported" turns *)
(* it off for good; any other failure goes unnoticed.                      *)
InfoCalls == IF infoAllowed THEN InfoOutcomes ELSE {"off"}

MiningInfo(out) ==
  /\ netBlocks' = IF out = "ok" THEN chain ELSE netBlocks
  /\ infoAllowed' = (infoAllowed /\ out # "unsupported")

(* It also fills in a height that is missing.                              *)
WithHeight(work, out) ==
  IF out = "ok" /\ work.height = 0 THEN [work EXCEPT !.height = chain + 1]
                                   ELSE work

(* Mutant: the answer is not pushed.                                       *)
DeliverWorkLost ==
  /\ ~exited
  /\ wpc = "getinfo"
  /\ reply' = NoWork
  /\ Finish
  /\ UNCHANGED <<nodeVars, sharedVars, minerVars, workq, netBlocks,
                 infoAllowed, historyVars>>

(* get_upstream_work ends with get_mininginfo, whatever that comes to.     *)
(* The work goes to the thread that asked.                                 *)
DeliverWork ==
  /\ ~exited
  /\ wpc = "getinfo"
  /\ \E out \in InfoCalls :
       /\ MiningInfo(out)
       /\ inbox' = [inbox EXCEPT ![cmd.thr] = Append(@, WithHeight(reply, out))]
  /\ reply' = NoWork
  /\ Finish
  /\ UNCHANGED <<nodeVars, sharedVars, mpc, mwork, spent, heap, workq,
                 historyVars>>

(* The answer was not decoded: another try, with the height in place.      *)
RejectWork ==
  /\ ~exited
  /\ wpc = "badinfo"
  /\ \E out \in InfoCalls :
       /\ MiningInfo(out)
       /\ reply' = WithHeight(reply, out)
  /\ CallFailed("get")
  /\ UNCHANGED <<nodeVars, sharedVars, minerVars, workq, cmd, encoded,
                 historyVars>>

(* The comparison of the share's previous hash with that of g_work.  A     *)
(* share whose data was swapped by an earlier try no longer compares       *)
(* equal.  While a miner is copying other work to g_work the comparison    *)
(* can come out either way.                                                *)
SameAsShared(s) ==
  IF encoded THEN {FALSE}
  ELSE {shares[s].tip = w.tip :
          w \in {gWork} \cup {heap[m] : m \in {n \in Miners : mpc[n] = "copying"}}}

(* submit_upstream_work, the first test: "stale work detected,             *)
(* discarding".                                                            *)
CheckStale ==
  /\ ~exited
  /\ wpc = "check"
  /\ \E same \in SameAsShared(cmd.share) :
       IF Submitold \/ same
       THEN /\ wpc' = IF infoAllowed THEN "info" ELSE "send"
            /\ UNCHANGED <<cmd, encoded, failures, fate>>
       ELSE /\ Decide(cmd.share, "stale")
            /\ Finish
  /\ UNCHANGED <<nodeVars, sharedVars, minerVars, workq, reply, netBlocks,
                 infoAllowed, exited, shares, faults>>

(* The height that is compared with net_blocks, and its mutants.           *)
AlreadySolvedEarly(s) == shares[s].height # 0 /\ shares[s].height <= netBlocks' + 1
AlreadySolvedNever(s) == FALSE
AlreadySolved(s) == shares[s].height # 0 /\ shares[s].height <= netBlocks'

(* The second test: "block was already solved".  It looks at net_blocks    *)
(* whether the call of getmininginfo succeeded or not.                     *)
CheckSolved ==
  /\ ~exited
  /\ wpc = "info"
  /\ \E out \in InfoCalls : MiningInfo(out)
  /\ LET s == cmd.share
     IN IF AlreadySolved(s)
        THEN /\ Decide(s, "solved")
             /\ Finish
        ELSE /\ wpc' = "send"
             /\ UNCHANGED <<cmd, encoded, failures, fate>>
  /\ UNCHANGED <<nodeVars, sharedVars, minerVars, workq, reply, exited,
                 shares, faults>>

(* What the node does with a block it receives: accepts it if it builds on *)
(* the best block and is encoded as the protocol says, that is swapped     *)
(* once for submitblock.                                                   *)
NodeAccepts(s, wellFormed) == wellFormed /\ shares[s].tip = chain

NodeTakes(s, wellFormed) ==
  IF NodeAccepts(s, wellFormed)
  THEN chain' = chain + 1 /\ won' = won \cup {chain + 1}
  ELSE UNCHANGED nodeVars

(* The call of submitblock (malloc_txs_request first swaps the data of the *)
(* work in place) or getwork, and share_result.  Any answer settles it.    *)
SendShare(out) ==
  /\ ~exited
  /\ out # "badReply"
  /\ wpc = "send"
  /\ LET s == cmd.share
         swapped == IF Gbt THEN ~encoded ELSE encoded
     IN /\ IF out = "lostRequest"
           THEN UNCHANGED nodeVars
           ELSE NodeTakes(s, swapped = Gbt)
        /\ IF out = "ok"
           THEN /\ Decide(s, IF NodeAccepts(s, swapped = Gbt)
                             THEN "accepted" ELSE "rejected")
                /\ Finish
                /\ UNCHANGED faults
           ELSE /\ faults < MaxFaults
                /\ faults' = faults + 1
                /\ CallFailed("check")
                /\ encoded' = swapped
                /\ UNCHANGED <<cmd, fate>>
  /\ UNCHANGED <<sharedVars, minerVars, workq, reply, netBlocks, infoAllowed,
                 exited, shares>>

(* The end of workio_thread.                                               *)
FreezeQueue ==
  /\ ~exited
  /\ wpc = "freeze"
  /\ wpc' = "dead"
  /\ cmd' = NoCmd
  /\ UNCHANGED <<nodeVars, sharedVars, minerVars, workq, reply, encoded,
                 failures, netBlocks, infoAllowed, historyVars>>

Workio == \/ PopCommand \/ DeliverWork \/ RejectWork \/ CheckStale
          \/ CheckSolved \/ FreezeQueue
          \/ \E out \in CallOutcomes : CallGetWork(out) \/ SendShare(out)

-----------------------------------------------------------------------------
(* main: pthread_join on the workio thread, then return, which ends every  *)
(* thread of the process.                                                  *)
MainReturns ==
  /\ ~exited
  /\ wpc = "dead"
  /\ exited' = TRUE
  /\ UNCHANGED <<nodeVars, sharedVars, minerVars, workioVars, shares, fate,
                 faults>>

(* Another miner of the network finds the next block.                      *)
OthersFindBlock ==
  /\ ~exited
  /\ chain < MaxHeight
  /\ chain' = chain + 1
  /\ UNCHANGED <<won, sharedVars, minerVars, workioVars, historyVars>>

(* opt_scantime has passed since g_work was fetched.                       *)
TimePasses ==
  /\ ~exited
  /\ fresh
  /\ fresh' = FALSE
  /\ UNCHANGED <<nodeVars, gLock, gWork, minerVars, workioVars, historyVars>>

Terminated == exited /\ UNCHANGED vars

Next == \/ \E m \in Miners : Miner(m)
        \/ Workio
        \/ MainReturns
        \/ OthersFindBlock
        \/ TimePasses
        \/ Terminated

Safety == Init /\ [][Next]_vars

(* Every thread inside a call is scheduled again; the workio thread, whose *)
(* calls of the node all return (CURLOPT_TIMEOUT), keeps going.            *)
Fairness == /\ WF_vars(Workio)
            /\ WF_vars(MainReturns)
            /\ \A m \in Miners : WF_vars(Miner(m))

Spec == Safety /\ Fairness

-----------------------------------------------------------------------------
(* Properties                                                              *)

Work == [tip : Int, height : Nat]
Cmd == [op : {"WC_GET_WORK", "WC_SUBMIT_WORK"}, thr : Miners, share : Nat]

TypeOK ==
  /\ chain \in Nat /\ won \in SUBSET Nat
  /\ gLock \in Miners \cup {None}
  /\ gWork \in Work
  /\ fresh \in BOOLEAN
  /\ mpc \in [Miners -> {"top", "waiting", "copying", "stored", "scan",
                         "expire", "gone"}]
  /\ mwork \in [Miners -> Work]
  /\ spent \in [Miners -> BOOLEAN]
  /\ inbox \in [Miners -> Seq(Work)]
  /\ heap \in [Miners -> Work]
  /\ workq \in Seq(Cmd)
  /\ wpc \in {"pop", "get", "getinfo", "badinfo", "check", "info", "send", "freeze",
              "dead"}
  /\ cmd \in Cmd \cup {NoCmd}
  /\ reply \in Work
  /\ encoded \in BOOLEAN /\ infoAllowed \in BOOLEAN /\ exited \in BOOLEAN
  /\ failures \in Nat /\ netBlocks \in Nat /\ faults \in 0..MaxFaults
  /\ shares \in Seq([miner : Miners, tip : Int, height : Nat])
  /\ fate \in Seq({"queued", "stale", "solved", "accepted", "rejected",
                   "refused"})

(* Requests for work that are somewhere between get_work's push and its    *)
(* pop: queued, being handled, or answered.                                *)
Outstanding(m) ==
  Cardinality({i \in DOMAIN workq : workq[i] = GetCmd(m)})
    + (IF cmd = GetCmd(m) THEN 1 ELSE 0) + Len(inbox[m])

(* get_work pairs a request with the next thing that arrives on the        *)
(* thread's queue, without looking.  That is right because at most one     *)
(* request is outstanding in the whole process, it is the lock holder's,   *)
(* and while the workio thread lives a waiting miner's request is not      *)
(* lost.                                                                   *)
OneRequest ==
  /\ \A m \in Miners : Outstanding(m) <= 1
  /\ \A m \in Miners : Outstanding(m) = 1 => mpc[m] = "waiting" /\ gLock = m
  /\ \A m \in Miners : mpc[m] = "waiting" /\ wpc # "dead" => Outstanding(m) = 1

(* While the workio thread lives, each share that a miner has sent is in   *)
(* its hands exactly once until its fate is decided.                       *)
SharesAccounted ==
  \A s \in DOMAIN fate :
    LET places == Cardinality({i \in DOMAIN workq : workq[i].share = s})
                    + (IF cmd.share = s THEN 1 ELSE 0)
    IN IF fate[s] = "queued" THEN places = 1 \/ wpc = "dead" ELSE places = 0

(* "prevent stale work in solo" (miner_thread): when a miner scans again,  *)
(* every share it has found was dealt with before the work was fetched, so *)
(* it does not go on mining a block it has already solved.                 *)
SettledBeforeScanning ==
  \A m \in Miners, s \in DOMAIN fate :
    mpc[m] = "scan" /\ shares[s].miner = m => fate[s] # "queued"

(* The shared work never goes back to an older block, although answers     *)
(* reach it through two queues and two threads.                            *)
WorkMovesForward == [][gWork'.tip >= gWork.tip]_vars

(* A getwork answer that cannot be decoded leaves the height of its time   *)
(* in ret_work, and the next answer, for a later block, is given that one. *)
HeightLeftOver(s) == ~Gbt /\ shares[s].height \notin {0, shares[s].tip + 1}

(* A share is discarded without being sent only when the block it builds   *)
(* on is not the best one any more: nothing that could win is thrown away, *)
(* unless its height is that of an earlier answer (cpu-miner.c:418).       *)
DiscardJustified ==
  [][\A s \in DOMAIN fate :
       fate[s] = "queued" /\ fate'[s] \in {"stale", "solved"}
         => shares[s].tip # chain
            \/ (HeightLeftOver(s) /\ fate'[s] = "solved")]_vars

(* "we can't submit twice a block!" (miner_thread): no share is sent for a *)
(* height at which a block of ours has been accepted.                      *)
SubmitOnce ==
  [][wpc = "send" /\ wpc' # "send" => shares[cmd.share].tip + 1 \notin won]_vars

(* A miner that waits for work, holding g_work_lock, gets it or the        *)
(* process ends.                                                           *)
RequestAnswered ==
  \A m \in Miners : mpc[m] = "waiting" ~> (mpc[m] # "waiting" \/ exited)

(* A share that was sent is decided, or the process ends.                  *)
Undecided(s) == s \in DOMAIN fate /\ fate[s] = "queued"
ShareSettled == \A s \in 1..MaxShares : Undecided(s) ~> (~Undecided(s) \/ exited)
=============================================================================
