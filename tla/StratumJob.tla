------------------------------ MODULE StratumJob ------------------------------
(***************************************************************************)
(* Pool mining (have_stratum): how a job of the pool becomes the header a  *)
(* miner scans, and a share the line that is sent to the pool.             *)
(*                                                                         *)
(* The Stratum thread reads the pool's messages and keeps the job          *)
(* (sctx->job, under work_lock).  Whenever its id is not that of g_work it *)
(* makes a header of it in g_work, under g_work_lock, sets g_work_time     *)
(* and, for a clean job, raises every miner's restart flag.  A miner whose *)
(* nonce range is used up makes a header itself: the same job with the     *)
(* next extranonce2.  The workio thread sends the shares.                  *)
(*                                                                         *)
(* A job is its id; "tip" stands for the previous-block hash and "ext" for *)
(* the extranonce1 its coinbase was built with.  A header is a job id with *)
(* the tip, extranonce1 and extranonce2 that were hashed into it, and is   *)
(* kept apart from the id and extranonce2 that will be named to the pool.  *)
(* Time is what the code tests of it: g_work_time is zero, recent or more  *)
(* than 120 seconds ago.                                                   *)
(***************************************************************************)
EXTENDS Integers, Sequences

CONSTANTS
  Miners,      \* the miner threads
  Stratum,     \* the Stratum thread
  None,        \* no thread, no share
  Retries,     \* opt_retries; -1: without limit
  Diffs,       \* the difficulties a pool sets; 1 is the one before it does
  MaxJobs,     \* bound: job ids of the pool
  MaxResent,   \* bound: jobs sent again under their id
  MaxExt,      \* bound: extranonces of the pool
  MaxDrops,    \* bound: connections lost or not made
  MaxXn2,      \* bound: extranonce2 up to which miners use up their ranges
  MaxShares    \* bound: shares found

ASSUME StratumAssumption ==
  /\ Stratum \notin Miners /\ None \notin Miners \cup {Stratum}
  /\ Retries \in Nat \cup {-1}
  /\ Diffs \subseteq Nat /\ 1 \in Diffs
  /\ MaxJobs \in Nat /\ MaxResent \in Nat /\ MaxExt \in Nat /\ MaxDrops \in Nat
  /\ MaxXn2 \in Nat /\ MaxShares \in Nat

VARIABLES
  \* struct stratum_ctx
  link,        \* a socket is open (sctx->curl is set)
  ext,         \* sctx->xnonce1
  nextDiff,    \* sctx->next_diff
  job,         \* sctx->job
  xn2,         \* sctx->job.xnonce2
  wLock,       \* holder of sctx->work_lock, or None
  \* shared with the miners
  gLock,       \* holder of g_work_lock, or None
  gWork,       \* g_work
  gTime,       \* g_work_time
  restart,     \* work_restart[].restart
  \* the Stratum thread and the miners
  pc,          \* where each of them is
  sfailures,   \* failures to connect, subscribe or authorize
  mwork,       \* each miner's own work
  spent,       \* nonce >= end_nonce in the miner's own work
  \* the workio thread
  workq,       \* its queue of shares; None is the NULL that ends it
  wpc,         \* where it is
  share,       \* the share it is handling
  wfailures,   \* failures to send it
  \* the process, and history
  exited,      \* main has returned
  sent,        \* shares sent
  found,       \* number of shares found (bounded by MaxShares)
  drops,       \* connections lost or not made (bounded by MaxDrops)
  resent,      \* jobs sent again (bounded by MaxResent)
  offered,     \* what the pool's last job was sent with
  restartedFor,\* job id at the last restart for a clean job
  slipped      \* miners that cleared a raised flag as they began to scan

poolVars == <<link, ext, nextDiff, job>>
sharedVars == <<gLock, gWork, gTime>>
minerVars == <<mwork, spent>>
workioVars == <<workq, wpc, share, wfailures>>
boundVars == <<found, drops, resent>>
historyVars == <<sent, offered, restartedFor, slipped>>
vars == <<poolVars, xn2, wLock, sharedVars, restart, pc, sfailures, minerVars,
          workioVars, exited, boundVars, historyVars>>

Threads == Miners \cup {Stratum}

NoJob == [id |-> 0, tip |-> 0, ext |-> 0, diff |-> 0, clean |-> FALSE]
(* A header of zeros: before the first, and while one is being written.    *)
NoHeader == [job |-> 0, tip |-> -1, ext |-> 0, xn2 |-> 0]
NoWork == [id |-> 0, xn2 |-> 0, diff |-> 0, header |-> NoHeader]

Init ==
  /\ link = FALSE
  /\ ext = 0
  /\ nextDiff = 0
  /\ job = NoJob
  /\ xn2 = 0
  /\ wLock = None
  /\ gLock = None
  /\ gWork = NoWork
  /\ gTime = "zero"
  /\ restart = [m \in Miners |-> FALSE]
  /\ pc = [t \in Threads |-> IF t = Stratum THEN "loop" ELSE "wait"]
  /\ sfailures = 0
  /\ mwork = [m \in Miners |-> NoWork]
  /\ spent = [m \in Miners |-> TRUE]        \* end_nonce = 0
  /\ workq = <<>>
  /\ wpc = "pop"
  /\ share = None
  /\ wfailures = 0
  /\ exited = FALSE
  /\ sent = {}
  /\ found = 0
  /\ drops = 0
  /\ resent = 0
  /\ offered = {}
  /\ restartedFor = 0
  /\ slipped = {}

(* Whether one failure more is one too many, and the count after it.       *)
GivesUp(failures) == Retries >= 0 /\ failures + 1 > Retries
Count(failures) == IF Retries >= 0 THEN failures + 1 ELSE failures

Goto(t, where) == pc' = [pc EXCEPT ![t] = where]

(* Mutant: the flags stay as they are.                                     *)
restart_nobody == UNCHANGED restart

restart_threads == restart' = [m \in Miners |-> TRUE]

-----------------------------------------------------------------------------
(* stratum_gen_work, called with g_work_lock held by t: the Stratum thread *)
(* or a miner.  Nobody but t holds work_lock then for more than a step.    *)

(* g_work_lock and work_lock are taken; the id and the extranonce2 are     *)
(* copied from the job, and std_build_block_header begins with a memset of *)
(* the header.                                                             *)
BeginWork(t) ==
  /\ wLock = None
  /\ wLock' = t
  /\ gWork' = [gWork EXCEPT !.id = job.id, !.xn2 = xn2, !.header = NoHeader]
  /\ Goto(t, "header")

(* Mutant: the extranonce2 is moved on before it is hashed.                *)
HeaderOfNext ==
  [job |-> job.id, tip |-> job.tip, ext |-> job.ext, xn2 |-> xn2 + 1]

(* What build_extraheader puts into the header: the job, with the          *)
(* extranonce1 its coinbase was built with and the extranonce2 of now.     *)
HeaderOfJob == [job |-> job.id, tip |-> job.tip, ext |-> job.ext, xn2 |-> xn2]

(* Still under work_lock: the header is filled in from the job, and the    *)
(* job's extranonce2 moves on.                                             *)
GenHeader(t) ==
  /\ pc[t] = "header"
  /\ gWork' = [gWork EXCEPT !.header = HeaderOfJob]
  /\ xn2' = xn2 + 1
  /\ wLock' = None
  /\ Goto(t, "target")
  /\ UNCHANGED <<poolVars, gLock, gTime, restart, sfailures, minerVars,
                 workioVars, exited, boundVars, historyVars>>

(* Mutant: the difficulty for the jobs to come.                            *)
WithNextTarget(work) == [work EXCEPT !.diff = nextDiff]

(* set_target, after work_lock was released: the job may be another one.   *)
WithTarget(work) == [work EXCEPT !.diff = job.diff]

-----------------------------------------------------------------------------
(* stratum_thread                                                          *)

(* while (1): without a connection, the miners are stopped.                *)
StopMiners ==
  /\ pc[Stratum] = "loop"
  /\ ~link
  /\ gLock = None
  /\ gTime' = "zero"
  /\ restart_threads
  /\ Goto(Stratum, "connect")
  /\ UNCHANGED <<poolVars, xn2, wLock, gLock, gWork, sfailures, minerVars,
                 workioVars, exited, boundVars, historyVars>>

(* stratum_subscribe sets next_diff.                                       *)
InitialDiff == 1

(* stratum_connect and stratum_subscribe: the pool resumes the session or  *)
(* starts another one, with another extranonce1.                           *)
Subscribe ==
  /\ pc[Stratum] = "connect"
  /\ wLock = None
  /\ link' = TRUE
  /\ nextDiff' = InitialDiff
  /\ ext' \in {ext, ext + 1} /\ ext' <= MaxExt
  /\ Goto(Stratum, "authorize")
  /\ UNCHANGED <<job, xn2, wLock, sharedVars, restart, sfailures, minerVars,
                 workioVars, exited, boundVars, historyVars>>

(* One of the three fails: stratum_disconnect; after opt_retries failures  *)
(* the thread ends and sends NULL to the workio thread.                    *)
HandshakeFails ==
  /\ pc[Stratum] \in {"connect", "authorize"}
  /\ drops < MaxDrops
  /\ drops' = drops + 1
  /\ link' = FALSE
  /\ sfailures' = Count(sfailures)
  /\ IF GivesUp(sfailures)
     THEN Goto(Stratum, "done") /\ workq' = Append(workq, None)
     ELSE Goto(Stratum, "loop") /\ UNCHANGED workq
  /\ UNCHANGED <<ext, nextDiff, job, xn2, wLock, sharedVars, restart, minerVars,
                 wpc, share, wfailures, exited, found, resent, historyVars>>

Authorized ==
  /\ pc[Stratum] = "authorize"
  /\ sfailures' = 0
  /\ Goto(Stratum, "check")
  /\ UNCHANGED <<poolVars, xn2, wLock, sharedVars, restart, minerVars,
                 workioVars, exited, boundVars, historyVars>>

(* The test of stratum_thread for making work of the job.                  *)
JobIsNew == job # NoJob /\ (gTime = "zero" \/ job.id # gWork.id)
(* The ids are compared without a lock: while a miner is replacing         *)
(* g_work.job_id the answer may be either.                                 *)
AtCheck == pc[Stratum] = "check" \/ (pc[Stratum] = "loop" /\ link)
Replacing == \E m \in Miners : pc[m] = "header"

CheckNew ==
  /\ AtCheck
  /\ JobIsNew \/ (Replacing /\ job # NoJob)
  /\ Goto(Stratum, "gen")
  /\ UNCHANGED <<poolVars, xn2, wLock, sharedVars, restart, sfailures,
                 minerVars, workioVars, exited, boundVars, historyVars>>

CheckOld ==
  /\ AtCheck
  /\ ~JobIsNew \/ (Replacing /\ gTime # "zero")
  /\ Goto(Stratum, "recv")
  /\ UNCHANGED <<poolVars, xn2, wLock, sharedVars, restart, sfailures,
                 minerVars, workioVars, exited, boundVars, historyVars>>

LockForJob ==
  /\ pc[Stratum] = "gen"
  /\ gLock = None
  /\ gLock' = Stratum
  /\ BeginWork(Stratum)
  /\ UNCHANGED <<poolVars, xn2, gTime, restart, sfailures,
                 minerVars, workioVars, exited, boundVars, historyVars>>

(* The target is set, then g_work_time, and g_work_lock is released.       *)
PublishJob ==
  /\ pc[Stratum] = "target"
  /\ gWork' = WithTarget(gWork)
  /\ gTime' = "recent"
  /\ gLock' = None
  /\ Goto(Stratum, "announce")
  /\ UNCHANGED <<poolVars, xn2, wLock, restart, sfailures, minerVars,
                 workioVars, exited, boundVars, historyVars>>

(* A clean job interrupts the scans.                                       *)
Announce ==
  /\ pc[Stratum] = "announce"
  /\ IF job.clean
     THEN restart_threads /\ restartedFor' = job.id
     ELSE UNCHANGED <<restart, restartedFor>>
  /\ Goto(Stratum, "recv")
  /\ UNCHANGED <<poolVars, xn2, wLock, sharedVars, sfailures, minerVars,
                 workioVars, exited, boundVars, sent, offered, slipped>>

(* No line in opt_timeout seconds, a closed connection, client.reconnect,  *)
(* or stratum_need_reset seen at the top of the loop: stratum_disconnect.  *)
(* The job stays.                                                          *)
Disconnect ==
  /\ pc[Stratum] \in {"recv", "loop"}
  /\ link
  /\ drops < MaxDrops
  /\ drops' = drops + 1
  /\ link' = FALSE
  /\ Goto(Stratum, "loop")
  /\ UNCHANGED <<ext, nextDiff, job, xn2, wLock, sharedVars, restart, sfailures,
                 minerVars, workioVars, exited, found, resent, historyVars>>

(* stratum_handle_method: in the loop, or while stratum_authorize waits    *)
(* for its answer.                                                         *)
Receiving == pc[Stratum] \in {"recv", "authorize"} /\ link
AfterLine == Goto(Stratum, IF pc[Stratum] = "recv" THEN "loop" ELSE "authorize")

(* Mutant: every notify starts again.                                      *)
Xn2Reset(new) == 0

(* The extranonce2 starts again only under another job id.                 *)
Xn2After(new) == IF job.id # new.id THEN 0 ELSE xn2

(* stratum_notify, under work_lock: the coinbase is put together with the  *)
(* extranonce1 of now.                                                     *)
SetJob(new) ==
  /\ Receiving
  /\ wLock = None
  /\ job' = new
  /\ xn2' = Xn2After(new)
  /\ offered' = {o \in offered : o.id = new.id} \cup {new}
  /\ AfterLine
  /\ UNCHANGED <<link, ext, nextDiff, wLock, sharedVars, restart, sfailures,
                 minerVars, workioVars, exited, found, drops, sent,
                 restartedFor, slipped>>

NewJob ==
  /\ job.id < MaxJobs
  /\ \E clean \in BOOLEAN :
       SetJob([id |-> job.id + 1,
               tip |-> IF clean THEN job.tip + 1 ELSE job.tip,
               ext |-> ext, diff |-> nextDiff, clean |-> clean])
  /\ UNCHANGED resent

ResentJob ==
  /\ job # NoJob
  /\ resent < MaxResent
  /\ resent' = resent + 1
  /\ SetJob([job EXCEPT !.ext = ext, !.diff = nextDiff])

(* stratum_set_difficulty: for the jobs to come.                           *)
SetDifficulty ==
  /\ Receiving
  /\ wLock = None
  /\ nextDiff' \in Diffs \ {nextDiff}
  /\ AfterLine
  /\ UNCHANGED <<link, ext, job, xn2, wLock, sharedVars, restart, sfailures,
                 minerVars, workioVars, exited, boundVars, historyVars>>

(* stratum_parse_extranonce for mining.set_extranonce: likewise.           *)
SetExtranonce ==
  /\ Receiving
  /\ wLock = None
  /\ ext < MaxExt
  /\ ext' = ext + 1
  /\ AfterLine
  /\ UNCHANGED <<link, nextDiff, job, xn2, wLock, sharedVars, restart,
                 sfailures, minerVars, workioVars, exited, boundVars, historyVars>>

(* What the thread does by itself, and what the pool makes it do.          *)
StratumStep == \/ StopMiners \/ CheckNew \/ CheckOld \/ LockForJob
               \/ GenHeader(Stratum) \/ PublishJob \/ Announce
PoolStep == \/ Subscribe \/ HandshakeFails \/ Authorized \/ Disconnect
            \/ NewJob \/ ResentJob \/ SetDifficulty \/ SetExtranonce

-----------------------------------------------------------------------------
(* miner_thread                                                            *)

(* std_wait_for_diff, without a lock.                                      *)
WaitForDiff(m) ==
  /\ pc[m] = "wait"
  /\ gTime = "recent"
  /\ Goto(m, "lock")
  /\ UNCHANGED <<poolVars, xn2, wLock, sharedVars, restart, sfailures,
                 minerVars, workioVars, exited, boundVars, historyVars>>

(* g_work_lock; with its range used up, the miner makes a header itself.   *)
LockWork(m) ==
  /\ pc[m] = "lock"
  /\ gLock = None
  /\ gLock' = m
  /\ IF spent[m] THEN BeginWork(m)
                 ELSE Goto(m, "take") /\ UNCHANGED <<wLock, gWork>>
  /\ UNCHANGED <<poolVars, xn2, gTime, restart, sfailures,
                 minerVars, workioVars, exited, boundVars, historyVars>>

(* Mutant: without the comparison of the job_id pointers.                  *)
WorkDiffersClean(m) ==
  mwork[m].header # gWork.header /\ (job.clean \/ spent[m])

(* std_get_new_work: the header differs; the further condition always      *)
(* holds, because the two job_id pointers are never the same.              *)
WorkDiffers(m) == mwork[m].header # gWork.header

(* The target of a header it has made is set; then the work is taken when  *)
(* it differs, with a fresh range; then g_work_lock is released.           *)
TakeWork(m) ==
  /\ pc[m] \in {"target", "take"}
  /\ gWork' = IF pc[m] = "target" THEN WithTarget(gWork) ELSE gWork
  /\ IF WorkDiffers(m)
     THEN /\ mwork' = [mwork EXCEPT ![m] = gWork']
          /\ spent' = [spent EXCEPT ![m] = FALSE]
     ELSE UNCHANGED <<mwork, spent>>
  /\ gLock' = None
  /\ Goto(m, "ready")
  /\ UNCHANGED <<poolVars, xn2, wLock, gTime, restart, sfailures, workioVars,
                 exited, boundVars, historyVars>>

(* ready_to_mine; then the restart flag is cleared, raised or not, and the *)
(* scan begins.                                                            *)
StartScan(m) ==
  /\ pc[m] = "ready"
  /\ mwork[m].header # NoHeader
  /\ restart' = [restart EXCEPT ![m] = FALSE]
  /\ slipped' = IF restart[m] THEN slipped \cup {m} ELSE slipped
  /\ Goto(m, "scan")
  /\ UNCHANGED <<poolVars, xn2, wLock, sharedVars, sfailures, minerVars,
                 workioVars, exited, boundVars, sent, offered, restartedFor>>

LeaveScan(m) == Goto(m, "wait") /\ slipped' = slipped \ {m}

(* The scan ends at max_nonce or on the restart flag, at the end of the    *)
(* range or before.                                                        *)
EndScan(m) ==
  /\ pc[m] = "scan"
  /\ \/ UNCHANGED spent
     \/ xn2 < MaxXn2 /\ spent' = [spent EXCEPT ![m] = TRUE]
  /\ LeaveScan(m)
  /\ UNCHANGED <<poolVars, xn2, wLock, sharedVars, restart, sfailures, mwork,
                 workioVars, exited, boundVars, sent, offered, restartedFor>>

(* work_copy in submit_work.                                               *)
WorkCopy(m) == mwork[m]

(* It ends with a share: submit_work sends a copy of the work.             *)
FindShare(m) ==
  /\ pc[m] = "scan"
  /\ found < MaxShares
  /\ found' = found + 1
  /\ workq' = Append(workq, WorkCopy(m))
  /\ LeaveScan(m)
  /\ UNCHANGED <<poolVars, xn2, wLock, sharedVars, restart, sfailures,
                 minerVars, wpc, share, wfailures, exited, drops, resent,
                 sent, offered, restartedFor>>

MinerStep(m) == \/ WaitForDiff(m) \/ LockWork(m) \/ GenHeader(m) \/ TakeWork(m)
                \/ StartScan(m) \/ EndScan(m)

-----------------------------------------------------------------------------
(* workio_thread                                                           *)

(* The next share; or NULL: the thread ends, and main with it.             *)
PopShare ==
  /\ wpc = "pop"
  /\ workq # <<>>
  /\ workq' = Tail(workq)
  /\ IF Head(workq) = None
     THEN exited' = TRUE /\ UNCHANGED <<wpc, share, wfailures>>
     ELSE /\ share' = Head(workq)
          /\ wpc' = "test"
          /\ wfailures' = 0
          /\ UNCHANGED exited
  /\ UNCHANGED <<poolVars, xn2, wLock, sharedVars, restart, pc, sfailures,
                 minerVars, boundVars, historyVars>>

(* Mutant: the jobs are compared, not the blocks they build on.            *)
SameJob == share.header.job = gWork.header.job

SameBlock == share.header.tip = gWork.header.tip

(* submit_upstream_work: the previous hash is compared with that in g_work *)
(* without a lock.                                                         *)
TestShare ==
  /\ wpc = "test"
  /\ IF SameBlock
     THEN wpc' = "send" /\ UNCHANGED share
     ELSE wpc' = "pop" /\ share' = None
  /\ UNCHANGED <<poolVars, xn2, wLock, sharedVars, restart, pc, sfailures,
                 minerVars, workq, wfailures, exited, boundVars, historyVars>>

SendShare ==
  /\ wpc = "send"
  /\ link
  /\ sent' = sent \cup {share}
  /\ wpc' = "pop"
  /\ share' = None
  /\ UNCHANGED <<poolVars, xn2, wLock, sharedVars, restart, pc, sfailures,
                 minerVars, workq, wfailures, exited, boundVars, offered,
                 restartedFor, slipped>>

(* Mutant: the failures are not counted.                                   *)
SendFailsUncounted ==
  /\ wpc = "send"
  /\ ~link
  /\ wpc' = "test"
  /\ UNCHANGED <<poolVars, xn2, wLock, sharedVars, restart, pc, sfailures,
                 minerVars, workq, share, wfailures, exited, boundVars,
                 historyVars>>

(* stratum_send_line fails: again from the test, or the thread ends.       *)
SendFails ==
  /\ wpc = "send"
  /\ ~link
  /\ wfailures' = Count(wfailures)
  /\ IF GivesUp(wfailures)
     THEN exited' = TRUE /\ UNCHANGED wpc
     ELSE wpc' = "test" /\ UNCHANGED exited
  /\ UNCHANGED <<poolVars, xn2, wLock, sharedVars, restart, pc, sfailures,
                 minerVars, workq, share, boundVars, historyVars>>

Workio == PopShare \/ TestShare \/ SendShare \/ SendFails

-----------------------------------------------------------------------------
(* 120 seconds have passed since g_work_time, without a line of the pool.  *)
TimePasses ==
  /\ pc[Stratum] = "recv"
  /\ gTime = "recent"
  /\ gTime' = "old"
  /\ UNCHANGED <<poolVars, xn2, wLock, gLock, gWork, restart, pc, sfailures,
                 minerVars, workioVars, exited, boundVars, historyVars>>

(* The pool is silent, and the miners have stopped.                        *)
Silent == /\ exited \/ (pc[Stratum] = "recv" /\ gTime = "old")
                    \/ pc[Stratum] = "done"
          /\ UNCHANGED vars

Next == \/ ~exited /\ \/ StratumStep
                      \/ PoolStep
                      \/ \E m \in Miners : MinerStep(m) \/ FindShare(m)
                      \/ Workio
                      \/ TimePasses
        \/ Silent

Safety == Init /\ [][Next]_vars

(* The threads are scheduled, and a thread that waits for g_work_lock gets *)
(* it in the end: the others hold it for a few instructions between scans. *)
(* No fairness of the pool, of finding shares or of the clock.             *)
Fairness == /\ WF_vars(~exited /\ StratumStep)
            /\ WF_vars(~exited /\ Workio)
            /\ SF_vars(~exited /\ LockForJob)
            /\ \A m \in Miners : /\ WF_vars(~exited /\ MinerStep(m))
                                 /\ SF_vars(~exited /\ LockWork(m))

Spec == Safety /\ Fairness

-----------------------------------------------------------------------------
(* Properties                                                              *)

Job == [id : Nat, tip : Nat, ext : Nat, diff : Diffs, clean : BOOLEAN]
Header == [job : Nat, tip : Int, ext : Nat, xn2 : Nat]
Work == [id : Nat, xn2 : Nat, diff : Nat, header : Header]
Place == {"loop", "connect", "authorize", "check", "gen", "header",
          "target", "announce", "recv", "done", "wait", "lock", "take", "ready",
          "scan"}

TypeOK ==
  /\ link \in BOOLEAN /\ exited \in BOOLEAN
  /\ ext \in Nat /\ xn2 \in Nat /\ nextDiff \in Diffs \cup {0}
  /\ job \in Job \cup {NoJob}
  /\ wLock \in Threads \cup {None} /\ gLock \in Threads \cup {None}
  /\ gWork \in Work
  /\ gTime \in {"zero", "recent", "old"}
  /\ restart \in [Miners -> BOOLEAN]
  /\ pc \in [Threads -> Place]
  /\ mwork \in [Miners -> Work]
  /\ spent \in [Miners -> BOOLEAN]
  /\ workq \in Seq(Work \cup {None})
  /\ wpc \in {"pop", "test", "send"}
  /\ share \in Work \cup {None}
  /\ sfailures \in Nat /\ wfailures \in Nat
  /\ found \in Nat /\ drops \in Nat /\ resent \in Nat
  /\ sent \in SUBSET Work
  /\ offered \in SUBSET Job
  /\ restartedFor \in Nat
  /\ slipped \in SUBSET Miners

(* The work that miners and the workio thread have copies of.              *)
Copies ==
  ({mwork[m] : m \in Miners} \cup {workq[i] : i \in DOMAIN workq} \cup {share}
    \cup sent) \ {None}

(* A share names the job and the extranonce2 that were hashed into its     *)
(* header, although the header is made of a job that the Stratum thread    *)
(* replaces, by threads that replace each other's work: the pool can       *)
(* rebuild the header from the line it is sent (mining.submit).            *)
LabelMatchesHeader ==
  \A w \in Copies : w.id = w.header.job /\ w.xn2 = w.header.xn2

(* The extranonce2 of the next header has not been used with this job, for *)
(* whichever thread makes the header and however often the pool sends the  *)
(* job: two miners never scan the same header by accident.                 *)
NextIsFresh ==
  \A w \in {gWork} \cup Copies :
    w.header # NoHeader /\ w.header.job = job.id => w.header.xn2 < xn2

(* While the Stratum thread waits for a line and no thread is at g_work,   *)
(* g_work is of the pool's last job, with an extranonce1 and a target that *)
(* the pool sent that job with, and the miners are not held up by a zero   *)
(* g_work_time.  In between, the target can be that of the job after       *)
(* (set_target runs after work_lock is released).                          *)
WorkSettled ==
  pc[Stratum] = "recv" /\ gLock = None /\ job # NoJob
    => /\ gWork.header.job = job.id
       /\ \E o \in offered : o.id = job.id /\ o.ext = gWork.header.ext
       /\ \E o \in offered : o.id = job.id /\ o.diff = gWork.diff
       /\ gTime # "zero"

(* After a restart for a clean job a miner that still scans something else *)
(* has its flag up; the one way to miss the restart is to clear the flag   *)
(* between taking the work and scanning it (miner_thread, restart = 0).    *)
RestartHeeded ==
  \A m \in Miners :
    pc[m] = "scan" /\ restartedFor = job.id /\ job # NoJob
      => mwork[m].header.job = job.id \/ restart[m] \/ m \in slipped

(* A miner does not stay with the work of an old job: it comes to the      *)
(* pool's last one, unless the connection or the pool's time runs out.     *)
Behind(m) == job # NoJob /\ mwork[m].header.job # job.id
WorkCatchesUp ==
  \A m \in Miners :
    Behind(m) ~> (~Behind(m) \/ ~link \/ gTime # "recent" \/ exited)

(* A share does not stay with the workio thread: it is sent or thrown      *)
(* away, or the process ends because the connection stays away (without    *)
(* opt_retries the thread would try for ever).                             *)
SharesLeave ==
  Retries >= 0 => []<>(exited \/ (workq = <<>> /\ share = None))

(* "pass if the previous hash is not the current previous hash"            *)
(* (submit_upstream_work): a share is thrown away only when the pool's job *)
(* builds on another block, although g_work can be behind the pool's job   *)
(* when it is looked at; or while a thread is writing a header into g_work *)
(* (the test takes no lock, and finds the zeros of the header's first      *)
(* memset).                                                                *)
DropsOnlyStale ==
  [][wpc = "test" /\ wpc' = "pop" =>
       share.header.tip # job.tip \/ gWork.header = NoHeader]_vars
=============================================================================
