------------------------------ MODULE LongPoll ------------------------------
(***************************************************************************)
(* The choice of protocol while the program runs, and long polling.        *)
(*                                                                         *)
(* The program starts with getblocktemplate (have_gbt), falls back to      *)
(* getwork, turns long polling on (have_longpoll) when an answer offers    *)
(* it, off when a long poll fails, and changes to Stratum (have_stratum)   *)
(* for good when an answer carries X-Stratum.  The flags are written by    *)
(* whichever thread received the answer and read without a lock by all.    *)
(*                                                                         *)
(* Threads: the miners and the workio thread as in WorkIO, of which this   *)
(* module keeps the requests for work only (there is one at a time, see    *)
(* OneRequest there, so the queues between them are one place each); the   *)
(* long-poll thread, which decodes its answers straight into g_work; and   *)
(* of the Stratum thread what it does to g_work.  opt_retries is -1, its   *)
(* default: no thread gives up.  A restart ends a scan, and a scan may     *)
(* end at any step here, so the restart flags are not repeated.            *)
(*                                                                         *)
(* A block is its height; a work is made of the header, the target and the *)
(* job id, each with the block it is for.                                  *)
(***************************************************************************)
EXTENDS Integers, Sequences, FiniteSets

CONSTANTS
  Miners,       \* the miner threads
  None,         \* no miner, no answer
  Lp, Stratum,  \* the long-poll and the Stratum thread, as holders of the lock
  AllowGetwork, \* allow_getwork
  Payout,       \* a payout address was given (pk_script_size # 0)
  Uris,         \* what longpolluri of a template may be: "rpc_url" stands for
                \* its absence, as in the code; {} is a node without longpollid
  Paths,        \* what X-Long-Polling of an answer may be; {} never there
  XStratum,     \* X-Stratum may come with an answer
  MaxHeight,    \* bound: height of the chain
  MaxFaults     \* bound: calls that fail, and connections lost

Urls == {"rpc_url", "full", "path"}

ASSUME LongPollAssumption ==
  /\ IsFiniteSet(Miners) /\ None \notin Miners /\ Lp # Stratum
  /\ {Lp, Stratum} \cap (Miners \cup {None}) = {}
  /\ AllowGetwork \in BOOLEAN /\ Payout \in BOOLEAN /\ XStratum \in BOOLEAN
  /\ Uris \subseteq Urls /\ Paths \subseteq Urls \ {"rpc_url"}
  /\ MaxHeight \in Nat /\ MaxFaults \in Nat

VARIABLES
  chain,        \* height of the best block
  have_gbt, have_longpoll, have_stratum,
  lpId,         \* lp_id: "none" (NULL), "set", or "freed"
  gLock,        \* holder of g_work_lock, or None
  gWork,        \* g_work
  age,          \* g_work_time: "zero", recent enough ("new"), or not ("old")
  mpc, mwork, spent,  \* the miners: place, work, nonce >= end_nonce
  wpc, wans, reply,   \* workio: place, answer of the call, the unit of work sent
  lpc, lpq, lans,     \* long-poll thread: place, queue, answer of the call
  url,          \* what its lp_url was made of
  spc, sjob,    \* Stratum thread: place, block of stratum.job (-1: no job)
  crashed,      \* a job id that is not there, or released memory, was used
  \* history
  rpcFreed,     \* rpc_url has been freed, and points to it all the same
  bareTemplate, \* a template turned long polling on without a longpolluri
  halfDecoded,  \* the last long-poll answer was decoded half
  lateWrite,    \* solo code wrote g_work or its time after the miners were
                \* stopped for Stratum
  faults

flags == <<have_gbt, have_longpoll, have_stratum, lpId>>
shared == <<gLock, gWork, age>>
minerVars == <<mpc, mwork, spent>>
workioVars == <<wpc, wans, reply>>
lpVars == <<lpc, lpq, lans, url>>
stratumVars == <<spc, sjob>>
history == <<rpcFreed, bareTemplate, halfDecoded, lateWrite>>
vars == <<chain, flags, shared, minerVars, workioVars, lpVars, stratumVars,
          crashed, history, faults>>

(* A struct work from calloc; the unit of work for block n; the work of    *)
(* the Stratum job for block n.  job 0 is a NULL job_id.                   *)
NoWork == [header |-> -1, target |-> -1, job |-> 0]
SoloWork(n) == [header |-> n, target |-> n, job |-> 0]
JobWork(n) == [header |-> n, target |-> n, job |-> n + 1]

Init ==
  /\ chain = 0
  /\ have_gbt = TRUE /\ have_longpoll = FALSE /\ have_stratum = FALSE
  /\ lpId = "none"
  /\ gLock = None /\ gWork = NoWork /\ age = "zero"
  /\ mpc = [m \in Miners |-> "top"]
  /\ mwork = [m \in Miners |-> NoWork]
  /\ spent = [m \in Miners |-> TRUE]
  /\ wpc = "pop" /\ wans = None /\ reply = None
  /\ lpc = "pop" /\ lpq = <<>> /\ lans = None /\ url = "full"
  /\ spc = "pop" /\ sjob = -1
  /\ crashed = FALSE
  /\ rpcFreed = FALSE /\ bareTemplate = FALSE /\ halfDecoded = FALSE
  /\ lateWrite = FALSE
  /\ faults = 0

Fault == faults < MaxFaults /\ faults' = faults + 1

(* Written by solo code: too late once the Stratum thread has stopped the  *)
(* miners.                                                                 *)
Stopped == spc \notin {"pop", "reset"}
Late == lateWrite' = (lateWrite \/ Stopped)

-----------------------------------------------------------------------------
(* What a call of json_rpc_call and the decoding of a template do to the   *)
(* flags.  "h" is the headers of the answer.                               *)

Headers == [stratum : {FALSE, XStratum}, path : Paths \cup {"none"}]

(* Mutant: the header is heeded under getblocktemplate too.                *)
LongPollHeaderAny(h) ==
  h.path # "none" /\ ~have_longpoll /\ AllowGetwork /\ ~have_stratum'

(* X-Long-Polling is heeded under getwork only.                            *)
LongPollHeader(h) ==
  /\ h.path # "none"
  /\ ~have_longpoll /\ ~have_gbt
  /\ AllowGetwork
  /\ ~have_stratum'

HeaderEffects(h) ==
  /\ have_stratum' = (have_stratum \/ h.stratum)
  /\ IF LongPollHeader(h)
     THEN have_longpoll' = TRUE /\ lpq' = Append(lpq, h.path)
     ELSE UNCHANGED <<have_longpoll, lpq>>

(* The use of released memory is undefined: the process may end, and what  *)
(* the call comes to if it goes on is anything that it may come to.        *)
Undefined(use) == crashed' \in {FALSE, use}
UseRpcUrl == Undefined(rpcFreed)

(* The end of gbt_work_decode, reached whether or not the template was     *)
(* good: free( lp_id ), ...                                                *)
FreeLpId ==
  IF Uris = {} THEN UNCHANGED <<lpId, crashed>>
  ELSE /\ lpId' = IF lpId = "none" THEN "none" ELSE "freed"
       /\ Undefined(lpId = "freed")

(* ... then the copy of the new one, and long polling on the template's    *)
(* address if it is off.                                                   *)
TemplateEffects ==
  IF Uris = {} THEN UNCHANGED <<have_longpoll, lpId, lpq, bareTemplate>>
  ELSE /\ lpId' = "set"
       /\ IF have_longpoll
          THEN UNCHANGED <<have_longpoll, lpq, bareTemplate>>
          ELSE \E u \in Uris :
                 /\ have_longpoll' = TRUE
                 /\ lpq' = Append(lpq, u)
                 /\ bareTemplate' = (bareTemplate \/ u = "rpc_url")

(* What a call can come to: an answer that can be decoded; one that        *)
(* cannot; a template that leaves the coinbase to a miner without a payout *)
(* address; an answer without a usable value and without an error of curl  *)
(* or JSON-RPC; an error.  "gbt" is the protocol of the request.           *)
Kinds == {"work", "bad", "none", "fail"}
           \cup (IF Payout THEN {} ELSE {"nocoinbase"})
LpKinds == Kinds \cup {"timeout"}

Answer(kind) == [kind |-> kind, tip |-> chain, gbt |-> have_gbt]

HasValue(a) == a.kind \in {"work", "bad", "nocoinbase"}

(* It decodes if the protocol is still that of the request.                *)
Decodes(a) == a.kind = "work" /\ a.gbt = have_gbt

(* "No payout address provided, switching to getwork".                     *)
SwitchToGetwork(a) ==
  have_gbt' = (have_gbt /\ ~(a.kind = "nocoinbase" /\ AllowGetwork))

-----------------------------------------------------------------------------
(* The miners                                                              *)

Goto(m, pc) == mpc' = [mpc EXCEPT ![m] = pc]

(* The top of the loop: have_stratum is read before the lock is taken.     *)
ReadMode(m) ==
  /\ mpc[m] = "top"
  /\ Goto(m, IF have_stratum THEN "pool" ELSE "solo")
  /\ UNCHANGED <<chain, flags, shared, mwork, spent, workioVars, lpVars,
                 stratumVars, crashed, history, faults>>

(* Mutant: the scan time is not looked at.                                 *)
WorkTooOldNever == age = "zero"
WorkTooOld == age # "new"

(* Mutant: the lock is released during the wait.                           *)
RequestWorkUnlocked(m) ==
  /\ mpc[m] = "solo" /\ gLock = None /\ wpc = "pop" /\ reply = None
  /\ WorkTooOld \/ spent[m]
  /\ Goto(m, "waiting")
  /\ wpc' = "ask"
  /\ UNCHANGED <<chain, flags, shared, mwork, spent, wans, reply, lpVars,
                 stratumVars, crashed, history, faults>>

(* Under the lock: the work is too old or the nonces are used up, and a    *)
(* request goes to the workio thread; the lock is kept.                    *)
RequestWork(m) ==
  /\ mpc[m] = "solo" /\ gLock = None
  /\ WorkTooOld \/ spent[m]
  /\ gLock' = m
  /\ Goto(m, "waiting")
  /\ wpc' = "ask"
  /\ UNCHANGED <<chain, flags, gWork, age, mwork, spent, wans, reply, lpVars,
                 stratumVars, crashed, history, faults>>

(* get_work: the answer is copied into g_work, ...                         *)
StoreWork(m) ==
  /\ mpc[m] = "waiting" /\ reply # None
  /\ gWork' = reply
  /\ reply' = None
  /\ halfDecoded' = FALSE
  /\ Late
  /\ Goto(m, "stored")
  /\ UNCHANGED <<chain, flags, gLock, age, mwork, spent, wpc, wans, lpVars,
                 stratumVars, crashed, rpcFreed, bareTemplate, faults>>

(* get_new_work: the miner's copy of "work", or one nonce further in the   *)
(* same header.                                                            *)
GetNewWork(m, work) ==
  \/ /\ mwork' = [mwork EXCEPT ![m] = work]
     /\ spent' = [spent EXCEPT ![m] = work = NoWork /\ mwork[m] = NoWork]
  \/ /\ mwork[m] = work
     /\ \E full \in {spent[m], TRUE} : spent' = [spent EXCEPT ![m] = full]
     /\ UNCHANGED mwork

(* ... g_work_time is set, and the miner takes its copy and unlocks.       *)
TakeStored(m) ==
  /\ mpc[m] = "stored"
  /\ age' = "new"
  /\ Late
  /\ GetNewWork(m, gWork)
  /\ gLock' = None
  /\ Goto(m, "scan")
  /\ UNCHANGED <<chain, flags, gWork, workioVars, lpVars, stratumVars, crashed,
                 rpcFreed, bareTemplate, halfDecoded, faults>>

(* Under the lock, with work that is good for some time yet.               *)
TakeShared(m) ==
  /\ mpc[m] = "solo" /\ gLock = None
  /\ ~WorkTooOld /\ ~spent[m]
  /\ GetNewWork(m, gWork)
  /\ Goto(m, "scan")
  /\ UNCHANGED <<chain, flags, shared, workioVars, lpVars, stratumVars, crashed,
                 history, faults>>

(* The Stratum branch: wait_for_diff, then under the lock a new header of  *)
(* the job if the nonces are used up.  There may be no job to make it of.  *)
TakeFromPool(m) ==
  /\ mpc[m] = "pool" /\ gLock = None /\ age # "zero"
  /\ IF spent[m] /\ sjob = -1
     THEN crashed' = TRUE /\ UNCHANGED <<gWork, minerVars>>
     ELSE /\ gWork' = IF spent[m] THEN JobWork(sjob) ELSE gWork
          /\ GetNewWork(m, gWork')
          /\ Goto(m, "scan")
          /\ UNCHANGED crashed
  /\ UNCHANGED <<chain, flags, gLock, age, workioVars, lpVars, stratumVars,
                 history, faults>>

(* scanhash ends, or there is nothing to scan (std_ready_to_mine).         *)
Scan(m) ==
  /\ mpc[m] = "scan"
  /\ IF have_stratum /\ mwork[m].header = -1
     THEN UNCHANGED spent
     ELSE \E full \in {spent[m], TRUE} : spent' = [spent EXCEPT ![m] = full]
  /\ Goto(m, "top")
  /\ UNCHANGED <<chain, flags, shared, mwork, workioVars, lpVars, stratumVars,
                 crashed, history, faults>>

MinerLocks(m) == RequestWork(m) \/ TakeShared(m) \/ TakeFromPool(m)
Miner(m) == \/ ReadMode(m) \/ MinerLocks(m) \/ StoreWork(m) \/ TakeStored(m)
            \/ Scan(m)

-----------------------------------------------------------------------------
(* workio_thread: get_upstream_work, with the retries of workio_get_work   *)

(* A call on rpc_url: once that is freed it may fail at any time.          *)
ServerAnswers(kind) ==
  /\ wpc = "ask"
  /\ UseRpcUrl
  /\ IF kind = "work" \/ (rpcFreed /\ kind = "fail")
     THEN UNCHANGED faults ELSE Fault
  /\ wans' = Answer(kind)
  /\ wpc' = "answered"
  /\ UNCHANGED <<chain, flags, shared, minerVars, reply, lpVars, stratumVars,
                 history>>

(* json_rpc_call returns.  X-Stratum and X-Long-Polling count on any       *)
(* answer, also on one without a usable value.                             *)
AnswerArrives(h) ==
  /\ wpc = "answered"
  /\ IF wans.kind = "fail" THEN UNCHANGED <<have_stratum, have_longpoll, lpq>>
                           ELSE HeaderEffects(h)
  /\ wpc' = "received"
  /\ UNCHANGED <<chain, have_gbt, lpId, shared, minerVars, wans, reply, lpc,
                 lans, url, stratumVars, crashed, history, faults>>

(* The tests of get_upstream_work, in their order.                         *)

(* Success with nothing filled in: the Stratum thread will make the work.  *)
SwitchedToStratum ==
  /\ wpc = "received" /\ have_stratum
  /\ reply' = NoWork
  /\ wpc' = "pop"
  /\ wans' = None
  /\ UNCHANGED <<chain, flags, shared, minerVars, lpVars, stratumVars, crashed,
                 history, faults>>

(* No value: another try, by getwork if the server may not know templates. *)
(* ("No usable protocol" cannot come up: have_gbt is turned off only when  *)
(* getwork is allowed.)                                                    *)
CallFails ==
  /\ wpc = "received" /\ ~have_stratum
  /\ ~HasValue(wans)
  /\ have_gbt' = (have_gbt /\ ~(AllowGetwork /\ wans.kind = "none"))
  /\ wpc' = "ask"
  /\ wans' = None
  /\ UNCHANGED <<chain, have_longpoll, have_stratum, lpId, shared, minerVars,
                 reply, lpVars, stratumVars, crashed, history, faults>>

(* gbt_work_decode, in the workio thread's own work; ...                   *)
DecodeTemplate ==
  /\ wpc = "received" /\ ~have_stratum
  /\ HasValue(wans) /\ have_gbt
  /\ SwitchToGetwork(wans)
  /\ FreeLpId
  /\ wpc' = "decoded"
  /\ UNCHANGED <<chain, have_longpoll, have_stratum, shared, minerVars, wans,
                 reply, lpVars, stratumVars, history, faults>>

(* ... "no payout address, switching to getwork" is followed by another    *)
(* call at once.                                                           *)
TemplateDecoded ==
  /\ wpc = "decoded"
  /\ TemplateEffects
  /\ IF have_gbt THEN wpc' = "info" /\ UNCHANGED wans
                 ELSE wpc' = "ask" /\ wans' = None
  /\ UNCHANGED <<chain, have_gbt, have_stratum, shared, minerVars, reply, lpc,
                 lans, url, stratumVars, crashed, rpcFreed, halfDecoded,
                 lateWrite, faults>>

DecodeGetwork ==
  /\ wpc = "received" /\ ~have_stratum
  /\ HasValue(wans) /\ ~have_gbt
  /\ wpc' = "info"
  /\ UNCHANGED <<chain, flags, shared, minerVars, wans, reply, lpVars,
                 stratumVars, crashed, history, faults>>

(* get_mininginfo, a call like any other; then the work goes to the miner, *)
(* or there is another try.                                                *)
DeliverWork(h) ==
  /\ wpc = "info"
  /\ IF have_stratum
     THEN UNCHANGED <<have_stratum, have_longpoll, lpq, crashed>>
     ELSE HeaderEffects(h) /\ UseRpcUrl
  /\ IF Decodes(wans)
     THEN reply' = SoloWork(wans.tip) /\ wpc' = "pop"
     ELSE wpc' = "ask" /\ UNCHANGED reply
  /\ wans' = None
  /\ UNCHANGED <<chain, have_gbt, lpId, shared, minerVars, lpc, lans, url,
                 stratumVars, history, faults>>

Workio == \/ \E kind \in Kinds : ServerAnswers(kind)
          \/ \E h \in Headers : AnswerArrives(h) \/ DeliverWork(h)
          \/ SwitchedToStratum \/ CallFails
          \/ DecodeTemplate \/ TemplateDecoded \/ DecodeGetwork

-----------------------------------------------------------------------------
(* longpoll_thread                                                         *)

(* It waits for an address; but for a full one it looks at rpc_url.        *)
LpPop ==
  /\ lpc = "pop" /\ lpq # <<>>
  /\ IF Head(lpq) = "full" THEN UNCHANGED crashed ELSE UseRpcUrl
  /\ url' = Head(lpq)
  /\ lpq' = Tail(lpq)
  /\ lpc' = "poll"
  /\ UNCHANGED <<chain, flags, shared, minerVars, workioVars, lans,
                 stratumVars, history, faults>>

(* std_longpoll_rpc_call: lp_id goes into the request, then a getwork on   *)
(* rpc_url, whose answer is ignored but for its headers, ...               *)
LpFirstCall(h) ==
  /\ lpc = "poll"
  /\ Undefined(rpcFreed \/ (have_gbt /\ lpId # "set"))
  /\ HeaderEffects(h)
  /\ lpc' = "asked"
  /\ lans' = [kind |-> "none", tip |-> 0, gbt |-> have_gbt]
  /\ UNCHANGED <<chain, have_gbt, lpId, shared, minerVars, workioVars, url,
                 stratumVars, history, faults>>

(* ... and the long poll, which the server answers when it likes.          *)
ServerAnswersPoll(kind) ==
  /\ lpc = "asked"
  /\ IF url = "rpc_url" THEN UseRpcUrl ELSE UNCHANGED crashed
  /\ IF \/ kind \in {"work", "timeout"}
        \/ rpcFreed /\ url = "rpc_url" /\ kind = "fail"
     THEN UNCHANGED faults ELSE Fault
  /\ lans' = [lans EXCEPT !.kind = kind, !.tip = chain]
  /\ lpc' = "answered"
  /\ UNCHANGED <<chain, flags, shared, minerVars, workioVars, lpq, url,
                 stratumVars, history>>

(* Mutant: of a path, the server's address is freed.                       *)
FreeUrlOrServer ==
  rpcFreed' = (rpcFreed \/ url # "full") /\ UNCHANGED crashed

(* free(lp_url): it is rpc_url when the template had no longpolluri, and   *)
(* may have been freed before.                                             *)
FreeUrl == /\ rpcFreed' = (rpcFreed \/ url = "rpc_url")
           /\ Undefined(rpcFreed /\ url = "rpc_url")

(* The answer arrives.  If the program is on Stratum now the thread ends.  *)
LpReturns(h) ==
  /\ lpc = "answered"
  /\ IF lans.kind \in {"fail", "timeout"}
     THEN UNCHANGED <<have_stratum, have_longpoll, lpq>>
     ELSE HeaderEffects(h)
  /\ IF have_stratum'
     THEN lpc' = "gone" /\ lans' = None /\ FreeUrl
     ELSE /\ lpc' = IF HasValue(lans) THEN "lock" ELSE "failed"
          /\ UNCHANGED <<lans, rpcFreed, crashed>>
  /\ UNCHANGED <<chain, have_gbt, lpId, shared, minerVars, workioVars, url,
                 stratumVars, bareTemplate, halfDecoded, lateWrite, faults>>

(* The protocol of this moment decides how the answer is decoded.          *)
ByThisProtocol(a) ==
  [a EXCEPT !.gbt = have_gbt,
            !.kind = IF a.kind = "work" /\ ~Decodes(a) THEN "bad" ELSE a.kind]

(* Mutant: the answer is decoded without the lock.                         *)
LpDecodeHeaderUnlocked ==
  /\ lpc = "lock"
  /\ gWork' = [gWork EXCEPT !.header = lans.tip]
  /\ lans' = ByThisProtocol(lans)
  /\ lpc' = "half"
  /\ Late
  /\ UNCHANGED <<chain, flags, gLock, age, minerVars, workioVars, lpq, url,
                 stratumVars, crashed, rpcFreed, bareTemplate, halfDecoded, faults>>

(* The answer is decoded into g_work, under the lock: the header first.    *)
(* An answer that cannot be decoded may have left its header.              *)
LpDecodeHeader ==
  /\ lpc = "lock" /\ gLock = None
  /\ gLock' = Lp
  /\ \/ /\ lans.kind # "nocoinbase"
        /\ gWork' = [gWork EXCEPT !.header = lans.tip]
     \/ ~Decodes(lans) /\ UNCHANGED gWork
  /\ lans' = ByThisProtocol(lans)
  /\ lpc' = "half"
  /\ Late
  /\ UNCHANGED <<chain, flags, age, minerVars, workioVars, lpq, url, stratumVars,
                 crashed, rpcFreed, bareTemplate, halfDecoded, faults>>

(* Then the target, and at the end of a template lp_id.                    *)
LpDecodeTarget ==
  /\ lpc = "half"
  /\ IF lans.kind = "work"
     THEN gWork' = [gWork EXCEPT !.target = lans.tip] /\ halfDecoded' = FALSE
     ELSE /\ halfDecoded' = (halfDecoded \/ gWork.header # gWork.target)
          /\ UNCHANGED gWork
  /\ Late
  /\ IF lans.gbt THEN SwitchToGetwork(lans) /\ FreeLpId
                 ELSE UNCHANGED <<have_gbt, lpId, crashed>>
  /\ lpc' = "decoded"
  /\ UNCHANGED <<chain, have_longpoll, have_stratum, gLock, age, minerVars,
                 workioVars, lpq, lans, url, stratumVars, rpcFreed,
                 bareTemplate, faults>>

(* "Detected new block" sets the time.  It is seen by net_diff, which      *)
(* stays 0 if get_mininginfo never succeeded.                              *)
LpDecoded ==
  /\ lpc = "decoded"
  /\ IF lans.gbt THEN TemplateEffects
                 ELSE UNCHANGED <<have_longpoll, lpId, lpq, bareTemplate>>
  /\ IF lans.kind = "work" THEN age' \in {age, "new"} ELSE UNCHANGED age
  /\ Late
  /\ gLock' = None
  /\ lpc' = "poll" /\ lans' = None
  /\ UNCHANGED <<chain, have_gbt, have_stratum, gWork, minerVars, workioVars,
                 url, stratumVars, crashed, rpcFreed, halfDecoded, faults>>

(* No value: g_work_time -= LP_SCANTIME.                                   *)
LpAges ==
  /\ lpc = "failed" /\ gLock = None
  /\ age' = "old"
  /\ Late
  /\ lpc' = IF lans.kind = "timeout" THEN "poll" ELSE "giveup"
  /\ lans' = None
  /\ UNCHANGED <<chain, flags, gLock, gWork, minerVars, workioVars, lpq, url,
                 stratumVars, crashed, rpcFreed, bareTemplate, halfDecoded,
                 faults>>

(* Mutant: have_longpoll stays on.                                         *)
LpGivesUpSilent ==
  /\ lpc = "giveup"
  /\ FreeUrl
  /\ lpc' = "pop"
  /\ UNCHANGED <<chain, flags, shared, minerVars, workioVars, lpq, lans, url,
                 stratumVars, bareTemplate, halfDecoded, lateWrite, faults>>

(* An error: long polling is off until an answer offers it again.          *)
LpGivesUp ==
  /\ lpc = "giveup"
  /\ have_longpoll' = FALSE
  /\ FreeUrl
  /\ lpc' = "pop"
  /\ UNCHANGED <<chain, have_gbt, have_stratum, lpId, shared, minerVars,
                 workioVars, lpq, lans, url, stratumVars, bareTemplate,
                 halfDecoded, lateWrite, faults>>

LpLocks == LpDecodeHeader \/ LpAges
LpThread == \/ LpPop \/ LpLocks \/ LpDecodeTarget \/ LpDecoded \/ LpGivesUp
            \/ \E h \in Headers : LpFirstCall(h) \/ LpReturns(h)
            \/ \E kind \in LpKinds : ServerAnswersPoll(kind)

-----------------------------------------------------------------------------
(* stratum_thread, as far as it touches g_work                             *)

(* The address came with X-Stratum; g_work_time = 0 stops the miners.      *)
StratumStarts ==
  /\ spc = "pop" /\ have_stratum
  /\ spc' = "reset"
  /\ UNCHANGED <<chain, flags, shared, minerVars, workioVars, lpVars, sjob,
                 crashed, history, faults>>

(* Mutant: the time is left as it is.                                      *)
StratumResetsNot ==
  /\ spc = "reset" /\ gLock = None
  /\ spc' = "connect"
  /\ UNCHANGED <<chain, flags, shared, minerVars, workioVars, lpVars, sjob,
                 crashed, history, faults>>

StratumResets ==
  /\ spc = "reset" /\ gLock = None
  /\ age' = "zero"
  /\ spc' = "connect"
  /\ UNCHANGED <<chain, flags, gLock, gWork, minerVars, workioVars, lpVars, sjob,
                 crashed, history, faults>>

StratumConnects ==
  /\ spc = "connect"
  /\ \/ spc' = "test" /\ UNCHANGED faults
     \/ spc' = "reset" /\ Fault
  /\ UNCHANGED <<chain, flags, shared, minerVars, workioVars, lpVars, sjob,
                 crashed, history>>

(* stratum.job.job_id && ( !g_work_time || strcmp( stratum.job.job_id,     *)
(* g_work.job_id ) ), without the lock.                                    *)
StratumTests ==
  /\ spc = "test"
  /\ crashed' = (sjob # -1 /\ age # "zero" /\ gWork.job = 0)
  /\ spc' = IF sjob # -1 /\ (age = "zero" \/ gWork.job # sjob + 1)
            THEN "lock" ELSE "receive"
  /\ UNCHANGED <<chain, flags, shared, minerVars, workioVars, lpVars, sjob,
                 history, faults>>

StratumMakesWork ==
  /\ spc = "lock" /\ gLock = None
  /\ gWork' = JobWork(sjob)
  /\ age' = "new"
  /\ halfDecoded' = FALSE
  /\ spc' = "receive"
  /\ UNCHANGED <<chain, flags, gLock, minerVars, workioVars, lpVars, sjob,
                 crashed, rpcFreed, bareTemplate, lateWrite, faults>>

(* The pool sends its job, or the connection is lost.                      *)
StratumReceives ==
  /\ spc = "receive"
  /\ \/ sjob' = chain /\ spc' = "test" /\ UNCHANGED faults
     \/ spc' = "reset" /\ Fault /\ UNCHANGED sjob
  /\ UNCHANGED <<chain, flags, shared, minerVars, workioVars, lpVars, crashed,
                 history>>

StratumLocks == StratumResets \/ StratumMakesWork
StratumThread == \/ StratumStarts \/ StratumLocks \/ StratumConnects
                 \/ StratumTests \/ StratumReceives

-----------------------------------------------------------------------------
BlockFound ==
  /\ chain < MaxHeight
  /\ chain' = chain + 1
  /\ UNCHANGED <<flags, shared, minerVars, workioVars, lpVars, stratumVars,
                 crashed, history, faults>>

(* g_work_time is longer ago than the scan time.                           *)
TimePasses ==
  /\ age = "new"
  /\ age' = "old"
  /\ UNCHANGED <<chain, flags, gLock, gWork, minerVars, workioVars, lpVars,
                 stratumVars, crashed, history, faults>>

Running == \/ \E m \in Miners : Miner(m)
           \/ Workio \/ LpThread \/ StratumThread
           \/ BlockFound \/ TimePasses

(* The process has ended.                                                  *)
Crashed == crashed /\ UNCHANGED vars

Next == (~crashed /\ Running) \/ Crashed

Safety == Init /\ [][Next]_vars

(* Every call returns and every scan ends.  A thread that waits for        *)
(* g_work_lock gets it in the end, although others take it in between.     *)
Fairness ==
  /\ WF_vars(~crashed /\ Workio)
  /\ WF_vars(~crashed /\ LpThread) /\ SF_vars(~crashed /\ LpLocks)
  /\ WF_vars(~crashed /\ StratumThread) /\ SF_vars(~crashed /\ StratumLocks)
  /\ \A m \in Miners : /\ WF_vars(~crashed /\ Miner(m))
                       /\ SF_vars(~crashed /\ MinerLocks(m))
  /\ WF_vars(~crashed /\ TimePasses)

Spec == Safety /\ Fairness

-----------------------------------------------------------------------------
(* Properties                                                              *)

Work == [header : Int, target : Int, job : Nat]
CallAnswer(kinds) == [kind : kinds, tip : Nat, gbt : BOOLEAN] \cup {None}

(* The variables hold what their types in the code can hold.               *)
TypeOK ==
  /\ chain \in Nat
  /\ {have_gbt, have_longpoll, have_stratum} \subseteq BOOLEAN
  /\ lpId \in {"none", "set", "freed"}
  /\ gLock \in Miners \cup {None, Lp}
  /\ gWork \in Work /\ age \in {"zero", "new", "old"}
  /\ mpc \in [Miners -> {"top", "solo", "pool", "waiting", "stored", "scan"}]
  /\ mwork \in [Miners -> Work] /\ spent \in [Miners -> BOOLEAN]
  /\ wpc \in {"pop", "ask", "answered", "received", "decoded", "info"}
  /\ wans \in CallAnswer(Kinds) /\ reply \in Work \cup {None}
  /\ lpc \in {"pop", "poll", "asked", "answered", "lock", "half", "decoded",
              "failed", "giveup", "gone"}
  /\ lpq \in Seq(Urls) /\ lans \in CallAnswer(LpKinds) /\ url \in Urls
  /\ spc \in {"pop", "reset", "connect", "test", "lock", "receive"}
  /\ sjob \in Nat \cup {-1}
  /\ {crashed, rpcFreed, bareTemplate, halfDecoded, lateWrite} \subseteq BOOLEAN
  /\ faults \in 0..MaxFaults

(* have_longpoll, set by the thread that saw the offer and cleared by the  *)
(* long-poll thread, always tells what that thread does: while it is on,   *)
(* the thread polls or exactly one address is on its way to it; while it   *)
(* is off, the thread waits and none is.                                   *)
PollerHasItsUrl ==
  lpc # "gone" =>
    IF have_longpoll THEN (lpc = "pop" /\ Len(lpq) = 1)
                          \/ (lpc # "pop" /\ lpq = <<>>)
                     ELSE lpc = "pop" /\ lpq = <<>>

(* std_longpoll_rpc_call takes the length of lp_id whenever have_gbt is    *)
(* on.  By then there is one, whichever way long polling was turned on,    *)
(* and it is released only while the workio thread is about to replace it: *)
(* the two threads share it without a lock.                                *)
LpIdKnown == lpc = "poll" /\ have_gbt => lpId = "set" \/ wpc = "decoded"

(* rpc_url, which every call uses, is freed only after a template without  *)
(* longpolluri has turned long polling on.                                 *)
RpcUrlKept == rpcFreed => bareTemplate

(* When the lock is free, the header and the target of g_work come from    *)
(* one answer, unless a long-poll answer could not be decoded to its end.  *)
WholeWork == gLock = None => gWork.header = gWork.target \/ halfDecoded

(* The process ends in four ways only.  A job or job id that is not there  *)
(* is used by a miner that comes before the Stratum thread has stopped the *)
(* miners, or after solo code has written g_work or its time later than    *)
(* that; rpc_url is used, or freed once more, after the long-poll thread   *)
(* has freed it; or that thread reads lp_id while the workio thread is     *)
(* about to replace it.  It is never freed twice, for the two threads that *)
(* decode templates do so under g_work_lock, one of them under a miner's.  *)
CrashOnlyInSwitch ==
  crashed => \/ have_stratum /\ (~Stopped \/ lateWrite)
             \/ rpcFreed
             \/ lpId = "freed" /\ wpc = "decoded"

(* Solo work never goes back to an older block but by the long-poll        *)
(* thread, whose answer may have waited for the lock while newer work came *)
(* from the workio thread.  get_work cannot do it: it holds the lock from  *)
(* its request to its answer.                                              *)
BackOnlyByLatePoll ==
  [][gWork'.header < gWork.header => lpc = "lock" \/ have_stratum]_vars

(* Every miner comes to mine on a new block, whatever the protocols do in  *)
(* between, unless the process ends, rpc_url is freed (every call of the   *)
(* program is made on it), or solo code writes g_work late: the Stratum    *)
(* thread does not see that, for the job id is left as it is.              *)
NewBlockMined ==
  \A m \in Miners, h \in 1..MaxHeight :
    chain >= h ~> (mwork[m].header >= h \/ crashed \/ rpcFreed \/ lateWrite)
=============================================================================
