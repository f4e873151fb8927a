---------------------------- MODULE LongPollProofs ----------------------------
(* Proofs about LongPoll, for any number of miners, blocks and failed      *)
(* calls, and whatever the node offers.                                    *)
EXTENDS LongPoll, SequenceTheorems, TLAPS

-----------------------------------------------------------------------------
(* The address of the long poll                                            *)

(* No more than one address is on its way, one that needs lp_id only when  *)
(* there is one, and rpc_url only if a template had none of its own.       *)
OneUrl == lpq = <<>> \/ \E u \in Urls : lpq = <<u>>
UrlInv ==
  /\ OneUrl
  /\ PollerHasItsUrl
  /\ lpc = "gone" => have_longpoll
  /\ have_longpoll /\ have_gbt => lpId # "none"
  /\ lpq = <<"rpc_url">> => bareTemplate
  /\ url = "rpc_url" => bareTemplate
  /\ RpcUrlKept

urlVars == <<have_gbt, have_longpoll, have_stratum, lpId, lpc, lpq, url, rpcFreed, bareTemplate>>

LEMMA OneUrlFacts ==
  /\ Len(<<>>) = 0
  /\ \A u \in Urls : /\ Append(<<>>, u) = <<u>> /\ Len(<<u>>) = 1 /\ <<u>> # <<>>
                     /\ Head(<<u>>) = u /\ Tail(<<u>>) = <<>>
  /\ \A u, v \in Urls : <<u>> = <<v>> => u = v
OBVIOUS

(* What the headers of an answer and a template may do to the address:     *)
(* nothing, or they turn long polling on.                                  *)
Quiet == UNCHANGED <<have_longpoll, lpq>>
Offer(u) == /\ ~have_longpoll /\ have_longpoll' = TRUE
            /\ lpc = "pop" /\ lpq = <<>> /\ lpq' = <<u>>

(* Once there is an lp_id, there is always one, though it may be released. *)
IdStays == lpId # "none" => lpId' # "none"

LEMMA HeaderOffers ==
  ASSUME UrlInv, NEW h \in Headers, HeaderEffects(h)
  PROVE  Quiet \/ (~have_gbt /\ \E u \in Urls \ {"rpc_url"} : Offer(u))
<1>2. CASE LongPollHeader(h)
  <2>1. ~have_longpoll /\ ~have_gbt /\ ~have_stratum'
    BY <1>2 DEF LongPollHeader
  <2>2. lpc = "pop" /\ lpq = <<>>
    BY <2>1, OneUrlFacts DEF UrlInv, PollerHasItsUrl
  <2>3. h.path \in Urls \ {"rpc_url"}
    BY <1>2, LongPollAssumption DEF LongPollHeader, Headers
  <2>4. have_longpoll' = TRUE /\ lpq' = <<h.path>>
    BY <1>2, <2>2, <2>3, OneUrlFacts DEF HeaderEffects
  <2> QED
    BY <2>1, <2>2, <2>3, <2>4 DEF Offer
<1>3. CASE ~LongPollHeader(h)
  BY <1>3 DEF HeaderEffects, Quiet
<1> QED
  BY <1>2, <1>3

LEMMA TemplateOffers ==
  ASSUME UrlInv, TemplateEffects
  PROVE  /\ IdStays
         /\ bareTemplate => bareTemplate'
         /\ \/ Quiet
            \/ /\ lpId' # "none"
               /\ \E u \in Urls : Offer(u) /\ (u = "rpc_url" => bareTemplate')
<1>1. CASE Uris = {} \/ have_longpoll
  BY <1>1 DEF TemplateEffects, Quiet, IdStays
<1>2. CASE Uris # {} /\ ~have_longpoll
  <2>1. PICK u \in Uris : /\ have_longpoll' = TRUE /\ lpq' = Append(lpq, u)
                          /\ bareTemplate' = (bareTemplate \/ u = "rpc_url")
    BY <1>2 DEF TemplateEffects
  <2>2. lpc = "pop" /\ lpq = <<>> /\ u \in Urls /\ lpId' = "set"
    BY <1>2, OneUrlFacts, LongPollAssumption DEF UrlInv, PollerHasItsUrl, TemplateEffects
  <2>3. lpq' = <<u>>
    BY <2>1, <2>2, OneUrlFacts
  <2> QED
    BY <1>2, <2>1, <2>2, <2>3 DEF Offer, IdStays
<1> QED
  BY <1>1, <1>2

(* The long-poll thread goes on with the address it has.                   *)
LEMMA UrlGoesOn ==
  ASSUME UrlInv, lpc \notin {"pop", "gone"}, lpc' \notin {"pop", "gone"},
         Quiet, url' = url, have_gbt' => have_gbt, IdStays,
         bareTemplate => bareTemplate', rpcFreed' => rpcFreed
  PROVE  UrlInv'
BY DEF UrlInv, OneUrl, PollerHasItsUrl, RpcUrlKept, Quiet, IdStays

(* Long polling is turned on, or not, by another thread.                   *)
LEMMA UrlOffered ==
  ASSUME UrlInv, lpc' = lpc, url' = url, have_gbt' => have_gbt,
         IdStays, bareTemplate => bareTemplate', rpcFreed' => rpcFreed,
         \/ Quiet
         \/ /\ have_gbt' => lpId' # "none"
            /\ \E u \in Urls : Offer(u) /\ (u = "rpc_url" => bareTemplate')
  PROVE  UrlInv'
<1>1. CASE Quiet
  BY <1>1 DEF UrlInv, OneUrl, PollerHasItsUrl, RpcUrlKept, Quiet, IdStays
<1>2. ASSUME NEW u \in Urls, Offer(u), u = "rpc_url" => bareTemplate',
             have_gbt' => lpId' # "none"
      PROVE  UrlInv'
  BY <1>2, OneUrlFacts DEF UrlInv, OneUrl, PollerHasItsUrl, RpcUrlKept, Offer, IdStays
<1> QED
  BY <1>1, <1>2

LEMMA UrlStep ==
  ASSUME UrlInv, [Next]_vars
  PROVE  UrlInv'
<1> USE DEF flags, shared, minerVars, workioVars, lpVars, stratumVars, history
<1>1. ASSUME UNCHANGED urlVars
      PROVE  UrlInv'
  BY <1>1 DEF urlVars, UrlInv, OneUrl, PollerHasItsUrl, RpcUrlKept
<1>2. ASSUME NEW m \in Miners, Miner(m)
      PROVE  UrlInv'
  BY <1>1, <1>2 DEF Miner, MinerLocks, ReadMode, RequestWork, TakeShared, TakeFromPool, StoreWork,
     TakeStored, Scan, urlVars
<1>3. CASE StratumThread \/ BlockFound \/ TimePasses \/ UNCHANGED vars
  BY <1>1, <1>3 DEF StratumThread, StratumLocks, StratumStarts, StratumConnects, StratumTests,
     StratumReceives, StratumResets, StratumMakesWork, BlockFound, TimePasses, vars, urlVars
<1>4. CASE Workio
  <2>1. ASSUME NEW kind \in Kinds, ServerAnswers(kind)
        PROVE  UrlInv'
    BY <1>1, <2>1 DEF ServerAnswers, urlVars
  <2>2. ASSUME NEW h \in Headers, AnswerArrives(h) \/ DeliverWork(h)
        PROVE  UrlInv'
    <3>1. UNCHANGED <<have_gbt, lpId, lpc, url, bareTemplate, rpcFreed>>
      BY <2>2 DEF AnswerArrives, DeliverWork
    <3>2. \/ UNCHANGED <<have_stratum, have_longpoll, lpq>>
          \/ HeaderEffects(h)
      BY <2>2 DEF AnswerArrives, DeliverWork
    <3>3. CASE UNCHANGED <<have_stratum, have_longpoll, lpq>>
      BY <3>1, <3>3, UrlOffered DEF Quiet, IdStays
    <3>4. CASE HeaderEffects(h)
      <4>1. Quiet \/ (~have_gbt /\ \E u \in Urls : Offer(u) /\ u # "rpc_url")
        BY <3>4, HeaderOffers
      <4> QED
        BY <3>1, <4>1, UrlOffered DEF IdStays
    <3> QED
      BY <3>2, <3>3, <3>4
  <2>3. CASE SwitchedToStratum \/ DecodeGetwork
    BY <1>1, <2>3 DEF SwitchedToStratum, DecodeGetwork, urlVars
  <2>4. CASE CallFails
    <3>1. /\ UNCHANGED <<have_longpoll, have_stratum, lpId, lpc, lpq, url, bareTemplate, rpcFreed>>
          /\ have_gbt' => have_gbt
      BY <2>4 DEF CallFails
    <3> QED
      BY <3>1, UrlOffered DEF Quiet, IdStays
  <2>5. CASE DecodeTemplate
    <3>1. /\ UNCHANGED <<have_longpoll, have_stratum, lpc, lpq, url, bareTemplate, rpcFreed>>
          /\ have_gbt' => have_gbt
          /\ FreeLpId
      BY <2>5 DEF DecodeTemplate, SwitchToGetwork
    <3> QED
      BY <3>1, UrlOffered DEF Quiet, IdStays, FreeLpId
  <2>6. CASE TemplateDecoded
    <3>1. /\ UNCHANGED <<have_gbt, have_stratum, lpc, url, rpcFreed>> /\ TemplateEffects
          /\ wpc = "decoded"
      BY <2>6 DEF TemplateDecoded
    <3> QED
      BY <3>1, TemplateOffers, UrlOffered
  <2> QED
    BY <1>4, <2>1, <2>2, <2>3, <2>4, <2>5, <2>6 DEF Workio
<1>5. CASE LpThread
  <2>1. CASE LpPop
    <3>1. /\ lpc = "pop" /\ lpq # <<>> /\ url' = Head(lpq) /\ lpq' = Tail(lpq) /\ lpc' = "poll"
          /\ UNCHANGED <<have_gbt, have_longpoll, have_stratum, lpId, bareTemplate, rpcFreed>>
      BY <2>1 DEF LpPop
    <3>2. PICK u \in Urls : lpq = <<u>>
      BY <3>1 DEF UrlInv, OneUrl
    <3>3. url' = u /\ lpq' = <<>>
      BY <3>1, <3>2, OneUrlFacts
    <3>4. have_longpoll
      BY <3>1 DEF UrlInv, PollerHasItsUrl
    <3> QED
      BY <3>1, <3>2, <3>3, <3>4 DEF UrlInv, OneUrl, PollerHasItsUrl, RpcUrlKept
  <2>2. ASSUME NEW h \in Headers, LpFirstCall(h)
        PROVE  UrlInv'
    <3>1. /\ lpc = "poll" /\ lpc' = "asked" /\ HeaderEffects(h)
          /\ UNCHANGED <<have_gbt, lpId, url, bareTemplate, rpcFreed>>
      BY <2>2 DEF LpFirstCall
    <3>2. Quiet
      BY <3>1, HeaderOffers DEF Offer
    <3> QED
      BY <3>1, <3>2, UrlGoesOn DEF IdStays
  <2>3. ASSUME NEW h \in Headers, LpReturns(h)
        PROVE  UrlInv'
    <3>1. /\ lpc = "answered" /\ UNCHANGED <<have_gbt, lpId, url, bareTemplate>>
          /\ \/ UNCHANGED <<have_stratum, have_longpoll, lpq>>
             \/ HeaderEffects(h)
          /\ \/ lpc' = "gone" /\ have_stratum' /\ FreeUrl
             \/ lpc' \in {"lock", "failed"} /\ UNCHANGED rpcFreed
      BY <2>3 DEF LpReturns
    <3>2. Quiet
      BY <3>1, HeaderOffers DEF Offer, Quiet
    <3>3. CASE lpc' = "gone" /\ have_stratum' /\ FreeUrl
      BY <3>1, <3>2, <3>3 DEF UrlInv, OneUrl, PollerHasItsUrl, RpcUrlKept, Quiet, FreeUrl
    <3>4. CASE lpc' \in {"lock", "failed"} /\ UNCHANGED rpcFreed
      BY <3>1, <3>2, <3>4, UrlGoesOn DEF IdStays
    <3> QED
      BY <3>1, <3>3, <3>4
  <2>4. ASSUME NEW kind \in LpKinds, ServerAnswersPoll(kind)
        PROVE  UrlInv'
    <3>1. /\ lpc = "asked" /\ lpc' = "answered" /\ Quiet
          /\ UNCHANGED <<have_gbt, lpId, url, bareTemplate, rpcFreed>>
      BY <2>4 DEF ServerAnswersPoll, Quiet
    <3> QED
      BY <3>1, UrlGoesOn DEF IdStays
  <2>5. CASE LpLocks
    <3>1. /\ lpc \in {"lock", "failed"} /\ lpc' \in {"half", "poll", "giveup"} /\ Quiet
          /\ UNCHANGED <<have_gbt, lpId, url, bareTemplate, rpcFreed>>
      BY <2>5 DEF LpLocks, LpDecodeHeader, LpAges, Quiet
    <3> QED
      BY <3>1, UrlGoesOn DEF IdStays
  <2>6. CASE LpDecodeTarget
    <3>1. /\ lpc = "half" /\ lpc' = "decoded" /\ Quiet /\ (have_gbt' => have_gbt)
          /\ UNCHANGED <<url, rpcFreed, bareTemplate>>
          /\ FreeLpId \/ UNCHANGED lpId
      BY <2>6 DEF LpDecodeTarget, SwitchToGetwork, Quiet
    <3>2. IdStays
      BY <3>1 DEF FreeLpId, IdStays
    <3> QED
      BY <3>1, <3>2, UrlGoesOn
  <2>8. CASE LpDecoded
    <3>1. /\ lpc = "decoded" /\ lpc' = "poll"
          /\ UNCHANGED <<have_gbt, url, rpcFreed>>
          /\ TemplateEffects \/ UNCHANGED <<have_longpoll, lpId, lpq, bareTemplate>>
      BY <2>8 DEF LpDecoded
    <3>2. Quiet /\ IdStays /\ (bareTemplate => bareTemplate')
      BY <3>1, TemplateOffers DEF Offer, Quiet, IdStays
    <3> QED
      BY <3>1, <3>2, UrlGoesOn
  <2>7. CASE LpGivesUp
    <3>1. /\ lpc = "giveup" /\ lpc' = "pop" /\ have_longpoll' = FALSE /\ FreeUrl
          /\ UNCHANGED <<have_gbt, have_stratum, lpId, lpq, url, bareTemplate>>
      BY <2>7 DEF LpGivesUp
    <3> QED
      BY <3>1 DEF UrlInv, OneUrl, PollerHasItsUrl, RpcUrlKept, FreeUrl
  <2> QED
    BY <1>5, <2>1, <2>2, <2>3, <2>4, <2>5, <2>6, <2>7, <2>8 DEF LpThread
<1> QED
  BY <1>2, <1>3, <1>4, <1>5 DEF Next, Running, Crashed

LEMMA UrlInit == Init => UrlInv
BY OneUrlFacts DEF Init, UrlInv, OneUrl, PollerHasItsUrl, RpcUrlKept

THEOREM UrlInvariance == Safety => []UrlInv
BY UrlInit, UrlStep, PTL DEF Safety

(* have_longpoll always tells what the long-poll thread does: it polls, or *)
(* one address is on its way, or it waits (longpoll_thread, json_rpc_call, *)
(* gbt_work_decode).                                                       *)
THEOREM PollerSafe == Safety => []PollerHasItsUrl
<1>1. UrlInv => PollerHasItsUrl
  BY DEF UrlInv
<1> QED
  BY <1>1, UrlInvariance, PTL

(* rpc_url is freed only after a template without an address of its own    *)
(* (longpoll_thread, free(lp_url)).                                        *)
THEOREM RpcUrlSafe == Safety => []RpcUrlKept
<1>1. UrlInv => RpcUrlKept
  BY DEF UrlInv
<1> QED
  BY <1>1, UrlInvariance, PTL

-----------------------------------------------------------------------------
(* Types                                                                   *)

(* While an answer is looked at there is one.                              *)
Answers(kinds) == [kind : kinds, tip : Nat, gbt : BOOLEAN]
AnswerInv ==
  /\ wpc \in {"answered", "received", "decoded", "info"} => wans \in Answers(Kinds)
  /\ lpc \in {"asked", "answered", "lock", "half", "decoded", "failed"} =>
       lans \in Answers(LpKinds)

LEMMA AnswerTypes ==
  ASSUME TypeOK
  PROVE  /\ \A kind \in Kinds : Answer(kind) \in Answers(Kinds)
         /\ \A n \in Nat : SoloWork(n) \in Work /\ JobWork(n) \in Work
         /\ NoWork \in Work
         /\ Answers(Kinds) \subseteq CallAnswer(Kinds)
         /\ Answers(LpKinds) \subseteq CallAnswer(LpKinds)
         /\ None \in CallAnswer(Kinds) /\ None \in CallAnswer(LpKinds)
BY DEF TypeOK, Answer, Answers, CallAnswer, SoloWork, JobWork, NoWork, Work

LEMMA HeaderTypes ==
  ASSUME TypeOK, NEW h \in Headers, HeaderEffects(h)
  PROVE  /\ have_stratum' \in BOOLEAN /\ have_longpoll' \in BOOLEAN /\ lpq' \in Seq(Urls)
<1>1. have_stratum' \in BOOLEAN
  BY DEF HeaderEffects
<1>2. have_longpoll' = TRUE \/ have_longpoll' = have_longpoll
  BY DEF HeaderEffects
<1>3. lpq' = lpq \/ (h.path \in Urls /\ lpq' = Append(lpq, h.path))
  BY LongPollAssumption DEF HeaderEffects, LongPollHeader, Headers
<1>4. lpq \in Seq(Urls) /\ have_longpoll \in BOOLEAN
  BY DEF TypeOK
<1>5. lpq' \in Seq(Urls)
  BY <1>3, <1>4, AppendProperties
<1>6. have_longpoll' \in BOOLEAN
  BY <1>2, <1>4
<1> QED
  BY <1>1, <1>5, <1>6

Ids == {"none", "set", "freed"}

LEMMA UndefinedType ==
  ASSUME NEW use \in BOOLEAN, Undefined(use)
  PROVE  crashed' \in BOOLEAN
BY DEF Undefined

LEMMA FreeTypes ==
  ASSUME TypeOK, FreeLpId
  PROVE  lpId' \in Ids /\ crashed' \in BOOLEAN
<1>1. CASE Uris = {}
  BY <1>1 DEF FreeLpId, TypeOK, Ids
<1>2. CASE Uris # {}
  <2>1. Undefined(lpId = "freed") /\ lpId' \in Ids
    BY <1>2 DEF FreeLpId, Ids
  <2> QED
    BY <2>1, UndefinedType
<1> QED
  BY <1>1, <1>2

LEMMA TemplateTypes ==
  ASSUME TypeOK, TemplateEffects
  PROVE  /\ lpId' \in Ids /\ have_longpoll' \in BOOLEAN /\ lpq' \in Seq(Urls)
         /\ bareTemplate' \in BOOLEAN
<1>1. lpq \in Seq(Urls) /\ {have_longpoll, bareTemplate} \subseteq BOOLEAN /\ lpId \in Ids
  BY DEF TypeOK, Ids
<1>2. CASE UNCHANGED <<have_longpoll, lpq, bareTemplate>>
  <2>1. lpId' = "set" \/ lpId' = lpId
    BY DEF TemplateEffects
  <2> QED
    BY <1>1, <1>2, <2>1 DEF Ids
<1>3. CASE ~UNCHANGED <<have_longpoll, lpq, bareTemplate>>
  <2>1. PICK u \in Uris : /\ have_longpoll' = TRUE /\ lpq' = Append(lpq, u) /\ lpId' = "set"
                          /\ bareTemplate' = (bareTemplate \/ u = "rpc_url")
    BY <1>3 DEF TemplateEffects
  <2>2. bareTemplate' \in BOOLEAN
    BY <2>1
  <2>3. lpq' \in Seq(Urls)
    BY <1>1, <2>1, LongPollAssumption, AppendProperties
  <2> QED
    BY <2>1, <2>2, <2>3 DEF Ids
<1> QED
  BY <1>2, <1>3

LEMMA MinerTypes ==
  ASSUME TypeOK, NEW m \in Miners, Miner(m)
  PROVE  TypeOK'
<1> USE DEF flags, shared, minerVars, workioVars, lpVars, stratumVars, history, Goto
<1> DEFINE Mpcs == {"top", "solo", "pool", "waiting", "stored", "scan"}
<1>0. /\ mpc \in [Miners -> Mpcs] /\ mwork \in [Miners -> Work] /\ spent \in [Miners -> BOOLEAN]
      /\ gWork \in Work
  BY DEF TypeOK
<1>1. ASSUME NEW w \in Work, GetNewWork(m, w)
      PROVE  mwork' \in [Miners -> Work] /\ spent' \in [Miners -> BOOLEAN]
  <2>1. CASE /\ mwork' = [mwork EXCEPT ![m] = w]
             /\ spent' = [spent EXCEPT ![m] = w = NoWork /\ mwork[m] = NoWork]
    <3>1. (w = NoWork /\ mwork[m] = NoWork) \in BOOLEAN
      OBVIOUS
    <3> QED
      BY <1>0, <2>1, <3>1
  <2>2. CASE /\ \E full \in {spent[m], TRUE} : spent' = [spent EXCEPT ![m] = full]
             /\ UNCHANGED mwork
    BY <1>0, <2>2
  <2> QED
    BY <1>1, <2>1, <2>2 DEF GetNewWork
<1>2. CASE ReadMode(m)
  BY <1>0, <1>2 DEF ReadMode, TypeOK
<1>3. CASE RequestWork(m)
  BY <1>0, <1>3 DEF RequestWork, TypeOK
<1>4. CASE TakeShared(m)
  BY <1>0, <1>1, <1>4 DEF TakeShared, TypeOK
<1>5. CASE TakeFromPool(m)
  <2>1. CASE crashed' = TRUE /\ UNCHANGED <<gWork, minerVars>>
    BY <1>5, <2>1 DEF TakeFromPool, TypeOK
  <2>2. CASE /\ gWork' = IF spent[m] THEN JobWork(sjob) ELSE gWork
             /\ ~(spent[m] /\ sjob = -1) /\ GetNewWork(m, gWork')
             /\ Goto(m, "scan") /\ UNCHANGED crashed
    <3>1. gWork' \in Work
      BY <1>0, <2>2, AnswerTypes DEF TypeOK
    <3>2. mwork' \in [Miners -> Work] /\ spent' \in [Miners -> BOOLEAN]
      BY <1>1, <2>2, <3>1
    <3>3. mpc' \in [Miners -> Mpcs] /\ crashed' = crashed
      BY <1>0, <2>2
    <3>4. UNCHANGED <<chain, flags, gLock, age, workioVars, lpVars, stratumVars, history, faults>>
      BY <1>5 DEF TakeFromPool
    <3> QED
      BY <3>1, <3>2, <3>3, <3>4 DEF TypeOK
  <2> QED
    BY <1>5, <2>1, <2>2 DEF TakeFromPool
<1>6. CASE StoreWork(m)
  <2>1. gWork' \in Work /\ lateWrite' \in BOOLEAN
    BY <1>6 DEF StoreWork, TypeOK, Late
  <2>2. mpc' \in [Miners -> Mpcs] /\ reply' \in Work \cup {None} /\ halfDecoded' \in BOOLEAN
    BY <1>0, <1>6 DEF StoreWork
  <2> QED
    BY <1>6, <2>1, <2>2 DEF StoreWork, TypeOK
<1>7. CASE TakeStored(m)
  <2>1. lateWrite' \in BOOLEAN
    BY <1>7 DEF TakeStored, Late
  <2> QED
    BY <1>0, <1>1, <1>7, <2>1 DEF TakeStored, TypeOK
<1>8. CASE Scan(m)
  <2>1. spent' = spent \/ \E full \in {spent[m], TRUE} : spent' = [spent EXCEPT ![m] = full]
    BY <1>8 DEF Scan
  <2>2. spent' \in [Miners -> BOOLEAN] /\ mpc' \in [Miners -> Mpcs]
    BY <1>0, <1>8, <2>1 DEF Scan
  <2> QED
    BY <1>8, <2>2 DEF Scan, TypeOK
<1> QED
  BY <1>2, <1>3, <1>4, <1>5, <1>6, <1>7, <1>8 DEF Miner, MinerLocks

LEMMA WorkioTypes ==
  ASSUME TypeOK, AnswerInv, Workio
  PROVE  TypeOK' /\ AnswerInv'
<1> USE DEF flags, shared, minerVars, workioVars, lpVars, stratumVars, history
<1>0. /\ have_gbt \in BOOLEAN /\ have_longpoll \in BOOLEAN /\ have_stratum \in BOOLEAN
      /\ lpId \in Ids /\ lpq \in Seq(Urls) /\ bareTemplate \in BOOLEAN
      /\ rpcFreed \in BOOLEAN /\ crashed \in BOOLEAN
  BY DEF TypeOK, Ids
<1>1. ASSUME NEW kind \in Kinds, ServerAnswers(kind)
      PROVE  TypeOK' /\ AnswerInv'
  <2>1. /\ wans' \in Answers(Kinds) /\ wans' \in CallAnswer(Kinds) /\ faults' \in 0..MaxFaults
        /\ crashed' \in BOOLEAN
    <3>1. wans' = Answer(kind)
      BY <1>1 DEF ServerAnswers
    <3>3. crashed' \in BOOLEAN
      BY <1>0, <1>1, UndefinedType DEF ServerAnswers, UseRpcUrl
    <3>2. faults' \in 0..MaxFaults
      BY <1>1, LongPollAssumption DEF ServerAnswers, Fault, TypeOK
    <3> QED
      BY <3>1, <3>2, <3>3, AnswerTypes
  <2>2. TypeOK'
    BY <1>1, <2>1 DEF ServerAnswers, TypeOK
  <2>3. AnswerInv'
    BY <1>1, <2>1 DEF ServerAnswers, AnswerInv
  <2> QED
    BY <2>2, <2>3
<1>2. ASSUME NEW h \in Headers, AnswerArrives(h)
      PROVE  TypeOK' /\ AnswerInv'
  <2>1. have_stratum' \in BOOLEAN /\ have_longpoll' \in BOOLEAN /\ lpq' \in Seq(Urls)
    <3>1. UNCHANGED <<have_stratum, have_longpoll, lpq>> \/ HeaderEffects(h)
      BY <1>2 DEF AnswerArrives
    <3> QED
      BY <1>0, <3>1, HeaderTypes
  <2>2. TypeOK'
    BY <1>2, <2>1 DEF AnswerArrives, TypeOK
  <2>3. AnswerInv'
    BY <1>2 DEF AnswerArrives, AnswerInv
  <2> QED
    BY <2>2, <2>3
<1>3. ASSUME NEW h \in Headers, DeliverWork(h)
      PROVE  TypeOK' /\ AnswerInv'
  <2>1. have_stratum' \in BOOLEAN /\ have_longpoll' \in BOOLEAN /\ lpq' \in Seq(Urls)
    <3>1. UNCHANGED <<have_stratum, have_longpoll, lpq>> \/ HeaderEffects(h)
      BY <1>3 DEF DeliverWork
    <3> QED
      BY <1>0, <3>1, HeaderTypes
  <2>6. crashed' \in BOOLEAN
    <3>1. UNCHANGED crashed \/ Undefined(rpcFreed)
      BY <1>3 DEF DeliverWork, UseRpcUrl
    <3> QED
      BY <1>0, <3>1, UndefinedType
  <2>2. reply' \in Work \cup {None} /\ wpc' \in {"pop", "ask"}
    <3>1. wans.tip \in Nat
      BY <1>3 DEF DeliverWork, AnswerInv, Answers
    <3>2. \/ reply' = SoloWork(wans.tip) /\ wpc' = "pop"
          \/ wpc' = "ask" /\ UNCHANGED reply
      BY <1>3 DEF DeliverWork
    <3> QED
      BY <3>1, <3>2, AnswerTypes DEF TypeOK
  <2>3. wans' \in CallAnswer(Kinds)
    BY <1>3, AnswerTypes DEF DeliverWork
  <2>4. TypeOK'
    BY <1>3, <2>1, <2>2, <2>3, <2>6 DEF DeliverWork, TypeOK
  <2>5. AnswerInv'
    BY <1>3, <2>2 DEF DeliverWork, AnswerInv
  <2> QED
    BY <2>4, <2>5
<1>4. CASE SwitchedToStratum
  <2>1. TypeOK'
    BY <1>4, AnswerTypes DEF SwitchedToStratum, TypeOK
  <2>2. AnswerInv'
    BY <1>4 DEF SwitchedToStratum, AnswerInv
  <2> QED
    BY <2>1, <2>2
<1>5. CASE CallFails
  <2>1. have_gbt' \in BOOLEAN
    BY <1>5 DEF CallFails
  <2>2. TypeOK'
    BY <1>5, <2>1, AnswerTypes DEF CallFails, TypeOK
  <2>3. AnswerInv'
    BY <1>5 DEF CallFails, AnswerInv
  <2> QED
    BY <2>2, <2>3
<1>6. CASE DecodeTemplate
  <2>1. lpId' \in Ids /\ crashed' \in BOOLEAN
    BY <1>6, FreeTypes DEF DecodeTemplate
  <2>2. have_gbt' \in BOOLEAN
    BY <1>6 DEF DecodeTemplate, SwitchToGetwork
  <2>3. TypeOK'
    BY <1>6, <2>1, <2>2 DEF DecodeTemplate, TypeOK, Ids
  <2>4. AnswerInv'
    BY <1>6 DEF DecodeTemplate, AnswerInv
  <2> QED
    BY <2>3, <2>4
<1>8. CASE TemplateDecoded
  <2>1. /\ lpId' \in Ids /\ have_longpoll' \in BOOLEAN /\ lpq' \in Seq(Urls)
        /\ bareTemplate' \in BOOLEAN
    BY <1>8, TemplateTypes DEF TemplateDecoded
  <2>3. \/ wpc' = "info" /\ UNCHANGED wans
        \/ wpc' = "ask" /\ wans' = None
    BY <1>8 DEF TemplateDecoded
  <2>4. wans' \in CallAnswer(Kinds) /\ wpc' \in {"info", "ask"}
    BY <2>3, AnswerTypes DEF TypeOK
  <2>5. TypeOK'
    BY <1>8, <2>1, <2>4 DEF TemplateDecoded, TypeOK, Ids
  <2>6. AnswerInv'
    BY <1>8, <2>3 DEF TemplateDecoded, AnswerInv
  <2> QED
    BY <2>5, <2>6
<1>7. CASE DecodeGetwork
  BY <1>7 DEF DecodeGetwork, TypeOK, AnswerInv
<1> QED
  BY <1>1, <1>2, <1>3, <1>4, <1>5, <1>6, <1>7, <1>8 DEF Workio

LEMMA LpTypes ==
  ASSUME TypeOK, AnswerInv, LpThread
  PROVE  TypeOK' /\ AnswerInv'
<1> USE DEF flags, shared, minerVars, workioVars, lpVars, stratumVars, history
<1>0. /\ have_gbt \in BOOLEAN /\ have_longpoll \in BOOLEAN /\ have_stratum \in BOOLEAN
      /\ lpId \in Ids /\ lpq \in Seq(Urls) /\ bareTemplate \in BOOLEAN /\ rpcFreed \in BOOLEAN
      /\ gWork \in Work /\ halfDecoded \in BOOLEAN /\ crashed \in BOOLEAN
  BY DEF TypeOK, Ids
<1>1. CASE LpPop
  <2>1. url' \in Urls /\ lpq' \in Seq(Urls)
    BY <1>0, <1>1, HeadTailProperties DEF LpPop
  <2>4. crashed' \in BOOLEAN
    <3>1. UNCHANGED crashed \/ Undefined(rpcFreed)
      BY <1>1 DEF LpPop, UseRpcUrl
    <3> QED
      BY <1>0, <3>1, UndefinedType
  <2>2. TypeOK'
    BY <1>1, <2>1, <2>4 DEF LpPop, TypeOK
  <2>3. AnswerInv'
    BY <1>1 DEF LpPop, AnswerInv
  <2> QED
    BY <2>2, <2>3
<1>2. ASSUME NEW h \in Headers, LpFirstCall(h)
      PROVE  TypeOK' /\ AnswerInv'
  <2>1. have_stratum' \in BOOLEAN /\ have_longpoll' \in BOOLEAN /\ lpq' \in Seq(Urls)
    BY <1>2, HeaderTypes DEF LpFirstCall
  <2>2. lans' \in Answers(LpKinds) /\ lans' \in CallAnswer(LpKinds)
    <3>1. lans' \in Answers(LpKinds)
      BY <1>0, <1>2 DEF LpFirstCall, Answers, LpKinds, Kinds
    <3> QED
      BY <3>1, AnswerTypes
  <2>5. crashed' \in BOOLEAN
    BY <1>0, <1>2 DEF LpFirstCall, Undefined
  <2>3. TypeOK'
    BY <1>2, <2>1, <2>2, <2>5 DEF LpFirstCall, TypeOK
  <2>4. AnswerInv'
    BY <1>2, <2>2 DEF LpFirstCall, AnswerInv
  <2> QED
    BY <2>3, <2>4
<1>3. ASSUME NEW kind \in LpKinds, ServerAnswersPoll(kind)
      PROVE  TypeOK' /\ AnswerInv'
  <2>1. lans' \in Answers(LpKinds)
    BY <1>3 DEF ServerAnswersPoll, AnswerInv, Answers, TypeOK
  <2>2. lans' \in CallAnswer(LpKinds) /\ faults' \in 0..MaxFaults
    BY <1>3, <2>1, AnswerTypes, LongPollAssumption DEF ServerAnswersPoll, Fault, TypeOK
  <2>5. crashed' \in BOOLEAN
    <3>1. UNCHANGED crashed \/ Undefined(rpcFreed)
      BY <1>3 DEF ServerAnswersPoll, UseRpcUrl
    <3> QED
      BY <1>0, <3>1, UndefinedType
  <2>3. TypeOK'
    BY <1>3, <2>2, <2>5 DEF ServerAnswersPoll, TypeOK
  <2>4. AnswerInv'
    BY <1>3, <2>1 DEF ServerAnswersPoll, AnswerInv
  <2> QED
    BY <2>3, <2>4
<1>4. ASSUME NEW h \in Headers, LpReturns(h)
      PROVE  TypeOK' /\ AnswerInv'
  <2>1. have_stratum' \in BOOLEAN /\ have_longpoll' \in BOOLEAN /\ lpq' \in Seq(Urls)
    <3>1. UNCHANGED <<have_stratum, have_longpoll, lpq>> \/ HeaderEffects(h)
      BY <1>4 DEF LpReturns
    <3> QED
      BY <1>0, <3>1, HeaderTypes
  <2>2. \/ lpc' = "gone" /\ lans' = None /\ FreeUrl
        \/ lpc' \in {"lock", "failed"} /\ UNCHANGED <<lans, rpcFreed, crashed>>
    BY <1>4 DEF LpReturns
  <2>3. lans' \in CallAnswer(LpKinds) /\ lpc' \in {"gone", "lock", "failed"}
    BY <2>2, AnswerTypes DEF TypeOK
  <2>4. rpcFreed' \in BOOLEAN /\ crashed' \in BOOLEAN
    BY <1>0, <2>2 DEF FreeUrl, Undefined
  <2>5. TypeOK'
    BY <1>4, <2>1, <2>3, <2>4 DEF LpReturns, TypeOK
  <2>6. AnswerInv'
    BY <1>4, <2>2 DEF LpReturns, AnswerInv
  <2> QED
    BY <2>5, <2>6
<1>5. CASE LpDecodeHeader
  <2>1. lans.tip \in Nat /\ lateWrite' \in BOOLEAN
    BY <1>5 DEF LpDecodeHeader, Late, AnswerInv, Answers
  <2>2. gWork' \in Work
    <3>1. gWork' = [gWork EXCEPT !.header = lans.tip] \/ gWork' = gWork
      BY <1>5 DEF LpDecodeHeader
    <3> QED
      BY <1>0, <2>1, <3>1 DEF Work
  <2>5. lans' \in Answers(LpKinds)
    <3>1. lans \in Answers(LpKinds) /\ lans' = ByThisProtocol(lans)
      BY <1>5 DEF LpDecodeHeader, AnswerInv
    <3> QED
      BY <1>0, <3>1 DEF ByThisProtocol, Answers, LpKinds, Kinds
  <2>3. TypeOK'
    BY <1>5, <2>1, <2>2, <2>5, AnswerTypes DEF LpDecodeHeader, TypeOK
  <2>4. AnswerInv'
    BY <1>5, <2>5 DEF LpDecodeHeader, AnswerInv
  <2> QED
    BY <2>3, <2>4
<1>6. CASE LpDecodeTarget
  <2>1. lans.tip \in Nat /\ lateWrite' \in BOOLEAN
    BY <1>6 DEF LpDecodeTarget, Late, AnswerInv, Answers
  <2>2. gWork' \in Work /\ halfDecoded' \in BOOLEAN
    <3>1. gWork' = [gWork EXCEPT !.target = lans.tip] \/ gWork' = gWork
      BY <1>6 DEF LpDecodeTarget
    <3>2. gWork' \in Work
      BY <1>0, <2>1, <3>1 DEF Work
    <3>3. halfDecoded' \in BOOLEAN
      BY <1>6 DEF LpDecodeTarget
    <3> QED
      BY <3>2, <3>3
  <2>3. lpId' \in Ids /\ crashed' \in BOOLEAN /\ have_gbt' \in BOOLEAN
    <3>1. CASE SwitchToGetwork(lans) /\ FreeLpId
      BY <3>1, FreeTypes DEF SwitchToGetwork
    <3>2. CASE UNCHANGED <<have_gbt, lpId, crashed>>
      BY <1>0, <3>2
    <3> QED
      BY <1>6, <3>1, <3>2 DEF LpDecodeTarget
  <2>4. TypeOK'
    BY <1>6, <2>1, <2>2, <2>3 DEF LpDecodeTarget, TypeOK, Ids
  <2>5. AnswerInv'
    BY <1>6 DEF LpDecodeTarget, AnswerInv
  <2> QED
    BY <2>4, <2>5
<1>9. CASE LpDecoded
  <2>1. lateWrite' \in BOOLEAN /\ age' \in {"zero", "new", "old"}
    <3>1. age' \in {age, "new"} /\ lateWrite' \in BOOLEAN
      BY <1>9 DEF LpDecoded, Late
    <3>2. age \in {"zero", "new", "old"}
      BY DEF TypeOK
    <3> QED
      BY <3>1, <3>2
  <2>2. /\ lpId' \in Ids /\ have_longpoll' \in BOOLEAN /\ lpq' \in Seq(Urls)
        /\ bareTemplate' \in BOOLEAN
    <3>1. TemplateEffects \/ UNCHANGED <<have_longpoll, lpId, lpq, bareTemplate>>
      BY <1>9 DEF LpDecoded
    <3> QED
      BY <1>0, <3>1, TemplateTypes
  <2>3. lans' \in CallAnswer(LpKinds)
    BY <1>9, AnswerTypes DEF LpDecoded
  <2>4. TypeOK'
    BY <1>9, <2>1, <2>2, <2>3 DEF LpDecoded, TypeOK, Ids
  <2>5. AnswerInv'
    BY <1>9 DEF LpDecoded, AnswerInv
  <2> QED
    BY <2>4, <2>5
<1>7. CASE LpAges
  <2>1. lateWrite' \in BOOLEAN /\ lans' \in CallAnswer(LpKinds)
    BY <1>7, AnswerTypes DEF LpAges, Late
  <2>2. TypeOK'
    BY <1>7, <2>1 DEF LpAges, TypeOK
  <2>3. AnswerInv'
    BY <1>7 DEF LpAges, AnswerInv
  <2> QED
    BY <2>2, <2>3
<1>8. CASE LpGivesUp
  <2>1. rpcFreed' \in BOOLEAN /\ crashed' \in BOOLEAN
    BY <1>0, <1>8 DEF LpGivesUp, FreeUrl, Undefined
  <2>2. TypeOK'
    <3>1. /\ lpc' = "pop" /\ have_longpoll' = FALSE
          /\ UNCHANGED <<chain, have_gbt, have_stratum, lpId, shared, minerVars, workioVars, lpq,
                         lans, url, stratumVars, bareTemplate, halfDecoded, lateWrite, faults>>
      BY <1>8 DEF LpGivesUp
    <3>2. /\ {have_gbt', have_longpoll', have_stratum'} \subseteq BOOLEAN
          /\ {crashed', rpcFreed', bareTemplate', halfDecoded', lateWrite'} \subseteq BOOLEAN
      BY <2>1, <3>1 DEF TypeOK
    <3>3. /\ UNCHANGED <<chain, lpId, gLock, gWork, age, mpc, mwork, spent, wpc, wans, reply>>
          /\ UNCHANGED <<lpq, lans, url, spc, sjob, faults>>
      BY <3>1
    <3> QED
      BY <3>1, <3>2, <3>3 DEF TypeOK
  <2>3. AnswerInv'
    BY <1>8 DEF LpGivesUp, AnswerInv
  <2> QED
    BY <2>2, <2>3
<1> QED
  BY <1>1, <1>2, <1>3, <1>4, <1>5, <1>6, <1>7, <1>8, <1>9 DEF LpThread, LpLocks

LEMMA StratumTypes ==
  ASSUME TypeOK, StratumThread
  PROVE  TypeOK'
<1> USE DEF flags, shared, minerVars, workioVars, lpVars, stratumVars, history
<1>1. CASE StratumStarts
  BY <1>1 DEF StratumStarts, TypeOK
<1>2. CASE StratumResets
  BY <1>2 DEF StratumResets, TypeOK
<1>3. CASE StratumConnects
  BY <1>3, LongPollAssumption DEF StratumConnects, Fault, TypeOK
<1>4. CASE StratumTests
  <2>1. crashed' \in BOOLEAN
    BY <1>4 DEF StratumTests
  <2> QED
    BY <1>4, <2>1 DEF StratumTests, TypeOK
<1>5. CASE StratumMakesWork
  <2>1. JobWork(sjob) \in Work
    BY DEF TypeOK, JobWork, Work
  <2> QED
    BY <1>5, <2>1 DEF StratumMakesWork, TypeOK
<1>6. CASE StratumReceives
  BY <1>6, LongPollAssumption DEF StratumReceives, Fault, TypeOK
<1> QED
  BY <1>1, <1>2, <1>3, <1>4, <1>5, <1>6 DEF StratumThread, StratumLocks

LEMMA TypeStep ==
  ASSUME TypeOK, AnswerInv, [Next]_vars
  PROVE  TypeOK' /\ AnswerInv'
<1> USE DEF flags, shared, minerVars, workioVars, lpVars, stratumVars, history
<1>1. ASSUME NEW m \in Miners, Miner(m)
      PROVE  TypeOK' /\ AnswerInv'
  <2>1. UNCHANGED <<lpc, lans>>
    BY <1>1 DEF Miner, MinerLocks, ReadMode, RequestWork, TakeShared, TakeFromPool, StoreWork,
       TakeStored, Scan
  <2>2. wpc' = "ask" \/ UNCHANGED <<wpc, wans>>
    BY <1>1 DEF Miner, MinerLocks, ReadMode, RequestWork, TakeShared, TakeFromPool, StoreWork,
       TakeStored, Scan
  <2> QED
    BY <1>1, <2>1, <2>2, MinerTypes DEF AnswerInv
<1>2. CASE StratumThread
  <2>1. UNCHANGED <<lpc, lans, wpc, wans>>
    BY <1>2 DEF StratumThread, StratumLocks, StratumStarts, StratumConnects, StratumTests,
     StratumReceives, StratumResets, StratumMakesWork
  <2> QED
    BY <1>2, <2>1, StratumTypes DEF AnswerInv
<1>3. CASE BlockFound
  BY <1>3 DEF BlockFound, TypeOK, AnswerInv
<1>4. CASE TimePasses
  BY <1>4 DEF TimePasses, TypeOK, AnswerInv
<1>5. CASE UNCHANGED vars
  BY <1>5 DEF vars, TypeOK, AnswerInv
<1> QED
  BY <1>1, <1>2, <1>3, <1>4, <1>5, WorkioTypes, LpTypes DEF Next, Running, Crashed

-----------------------------------------------------------------------------
(* The lock, the request, and the flags                                    *)

(* g_work_lock is held by a miner inside get_work or by the long-poll      *)
(* thread while it decodes, and by nobody else between two steps.          *)
LockInv ==
  /\ \A m \in Miners : mpc[m] \in {"waiting", "stored"} <=> gLock = m
  /\ lpc \in {"half", "decoded"} <=> gLock = Lp

(* A request and its answer belong to a miner that waits.                  *)
SomeoneWaits == \E m \in Miners : mpc[m] = "waiting"
RequestInv ==
  /\ wpc # "pop" => reply = None /\ SomeoneWaits
  /\ reply # None => SomeoneWaits

LEMMA LockFacts ==
  /\ None \notin Miners /\ Lp \notin Miners /\ Lp # None
  /\ \A m \in Miners : m # None /\ m # Lp
BY LongPollAssumption

Decoding == lpc \in {"half", "decoded"}

LEMMA LockStep ==
  ASSUME TypeOK, LockInv, [Next]_vars
  PROVE  LockInv'
<1> USE DEF flags, shared, minerVars, workioVars, lpVars, stratumVars, history, Goto
<1>0. mpc \in [Miners -> {"top", "solo", "pool", "waiting", "stored", "scan"}]
  BY DEF TypeOK
<1>1. ASSUME UNCHANGED <<mpc, gLock>>, Decoding' <=> Decoding
      PROVE  LockInv'
  BY <1>1 DEF LockInv, Decoding
<1>2. ASSUME NEW m \in Miners, Miner(m)
      PROVE  LockInv'
  <2>1. CASE ReadMode(m)
    <3>1. /\ mpc[m] = "top" /\ UNCHANGED <<gLock, lpc>>
          /\ \E pc \in {"pool", "solo"} : mpc' = [mpc EXCEPT ![m] = pc]
      BY <2>1 DEF ReadMode
    <3> QED
      BY <1>0, <3>1 DEF LockInv
  <2>2. CASE RequestWork(m)
    BY <1>0, <2>2, LockFacts DEF RequestWork, LockInv
  <2>3. CASE TakeShared(m)
    BY <1>0, <2>3 DEF TakeShared, LockInv
  <2>4. CASE TakeFromPool(m)
    <3>1. /\ mpc[m] = "pool" /\ UNCHANGED <<gLock, lpc>>
          /\ mpc' = [mpc EXCEPT ![m] = "scan"] \/ mpc' = mpc
      BY <2>4 DEF TakeFromPool
    <3> QED
      BY <1>0, <3>1 DEF LockInv
  <2>5. CASE StoreWork(m)
    BY <1>0, <2>5 DEF StoreWork, LockInv
  <2>6. CASE TakeStored(m)
    <3>1. /\ mpc[m] = "stored" /\ gLock' = None /\ mpc' = [mpc EXCEPT ![m] = "scan"]
          /\ UNCHANGED lpc
      BY <2>6 DEF TakeStored
    <3>2. gLock = m /\ ~Decoding
      BY <3>1, LockFacts DEF LockInv, Decoding
    <3> QED
      BY <1>0, <3>1, <3>2, LockFacts DEF LockInv, Decoding
  <2>7. CASE Scan(m)
    BY <1>0, <2>7 DEF Scan, LockInv
  <2> QED
    BY <1>2, <2>1, <2>2, <2>3, <2>4, <2>5, <2>6, <2>7 DEF Miner, MinerLocks
<1>3. CASE Workio
  <2>1. UNCHANGED <<mpc, gLock, lpc>>
    BY <1>3 DEF Workio, ServerAnswers, AnswerArrives, DeliverWork, SwitchedToStratum, CallFails,
       DecodeTemplate, TemplateDecoded, DecodeGetwork
  <2> QED
    BY <1>1, <2>1 DEF Decoding
<1>4. CASE LpThread
  <2>1. CASE LpDecodeHeader
    <3>1. gLock = None /\ gLock' = Lp /\ lpc' = "half" /\ UNCHANGED mpc
      BY <2>1 DEF LpDecodeHeader
    <3> QED
      BY <3>1, LockFacts DEF LockInv
  <2>2. CASE LpDecoded
    <3>1. lpc = "decoded" /\ gLock' = None /\ lpc' = "poll" /\ UNCHANGED mpc
      BY <2>2 DEF LpDecoded
    <3> QED
      BY <3>1, LockFacts DEF LockInv
  <2>6. CASE LpDecodeTarget
    <3>1. lpc = "half" /\ lpc' = "decoded" /\ UNCHANGED <<mpc, gLock>>
      BY <2>6 DEF LpDecodeTarget
    <3> QED
      BY <1>1, <3>1 DEF Decoding
  <2>3. CASE LpPop \/ LpGivesUp \/ LpAges
    <3>1. UNCHANGED <<mpc, gLock>> /\ ~Decoding' /\ ~Decoding
      BY <2>3 DEF LpPop, LpGivesUp, LpAges, Decoding
    <3> QED
      BY <1>1, <3>1
  <2>4. ASSUME NEW h \in Headers, LpFirstCall(h) \/ LpReturns(h)
        PROVE  LockInv'
    <3>1. UNCHANGED <<mpc, gLock>> /\ ~Decoding' /\ ~Decoding
      BY <2>4 DEF LpFirstCall, LpReturns, Decoding
    <3> QED
      BY <1>1, <3>1
  <2>5. ASSUME NEW kind \in LpKinds, ServerAnswersPoll(kind)
        PROVE  LockInv'
    <3>1. UNCHANGED <<mpc, gLock>> /\ ~Decoding' /\ ~Decoding
      BY <2>5 DEF ServerAnswersPoll, Decoding
    <3> QED
      BY <1>1, <3>1
  <2> QED
    BY <1>4, <2>1, <2>2, <2>3, <2>4, <2>5, <2>6 DEF LpThread, LpLocks
<1>5. CASE StratumThread \/ BlockFound \/ TimePasses \/ UNCHANGED vars
  <2>1. UNCHANGED <<mpc, gLock, lpc>>
    BY <1>5 DEF StratumThread, StratumLocks, StratumStarts, StratumConnects, StratumTests,
       StratumReceives, StratumResets, StratumMakesWork, BlockFound, TimePasses, vars
  <2> QED
    BY <1>1, <2>1 DEF Decoding
<1> QED
  BY <1>2, <1>3, <1>4, <1>5 DEF Next, Running, Crashed

LEMMA RequestStep ==
  ASSUME TypeOK, LockInv, RequestInv, [Next]_vars
  PROVE  RequestInv'
<1> USE DEF flags, shared, minerVars, workioVars, lpVars, stratumVars, history, Goto
<1>0. mpc \in [Miners -> {"top", "solo", "pool", "waiting", "stored", "scan"}]
  BY DEF TypeOK
<1>1. ASSUME UNCHANGED <<wpc, reply>>, SomeoneWaits => SomeoneWaits'
      PROVE  RequestInv'
  BY <1>1 DEF RequestInv
<1>2. ASSUME NEW m \in Miners, Miner(m)
      PROVE  RequestInv'
  <2>1. CASE RequestWork(m)
    <3>1. gLock = None /\ mpc' = [mpc EXCEPT ![m] = "waiting"] /\ UNCHANGED reply
      BY <2>1 DEF RequestWork
    <3>2. ~SomeoneWaits
      BY <3>1, LockFacts DEF LockInv, SomeoneWaits
    <3>3. SomeoneWaits'
      BY <1>0, <3>1 DEF SomeoneWaits
    <3> QED
      BY <3>1, <3>2, <3>3 DEF RequestInv
  <2>2. CASE StoreWork(m)
    <3>1. reply # None /\ reply' = None /\ UNCHANGED wpc
      BY <2>2 DEF StoreWork
    <3> QED
      BY <3>1 DEF RequestInv
  <2>3. CASE ReadMode(m) \/ TakeShared(m) \/ TakeFromPool(m) \/ TakeStored(m) \/ Scan(m)
    <3>1. /\ UNCHANGED <<wpc, reply>> /\ mpc[m] # "waiting"
          /\ mpc' = mpc \/ \E pc \in {"pool", "solo", "scan", "top"} : mpc' = [mpc EXCEPT ![m] = pc]
      BY <2>3 DEF ReadMode, TakeShared, TakeFromPool, TakeStored, Scan
    <3>2. SomeoneWaits => SomeoneWaits'
      BY <1>0, <3>1 DEF SomeoneWaits
    <3> QED
      BY <1>1, <3>1, <3>2
  <2> QED
    BY <1>2, <2>1, <2>2, <2>3 DEF Miner, MinerLocks
<1>3. CASE Workio
  <2>1. wpc # "pop" /\ UNCHANGED mpc /\ (UNCHANGED reply \/ wpc' = "pop")
    BY <1>3 DEF Workio, ServerAnswers, AnswerArrives, DeliverWork, SwitchedToStratum, CallFails,
       DecodeTemplate, TemplateDecoded, DecodeGetwork
  <2> QED
    BY <2>1 DEF RequestInv, SomeoneWaits
<1>4. CASE LpThread
  <2>1. UNCHANGED <<wpc, reply, mpc>>
    BY <1>4 DEF LpThread, LpLocks, LpPop, LpDecodeHeader, LpAges, LpDecodeTarget, LpDecoded, LpGivesUp,
       LpFirstCall, LpReturns, ServerAnswersPoll
  <2> QED
    BY <1>1, <2>1 DEF SomeoneWaits
<1>5. CASE StratumThread \/ BlockFound \/ TimePasses \/ UNCHANGED vars
  <2>1. UNCHANGED <<wpc, reply, mpc>>
    BY <1>5 DEF StratumThread, StratumLocks, StratumStarts, StratumConnects, StratumTests,
       StratumReceives, StratumResets, StratumMakesWork, BlockFound, TimePasses, vars
  <2> QED
    BY <1>1, <2>1 DEF SomeoneWaits
<1> QED
  BY <1>2, <1>3, <1>4, <1>5 DEF Next, Running, Crashed

LEMMA StratumStays ==
  ASSUME [Next]_vars
  PROVE  have_stratum => have_stratum'
<1> USE DEF flags
<1>1. ASSUME NEW m \in Miners, Miner(m)
      PROVE  UNCHANGED have_stratum
  BY <1>1 DEF Miner, MinerLocks, ReadMode, RequestWork, TakeShared, TakeFromPool, StoreWork,
     TakeStored, Scan
<1>2. ASSUME NEW h \in Headers, AnswerArrives(h) \/ DeliverWork(h) \/ LpFirstCall(h) \/ LpReturns(h)
      PROVE  have_stratum => have_stratum'
  <2>1. UNCHANGED have_stratum \/ HeaderEffects(h)
    BY <1>2 DEF AnswerArrives, DeliverWork, LpFirstCall, LpReturns
  <2>2. HeaderEffects(h) => (have_stratum => have_stratum')
    BY DEF HeaderEffects
  <2> QED
    BY <2>1, <2>2
<1>3. CASE SwitchedToStratum \/ CallFails \/ DecodeTemplate \/ TemplateDecoded \/ DecodeGetwork
             \/ \E kind \in Kinds : ServerAnswers(kind)
  BY <1>3 DEF SwitchedToStratum, CallFails, DecodeTemplate, TemplateDecoded, DecodeGetwork,
     ServerAnswers
<1>4. CASE LpPop \/ LpLocks \/ LpDecodeTarget \/ LpDecoded \/ LpGivesUp
             \/ \E kind \in LpKinds : ServerAnswersPoll(kind)
  BY <1>4 DEF LpPop, LpLocks, LpDecodeHeader, LpAges, LpDecodeTarget, LpDecoded, LpGivesUp,
     ServerAnswersPoll
<1>5. CASE StratumThread \/ BlockFound \/ TimePasses \/ UNCHANGED vars
  BY <1>5 DEF StratumThread, StratumLocks, StratumStarts, StratumConnects, StratumTests,
     StratumReceives, StratumResets, StratumMakesWork, BlockFound, TimePasses, vars
<1>6. Workio => \/ \E h \in Headers : AnswerArrives(h) \/ DeliverWork(h)
                \/ SwitchedToStratum \/ CallFails \/ DecodeTemplate \/ TemplateDecoded
                \/ DecodeGetwork \/ \E kind \in Kinds : ServerAnswers(kind)
  BY DEF Workio
<1>7. LpThread => \/ \E h \in Headers : LpFirstCall(h) \/ LpReturns(h)
                  \/ LpPop \/ LpLocks \/ LpGivesUp \/ LpDecodeTarget \/ LpDecoded
                  \/ \E kind \in LpKinds : ServerAnswersPoll(kind)
  BY DEF LpThread
<1> QED
  BY <1>1, <1>2, <1>3, <1>4, <1>5, <1>6, <1>7 DEF Next, Running, Crashed

(* When the lock is free or the long-poll thread's, no request is out.     *)
LEMMA NoRequest ==
  ASSUME LockInv, RequestInv, gLock \in {None, Lp}
  PROVE  wpc = "pop" /\ reply = None
<1>1. ~SomeoneWaits
  BY LockFacts DEF LockInv, SomeoneWaits
<1> QED
  BY <1>1 DEF RequestInv

(* lp_id is released only between the two steps of gbt_work_decode that    *)
(* replace it.                                                             *)
IdInv ==
  /\ Uris = {} => lpId = "none"
  /\ lpId = "freed" => wpc = "decoded" \/ (lpc = "decoded" /\ lans.gbt)

LEMMA IdStep ==
  ASSUME LockInv, RequestInv, IdInv, [Next]_vars
  PROVE  IdInv'
<1> USE DEF flags, shared, minerVars, workioVars, lpVars, stratumVars, history
<1>1. ASSUME UNCHANGED <<lpId, lpc, lans>>, UNCHANGED wpc \/ wpc # "decoded"
      PROVE  IdInv'
  BY <1>1 DEF IdInv
<1>2. ASSUME UNCHANGED <<lpId, wpc>>, lpc # "decoded"
      PROVE  IdInv'
  BY <1>2 DEF IdInv
<1>3. ASSUME NEW m \in Miners, Miner(m)
      PROVE  IdInv'
  <2>1. CASE RequestWork(m)
    <3>1. gLock = None /\ UNCHANGED <<lpId, lpc, lans>>
      BY <2>1 DEF RequestWork
    <3> QED
      BY <1>1, <3>1, NoRequest
  <2>2. CASE ReadMode(m) \/ TakeShared(m) \/ TakeFromPool(m) \/ StoreWork(m) \/ TakeStored(m)
               \/ Scan(m)
    BY <1>1, <2>2 DEF ReadMode, TakeShared, TakeFromPool, StoreWork, TakeStored, Scan
  <2> QED
    BY <1>3, <2>1, <2>2 DEF Miner, MinerLocks
<1>4. CASE Workio
  <2>1. CASE DecodeTemplate
    BY <2>1 DEF DecodeTemplate, FreeLpId, IdInv
  <2>2. CASE TemplateDecoded
    BY <2>2 DEF TemplateDecoded, TemplateEffects, IdInv
  <2>3. CASE SwitchedToStratum \/ CallFails \/ DecodeGetwork
               \/ (\E kind \in Kinds : ServerAnswers(kind))
               \/ (\E h \in Headers : AnswerArrives(h) \/ DeliverWork(h))
    BY <1>1, <2>3 DEF SwitchedToStratum, CallFails, DecodeGetwork, ServerAnswers, AnswerArrives,
       DeliverWork
  <2> QED
    BY <1>4, <2>1, <2>2, <2>3 DEF Workio
<1>5. CASE LpThread
  <2>1. CASE LpDecodeTarget
    BY <2>1 DEF LpDecodeTarget, FreeLpId, IdInv
  <2>2. CASE LpDecoded
    BY <2>2 DEF LpDecoded, TemplateEffects, IdInv
  <2>3. CASE LpPop \/ LpLocks \/ LpGivesUp \/ (\E kind \in LpKinds : ServerAnswersPoll(kind))
               \/ (\E h \in Headers : LpFirstCall(h) \/ LpReturns(h))
    BY <1>2, <2>3 DEF LpPop, LpLocks, LpDecodeHeader, LpAges, LpGivesUp, ServerAnswersPoll,
       LpFirstCall, LpReturns
  <2> QED
    BY <1>5, <2>1, <2>2, <2>3 DEF LpThread
<1>6. CASE StratumThread \/ BlockFound \/ TimePasses \/ UNCHANGED vars
  <2>1. UNCHANGED <<lpId, wpc, lpc, lans>>
    BY <1>6 DEF StratumThread, StratumLocks, StratumStarts, StratumConnects, StratumTests,
       StratumReceives, StratumResets, StratumMakesWork, BlockFound, TimePasses, vars
  <2> QED
    BY <1>1, <2>1
<1> QED
  BY <1>3, <1>4, <1>5, <1>6 DEF Next, Running, Crashed

-----------------------------------------------------------------------------
(* Half-decoded answers                                                    *)

(* The header and the target of g_work are of one block, unless the        *)
(* long-poll thread is between the two and will make them so.              *)
HalfInv ==
  /\ lpc # "half" => gWork.header = gWork.target \/ halfDecoded
  /\ lpc = "half" /\ lans.kind = "work" => gWork.header = lans.tip
  /\ reply # None => reply.header = reply.target

LEMMA HalfStep ==
  ASSUME TypeOK, AnswerInv, LockInv, RequestInv, HalfInv, [Next]_vars
  PROVE  HalfInv'
<1> USE DEF flags, shared, minerVars, workioVars, lpVars, stratumVars, history
<1>1. ASSUME UNCHANGED <<gWork, halfDecoded, lpc, lans>>,
             reply' = reply \/ reply' = None \/ reply'.header = reply'.target
      PROVE  HalfInv'
  BY <1>1 DEF HalfInv
<1>2. ASSUME lpc # "half", UNCHANGED <<lpc, lans>>, gWork'.header = gWork'.target,
             reply' = reply \/ reply' = None
      PROVE  HalfInv'
  BY <1>2 DEF HalfInv
<1>3. ASSUME UNCHANGED <<gWork, halfDecoded, reply>>, lpc # "half", lpc' # "half"
      PROVE  HalfInv'
  BY <1>3 DEF HalfInv
<1>4. /\ \A n \in Nat : SoloWork(n).header = SoloWork(n).target /\ JobWork(n).header = JobWork(n).target
      /\ NoWork.header = NoWork.target
  BY DEF SoloWork, JobWork, NoWork
<1>5. ASSUME NEW m \in Miners, Miner(m)
      PROVE  HalfInv'
  <2>1. CASE StoreWork(m)
    <3>1. mpc[m] = "waiting" /\ reply # None /\ gWork' = reply /\ reply' = None /\ UNCHANGED <<lpc, lans>>
      BY <2>1 DEF StoreWork
    <3>2. lpc # "half"
      BY <3>1, LockFacts DEF LockInv
    <3> QED
      BY <1>2, <3>1, <3>2 DEF HalfInv
  <2>2. CASE TakeFromPool(m)
    <3>1. /\ gLock = None /\ UNCHANGED <<lpc, lans, reply, halfDecoded>>
          /\ \/ UNCHANGED gWork
             \/ sjob # -1 /\ gWork' = JobWork(sjob)
      BY <2>2 DEF TakeFromPool
    <3>2. lpc # "half"
      BY <3>1, LockFacts DEF LockInv
    <3>3. CASE UNCHANGED gWork
      BY <1>1, <3>1, <3>3
    <3>4. CASE sjob # -1 /\ gWork' = JobWork(sjob)
      <4>1. sjob \in Nat
        BY <3>4 DEF TypeOK
      <4> QED
        BY <1>2, <1>4, <3>1, <3>2, <3>4, <4>1
    <3> QED
      BY <3>1, <3>3, <3>4
  <2>3. CASE ReadMode(m) \/ RequestWork(m) \/ TakeShared(m) \/ TakeStored(m) \/ Scan(m)
    BY <1>1, <2>3 DEF ReadMode, RequestWork, TakeShared, TakeStored, Scan
  <2> QED
    BY <1>5, <2>1, <2>2, <2>3 DEF Miner, MinerLocks
<1>6. CASE Workio
  <2>1. ASSUME NEW h \in Headers, DeliverWork(h)
        PROVE  HalfInv'
    <3>1. wans.tip \in Nat
      BY <2>1 DEF DeliverWork, AnswerInv, Answers
    <3>2. /\ UNCHANGED <<gWork, halfDecoded, lpc, lans>>
          /\ reply' = SoloWork(wans.tip) \/ reply' = reply
      BY <2>1 DEF DeliverWork
    <3> QED
      BY <1>1, <1>4, <3>1, <3>2
  <2>2. CASE SwitchedToStratum
    BY <1>1, <1>4, <2>2 DEF SwitchedToStratum
  <2>3. ASSUME NEW h \in Headers, AnswerArrives(h)
        PROVE  HalfInv'
    BY <1>1, <2>3 DEF AnswerArrives
  <2>4. CASE CallFails \/ DecodeTemplate \/ TemplateDecoded \/ DecodeGetwork
               \/ \E kind \in Kinds : ServerAnswers(kind)
    BY <1>1, <2>4 DEF CallFails, DecodeTemplate, TemplateDecoded, DecodeGetwork, ServerAnswers
  <2> QED
    BY <1>6, <2>1, <2>2, <2>3, <2>4 DEF Workio
<1>7. CASE LpThread
  <2>1. CASE LpPop \/ LpGivesUp \/ LpAges
    <3>1. /\ UNCHANGED <<gWork, halfDecoded, reply>> /\ lpc # "half"
          /\ lpc' \in {"poll", "pop", "giveup"}
      BY <2>1 DEF LpPop, LpGivesUp, LpAges
    <3> QED
      BY <1>3, <3>1
  <2>2. ASSUME NEW h \in Headers, LpFirstCall(h) \/ LpReturns(h)
        PROVE  HalfInv'
    <3>1. /\ UNCHANGED <<gWork, halfDecoded, reply>> /\ lpc # "half"
          /\ lpc' \in {"asked", "gone", "lock", "failed"}
      BY <2>2 DEF LpFirstCall, LpReturns
    <3> QED
      BY <1>3, <3>1
  <2>3. ASSUME NEW kind \in LpKinds, ServerAnswersPoll(kind)
        PROVE  HalfInv'
    <3>1. /\ UNCHANGED <<gWork, halfDecoded, reply>> /\ lpc = "asked" /\ lpc' = "answered"
      BY <2>3 DEF ServerAnswersPoll
    <3> QED
      BY <1>3, <3>1
  <2>4. CASE LpDecoded
    <3>1. UNCHANGED <<gWork, halfDecoded, reply>> /\ lpc = "decoded" /\ lpc' = "poll"
      BY <2>4 DEF LpDecoded
    <3> QED
      BY <1>3, <3>1
  <2>5. CASE LpDecodeHeader
    <3>1. /\ lpc = "lock" /\ lpc' = "half" /\ UNCHANGED reply
          /\ gWork' = [gWork EXCEPT !.header = lans.tip] \/ ~Decodes(lans)
          /\ lans \in Answers(LpKinds) /\ lans' = ByThisProtocol(lans)
      BY <2>5 DEF LpDecodeHeader, AnswerInv
    <3>2. gWork' = [gWork EXCEPT !.header = lans.tip] => gWork'.header = lans.tip
      BY DEF TypeOK, Work
    <3>3. lans'.tip = lans.tip /\ (lans'.kind = "work" => Decodes(lans))
      BY <3>1 DEF ByThisProtocol, Answers, Decodes
    <3> QED
      BY <3>1, <3>2, <3>3 DEF HalfInv
  <2>6. CASE LpDecodeTarget
    <3>1. /\ lpc = "half" /\ lpc' = "decoded" /\ UNCHANGED reply
          /\ \/ lans.kind = "work" /\ gWork' = [gWork EXCEPT !.target = lans.tip]
             \/ halfDecoded' = (halfDecoded \/ gWork.header # gWork.target) /\ UNCHANGED gWork
      BY <2>6 DEF LpDecodeTarget
    <3>2. gWork' = [gWork EXCEPT !.target = lans.tip] =>
            gWork'.target = lans.tip /\ gWork'.header = gWork.header
      BY DEF TypeOK, Work
    <3>3. CASE lans.kind = "work" /\ gWork' = [gWork EXCEPT !.target = lans.tip]
      BY <3>1, <3>2, <3>3 DEF HalfInv
    <3>4. CASE halfDecoded' = (halfDecoded \/ gWork.header # gWork.target) /\ UNCHANGED gWork
      <4>1. gWork'.header = gWork'.target \/ halfDecoded'
        BY <3>4
      <4> QED
        BY <3>1, <4>1 DEF HalfInv
    <3> QED
      BY <3>1, <3>3, <3>4
  <2> QED
    BY <1>7, <2>1, <2>2, <2>3, <2>4, <2>5, <2>6 DEF LpThread, LpLocks
<1>8. CASE StratumThread
  <2>1. CASE StratumMakesWork
    <3>1. gLock = None /\ spc = "lock" /\ gWork' = JobWork(sjob) /\ UNCHANGED <<lpc, lans, reply>>
      BY <2>1 DEF StratumMakesWork
    <3>2. JobWork(sjob).header = JobWork(sjob).target
      BY DEF JobWork
    <3>3. lpc # "half"
      BY <3>1, LockFacts DEF LockInv
    <3> QED
      BY <1>2, <3>1, <3>2, <3>3
  <2>2. CASE StratumStarts \/ StratumConnects \/ StratumResets \/ StratumTests \/ StratumReceives
    BY <1>1, <2>2 DEF StratumStarts, StratumConnects, StratumResets, StratumTests, StratumReceives
  <2> QED
    BY <1>8, <2>1, <2>2 DEF StratumThread, StratumLocks
<1>9. CASE BlockFound \/ TimePasses \/ UNCHANGED vars
  BY <1>1, <1>9 DEF BlockFound, TimePasses, vars
<1> QED
  BY <1>5, <1>6, <1>7, <1>8, <1>9 DEF Next, Running, Crashed

-----------------------------------------------------------------------------
(* No work of a block that is not there, and none older than g_work        *)

(* While a request is out nobody writes g_work, so the answer, of the best *)
(* block when it was made, is not older than it, unless the program has    *)
(* changed to Stratum.                                                     *)
TipInv ==
  /\ gWork.header <= chain /\ sjob <= chain
  /\ lpc \in {"answered", "lock", "half"} => lans.tip <= chain
  /\ reply # None => /\ reply.header <= chain
                     /\ have_stratum \/ gWork.header <= reply.header
  /\ wpc \in {"answered", "received", "decoded", "info"} =>
       wans.tip <= chain /\ (have_stratum \/ gWork.header <= wans.tip)
  /\ \A m \in Miners : mpc[m] = "pool" => have_stratum
  /\ spc # "pop" => have_stratum

PoolOnlyByStratum == \A m \in Miners : mpc'[m] = "pool" => mpc[m] = "pool" \/ have_stratum

LEMMA PoolStep ==
  ASSUME TypeOK, TipInv, [Next]_vars
  PROVE  PoolOnlyByStratum
<1> USE DEF flags, shared, minerVars, workioVars, lpVars, stratumVars, history, Goto
<1>0. mpc \in [Miners -> {"top", "solo", "pool", "waiting", "stored", "scan"}]
  BY DEF TypeOK
<1>1. ASSUME NEW m \in Miners, Miner(m)
      PROVE  PoolOnlyByStratum
  <2>1. \/ \E pc \in {"solo", "waiting", "stored", "scan", "top"} : mpc' = [mpc EXCEPT ![m] = pc]
        \/ have_stratum /\ mpc' = [mpc EXCEPT ![m] = "pool"]
        \/ mpc' = mpc
    <3>1. CASE ReadMode(m) \/ RequestWork(m) \/ TakeShared(m)
      BY <3>1 DEF ReadMode, RequestWork, TakeShared
    <3>2. CASE TakeFromPool(m)
      BY <3>2 DEF TakeFromPool
    <3>3. CASE StoreWork(m) \/ TakeStored(m) \/ Scan(m)
      BY <3>3 DEF StoreWork, TakeStored, Scan
    <3> QED
      BY <1>1, <3>1, <3>2, <3>3 DEF Miner, MinerLocks
  <2> QED
    BY <1>0, <2>1 DEF PoolOnlyByStratum
<1>2. CASE Workio
  BY <1>2 DEF Workio, ServerAnswers, AnswerArrives, DeliverWork, SwitchedToStratum, CallFails,
     DecodeTemplate, TemplateDecoded, DecodeGetwork, PoolOnlyByStratum
<1>3. CASE LpThread
  BY <1>3 DEF LpThread, LpLocks, LpPop, LpDecodeHeader, LpAges, LpDecodeTarget, LpDecoded, LpGivesUp,
     LpFirstCall, LpReturns, ServerAnswersPoll, PoolOnlyByStratum
<1>4. CASE StratumThread \/ BlockFound \/ TimePasses \/ UNCHANGED vars
  BY <1>4 DEF StratumThread, StratumLocks, StratumStarts, StratumConnects, StratumTests,
     StratumReceives, StratumResets, StratumMakesWork, BlockFound, TimePasses, vars,
     PoolOnlyByStratum
<1> QED
  BY <1>1, <1>2, <1>3, <1>4 DEF Next, Running, Crashed

LEMMA TipStep ==
  ASSUME TypeOK, AnswerInv, LockInv, RequestInv, TipInv, [Next]_vars
  PROVE  TipInv' /\ (gWork'.header < gWork.header => lpc = "lock" \/ have_stratum)
<1> USE DEF flags, shared, minerVars, workioVars, lpVars, stratumVars, history
<1> DEFINE Goal == TipInv' /\ (gWork'.header < gWork.header => lpc = "lock" \/ have_stratum)
<1>0. /\ chain \in Nat /\ chain' \in Nat /\ gWork.header \in Int /\ gWork'.header \in Int
      /\ sjob \in Int /\ sjob' \in Int
      /\ wpc \in {"answered", "received", "decoded", "info"} => wans.tip \in Nat
      /\ lpc \in {"answered", "lock", "half"} => lans.tip \in Nat
      /\ reply # None => reply.header \in Int
  <2>1. TypeOK'
    BY TypeStep
  <2>2. chain' \in Nat /\ gWork'.header \in Int /\ sjob' \in Int
    BY <2>1 DEF TypeOK, Work
  <2>3. /\ chain \in Nat /\ gWork.header \in Int /\ sjob \in Int
        /\ reply # None => reply.header \in Int
    BY DEF TypeOK, Work
  <2>4. /\ wpc \in {"answered", "received", "decoded", "info"} => wans.tip \in Nat
        /\ lpc \in {"answered", "lock", "half"} => lans.tip \in Nat
    BY DEF AnswerInv, Answers
  <2> QED
    BY <2>2, <2>3, <2>4
<1>1. have_stratum => have_stratum'
  BY StratumStays
<1>2. (\A m \in Miners : mpc'[m] = "pool" => have_stratum')
  BY <1>1, PoolStep DEF TipInv, PoolOnlyByStratum
<1>3. ASSUME UNCHANGED <<chain, gWork, lpc, lans, sjob, spc>>,
             reply' = reply \/ reply' = None,
             UNCHANGED <<wpc, wans>> \/ wpc' \in {"pop", "ask"}
                \/ (UNCHANGED wans /\ wpc \in {"answered", "received", "decoded"})
      PROVE  Goal
  BY <1>0, <1>1, <1>2, <1>3 DEF TipInv
<1>4. ASSUME UNCHANGED <<chain, gWork, wpc, wans, reply, sjob, spc>>,
             lpc' \in {"answered", "lock", "half"} => lans'.tip <= chain
      PROVE  Goal
  BY <1>0, <1>1, <1>2, <1>4 DEF TipInv
<1>5. ASSUME UNCHANGED <<chain, wpc, wans, reply, sjob>>, gLock \in {None, Lp},
             gWork'.header <= chain,
             gWork'.header = gWork.header \/ lpc = "lock" \/ have_stratum,
             lpc' \in {"answered", "lock", "half"} => lpc \in {"answered", "lock", "half"} /\ lans'.tip = lans.tip,
             spc' # "pop" => have_stratum
      PROVE  Goal
  BY <1>0, <1>1, <1>2, <1>5, NoRequest DEF TipInv
<1>6. ASSUME NEW m \in Miners, Miner(m)
      PROVE  Goal
  <2>1. CASE StoreWork(m)
    <3>1. /\ reply # None /\ gWork' = reply /\ reply' = None
          /\ UNCHANGED <<chain, lpc, lans, sjob, spc, wpc>>
      BY <2>1 DEF StoreWork
    <3>2. wpc = "pop"
      BY <3>1 DEF RequestInv
    <3> QED
      BY <1>0, <1>1, <1>2, <3>1, <3>2 DEF TipInv
  <2>2. CASE TakeFromPool(m)
    <3>1. /\ gLock = None /\ mpc[m] = "pool"
          /\ UNCHANGED <<chain, wpc, wans, reply, sjob, spc, lpc, lans>>
          /\ gWork' = gWork \/ gWork' = JobWork(sjob)
      BY <2>2 DEF TakeFromPool
    <3>2. have_stratum
      BY <3>1 DEF TipInv
    <3>3. gWork'.header <= chain
      BY <3>1 DEF TipInv, JobWork
    <3> QED
      BY <1>5, <3>1, <3>2, <3>3
  <2>3. CASE ReadMode(m) \/ TakeShared(m) \/ TakeStored(m) \/ Scan(m)
    BY <1>3, <2>3 DEF ReadMode, TakeShared, TakeStored, Scan
  <2>4. CASE RequestWork(m)
    BY <1>3, <2>4 DEF RequestWork
  <2> QED
    BY <1>6, <2>1, <2>2, <2>3, <2>4 DEF Miner, MinerLocks
<1>7. CASE Workio
  <2>1. ASSUME NEW kind \in Kinds, ServerAnswers(kind)
        PROVE  Goal
    <3>1. /\ wpc = "ask" /\ wans'.tip = chain
          /\ UNCHANGED <<chain, gWork, reply, lpc, lans, sjob, spc, have_stratum>>
      BY <2>1 DEF ServerAnswers, Answer
    <3> QED
      BY <1>0, <1>1, <1>2, <3>1 DEF TipInv
  <2>2. ASSUME NEW h \in Headers, DeliverWork(h)
        PROVE  Goal
    <3>1. /\ wpc = "info" /\ wpc' \in {"pop", "ask"}
          /\ UNCHANGED <<chain, gWork, lpc, lans, sjob, spc>>
          /\ reply' = SoloWork(wans.tip) \/ reply' = reply
      BY <2>2 DEF DeliverWork
    <3>2. SoloWork(wans.tip).header = wans.tip
      BY DEF SoloWork
    <3> QED
      BY <1>0, <1>1, <1>2, <3>1, <3>2 DEF TipInv
  <2>3. CASE SwitchedToStratum
    <3>1. /\ have_stratum /\ wpc' = "pop" /\ reply' = NoWork
          /\ UNCHANGED <<chain, gWork, lpc, lans, sjob, spc, have_stratum>>
      BY <2>3 DEF SwitchedToStratum
    <3>2. NoWork.header = -1
      BY DEF NoWork
    <3> QED
      BY <1>0, <1>1, <1>2, <3>1, <3>2 DEF TipInv
  <2>4. ASSUME NEW h \in Headers, AnswerArrives(h)
        PROVE  Goal
    BY <1>3, <2>4 DEF AnswerArrives
  <2>5. CASE CallFails \/ DecodeTemplate \/ TemplateDecoded \/ DecodeGetwork
    BY <1>3, <2>5 DEF CallFails, DecodeTemplate, TemplateDecoded, DecodeGetwork
  <2> QED
    BY <1>7, <2>1, <2>2, <2>3, <2>4, <2>5 DEF Workio
<1>8. CASE LpThread
  <2>1. CASE LpPop \/ LpGivesUp \/ LpAges \/ LpDecoded
    <3>1. /\ UNCHANGED <<chain, gWork, wpc, wans, reply, sjob, spc>>
          /\ lpc' \in {"poll", "pop", "giveup"}
      BY <2>1 DEF LpPop, LpGivesUp, LpAges, LpDecoded
    <3> QED
      BY <1>4, <3>1
  <2>2. ASSUME NEW h \in Headers, LpFirstCall(h)
        PROVE  Goal
    <3>1. UNCHANGED <<chain, gWork, wpc, wans, reply, sjob, spc>> /\ lpc' = "asked"
      BY <2>2 DEF LpFirstCall
    <3> QED
      BY <1>4, <3>1
  <2>3. ASSUME NEW kind \in LpKinds, ServerAnswersPoll(kind)
        PROVE  Goal
    <3>1. /\ UNCHANGED <<chain, gWork, wpc, wans, reply, sjob, spc>> /\ lpc = "asked"
          /\ lans' = [lans EXCEPT !.kind = kind, !.tip = chain]
      BY <2>3 DEF ServerAnswersPoll
    <3>2. lans'.tip = chain
      BY <3>1 DEF AnswerInv, Answers
    <3> QED
      BY <1>0, <1>4, <3>1, <3>2
  <2>4. ASSUME NEW h \in Headers, LpReturns(h)
        PROVE  Goal
    <3>1. /\ UNCHANGED <<chain, gWork, wpc, wans, reply, sjob, spc>> /\ lpc = "answered"
          /\ lpc' = "gone" \/ UNCHANGED lans
      BY <2>4 DEF LpReturns
    <3> QED
      BY <1>4, <3>1 DEF TipInv
  <2>5. CASE LpDecodeHeader
    <3>1. /\ UNCHANGED <<chain, wpc, wans, reply, sjob, spc>> /\ gLock = None /\ lpc = "lock"
          /\ lans \in Answers(LpKinds) /\ lans' = ByThisProtocol(lans)
          /\ gWork' = [gWork EXCEPT !.header = lans.tip] \/ gWork' = gWork
      BY <2>5 DEF LpDecodeHeader, AnswerInv
    <3>4. lans'.tip = lans.tip
      BY <3>1 DEF ByThisProtocol, Answers
    <3>2. gWork'.header = lans.tip \/ gWork' = gWork
      BY <3>1 DEF TypeOK, Work
    <3>3. gWork'.header <= chain
      BY <3>1, <3>2 DEF TipInv
    <3> QED
      BY <1>5, <3>1, <3>3, <3>4 DEF TipInv
  <2>6. CASE LpDecodeTarget
    <3>1. /\ UNCHANGED <<chain, wpc, wans, reply, sjob, spc>> /\ lpc = "half" /\ lpc' = "decoded"
          /\ gWork' = [gWork EXCEPT !.target = lans.tip] \/ gWork' = gWork
      BY <2>6 DEF LpDecodeTarget
    <3>2. gWork'.header = gWork.header
      BY <3>1 DEF TypeOK, Work
    <3>3. gLock = Lp
      BY <3>1 DEF LockInv
    <3> QED
      BY <1>5, <3>1, <3>2, <3>3 DEF TipInv
  <2> QED
    BY <1>8, <2>1, <2>2, <2>3, <2>4, <2>5, <2>6 DEF LpThread, LpLocks
<1>9. CASE StratumThread
  <2>1. CASE StratumMakesWork
    <3>1. /\ UNCHANGED <<chain, wpc, wans, reply, sjob, lpc, lans>> /\ gLock = None
          /\ spc = "lock" /\ gWork' = JobWork(sjob)
      BY <2>1 DEF StratumMakesWork
    <3>2. have_stratum /\ gWork'.header <= chain
      BY <3>1 DEF TipInv, JobWork
    <3> QED
      BY <1>5, <3>1, <3>2
  <2>2. CASE StratumStarts \/ StratumConnects \/ StratumResets \/ StratumTests \/ StratumReceives
    <3>1. /\ UNCHANGED <<chain, gWork, wpc, wans, reply, lpc, lans, have_stratum>>
          /\ sjob' = sjob \/ sjob' = chain
          /\ spc # "pop" \/ have_stratum
      BY <2>2 DEF StratumStarts, StratumConnects, StratumResets, StratumTests, StratumReceives
    <3> QED
      BY <1>0, <1>2, <3>1 DEF TipInv
  <2> QED
    BY <1>9, <2>1, <2>2 DEF StratumThread, StratumLocks
<1>10. CASE BlockFound
  <2>1. chain' = chain + 1 /\ UNCHANGED <<gWork, wpc, wans, reply, sjob, spc, lpc, lans, have_stratum>>
    BY <1>10 DEF BlockFound
  <2> QED
    BY <1>0, <1>2, <2>1 DEF TipInv
<1>11. CASE TimePasses \/ UNCHANGED vars
  BY <1>3, <1>11 DEF TimePasses, vars
<1> QED
  BY <1>6, <1>7, <1>8, <1>9, <1>10, <1>11 DEF Next, Running, Crashed

-----------------------------------------------------------------------------
(* The end of the process                                                  *)

(* Once the miners are stopped for Stratum and solo code has written       *)
(* nothing since, there is no work to take until the work of a job is      *)
(* made, and a job once come stays.                                        *)
JobInv ==
  /\ Stopped /\ ~lateWrite /\ age # "zero" => gWork.job # 0 /\ sjob # -1
  /\ spc = "lock" => sjob # -1

LEMMA JobStep ==
  ASSUME TypeOK, JobInv, [Next]_vars
  PROVE  JobInv'
<1> USE DEF flags, shared, minerVars, workioVars, lpVars, stratumVars, history
<1>1. ASSUME UNCHANGED <<age, gWork, sjob, spc, lateWrite>>
      PROVE  JobInv'
  BY <1>1 DEF JobInv, Stopped
<1>2. ASSUME Late, UNCHANGED <<sjob, spc>>
      PROVE  JobInv'
  BY <1>2 DEF JobInv, Stopped, Late
<1>3. sjob # -1 => JobWork(sjob).job # 0
  BY DEF TypeOK, JobWork
<1>4. ASSUME NEW m \in Miners, Miner(m)
      PROVE  JobInv'
  <2>1. CASE StoreWork(m) \/ TakeStored(m)
    BY <1>2, <2>1 DEF StoreWork, TakeStored
  <2>2. CASE TakeFromPool(m)
    <3>1. /\ UNCHANGED <<age, sjob, spc, lateWrite>>
          /\ \/ sjob # -1 /\ gWork' = JobWork(sjob)
             \/ UNCHANGED gWork
      BY <2>2 DEF TakeFromPool
    <3> QED
      BY <1>3, <3>1 DEF JobInv, Stopped
  <2>3. CASE ReadMode(m) \/ RequestWork(m) \/ TakeShared(m) \/ Scan(m)
    BY <1>1, <2>3 DEF ReadMode, RequestWork, TakeShared, Scan
  <2> QED
    BY <1>4, <2>1, <2>2, <2>3 DEF Miner, MinerLocks
<1>5. CASE Workio
  BY <1>1, <1>5 DEF Workio, ServerAnswers, AnswerArrives, DeliverWork, SwitchedToStratum, CallFails,
     DecodeTemplate, TemplateDecoded, DecodeGetwork
<1>6. CASE LpThread
  <2>1. CASE LpDecodeHeader \/ LpDecodeTarget \/ LpDecoded \/ LpAges
    BY <1>2, <2>1 DEF LpDecodeHeader, LpDecodeTarget, LpDecoded, LpAges
  <2>2. ASSUME NEW h \in Headers, LpFirstCall(h) \/ LpReturns(h)
        PROVE  JobInv'
    BY <1>1, <2>2 DEF LpFirstCall, LpReturns
  <2>3. CASE LpPop \/ LpGivesUp \/ \E kind \in LpKinds : ServerAnswersPoll(kind)
    BY <1>1, <2>3 DEF LpPop, LpGivesUp, ServerAnswersPoll
  <2> QED
    BY <1>6, <2>1, <2>2, <2>3 DEF LpThread, LpLocks
<1>7. CASE StratumThread
  <2>1. CASE StratumStarts \/ StratumConnects \/ StratumResets
    BY <2>1 DEF StratumStarts, StratumConnects, StratumResets, JobInv, Stopped
  <2>2. CASE StratumTests
    BY <2>2 DEF StratumTests, JobInv, Stopped
  <2>3. CASE StratumMakesWork
    BY <1>3, <2>3 DEF StratumMakesWork, JobInv, Stopped
  <2>4. CASE StratumReceives
    <3>1. chain # -1
      BY DEF TypeOK
    <3> QED
      BY <2>4, <3>1 DEF StratumReceives, JobInv, Stopped
  <2> QED
    BY <1>7, <2>1, <2>2, <2>3, <2>4 DEF StratumThread, StratumLocks
<1>8. CASE BlockFound \/ UNCHANGED vars
  BY <1>1, <1>8 DEF BlockFound, vars
<1>9. CASE TimePasses
  BY <1>9 DEF TimePasses, JobInv, Stopped
<1> QED
  BY <1>4, <1>5, <1>6, <1>7, <1>8, <1>9 DEF Next, Running, Crashed

(* lp_id is not freed twice: who decodes a template, decodes alone.        *)
LEMMA FreedOnce ==
  ASSUME LockInv, RequestInv, IdInv,
         wpc = "received" \/ lpc = "half"
  PROVE  lpId # "freed"
<1>1. SUFFICES ASSUME lpId = "freed" PROVE FALSE
  OBVIOUS
<1>2. lpc \in {"half", "decoded"} /\ wpc # "pop"
  BY <1>1 DEF IdInv
<1>3. gLock = Lp
  BY <1>2 DEF LockInv
<1> QED
  BY <1>2, <1>3, NoRequest

LEMMA CrashStep ==
  ASSUME TypeOK, UrlInv, IdInv, LockInv, RequestInv, TipInv, JobInv, CrashOnlyInSwitch, [Next]_vars
  PROVE  CrashOnlyInSwitch'
<1> USE DEF flags, shared, minerVars, workioVars, lpVars, stratumVars, history
<1>1. ASSUME ~crashed, UNCHANGED crashed
      PROVE  CrashOnlyInSwitch'
  BY <1>1 DEF CrashOnlyInSwitch
<1>2. ASSUME crashed' => rpcFreed'
      PROVE  CrashOnlyInSwitch'
  BY <1>2 DEF CrashOnlyInSwitch
<1>3. ASSUME ~crashed, NEW m \in Miners, Miner(m)
      PROVE  CrashOnlyInSwitch'
  <2>1. CASE TakeFromPool(m)
    <3>1. CASE UNCHANGED crashed
      BY <1>1, <1>3, <3>1
    <3>2. CASE ~UNCHANGED crashed
      <4>1. /\ mpc[m] = "pool" /\ age # "zero" /\ sjob = -1
            /\ UNCHANGED <<have_stratum, spc, lateWrite>>
        BY <2>1, <3>2 DEF TakeFromPool
      <4>2. have_stratum /\ (~Stopped \/ lateWrite)
        BY <4>1 DEF TipInv, JobInv
      <4> QED
        BY <4>1, <4>2 DEF CrashOnlyInSwitch, Stopped
    <3> QED
      BY <3>1, <3>2
  <2>2. CASE ReadMode(m) \/ RequestWork(m) \/ TakeShared(m) \/ StoreWork(m) \/ TakeStored(m)
               \/ Scan(m)
    BY <1>1, <1>3, <2>2 DEF ReadMode, RequestWork, TakeShared, StoreWork, TakeStored, Scan
  <2> QED
    BY <1>3, <2>1, <2>2 DEF Miner, MinerLocks
<1>4. CASE ~crashed /\ Workio
  <2>1. CASE DecodeTemplate
    <3>1. wpc = "received" /\ FreeLpId
      BY <2>1 DEF DecodeTemplate
    <3>2. ~crashed'
      BY <1>4, <3>1, FreedOnce DEF FreeLpId, Undefined
    <3> QED
      BY <1>2, <3>2
  <2>2. CASE \/ \E kind \in Kinds : ServerAnswers(kind)
             \/ \E h \in Headers : DeliverWork(h)
    <3>1. (crashed' => crashed \/ rpcFreed) /\ UNCHANGED rpcFreed
      BY <2>2 DEF ServerAnswers, DeliverWork, UseRpcUrl, Undefined
    <3> QED
      BY <1>2, <1>4, <3>1
  <2>3. CASE SwitchedToStratum \/ CallFails \/ TemplateDecoded \/ DecodeGetwork
               \/ \E h \in Headers : AnswerArrives(h)
    BY <1>1, <1>4, <2>3 DEF SwitchedToStratum, CallFails, TemplateDecoded, DecodeGetwork,
       AnswerArrives
  <2> QED
    BY <1>4, <2>1, <2>2, <2>3 DEF Workio
<1>5. CASE ~crashed /\ LpThread
  <2>1. CASE LpDecodeTarget
    <3>1. lpc = "half" /\ (FreeLpId \/ UNCHANGED crashed)
      BY <2>1 DEF LpDecodeTarget
    <3>2. ~crashed'
      BY <1>5, <3>1, FreedOnce DEF FreeLpId, Undefined
    <3> QED
      BY <1>2, <3>2
  <2>2. CASE LpPop \/ \E kind \in LpKinds : ServerAnswersPoll(kind)
    <3>1. (crashed' => crashed \/ rpcFreed) /\ UNCHANGED rpcFreed
      BY <2>2 DEF LpPop, ServerAnswersPoll, UseRpcUrl, Undefined
    <3> QED
      BY <1>2, <1>5, <3>1
  <2>3. CASE LpGivesUp \/ \E h \in Headers : LpReturns(h)
    <3>1. FreeUrl \/ UNCHANGED crashed
      BY <2>3 DEF LpGivesUp, LpReturns
    <3>2. crashed' => crashed \/ rpcFreed'
      BY <3>1 DEF FreeUrl, Undefined
    <3> QED
      BY <1>2, <1>5, <3>2
  <2>4. ASSUME NEW h \in Headers, LpFirstCall(h)
        PROVE  CrashOnlyInSwitch'
    <3>1. /\ lpc = "poll" /\ UNCHANGED <<lpId, wpc, rpcFreed>>
          /\ crashed' => rpcFreed \/ (have_gbt /\ lpId # "set")
      BY <2>4 DEF LpFirstCall, Undefined
    <3>2. have_gbt /\ lpId # "set" => lpId = "freed" /\ wpc = "decoded"
      BY <3>1 DEF UrlInv, PollerHasItsUrl, IdInv, TypeOK
    <3> QED
      BY <3>1, <3>2 DEF CrashOnlyInSwitch
  <2>5. CASE LpLocks \/ LpDecoded
    BY <1>1, <1>5, <2>5 DEF LpLocks, LpDecodeHeader, LpAges, LpDecoded
  <2> QED
    BY <1>5, <2>1, <2>2, <2>3, <2>4, <2>5 DEF LpThread
<1>6. CASE ~crashed /\ StratumThread
  <2>1. CASE StratumTests
    <3>1. /\ spc = "test" /\ spc' \in {"lock", "receive"} /\ UNCHANGED <<have_stratum, lateWrite>>
          /\ crashed' => age # "zero" /\ gWork.job = 0
      BY <2>1 DEF StratumTests
    <3>2. have_stratum /\ Stopped
      BY <3>1 DEF TipInv, Stopped
    <3>3. crashed' => lateWrite
      BY <3>1, <3>2 DEF JobInv
    <3> QED
      BY <3>1, <3>2, <3>3 DEF CrashOnlyInSwitch
  <2>2. CASE StratumStarts \/ StratumLocks \/ StratumConnects \/ StratumReceives
    BY <1>1, <1>6, <2>2 DEF StratumStarts, StratumLocks, StratumResets, StratumMakesWork,
       StratumConnects, StratumReceives
  <2> QED
    BY <1>6, <2>1, <2>2 DEF StratumThread
<1>7. CASE ~crashed /\ (BlockFound \/ TimePasses)
  BY <1>1, <1>7 DEF BlockFound, TimePasses
<1>8. CASE UNCHANGED vars
  BY <1>8 DEF vars, CrashOnlyInSwitch, Stopped
<1> QED
  BY <1>3, <1>4, <1>5, <1>6, <1>7, <1>8 DEF Next, Running, Crashed

-----------------------------------------------------------------------------
(* The theorems                                                            *)

IInv ==
  /\ TypeOK /\ AnswerInv
  /\ LockInv /\ RequestInv
  /\ UrlInv /\ IdInv
  /\ HalfInv /\ TipInv /\ JobInv
  /\ CrashOnlyInSwitch

LEMMA InitIInv == Init => IInv
<1> SUFFICES ASSUME Init PROVE IInv
  OBVIOUS
<1>1. TypeOK /\ AnswerInv
  <2>1. NoWork \in Work /\ <<>> \in Seq(Urls)
    BY DEF NoWork, Work
  <2>2. None \in CallAnswer(Kinds) /\ None \in CallAnswer(LpKinds)
    BY DEF CallAnswer
  <2>3. 0 \in 0..MaxFaults
    BY LongPollAssumption
  <2> QED
    BY <2>1, <2>2, <2>3 DEF Init, TypeOK, AnswerInv, Urls
<1>2. LockInv /\ RequestInv
  BY LockFacts DEF Init, LockInv, RequestInv
<1>3. HalfInv
  BY DEF Init, HalfInv, NoWork
<1>4. TipInv
  BY DEF Init, TipInv, NoWork
<1>5. UrlInv /\ IdInv
  BY UrlInit DEF Init, IdInv
<1>6. JobInv /\ CrashOnlyInSwitch
  BY DEF Init, JobInv, CrashOnlyInSwitch, Stopped
<1> QED
  BY <1>1, <1>2, <1>3, <1>4, <1>5, <1>6 DEF IInv

THEOREM Invariance == Safety => []IInv
<1>1. IInv /\ [Next]_vars => IInv'
  BY TypeStep, LockStep, RequestStep, UrlStep, IdStep, HalfStep, TipStep, JobStep, CrashStep
    DEF IInv
<1> QED
  BY <1>1, InitIInv, PTL DEF Safety

(* The variables hold what their types in the code can hold.               *)
THEOREM TypeCorrect == Safety => []TypeOK
<1>1. IInv => TypeOK
  BY DEF IInv
<1> QED
  BY <1>1, Invariance, PTL

(* Whoever takes g_work_lock finds header and target of one answer, unless *)
(* a long-poll answer could not be decoded to its end (longpoll_thread,    *)
(* miner_thread, get_work).                                                *)
THEOREM WholeSafe == Safety => []WholeWork
<1>1. IInv => WholeWork
  BY LockFacts DEF IInv, HalfInv, LockInv, WholeWork
<1> QED
  BY <1>1, Invariance, PTL

(* A job that is not there is used only in the change to Stratum, lp_id    *)
(* after its release only by the long-poll thread while the workio thread  *)
(* replaces it, and memory released otherwise only once rpc_url is         *)
(* (stratum_thread, miner_thread, longpoll_thread, gbt_work_decode).       *)
THEOREM CrashSafe == Safety => []CrashOnlyInSwitch
<1>1. IInv => CrashOnlyInSwitch
  BY DEF IInv
<1> QED
  BY <1>1, Invariance, PTL

(* There is a longpollid when a long poll by getblocktemplate needs it, or *)
(* the workio thread is replacing it (std_longpoll_rpc_call).              *)
THEOREM LpIdSafe == Safety => []LpIdKnown
<1>1. IInv => LpIdKnown
  BY DEF IInv, TypeOK, UrlInv, PollerHasItsUrl, IdInv, LpIdKnown
<1> QED
  BY <1>1, Invariance, PTL

(* Only the long-poll thread takes solo work back to an older block        *)
(* (get_work, longpoll_thread).                                            *)
THEOREM BackSafe == Safety => BackOnlyByLatePoll
<1>1. IInv /\ [Next]_vars => [gWork'.header < gWork.header => lpc = "lock" \/ have_stratum]_vars
  BY TipStep DEF IInv
<1> QED
  BY <1>1, Invariance, PTL DEF Safety, BackOnlyByLatePoll
=============================================================================
