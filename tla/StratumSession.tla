---------------------------- MODULE StratumSession ----------------------------
(***************************************************************************)
(* The connection with a pool: how stratum_thread opens it, subscribes and *)
(* authorizes, in which order it reads the pool's lines, and what becomes  *)
(* of the answers to the shares that workio_thread writes to the same      *)
(* socket.  StratumJob has what the jobs in these lines do to the work.    *)
(*                                                                         *)
(* A line of the pool is either an answer, with the id of the request and  *)
(* a verdict, or a method.  The program sends id 1 to subscribe, 2 to      *)
(* authorize, 3 for extranonces and 4 for every share; a method counts as  *)
(* "handled" or "unhandled" by what stratum_handle_method returns of it.   *)
(* Lines are in the socket (wire) until recv() moves some of them to       *)
(* sctx->sockbuf (buf).  The pool is external: it answers the requests of  *)
(* a connection in their order, or not at all, and sends methods when it   *)
(* likes.  JSON-RPC 2 (cryptonight) is left out.                           *)
(***************************************************************************)
EXTENDS Integers, Sequences, FiniteSets

CONSTANTS
  Urls,          \* addresses of pools
  Home,          \* the one of the command line
  Dead,          \* the ones where nobody ever listens
  Extranonce,    \* opt_extranonce
  Redirect,      \* opt_redirect
  Retries,       \* opt_retries; -1: without limit
  None,          \* no share
  MaxLines,      \* bound: methods that the pool sends
  MaxDrops,      \* bound: connections lost, requests refused or not answered
  MaxShares,     \* bound: shares found; each has its number for difficulty
  MaxSetUrl,     \* bound: seturl commands
  MaxEvents      \* bound: all of these together

ASSUME SessionAssumption ==
  /\ Home \in Urls /\ Dead \subseteq Urls
  /\ Extranonce \in BOOLEAN /\ Redirect \in BOOLEAN
  /\ Retries \in Nat \cup {-1}
  /\ MaxLines \in Nat /\ MaxDrops \in Nat /\ MaxShares \in Nat /\ MaxSetUrl \in Nat
  /\ MaxEvents \in Nat
  /\ None \notin 1..MaxShares

VARIABLES
  \* struct stratum_ctx
  url,         \* sctx->url
  link,        \* sctx->curl is set
  buf,         \* sctx->sockbuf, as lines
  sharediff,   \* sctx->sharediff
  \* the connection and the pool at its other end
  wire,        \* lines sent by the pool and not received
  peer,        \* the pool's end: "none", "open" or "closed"
  owed,        \* requests it has yet to answer
  stage,       \* what it has granted: "none", "subscribed" or "authorized"
  \* stratum_thread
  pc,          \* where it is; "ended", "crashed": the process is over
  failures,    \* failed handshakes
  \* workio_thread
  share,       \* the difficulty of the share it is sending, or None
  wpc,         \* where it is
  wfailures,   \* failures to send it
  tally,       \* accepted_count and rejected_count
  \* the API thread
  rpcUrl,      \* rpc_url
  needReset,   \* stratum_need_reset
  apc,         \* where it is in seturl
  asked,       \* the address given to it
  \* history
  given,       \* verdicts on shares that the pool has sent
  early,       \* a method or a share came before its turn on this connection
  disturbed,   \* an answer to a share was lost, or a share sent too early
  overlapped,  \* a share was sent before the answer to the one before
  mislabelled, \* a share was reported with the difficulty of another one
  \* bounds
  lines, drops, found, seturls

poolVars == <<wire, peer, owed, stage, early>>
connVars == <<link, buf, poolVars>>
threadVars == <<pc, failures>>
shareVars == <<share, wpc, wfailures, sharediff, overlapped>>
countVars == <<tally, mislabelled>>
apiVars == <<rpcUrl, needReset, apc, asked, seturls>>
vars == <<url, connVars, threadVars, shareVars, countVars, apiVars,
          given, disturbed, lines, drops, found>>

Init ==
  /\ url = Home /\ link = FALSE /\ buf = <<>> /\ sharediff = 0
  /\ wire = <<>> /\ peer = "none" /\ owed = <<>> /\ stage = "none"
  /\ pc = "loop" /\ failures = 0
  /\ share = None /\ wpc = "pop" /\ wfailures = 0
  /\ tally = [yes |-> 0, no |-> 0]
  /\ rpcUrl = Home /\ needReset = FALSE /\ apc = "idle" /\ asked = Home
  /\ given = [yes |-> 0, no |-> 0]
  /\ early = FALSE /\ disturbed = FALSE
  /\ overlapped = FALSE /\ mislabelled = FALSE
  /\ lines = 0 /\ drops = 0 /\ found = 0 /\ seturls = 0

Request(id, diff) == [id |-> id, diff |-> diff]
Answer(req, verdict) ==
  [kind |-> "answer", id |-> req.id, diff |-> req.diff, verdict |-> verdict]
Method(kind) == [kind |-> kind]
RedirectTo(u) == [kind |-> "redirect", url |-> u]

More == lines + drops + found + seturls < MaxEvents
Fault == More /\ drops < MaxDrops /\ drops' = drops + 1
Over == pc \in {"ended", "crashed"}
(* The handshake is done and the connection is used.                       *)
Established == link /\ pc \in {"loop", "recv"}

GivesUp(n) == Retries >= 0 /\ n + 1 > Retries
Count(n) == IF Retries >= 0 THEN n + 1 ELSE n

-----------------------------------------------------------------------------
(* The socket                                                              *)

ShareAnswers(s, verdict) ==
  Cardinality({i \in DOMAIN s : s[i].kind = "answer" /\ s[i].id = 4 /\ s[i].verdict = verdict})
InFlight(verdict) == ShareAnswers(buf, verdict) + ShareAnswers(wire, verdict)

(* stratum_disconnect: the socket is closed and sockbuf emptied.           *)
Close ==
  /\ link' = FALSE /\ buf' = <<>>
  /\ wire' = <<>> /\ peer' = "none" /\ owed' = <<>> /\ stage' = "none"
  /\ early' = FALSE
  /\ disturbed' = (disturbed \/ InFlight("yes") + InFlight("no") > 0)

(* socket_full: something can be read, be it the end of the connection.    *)
Readable == wire # <<>> \/ peer = "closed"

(* stratum_recv_line: the next line, with sockbuf and the socket after it. *)
(* Only when sockbuf holds no line is the socket read, and then some or    *)
(* all of what it holds.                                                   *)
Readings ==
  IF buf # <<>>
  THEN {[line |-> Head(buf), buf |-> Tail(buf), wire |-> wire]}
  ELSE {[line |-> Head(wire), buf |-> SubSeq(wire, 2, n),
         wire |-> SubSeq(wire, n + 1, Len(wire))] : n \in 1..Len(wire)}

(* Mutant: the socket is waited for without a limit.                       *)
WaitsForEver == FALSE

(* No line comes in the time given: the pool owes none, or is too slow.    *)
TimesOut == peer = "open" /\ IF owed = <<>> THEN UNCHANGED drops ELSE Fault
(* stratum_recv_line fails: the connection is closed at either end, or a   *)
(* timeout.                                                                *)
NoLine == /\ buf = <<>> /\ wire = <<>>
          /\ TimesOut \/ (peer # "open" /\ UNCHANGED drops)

Send(req) == owed' = IF peer = "open" THEN Append(owed, req) ELSE owed
(* stratum_send_line fails.                                                *)
SendFails == IF peer = "open" THEN Fault ELSE UNCHANGED drops

(* The line is taken and the connection stays.                             *)
Taken(r) == /\ buf' = r.buf /\ wire' = r.wire
            /\ UNCHANGED <<url, link, peer, owed, stage, early, disturbed>>

(* stratum_handle_method: whether it returns true.                         *)
Handles(line) == line.kind \in {"handled", "redirect"}

(* What it does; stratum_reconnect closes the connection.                  *)
HandleMethod(r) ==
  IF r.line.kind = "redirect" /\ Redirect
  THEN Close /\ url' = r.line.url
  ELSE Taken(r)

-----------------------------------------------------------------------------
(* stratum_thread                                                          *)

(* stratum_need_reset is seen only here, at the top of the outer loop.     *)
Reset ==
  /\ pc = "loop" /\ needReset
  /\ needReset' = FALSE
  /\ Close
  /\ pc' = "reset"
  /\ UNCHANGED <<url, failures, shareVars, countVars, rpcUrl, apc, asked,
                 seturls, given, lines, drops, found>>

(* rpc_url is compared and copied; the API thread may just have freed it.  *)
ResetUrl ==
  /\ pc = "reset"
  /\ \/ url' = rpcUrl /\ pc' = "connect" /\ failures' = 0
     \/ apc = "freed" /\ pc' = "crashed" /\ UNCHANGED <<url, failures>>
  /\ UNCHANGED <<connVars, shareVars, countVars, apiVars, given,
                 disturbed, lines, drops, found>>

Top ==
  /\ pc = "loop" /\ ~needReset
  /\ failures' = 0
  /\ pc' = IF link THEN "recv" ELSE "connect"
  /\ UNCHANGED <<url, connVars, shareVars, countVars, apiVars, given,
                 disturbed, lines, drops, found>>

(* Mutant: the flag is cleared when the connection is there.               *)
ConnectAndClear ==
  /\ pc = "connect" /\ url \notin Dead
  /\ link' = TRUE /\ peer' = "open" /\ pc' = "subscribe"
  /\ needReset' = FALSE
  /\ UNCHANGED <<url, buf, wire, owed, stage, early, failures, shareVars, countVars,
                 rpcUrl, apc, asked, seturls, given, disturbed, lines, drops, found>>

Connect ==
  /\ pc = "connect" /\ url \notin Dead
  /\ link' = TRUE /\ peer' = "open" /\ pc' = "subscribe"
  /\ UNCHANGED <<url, buf, wire, owed, stage, early, failures, shareVars,
                 countVars, apiVars, given, disturbed, lines, drops, found>>

(* stratum_connect, stratum_subscribe or stratum_authorize fails: after    *)
(* opt_retries failures the program ends, else the inner loop goes on.     *)
Fails ==
  /\ Close
  /\ failures' = Count(failures)
  /\ pc' = IF GivesUp(failures) THEN "ended" ELSE "connect"
  /\ UNCHANGED <<url, shareVars, countVars, apiVars, given, lines, found>>

NotConnected ==
  /\ pc = "connect"
  /\ IF url \in Dead THEN UNCHANGED drops ELSE Fault
  /\ Fails

(* stratum_subscribe fails before it has the answer to the second request: *)
(* "val" still points at the answer to the first one, which was released,  *)
(* and is released again.                                                  *)
SubscribeFails ==
  \/ Fails
  \/ /\ pc \in {"resubscribe", "reanswer"}
     /\ pc' = "crashed"
     /\ UNCHANGED <<url, connVars, failures, shareVars, countVars, apiVars,
                    given, disturbed, lines, found>>

Subscribe ==
  /\ pc \in {"subscribe", "resubscribe"}
  /\ \/ /\ Send(Request(1, 0))
        /\ pc' = IF pc = "subscribe" THEN "answer" ELSE "reanswer"
        /\ UNCHANGED <<url, link, buf, wire, peer, stage, early, failures,
                       shareVars, countVars, apiVars, given, disturbed, lines,
                       drops, found>>
     \/ SendFails /\ SubscribeFails

(* The socket is waited for, although the line may be in sockbuf already.  *)
SubscribeUnanswered ==
  /\ pc \in {"answer", "reanswer"}
  /\ wire = <<>>
  /\ TimesOut \/ (peer = "closed" /\ buf = <<>> /\ UNCHANGED drops)
  /\ SubscribeFails

(* A result with an extranonce.                                            *)
Subscribed(line) == line.kind = "answer" /\ line.id = 1 /\ line.verdict = "yes"

(* The line that comes first is taken for the answer.                      *)
SubscribeAnswered ==
  /\ pc \in {"answer", "reanswer"} /\ Readable
  /\ \E r \in Readings :
       IF Subscribed(r.line) \/ pc = "answer"
       THEN /\ Taken(r)
            /\ pc' = IF Subscribed(r.line) THEN "authorize" ELSE "resubscribe"
            /\ UNCHANGED <<failures, shareVars, countVars, apiVars, given,
                           lines, drops, found>>
       ELSE Fails /\ UNCHANGED drops

(* Authorized: on to the extranonces, or out of the inner loop.            *)
AfterAuthorize == IF Extranonce THEN "extranonce" ELSE "recv"

Authorize ==
  /\ pc = "authorize"
  /\ \/ /\ Send(Request(2, 0))
        /\ pc' = "granted"
        /\ UNCHANGED <<url, link, buf, wire, peer, stage, early, failures,
                       shareVars, countVars, apiVars, given, disturbed, lines,
                       drops, found>>
     \/ SendFails /\ Fails

AuthorizeUnanswered == pc = "granted" /\ NoLine /\ Fails

(* Mutant: only an error is looked for.                                    *)
GrantsWithoutResult(line) == line.kind = "answer" => line.verdict = "yes"

(* A result that is neither missing nor false; the id is not looked at.    *)
Grants(line) == line.kind = "answer" /\ line.verdict = "yes"

(* Methods are handled; the first line that is not is taken for the answer.*)
AuthorizeAnswered ==
  /\ pc = "granted"
  /\ \E r \in Readings :
       \/ /\ Handles(r.line)
          /\ HandleMethod(r)
          /\ UNCHANGED <<threadVars, shareVars, countVars, apiVars, given,
                         lines, drops, found>>
       \/ /\ ~Handles(r.line) /\ Grants(r.line)
          /\ Taken(r)
          /\ pc' = AfterAuthorize
          /\ UNCHANGED <<failures, shareVars, countVars, apiVars, given,
                         lines, drops, found>>
       \/ /\ ~Handles(r.line) /\ ~Grants(r.line)
          /\ Fails /\ UNCHANGED drops

(* mining.extranonce.subscribe: nothing of it makes stratum_authorize fail.*)
SubscribeExtranonce ==
  /\ pc = "extranonce"
  /\ \/ Send(Request(3, 0)) /\ pc' = "extra" /\ UNCHANGED drops
     \/ SendFails /\ pc' = "recv" /\ UNCHANGED owed
  /\ UNCHANGED <<url, link, buf, wire, peer, stage, early, failures,
                 shareVars, countVars, apiVars, given, disturbed, lines, found>>

(* Three seconds pass, or the connection is closed.                        *)
ExtranonceUnanswered ==
  /\ pc = "extra"
  /\ wire = <<>> /\ (peer = "open" \/ buf = <<>>)
  /\ pc' = "recv"
  /\ UNCHANGED <<url, connVars, failures, shareVars, countVars, apiVars,
                 given, disturbed, lines, drops, found>>

(* One line is read; a method is handled, anything else is dropped.        *)
ExtranonceAnswered ==
  /\ pc = "extra" /\ Readable
  /\ \E r \in Readings : HandleMethod(r)
  /\ pc' = IF link' THEN "recv" ELSE "connect"
  /\ UNCHANGED <<failures, shareVars, countVars, apiVars, given, lines,
                 drops, found>>

(* Mutant: answers to the requests of the handshake are not told apart.    *)
AnswersAnything(line) == line.kind = "answer" /\ line.verdict # "none"

(* stratum_handle_response: an answer with a result, and an id from 4 on.  *)
AnswersShare(line) ==
  line.kind = "answer" /\ line.id >= 4 /\ line.verdict # "none"

(* share_result counts it, and reports it with stratum.sharediff.          *)
ShareResult(line) ==
  IF AnswersShare(line)
  THEN /\ tally' = [tally EXCEPT ![line.verdict] = @ + 1]
       /\ mislabelled' = (mislabelled \/ line.diff # sharediff)
  ELSE UNCHANGED countVars

Receive ==
  /\ pc = "recv" /\ link
  /\ \E r \in Readings : HandleMethod(r) /\ ShareResult(r.line)
  /\ pc' = "loop"
  /\ UNCHANGED <<failures, shareVars, apiVars, given, lines, drops, found>>

(* Closed, or nothing for opt_timeout seconds: stratum_disconnect.         *)
ReceiveNothing ==
  /\ pc = "recv" /\ NoLine
  /\ Close
  /\ pc' = "loop"
  /\ UNCHANGED <<url, failures, shareVars, countVars, apiVars, given,
                 lines, found>>

StratumThread ==
  \/ Reset \/ ResetUrl \/ Top \/ Connect \/ NotConnected
  \/ Subscribe \/ SubscribeUnanswered \/ SubscribeAnswered
  \/ Authorize \/ AuthorizeUnanswered \/ AuthorizeAnswered
  \/ SubscribeExtranonce \/ ExtranonceUnanswered \/ ExtranonceAnswered
  \/ Receive \/ ReceiveNothing

-----------------------------------------------------------------------------
(* workio_thread: submit_upstream_work and workio_submit_work              *)

FindShare ==
  /\ wpc = "pop" /\ found < MaxShares /\ More
  /\ found' = found + 1
  /\ share' = found + 1
  /\ wpc' = "label" /\ wfailures' = 0
  /\ UNCHANGED <<url, connVars, threadVars, sharediff, overlapped, countVars,
                 apiVars, given, disturbed, lines, drops>>

(* The share is stale by now (StratumJob has when).                        *)
DiscardShare ==
  /\ wpc = "label"
  /\ share' = None /\ wpc' = "pop"
  /\ UNCHANGED <<url, connVars, threadVars, wfailures, sharediff, overlapped,
                 countVars, apiVars, given, disturbed, lines, drops, found>>

ShareOwed == \E i \in DOMAIN owed : owed[i].id = 4
Unread == \E i \in DOMAIN (buf \o wire) : LET l == (buf \o wire)[i]
                                          IN l.kind = "answer" /\ l.id = 4

(* Mutant: the difficulty is noted only if none is.                        *)
NotedOnce == IF sharediff = 0 THEN share ELSE sharediff

(* stratum.sharediff is set before the share is written.                   *)
Noted == share

LabelShare ==
  /\ wpc = "label"
  /\ sharediff' = Noted
  /\ overlapped' = (overlapped \/ ShareOwed \/ Unread)
  /\ wpc' = "write"
  /\ UNCHANGED <<url, connVars, threadVars, share, wfailures, countVars,
                 apiVars, given, disturbed, lines, drops, found>>

(* The share is written to whatever connection there is, be it in the      *)
(* middle of its handshake; or into one the pool has closed.               *)
WriteShare ==
  /\ wpc = "write" /\ link
  /\ Send(Request(4, share))
  /\ early' = (early \/ stage # "authorized")
  /\ disturbed' = (disturbed \/ ~Established)
  /\ share' = None /\ wpc' = "pop"
  /\ UNCHANGED <<url, link, buf, wire, peer, stage, threadVars, wfailures,
                 sharediff, overlapped, countVars, apiVars, given, lines, drops, found>>

(* It cannot be: workio_submit_work tries again after a pause.             *)
WriteFails ==
  /\ wpc = "write"
  /\ IF link /\ peer = "open" THEN Fault ELSE UNCHANGED drops
  /\ wfailures' = Count(wfailures)
  /\ wpc' = "label"
  /\ pc' = IF GivesUp(wfailures) THEN "ended" ELSE pc
  /\ UNCHANGED <<url, connVars, failures, share, sharediff, overlapped,
                 countVars, apiVars, given, disturbed, lines, found>>

Workio == DiscardShare \/ LabelShare \/ WriteShare \/ WriteFails

-----------------------------------------------------------------------------
(* The API thread: seturl                                                  *)

(* Mutant: the flag is raised before the address is set.                   *)
AskResetAndFreeUrl ==
  /\ apc = "idle" /\ seturls < MaxSetUrl /\ More
  /\ seturls' = seturls + 1
  /\ asked' \in Urls
  /\ apc' = "freed"
  /\ needReset' = TRUE
  /\ UNCHANGED <<url, connVars, threadVars, shareVars, countVars, rpcUrl, given,
                 disturbed, lines, drops, found>>

(* parse_arg frees rpc_url ...                                             *)
FreeUrl ==
  /\ apc = "idle" /\ seturls < MaxSetUrl /\ More
  /\ seturls' = seturls + 1
  /\ asked' \in Urls
  /\ apc' = "freed"
  /\ UNCHANGED <<url, connVars, threadVars, shareVars, countVars, rpcUrl,
                 needReset, given, disturbed, lines, drops, found>>

(* ... and sets it,                                                        *)
SetUrl ==
  /\ apc = "freed"
  /\ rpcUrl' = asked
  /\ apc' = "set"
  /\ UNCHANGED <<url, connVars, threadVars, shareVars, countVars, needReset,
                 asked, seturls, given, disturbed, lines, drops, found>>

(* and remote_seturl raises the flag.                                      *)
AskReset ==
  /\ apc = "set"
  /\ needReset' = TRUE
  /\ apc' = "idle" /\ asked' = Home
  /\ UNCHANGED <<url, connVars, threadVars, shareVars, countVars, rpcUrl,
                 seturls, given, disturbed, lines, drops, found>>

Api == SetUrl \/ AskReset

-----------------------------------------------------------------------------
(* The pool, external                                                      *)

Grant(id, verdict) ==
  CASE id = 1 /\ verdict = "yes" /\ stage = "none" -> "subscribed"
    [] id = 2 /\ verdict = "yes" -> "authorized"
    [] OTHER -> stage

(* Refusing the handshake is a fault; a share may be refused with a result *)
(* or without, and is accepted of an authorized miner only.                *)
PoolAnswers ==
  /\ peer = "open" /\ owed # <<>>
  /\ LET req == Head(owed)
     IN \E verdict \in {"yes", "no", "none"} :
          /\ CASE req.id = 4 -> verdict = "yes" => stage = "authorized"
               [] OTHER -> verdict # "none"
          /\ IF req.id \in {1, 2} /\ verdict = "no" THEN Fault ELSE UNCHANGED drops
          /\ owed' = Tail(owed)
          /\ wire' = Append(wire, Answer(req, verdict))
          /\ stage' = Grant(req.id, verdict)
          /\ given' = IF req.id = 4 /\ verdict # "none"
                      THEN [given EXCEPT ![verdict] = @ + 1] ELSE given
  /\ UNCHANGED <<url, link, buf, peer, early, threadVars, shareVars, countVars,
                 apiVars, disturbed, lines, found>>

PoolIgnores ==
  /\ peer = "open" /\ owed # <<>>
  /\ Fault
  /\ owed' = Tail(owed)
  /\ UNCHANGED <<url, link, buf, wire, peer, stage, early, threadVars,
                 shareVars, countVars, apiVars, given, disturbed, lines, found>>

PoolSends ==
  /\ peer = "open" /\ lines < MaxLines /\ More
  /\ lines' = lines + 1
  /\ \E l \in {Method("handled"), Method("unhandled")} \cup {RedirectTo(u) : u \in Urls} :
       wire' = Append(wire, l)
  /\ early' = (early \/ stage = "none")
  /\ UNCHANGED <<url, link, buf, peer, owed, stage, threadVars, shareVars,
                 countVars, apiVars, given, disturbed, drops, found>>

PoolCloses ==
  /\ peer = "open"
  /\ Fault
  /\ peer' = "closed" /\ owed' = <<>>
  /\ UNCHANGED <<url, link, buf, wire, stage, early, threadVars, shareVars,
                 countVars, apiVars, given, disturbed, lines, found>>

-----------------------------------------------------------------------------
Running == ~Over
Ended == Over /\ UNCHANGED vars

Next == \/ Running /\ \/ StratumThread
                      \/ FindShare
                      \/ Workio
                      \/ FreeUrl
                      \/ Api
                      \/ PoolAnswers \/ PoolIgnores \/ PoolSends \/ PoolCloses
        \/ Ended

Safety == Init /\ [][Next]_vars

(* The threads are scheduled, and a pool that has not closed answers in    *)
(* the end what it has not ignored (at most MaxDrops requests).            *)
Fairness == /\ WF_vars(Running /\ StratumThread)
            /\ WF_vars(Running /\ Workio)
            /\ WF_vars(Running /\ Api)
            /\ WF_vars(Running /\ PoolAnswers)

Spec == Safety /\ Fairness

-----------------------------------------------------------------------------
(* Properties                                                              *)

Diffs == 1..MaxShares
Line == [kind : {"answer"}, id : 1..4, diff : Diffs \cup {0}, verdict : {"yes", "no", "none"}]
          \cup [kind : {"handled", "unhandled"}] \cup [kind : {"redirect"}, url : Urls]
Places == {"loop", "reset", "connect", "subscribe", "answer", "resubscribe", "reanswer",
           "authorize", "granted", "extranonce", "extra", "recv", "ended", "crashed"}

(* The variables have their types, and a closed connection leaves nothing  *)
(* to read behind (stratum_disconnect, util.c:1352).                       *)
TypeOK ==
  /\ url \in Urls /\ rpcUrl \in Urls /\ asked \in Urls
  /\ link \in BOOLEAN /\ peer \in {"none", "open", "closed"}
  /\ link <=> peer # "none"
  /\ buf \in Seq(Line) /\ wire \in Seq(Line)
  /\ owed \in Seq([id : 1..4, diff : Diffs \cup {0}])
  /\ ~link => buf = <<>> /\ wire = <<>> /\ owed = <<>>
  /\ stage \in {"none", "subscribed", "authorized"}
  /\ pc \in Places /\ apc \in {"idle", "freed", "set"}
  /\ wpc \in {"pop", "label", "write"} /\ share \in Diffs \cup {None}
  /\ wpc = "pop" <=> share = None
  /\ sharediff \in Diffs \cup {0}
  /\ failures \in Nat /\ wfailures \in Nat
  /\ tally \in [{"yes", "no"} -> Nat] /\ given \in [{"yes", "no"} -> Nat]
  /\ {needReset, early, disturbed, overlapped, mislabelled} \subseteq BOOLEAN

(* stratum_authorize (util.c:1538) takes the first line that is no method  *)
(* for its answer, whatever its id.  Still, a connection that is used is   *)
(* one the pool has granted, unless a method came before the answer to     *)
(* mining.subscribe, or a share was written before the grant: then the     *)
(* lines are read one off.                                                 *)
AuthorizedByPool == Established /\ ~early => stage = "authorized"

(* The accepted and rejected shares that are counted (share_result) are    *)
(* the ones the pool has answered: answers of the handshake that come late *)
(* are not counted, and no answer is counted twice or left out, but for    *)
(* the ones that were under way when a connection was closed and the ones  *)
(* to shares written in the middle of a handshake.                         *)
CountsRight ==
  ~disturbed => /\ tally["yes"] + InFlight("yes") = given["yes"]
                /\ tally["no"] + InFlight("no") = given["no"]

(* share_result reports an answer with the difficulty in                   *)
(* stratum.sharediff (cpu-miner.c:1197), which is that of the last share   *)
(* sent: right as long as no share is sent before the one before it is     *)
(* answered, whatever lines come in between.                               *)
LabelsRight == mislabelled => overlapped

(* The two races in which released memory is used: the answer to           *)
(* mining.subscribe released again (util.c:1502) and rpc_url read while    *)
(* seturl replaces it (cpu-miner.c:2442).  The first needs a connection    *)
(* lost or a request not answered, the second two seturl commands.         *)
CrashNeedsARace == pc = "crashed" => drops > 0 \/ seturls > 1

(* "Change pool url" (api.c:192): the address given is taken over in the   *)
(* end, unless another command or the end of the program comes first or    *)
(* the thread is in its inner loop with a pool that never answers          *)
(* (cpu-miner.c:2452), where the flag is not looked at.                    *)
Followed(u) ==
  url = u \/ rpcUrl # u \/ apc # "idle" \/ Over \/ url \in Dead
SetUrlFollowed ==
  \A u \in Urls : (apc = "idle" /\ rpcUrl = u /\ needReset) ~> Followed(u)

(* Whatever lines the pool sends and whenever connections are lost, the    *)
(* thread comes to use a connection again and again, or the program ends,  *)
(* or it was sent to an address where nobody listens.                      *)
SessionEstablished == []<>(Established \/ Over \/ url \in Dead)
=============================================================================
