------------------------- MODULE StratumSessionProofs -------------------------
(* Proofs about StratumSession, for any addresses, shares, methods, faults *)
(* and seturl commands.                                                    *)
EXTENDS StratumSession, SequenceTheorems, FunctionTheorems, FiniteSetTheorems, TLAPS

-----------------------------------------------------------------------------
(* Lines and requests                                                      *)

Items(s) == {s[i] : i \in DOMAIN s}

LEMMA ItemsOfSeq ==
  ASSUME NEW S, NEW s \in Seq(S)
  PROVE  /\ Items(s) \subseteq S
         /\ s # <<>> => /\ Head(s) \in Items(s)
                        /\ Tail(s) \in Seq(S) /\ Items(Tail(s)) \subseteq Items(s)
         /\ \A x \in S : Append(s, x) \in Seq(S) /\ Items(Append(s, x)) = Items(s) \cup {x}
         /\ \A m \in 1..Len(s) + 1, n \in 0..Len(s) :
              SubSeq(s, m, n) \in Seq(S) /\ Items(SubSeq(s, m, n)) \subseteq Items(s)
<1>0. DOMAIN s = 1..Len(s) /\ Len(s) \in Nat
  BY LenProperties
<1>1. Items(s) \subseteq S
  BY <1>0, ElementOfSeq DEF Items
<1>2. ASSUME s # <<>>
      PROVE  /\ Head(s) \in Items(s)
             /\ Tail(s) \in Seq(S) /\ Items(Tail(s)) \subseteq Items(s)
  <2>1. Head(s) = s[1] /\ Len(s) >= 1
    BY <1>0, <1>2, EmptySeq
  <2>2. /\ Tail(s) \in Seq(S) /\ Len(Tail(s)) = Len(s) - 1
        /\ \A i \in 1..Len(Tail(s)) : Tail(s)[i] = s[i + 1]
    BY <1>2, HeadTailProperties
  <2>3. DOMAIN Tail(s) = 1..Len(Tail(s))
    BY <2>2, LenProperties
  <2>4. Items(Tail(s)) \subseteq Items(s)
    <3> SUFFICES ASSUME NEW i \in 1..Len(Tail(s))
                 PROVE  Tail(s)[i] \in Items(s)
      BY <2>3 DEF Items
    <3>1. i + 1 \in 1..Len(s)
      BY <1>0, <2>2
    <3> QED
      BY <1>0, <2>2, <3>1 DEF Items
  <2> QED
    BY <1>0, <2>1, <2>2, <2>4 DEF Items
<1>3. ASSUME NEW x \in S
      PROVE  Append(s, x) \in Seq(S) /\ Items(Append(s, x)) = Items(s) \cup {x}
  <2>1. /\ Append(s, x) \in Seq(S) /\ Len(Append(s, x)) = Len(s) + 1
        /\ \A i \in 1..Len(s) : Append(s, x)[i] = s[i]
        /\ Append(s, x)[Len(s) + 1] = x
    BY AppendProperties
  <2>2. DOMAIN Append(s, x) = 1..(Len(s) + 1)
    BY <2>1, LenProperties
  <2>3. 1..(Len(s) + 1) = 1..Len(s) \cup {Len(s) + 1}
    BY <1>0
  <2> QED
    BY <1>0, <2>1, <2>2, <2>3 DEF Items
<1>4. ASSUME NEW m \in 1..Len(s) + 1, NEW n \in 0..Len(s)
      PROVE  SubSeq(s, m, n) \in Seq(S) /\ Items(SubSeq(s, m, n)) \subseteq Items(s)
  <2>0. m \in Int /\ n \in Int /\ \A i \in m..n : i \in 1..Len(s) /\ s[i] \in S
    <3> SUFFICES ASSUME NEW i \in m..n
                 PROVE  i \in 1..Len(s) /\ s[i] \in S
      BY <1>0
    <3>1. i \in 1..Len(s)
      BY <1>0
    <3> QED
      BY <3>1, ElementOfSeq
  <2> DEFINE t == SubSeq(s, m, n)
  <2>1. /\ t \in Seq(S)
        /\ Len(t) = IF m <= n THEN n - m + 1 ELSE 0
        /\ \A i \in 1..n - m + 1 : t[i] = s[m + i - 1]
    BY <2>0, SubSeqProperties
  <2>2. DOMAIN t = 1..Len(t) /\ Len(t) \in Nat
    BY <2>1, LenProperties
  <2> HIDE DEF t
  <2>3. Items(t) \subseteq Items(s)
    <3> SUFFICES ASSUME NEW i \in 1..Len(t)
                 PROVE  t[i] \in Items(s)
      BY <2>2 DEF Items
    <3>1. i \in 1..n - m + 1 /\ m + i - 1 \in m..n
      BY <2>0, <2>1
    <3>2. t[i] = s[m + i - 1] /\ m + i - 1 \in 1..Len(s)
      BY <2>0, <2>1, <3>1
    <3> QED
      BY <1>0, <3>2 DEF Items
  <2> QED
    BY <2>1, <2>3 DEF t
<1> QED
  BY <1>1, <1>2, <1>3, <1>4

LEMMA NoItems == Items(<<>>) = {} /\ \A S : <<>> \in Seq(S)
BY DEF Items

(* The lines under way, and the requests to be answered.                   *)
Lines == Items(buf) \cup Items(wire)
Owed == Items(owed)

Req == [id : 1..4, diff : Diffs \cup {0}]

(* A reading takes one line, and loses none of the others.                 *)
LEMMA ReadingTakes ==
  ASSUME buf \in Seq(Line), wire \in Seq(Line), NEW r \in Readings
  PROVE  /\ r.line \in Lines /\ r.line \in Line
         /\ r.buf \in Seq(Line) /\ r.wire \in Seq(Line)
         /\ Items(r.buf) \cup Items(r.wire) \subseteq Lines
         /\ buf # <<>> \/ wire # <<>>
<1>1. CASE buf # <<>>
  <2>1. r = [line |-> Head(buf), buf |-> Tail(buf), wire |-> wire]
    BY <1>1 DEF Readings
  <2>2. r.line = Head(buf) /\ r.buf = Tail(buf) /\ r.wire = wire
    BY <2>1
  <2> QED
    BY <1>1, <2>2, ItemsOfSeq DEF Lines
<1>2. CASE buf = <<>>
  <2>1. PICK n \in 1..Len(wire) : r = [line |-> Head(wire), buf |-> SubSeq(wire, 2, n),
                                       wire |-> SubSeq(wire, n + 1, Len(wire))]
    BY <1>2 DEF Readings
  <2>2. r.line = Head(wire) /\ r.buf = SubSeq(wire, 2, n) /\ r.wire = SubSeq(wire, n + 1, Len(wire))
    BY <2>1
  <2>3. Len(wire) \in Nat /\ wire # <<>>
    BY LenProperties, EmptySeq
  <2>4. 2 \in 1..Len(wire) + 1 /\ n + 1 \in 1..Len(wire) + 1 /\ n \in 0..Len(wire) /\ Len(wire) \in 0..Len(wire)
    BY <2>3
  <2>5. r.line \in Items(wire) /\ Items(wire) \subseteq Line
    BY <2>2, <2>3, ItemsOfSeq
  <2>6. r.buf \in Seq(Line) /\ Items(r.buf) \subseteq Items(wire)
    BY <2>2, <2>4, ItemsOfSeq
  <2>7. r.wire \in Seq(Line) /\ Items(r.wire) \subseteq Items(wire)
    BY <2>2, <2>4, ItemsOfSeq
  <2> QED
    BY <2>3, <2>5, <2>6, <2>7 DEF Lines
<1> QED
  BY <1>1, <1>2

LEMMA LineFields ==
  ASSUME NEW l \in Line
  PROVE  /\ l.kind \in {"answer", "handled", "unhandled", "redirect"}
         /\ l.kind = "answer" => /\ l.id \in 1..4 /\ l.diff \in Diffs \cup {0}
                                 /\ l.verdict \in {"yes", "no", "none"}
         /\ l.kind = "redirect" => l.url \in Urls
BY DEF Line

LEMMA MadeLines ==
  /\ \A req \in Req, v \in {"yes", "no", "none"} :
       /\ Answer(req, v) \in Line /\ Answer(req, v).kind = "answer"
       /\ Answer(req, v).id = req.id /\ Answer(req, v).diff = req.diff
       /\ Answer(req, v).verdict = v
  /\ \A l \in {Method("handled"), Method("unhandled")} \cup {RedirectTo(u) : u \in Urls} :
       l \in Line /\ l.kind # "answer"
  /\ \A i \in 1..4, d \in Diffs \cup {0} :
       Request(i, d) \in Req /\ Request(i, d).id = i /\ Request(i, d).diff = d
BY DEF Answer, Req, Line, Method, RedirectTo, Request

-----------------------------------------------------------------------------
(* The parts of TypeOK, and the types of the bounds                        *)

ConnType ==
  /\ link \in BOOLEAN /\ peer \in {"none", "open", "closed"}
  /\ link <=> peer # "none"
  /\ buf \in Seq(Line) /\ wire \in Seq(Line) /\ owed \in Seq(Req)
  /\ ~link => buf = <<>> /\ wire = <<>> /\ owed = <<>>
  /\ stage \in {"none", "subscribed", "authorized"}
  /\ early \in BOOLEAN
  /\ pc \in Places
  /\ pc \in {"reset", "connect"} => ~link

OtherType ==
  /\ url \in Urls /\ rpcUrl \in Urls /\ asked \in Urls
  /\ apc \in {"idle", "freed", "set"} /\ needReset \in BOOLEAN
  /\ wpc \in {"pop", "label", "write"} /\ share \in Diffs \cup {None}
  /\ wpc = "pop" <=> share = None
  /\ sharediff \in Diffs \cup {0}
  /\ failures \in Nat /\ wfailures \in Nat
  /\ lines \in Nat /\ drops \in Nat /\ found \in Nat /\ seturls \in Nat

CountType ==
  /\ tally \in [{"yes", "no"} -> Nat] /\ given \in [{"yes", "no"} -> Nat]
  /\ disturbed \in BOOLEAN /\ overlapped \in BOOLEAN /\ mislabelled \in BOOLEAN

TypeInv == ConnType /\ OtherType /\ CountType

LEMMA TypeParts == TypeInv => TypeOK
BY DEF TypeInv, ConnType, OtherType, CountType, TypeOK, Req

-----------------------------------------------------------------------------
(* What a step does to the connection                                      *)

PcStays ==
  \/ pc' \in {pc, "ended", "crashed"}
  \/ pc = "reset" /\ pc' = "connect" /\ ~link
  \/ pc = "loop" /\ pc' = IF link THEN "recv" ELSE "connect"
  \/ pc \in {"extranonce", "extra"} /\ pc' = "recv"
Stays == PcStays /\ UNCHANGED <<link, buf, wire, peer, owed, stage, early>>

Closed == /\ link' = FALSE /\ buf' = <<>> /\ wire' = <<>> /\ peer' = "none"
          /\ owed' = <<>> /\ stage' = "none" /\ early' = FALSE
Closes == Closed /\ pc' \in {"reset", "connect", "ended", "loop", "granted"}

Opens == /\ pc = "connect" /\ pc' = "subscribe"
         /\ link' = TRUE /\ peer' = "open"
         /\ UNCHANGED <<buf, wire, owed, stage, early>>

Sends(req) == Send(req) /\ UNCHANGED <<link, buf, wire, peer, stage>>
Asks == /\ early' = early
        /\ \/ /\ Sends(Request(1, 0))
              /\ (pc = "subscribe" /\ pc' = "answer") \/ (pc = "resubscribe" /\ pc' = "reanswer")
           \/ Sends(Request(2, 0)) /\ pc = "authorize" /\ pc' = "granted"
           \/ Sends(Request(3, 0)) /\ pc = "extranonce" /\ pc' = "extra"
Writes == /\ wpc = "write" /\ Sends(Request(4, share)) /\ link /\ pc' = pc
          /\ early' = (early \/ stage # "authorized")
          /\ disturbed' = (disturbed \/ ~Established)
          /\ share \in Diffs

Takes(r) == buf' = r.buf /\ wire' = r.wire /\ UNCHANGED <<link, peer, owed, stage, early>>
PcReads(line) ==
  \/ pc \in {"answer", "reanswer"} /\ Subscribed(line) /\ pc' = "authorize"
  \/ pc = "answer" /\ ~Subscribed(line) /\ pc' = "resubscribe"
  \/ pc = "granted" /\ pc' = "granted"
  \/ pc = "granted" /\ Grants(line) /\ pc' \in {"extranonce", "recv"}
  \/ pc = "extra" /\ pc' = "recv"
  \/ pc = "recv" /\ pc' = "loop"
Reads == \E r \in Readings : Takes(r) /\ PcReads(r.line)

Pool == PoolAnswers \/ PoolIgnores \/ PoolSends \/ PoolCloses

LEMMA Closing == Close => Closed
BY DEF Close, Closed

LEMMA Failing == Fails => Closes
BY Closing DEF Fails, Closes

LEMMA Handling ==
  ASSUME NEW r, HandleMethod(r)
  PROVE  Closed \/ (Takes(r) /\ url' = url)
BY Closing DEF HandleMethod, Taken, Takes

LEMMA SubscribeFailing == SubscribeFails => Closes \/ Stays
BY Failing DEF SubscribeFails, Stays, PcStays, connVars, poolVars

LEMMA Moves ==
  ASSUME TypeInv, [Next]_vars
  PROVE  Stays \/ Closes \/ Opens \/ Asks \/ Writes \/ Reads \/ Pool
<1> USE DEF connVars, poolVars, threadVars
<1>1. CASE Reset
  BY <1>1, Closing DEF Reset, Closes
<1>2. CASE ResetUrl \/ Top
  BY <1>2 DEF ResetUrl, Top, Stays, PcStays, TypeInv, ConnType
<1>3. CASE Connect
  BY <1>3 DEF Connect, Opens
<1>4. CASE NotConnected
  BY <1>4, Failing DEF NotConnected
<1>5. CASE Subscribe
  BY <1>5, SubscribeFailing DEF Subscribe, Asks, Sends
<1>6. CASE SubscribeUnanswered
  BY <1>6, SubscribeFailing DEF SubscribeUnanswered
<1>7. CASE SubscribeAnswered
  BY <1>7, Failing DEF SubscribeAnswered, Taken, Takes, Reads, PcReads
<1>8. CASE Authorize
  BY <1>8, Failing DEF Authorize, Asks, Sends
<1>9. CASE AuthorizeUnanswered
  BY <1>9, Failing DEF AuthorizeUnanswered
<1>10. CASE AuthorizeAnswered
  <2>1. PICK r \in Readings :
          \/ HandleMethod(r) /\ pc' = pc
          \/ Taken(r) /\ Grants(r.line) /\ pc' = AfterAuthorize
          \/ Fails
    BY <1>10 DEF AuthorizeAnswered
  <2>2. pc = "granted"
    BY <1>10 DEF AuthorizeAnswered
  <2> QED
    BY <2>1, <2>2, Failing, Handling DEF Closes, Taken, Takes, Reads, PcReads, AfterAuthorize
<1>11. CASE SubscribeExtranonce
  BY <1>11 DEF SubscribeExtranonce, Asks, Sends, Stays, PcStays
<1>12. CASE ExtranonceUnanswered
  BY <1>12 DEF ExtranonceUnanswered, Stays, PcStays
<1>13. CASE ExtranonceAnswered
  <2>1. PICK r \in Readings : HandleMethod(r)
    BY <1>13 DEF ExtranonceAnswered
  <2>2. pc = "extra" /\ pc' = IF link' THEN "recv" ELSE "connect"
    BY <1>13 DEF ExtranonceAnswered
  <2>3. link
    BY ReadingTakes, <2>1 DEF TypeInv, ConnType
  <2> QED
    BY <2>1, <2>2, <2>3, Handling DEF Closed, Closes, Takes, Reads, PcReads
<1>14. CASE Receive
  <2>1. PICK r \in Readings : HandleMethod(r)
    BY <1>14 DEF Receive
  <2> QED
    BY <1>14, <2>1, Handling DEF Receive, Closes, Reads, PcReads
<1>15. CASE ReceiveNothing
  BY <1>15, Closing DEF ReceiveNothing, Closes
<1>16. CASE FindShare \/ DiscardShare \/ LabelShare \/ WriteFails
  BY <1>16 DEF FindShare, DiscardShare, LabelShare, WriteFails, Stays, PcStays
<1>17. CASE WriteShare
  BY <1>17 DEF WriteShare, Writes, Sends, TypeInv, OtherType
<1>18. CASE FreeUrl \/ Api
  BY <1>18 DEF FreeUrl, Api, SetUrl, AskReset, Stays, PcStays
<1>19. CASE UNCHANGED vars
  BY <1>19 DEF vars, Stays, PcStays
<1> QED
  BY <1>1, <1>2, <1>3, <1>4, <1>5, <1>6, <1>7, <1>8, <1>9, <1>10, <1>11, <1>12,
     <1>13, <1>14, <1>15, <1>16, <1>17, <1>18, <1>19
     DEF Next, StratumThread, Workio, Pool, Ended

(* What the pool does.                                                     *)
LEMMA PoolAnswering ==
  ASSUME ConnType, PoolAnswers
  PROVE  /\ owed # <<>> /\ Head(owed) \in Owed /\ Head(owed) \in Req
         /\ owed' = Tail(owed) /\ owed' \in Seq(Req) /\ Items(owed') \subseteq Owed
         /\ \E v \in {"yes", "no", "none"} :
              /\ Head(owed).id # 4 => v # "none"
              /\ wire' = Append(wire, Answer(Head(owed), v))
              /\ stage' = Grant(Head(owed).id, v)
              /\ Answer(Head(owed), v) \in Line
              /\ wire' \in Seq(Line) /\ Items(wire') = Items(wire) \cup {Answer(Head(owed), v)}
         /\ link /\ peer = "open" /\ UNCHANGED <<link, buf, peer, early, pc>>
<1>1. owed \in Seq(Req) /\ owed # <<>> /\ owed' = Tail(owed) /\ peer = "open" /\ link
  BY DEF PoolAnswers, ConnType
<1>2. /\ Head(owed) \in Owed /\ Head(owed) \in Req /\ owed' \in Seq(Req)
      /\ Items(owed') \subseteq Owed
  BY <1>1, ItemsOfSeq DEF Owed
<1>3. PICK v \in {"yes", "no", "none"} :
        /\ Head(owed).id # 4 => v # "none"
        /\ wire' = Append(wire, Answer(Head(owed), v))
        /\ stage' = Grant(Head(owed).id, v)
  BY DEF PoolAnswers
<1>4. Answer(Head(owed), v) \in Line
  BY <1>2, MadeLines
<1>5. wire' \in Seq(Line) /\ Items(wire') = Items(wire) \cup {Answer(Head(owed), v)}
  BY <1>3, <1>4, ItemsOfSeq DEF ConnType
<1>6. UNCHANGED <<link, buf, peer, early, pc>>
  BY DEF PoolAnswers, threadVars
<1> QED
  BY <1>1, <1>2, <1>3, <1>4, <1>5, <1>6

LEMMA PoolIgnoring ==
  ASSUME ConnType, PoolIgnores
  PROVE  /\ owed # <<>> /\ owed' = Tail(owed) /\ owed' \in Seq(Req) /\ Items(owed') \subseteq Owed
         /\ link /\ UNCHANGED <<link, buf, wire, peer, stage, early, pc>>
<1>1. owed \in Seq(Req) /\ owed # <<>> /\ owed' = Tail(owed) /\ peer = "open" /\ link
  BY DEF PoolIgnores, ConnType
<1>2. owed' \in Seq(Req) /\ Items(owed') \subseteq Owed
  BY <1>1, ItemsOfSeq DEF Owed
<1> QED
  BY <1>1, <1>2 DEF PoolIgnores, threadVars

LEMMA PoolSending ==
  ASSUME ConnType, PoolSends
  PROVE  /\ \E l \in Line :
              /\ l.kind # "answer" /\ wire' = Append(wire, l)
              /\ wire' \in Seq(Line) /\ Items(wire') = Items(wire) \cup {l}
         /\ early' = (early \/ stage = "none")
         /\ link /\ UNCHANGED <<link, buf, peer, owed, stage, pc>>
<1>1. PICK l \in {Method("handled"), Method("unhandled")} \cup {RedirectTo(u) : u \in Urls} :
        wire' = Append(wire, l)
  BY DEF PoolSends
<1>2. l \in Line /\ l.kind # "answer"
  BY MadeLines
<1>3. wire' \in Seq(Line) /\ Items(wire') = Items(wire) \cup {l}
  BY <1>1, <1>2, ItemsOfSeq DEF ConnType
<1>4. /\ early' = (early \/ stage = "none")
      /\ link /\ UNCHANGED <<link, buf, peer, owed, stage, pc>>
  BY DEF PoolSends, threadVars, ConnType
<1> QED
  BY <1>1, <1>2, <1>3, <1>4

LEMMA PoolClosing ==
  ASSUME ConnType, PoolCloses
  PROVE  peer' = "closed" /\ owed' = <<>> /\ link /\ UNCHANGED <<link, buf, wire, stage, early, pc>>
BY DEF PoolCloses, threadVars, ConnType

(* A request is sent, or lost.                                             *)
LEMMA Sending ==
  ASSUME ConnType, NEW req \in Req, Sends(req)
  PROVE  /\ owed' \in Seq(Req) /\ Items(owed') \subseteq Owed \cup {req}
         /\ peer = "open" => owed' = Append(owed, req)
         /\ peer # "open" => owed' = owed
<1>1. owed \in Seq(Req)
  BY DEF ConnType
<1>2. CASE peer = "open"
  BY <1>1, <1>2, ItemsOfSeq DEF Sends, Send, Owed
<1>3. CASE peer # "open"
  BY <1>1, <1>3 DEF Sends, Send, Owed
<1> QED
  BY <1>2, <1>3

LEMMA ConnTypeStep ==
  ASSUME TypeInv, [Next]_vars
  PROVE  ConnType'
<1> USE DEF TypeInv
<1>1. CASE Stays
  BY <1>1 DEF ConnType, Stays, PcStays, Places
<1>2. CASE Closes
  BY <1>2, NoItems DEF ConnType, Closes, Closed, Places
<1>3. CASE Opens
  BY <1>3 DEF ConnType, Opens, Places
<1>4. ASSUME NEW req \in Req, Sends(req), early' \in BOOLEAN,
             pc' \in Places \ {"reset", "connect"} \/ pc' = pc
      PROVE  ConnType'
  <2>1. owed' \in Seq(Req) /\ (peer # "open" => owed' = owed)
    BY <1>4, Sending
  <2> QED
    BY <1>4, <2>1 DEF ConnType, Sends
<1>5. CASE Asks
  <2>1. PICK i \in {1, 2, 3} : Sends(Request(i, 0))
    BY <1>5 DEF Asks
  <2>2. early' \in BOOLEAN /\ pc' \in Places \ {"reset", "connect"}
    BY <1>5 DEF Asks, Places, ConnType
  <2> QED
    BY <2>1, <2>2, <1>4, MadeLines
<1>6. CASE Writes
  <2>1. Sends(Request(4, share)) /\ Request(4, share) \in Req /\ pc' = pc
    BY <1>6, MadeLines DEF Writes
  <2>2. early' \in BOOLEAN
    BY <1>6 DEF Writes
  <2> QED
    BY <2>1, <2>2, <1>4
<1>7. CASE Reads
  <2>1. PICK r \in Readings : Takes(r) /\ PcReads(r.line)
    BY <1>7 DEF Reads
  <2>2. r.buf \in Seq(Line) /\ r.wire \in Seq(Line) /\ link
    BY ReadingTakes DEF ConnType
  <2> QED
    BY <2>1, <2>2 DEF ConnType, Takes, PcReads, Places
<1>8. CASE PoolAnswers
  <2>1. stage' \in {"none", "subscribed", "authorized"}
    BY <1>8, PoolAnswering DEF Grant, ConnType
  <2> QED
    BY <1>8, <2>1, PoolAnswering DEF ConnType
<1>9. CASE PoolIgnores
  BY <1>9, PoolIgnoring DEF ConnType
<1>10. CASE PoolSends
  <2>1. early' \in BOOLEAN
    BY <1>10 DEF PoolSends
  <2> QED
    BY <1>10, <2>1, PoolSending DEF ConnType
<1>11. CASE PoolCloses
  BY <1>11, PoolClosing, NoItems DEF ConnType
<1> QED
  BY Moves, <1>1, <1>2, <1>3, <1>5, <1>6, <1>7, <1>8, <1>9, <1>10, <1>11 DEF Pool

LEMMA UrlHandled ==
  ASSUME ConnType, url \in Urls, NEW r \in Readings, HandleMethod(r)
  PROVE  url' \in Urls
<1>1. r.line \in Line
  BY ReadingTakes DEF ConnType
<1>2. r.line.kind = "redirect" => r.line.url \in Urls
  BY <1>1, LineFields
<1> QED
  BY <1>2 DEF HandleMethod, Taken

LEMMA OtherTypeStep ==
  ASSUME TypeInv, [Next]_vars
  PROVE  OtherType'
<1> USE SessionAssumption DEF shareVars, countVars, apiVars, connVars, threadVars
<1>0. OtherType /\ ConnType /\ url \in Urls
  BY DEF TypeInv, OtherType
(* Only the thread's own variables change.                                 *)
<1>1. ASSUME url' \in Urls, failures' \in Nat, drops' \in Nat,
             UNCHANGED <<shareVars, apiVars, lines, found>>
      PROVE  OtherType'
  BY <1>0, <1>1 DEF OtherType
<1>2. Fault => drops' \in Nat
  BY <1>0 DEF Fault, OtherType
<1>3. Count(failures) \in Nat /\ Count(wfailures) \in Nat
  BY <1>0 DEF Count, OtherType
<1>4. ASSUME Fails, drops' \in Nat
      PROVE  OtherType'
  BY <1>0, <1>1, <1>3, <1>4 DEF Fails
<1>5. ASSUME SubscribeFails, drops' \in Nat
      PROVE  OtherType'
  BY <1>0, <1>1, <1>4, <1>5 DEF SubscribeFails, OtherType
<1>6. TimesOut => drops' \in Nat
  BY <1>0, <1>2 DEF TimesOut, OtherType
<1>7. NoLine \/ SendFails => drops' \in Nat
  BY <1>0, <1>2, <1>6 DEF NoLine, SendFails, OtherType
<1>8. CASE Reset
  BY <1>0, <1>8 DEF Reset, OtherType
<1>9. CASE ResetUrl
  BY <1>0, <1>1, <1>9 DEF ResetUrl, OtherType
<1>10. CASE Top \/ Connect \/ ExtranonceUnanswered
  BY <1>0, <1>1, <1>10 DEF Top, Connect, ExtranonceUnanswered, OtherType
<1>11. CASE NotConnected
  BY <1>0, <1>2, <1>4, <1>11 DEF NotConnected, OtherType
<1>12. CASE Subscribe
  BY <1>0, <1>1, <1>5, <1>7, <1>12 DEF Subscribe, OtherType
<1>13. CASE SubscribeUnanswered
  BY <1>0, <1>5, <1>6, <1>13 DEF SubscribeUnanswered, OtherType
<1>14. CASE SubscribeAnswered
  BY <1>0, <1>1, <1>4, <1>14 DEF SubscribeAnswered, Taken, OtherType
<1>15. CASE Authorize
  BY <1>0, <1>1, <1>4, <1>7, <1>15 DEF Authorize, OtherType
<1>16. CASE AuthorizeUnanswered
  BY <1>4, <1>7, <1>16 DEF AuthorizeUnanswered
<1>17. CASE AuthorizeAnswered
  <2>1. \/ Fails /\ drops' = drops
        \/ /\ \E r \in Readings : HandleMethod(r) \/ Taken(r)
           /\ UNCHANGED <<failures, shareVars, apiVars, lines, drops, found>>
    BY <1>17 DEF AuthorizeAnswered
  <2>2. ASSUME NEW r \in Readings, HandleMethod(r) \/ Taken(r)
        PROVE  url' \in Urls
    BY <1>0, <2>2, UrlHandled DEF Taken
  <2> QED
    BY <1>0, <1>1, <1>4, <2>1, <2>2 DEF OtherType
<1>18. CASE SubscribeExtranonce
  BY <1>0, <1>1, <1>7, <1>18 DEF SubscribeExtranonce, OtherType
<1>19. CASE ExtranonceAnswered
  BY <1>0, <1>1, <1>19, UrlHandled DEF ExtranonceAnswered, OtherType
<1>20. CASE Receive
  BY <1>0, <1>1, <1>20, UrlHandled DEF Receive, OtherType
<1>21. CASE ReceiveNothing
  BY <1>0, <1>1, <1>7, <1>21 DEF ReceiveNothing, OtherType
<1>22. CASE FindShare
  <2>1. found + 1 \in Diffs /\ found + 1 # None
    BY <1>0, <1>22 DEF FindShare, OtherType, Diffs
  <2> QED
    BY <1>0, <1>22, <2>1 DEF FindShare, OtherType
<1>23. CASE DiscardShare
  BY <1>0, <1>23 DEF DiscardShare, OtherType
<1>24. CASE LabelShare
  BY <1>0, <1>24 DEF LabelShare, Noted, OtherType
<1>25. CASE WriteShare
  BY <1>0, <1>25 DEF WriteShare, OtherType
<1>26. CASE WriteFails
  <2>1. drops' \in Nat
    BY <1>0, <1>2, <1>26 DEF WriteFails, OtherType
  <2> QED
    BY <1>0, <1>3, <1>26, <2>1 DEF WriteFails, OtherType
<1>27. CASE FreeUrl
  BY <1>0, <1>27 DEF FreeUrl, OtherType
<1>28. CASE SetUrl
  BY <1>0, <1>28 DEF SetUrl, OtherType
<1>29. CASE AskReset
  BY <1>0, <1>29 DEF AskReset, OtherType
<1>30. CASE PoolAnswers
  BY <1>0, <1>1, <1>2, <1>30 DEF PoolAnswers, OtherType
<1>31. CASE PoolIgnores \/ PoolCloses
  BY <1>0, <1>1, <1>2, <1>31 DEF PoolIgnores, PoolCloses, OtherType
<1>32. CASE PoolSends
  BY <1>0, <1>32 DEF PoolSends, OtherType
<1>33. CASE UNCHANGED vars
  BY <1>0, <1>33 DEF vars, OtherType
<1> QED
  BY <1>8, <1>9, <1>10, <1>11, <1>12, <1>13, <1>14, <1>15, <1>16, <1>17, <1>18, <1>19,
     <1>20, <1>21, <1>22, <1>23, <1>24, <1>25, <1>26, <1>27, <1>28, <1>29, <1>30,
     <1>31, <1>32, <1>33
     DEF Next, StratumThread, Workio, Api, Ended

LEMMA Disturbing ==
  ASSUME disturbed \in BOOLEAN
  PROVE  /\ Close => disturbed' \in BOOLEAN
         /\ \A r : HandleMethod(r) => disturbed' \in BOOLEAN
         /\ Fails \/ SubscribeFails =>
              disturbed' \in BOOLEAN /\ UNCHANGED <<tally, mislabelled, given, overlapped>>
<1>1. Close => disturbed' \in BOOLEAN
  BY DEF Close
<1>2. \A r : HandleMethod(r) => disturbed' \in BOOLEAN
  BY <1>1 DEF HandleMethod, Taken
<1> QED
  BY <1>1, <1>2 DEF Fails, SubscribeFails, shareVars, countVars

LEMMA CountTypeStep ==
  ASSUME TypeInv, [Next]_vars
  PROVE  CountType'
<1> USE DEF shareVars, countVars, connVars, poolVars
<1>0. CountType /\ ConnType /\ disturbed \in BOOLEAN
  BY DEF TypeInv, CountType
<1>1. ASSUME disturbed' \in BOOLEAN, UNCHANGED <<countVars, given, overlapped>>
      PROVE  CountType'
  BY <1>0, <1>1 DEF CountType
<1>2. ASSUME Fails \/ SubscribeFails
      PROVE  CountType'
  BY <1>0, <1>1, <1>2, Disturbing
<1>3. CASE Reset \/ ReceiveNothing
  BY <1>0, <1>1, <1>3, Disturbing DEF Reset, ReceiveNothing
<1>4. CASE ResetUrl \/ Top \/ Connect \/ SubscribeExtranonce \/ ExtranonceUnanswered
  BY <1>0, <1>1, <1>4 DEF ResetUrl, Top, Connect, SubscribeExtranonce, ExtranonceUnanswered
<1>5. CASE NotConnected \/ SubscribeUnanswered \/ AuthorizeUnanswered
  BY <1>2, <1>5 DEF NotConnected, SubscribeUnanswered, AuthorizeUnanswered
<1>6. CASE Subscribe
  BY <1>0, <1>1, <1>2, <1>6 DEF Subscribe
<1>7. CASE SubscribeAnswered
  BY <1>0, <1>1, <1>2, <1>7 DEF SubscribeAnswered, Taken
<1>8. CASE Authorize
  BY <1>0, <1>1, <1>2, <1>8 DEF Authorize
<1>9. CASE AuthorizeAnswered
  <2>1. \/ Fails
        \/ /\ \E r \in Readings : HandleMethod(r) \/ Taken(r)
           /\ UNCHANGED <<shareVars, countVars, given>>
    BY <1>9 DEF AuthorizeAnswered
  <2>2. (\E r \in Readings : HandleMethod(r) \/ Taken(r)) => disturbed' \in BOOLEAN
    BY <1>0, Disturbing DEF Taken
  <2> QED
    BY <1>1, <1>2, <2>1, <2>2
<1>10. CASE ExtranonceAnswered
  BY <1>0, <1>1, <1>10, Disturbing DEF ExtranonceAnswered
<1>11. CASE Receive
  <2>1. PICK r \in Readings : HandleMethod(r) /\ ShareResult(r.line)
    BY <1>11 DEF Receive
  <2>2. UNCHANGED <<given, overlapped>> /\ disturbed' \in BOOLEAN
    BY <1>0, <1>11, <2>1, Disturbing DEF Receive
  <2>3. CASE AnswersShare(r.line)
    <3>1. r.line.verdict \in {"yes", "no"}
      BY <1>0, <2>3, ReadingTakes, LineFields DEF ConnType, AnswersShare
    <3>2. tally' \in [{"yes", "no"} -> Nat]
      BY <1>0, <2>1, <2>3, <3>1 DEF ShareResult, CountType
    <3>3. mislabelled' \in BOOLEAN
      BY <2>1, <2>3 DEF ShareResult
    <3> QED
      BY <1>0, <2>2, <3>2, <3>3 DEF CountType
  <2>4. CASE ~AnswersShare(r.line)
    BY <1>1, <2>1, <2>2, <2>4 DEF ShareResult
  <2> QED
    BY <2>3, <2>4
<1>12. CASE FindShare \/ DiscardShare \/ WriteFails
  BY <1>0, <1>1, <1>12 DEF FindShare, DiscardShare, WriteFails
<1>13. CASE LabelShare
  <2>1. overlapped' \in BOOLEAN
    BY <1>13 DEF LabelShare
  <2> QED
    BY <1>0, <1>13, <2>1 DEF LabelShare, CountType
<1>14. CASE WriteShare
  <2>1. disturbed' \in BOOLEAN
    BY <1>14 DEF WriteShare
  <2> QED
    BY <1>1, <1>14, <2>1 DEF WriteShare
<1>15. CASE FreeUrl \/ Api
  BY <1>0, <1>1, <1>15 DEF FreeUrl, Api, SetUrl, AskReset
<1>16. CASE PoolAnswers
  <2>1. given' \in [{"yes", "no"} -> Nat]
    BY <1>0, <1>16 DEF PoolAnswers, CountType
  <2> QED
    BY <1>0, <1>16, <2>1 DEF PoolAnswers, CountType
<1>17. CASE PoolIgnores \/ PoolSends \/ PoolCloses
  BY <1>0, <1>1, <1>17 DEF PoolIgnores, PoolSends, PoolCloses
<1>18. CASE UNCHANGED vars
  BY <1>0, <1>1, <1>18 DEF vars
<1> QED
  BY <1>3, <1>4, <1>5, <1>6, <1>7, <1>8, <1>9, <1>10, <1>11, <1>12, <1>13, <1>14,
     <1>15, <1>16, <1>17, <1>18
     DEF Next, StratumThread, Workio, Ended

LEMMA TypeInvInit == Init => TypeInv
<1> SUFFICES ASSUME Init
             PROVE  TypeInv
  OBVIOUS
<1>1. ConnType
  BY NoItems DEF Init, ConnType, Places
<1>2. OtherType
  BY SessionAssumption DEF Init, OtherType
<1>3. [yes |-> 0, no |-> 0] \in [{"yes", "no"} -> Nat]
  OBVIOUS
<1>4. CountType
  BY <1>3 DEF Init, CountType
<1> QED
  BY <1>1, <1>2, <1>4 DEF TypeInv

LEMMA TypeInvStep == TypeInv /\ [Next]_vars => TypeInv'
BY ConnTypeStep, OtherTypeStep, CountTypeStep DEF TypeInv

(* The variables of the session have their types.                          *)
THEOREM TypeCorrect == Spec => []TypeOK
<1>1. TypeInv => TypeOK
  BY TypeParts
<1> QED
  BY <1>1, TypeInvInit, TypeInvStep, PTL DEF Spec, Safety

-----------------------------------------------------------------------------
(* The two races                                                           *)

(* The handshake has a socket; the pool's end of it is closed by a fault   *)
(* only; and without a fault the second mining.subscribe is still to be    *)
(* answered, or the answer is in the socket.                               *)
SubscribeInv ==
  /\ pc \in {"subscribe", "answer", "resubscribe", "reanswer"} => link
  /\ link /\ drops = 0 => peer = "open"
  /\ pc = "reanswer" /\ drops = 0 => owed # <<>> \/ wire # <<>>

(* The flag, and the reset it leads to, come from a command that is over:  *)
(* while rpc_url is replaced, that is another one.                         *)
CommandsInv ==
  /\ needReset \/ pc = "reset" => seturls >= IF apc = "idle" THEN 1 ELSE 2
  /\ apc # "idle" => seturls >= 1

RaceInv == TypeInv /\ SubscribeInv /\ CommandsInv /\ CrashNeedsARace

LEMMA NoMethodIsCrash == Fails => pc' # "crashed" /\ pc' # "reset"
BY DEF Fails

(* Faults and commands are counted, and only some steps touch the flag.    *)
LEMMA Counting ==
  ASSUME TypeInv, [Next]_vars
  PROVE  /\ drops' = drops \/ drops' = drops + 1
         /\ \/ UNCHANGED <<needReset, apc, seturls>> /\ (pc' = "reset" => pc = "reset")
            \/ Reset \/ FreeUrl \/ SetUrl \/ AskReset
         /\ \/ pc' # "crashed" \/ pc = "crashed"
            \/ ResetUrl \/ Subscribe \/ SubscribeUnanswered
<1> USE DEF apiVars, threadVars
<1>0. Fault => drops' = drops + 1
  BY DEF Fault
<1>1. NoLine \/ SendFails \/ TimesOut => drops' = drops \/ drops' = drops + 1
  BY <1>0 DEF NoLine, SendFails, TimesOut
<1>2. Fails => UNCHANGED <<needReset, apc, seturls>> /\ pc' # "reset" /\ pc' # "crashed"
  BY DEF Fails
<1>3. SubscribeFails => UNCHANGED <<needReset, apc, seturls>> /\ pc' # "reset"
  BY <1>2 DEF SubscribeFails
<1>4. CASE Reset
  BY <1>4 DEF Reset
<1>5. CASE ResetUrl \/ Top \/ Connect \/ ExtranonceUnanswered \/ ExtranonceAnswered \/ Receive
  BY <1>5 DEF ResetUrl, Top, Connect, ExtranonceUnanswered, ExtranonceAnswered, Receive
<1>6. CASE NotConnected
  BY <1>6, <1>0, <1>2 DEF NotConnected
<1>7. CASE Subscribe
  BY <1>7, <1>1, <1>3 DEF Subscribe
<1>8. CASE SubscribeUnanswered
  BY <1>8, <1>1, <1>3 DEF SubscribeUnanswered
<1>9. CASE SubscribeAnswered
  BY <1>9, <1>2 DEF SubscribeAnswered
<1>10. CASE Authorize
  BY <1>10, <1>1, <1>2 DEF Authorize
<1>11. CASE AuthorizeUnanswered
  BY <1>11, <1>1, <1>2 DEF AuthorizeUnanswered
<1>12. CASE AuthorizeAnswered
  BY <1>12, <1>2 DEF AuthorizeAnswered, AfterAuthorize
<1>13. CASE SubscribeExtranonce
  BY <1>13, <1>1 DEF SubscribeExtranonce
<1>14. CASE ReceiveNothing
  BY <1>14, <1>1 DEF ReceiveNothing
<1>15. CASE FindShare \/ DiscardShare \/ LabelShare \/ WriteShare
  BY <1>15 DEF FindShare, DiscardShare, LabelShare, WriteShare
<1>16. CASE WriteFails
  BY <1>16, <1>0 DEF WriteFails
<1>17. CASE FreeUrl \/ Api
  BY <1>17 DEF FreeUrl, Api, SetUrl, AskReset
<1>18. CASE PoolAnswers \/ PoolIgnores \/ PoolSends \/ PoolCloses
  BY <1>18, <1>0 DEF PoolAnswers, PoolIgnores, PoolSends, PoolCloses
<1>19. CASE UNCHANGED vars
  BY <1>19 DEF vars
<1> QED
  BY <1>4, <1>5, <1>6, <1>7, <1>8, <1>9, <1>10, <1>11, <1>12, <1>13, <1>14, <1>15,
     <1>16, <1>17, <1>18, <1>19
     DEF Next, StratumThread, Workio, Ended

LEMMA SubscribeInvStep ==
  ASSUME TypeInv, SubscribeInv, [Next]_vars
  PROVE  SubscribeInv'
<1>0. ConnType /\ drops \in Nat /\ (drops' = drops \/ drops' = drops + 1)
  BY Counting DEF TypeInv, OtherType
<1>1. CASE Stays
  BY <1>0, <1>1 DEF SubscribeInv, Stays, PcStays
<1>2. CASE Closes
  BY <1>2 DEF SubscribeInv, Closes, Closed
<1>3. CASE Opens
  BY <1>3 DEF SubscribeInv, Opens
<1>4. \A req \in Req : Sends(req) =>
        /\ peer = "open" \/ owed # <<>> => owed' # <<>>
        /\ UNCHANGED <<link, wire, peer>>
  <2> SUFFICES ASSUME NEW req \in Req, Sends(req)
               PROVE  /\ peer = "open" \/ owed # <<>> => owed' # <<>>
                      /\ UNCHANGED <<link, wire, peer>>
    OBVIOUS
  <2>1. owed \in Seq(Req)
    BY <1>0 DEF ConnType
  <2>2. Append(owed, req) # <<>>
    BY <2>1, AppendProperties
  <2> QED
    BY <1>0, <2>2, Sending DEF Sends
<1>5. CASE Asks
  <2>1. PICK i \in {1, 2, 3} :
          /\ Sends(Request(i, 0))
          /\ pc' = "reanswer" => pc = "resubscribe"
          /\ pc' \in {"subscribe", "answer", "resubscribe", "reanswer"} =>
               pc \in {"subscribe", "resubscribe"}
    BY <1>5 DEF Asks
  <2>2. Request(i, 0) \in Req
    BY MadeLines
  <2> QED
    BY <1>0, <1>4, <2>1, <2>2 DEF SubscribeInv
<1>6. CASE Writes
  <2>1. Sends(Request(4, share)) /\ pc' = pc /\ Request(4, share) \in Req
    BY <1>6, MadeLines DEF Writes
  <2> QED
    BY <1>0, <1>4, <2>1 DEF SubscribeInv
<1>7. CASE Reads
  BY <1>0, <1>7 DEF SubscribeInv, Reads, Takes, PcReads
<1>8. CASE PoolAnswers
  <2>1. wire' # <<>>
    BY <1>0, <1>8, PoolAnswering, AppendProperties, EmptySeq DEF ConnType
  <2> QED
    BY <1>0, <1>8, <2>1, PoolAnswering DEF SubscribeInv
<1>9. CASE PoolIgnores \/ PoolCloses
  <2>1. drops' # 0
    BY <1>0, <1>9 DEF PoolIgnores, PoolCloses, Fault
  <2> QED
    BY <1>0, <1>9, <2>1, PoolIgnoring, PoolClosing DEF SubscribeInv
<1>10. CASE PoolSends
  <2>1. wire' # <<>>
    BY <1>0, <1>10, PoolSending, AppendProperties, EmptySeq DEF ConnType
  <2> QED
    BY <1>0, <1>10, <2>1, PoolSending DEF SubscribeInv
<1> QED
  BY Moves, <1>1, <1>2, <1>3, <1>5, <1>6, <1>7, <1>8, <1>9, <1>10 DEF Pool

LEMMA CommandsInvStep ==
  ASSUME TypeInv, CommandsInv, [Next]_vars
  PROVE  CommandsInv'
<1>0. seturls \in Nat
  BY DEF TypeInv, OtherType
<1>1. CASE UNCHANGED <<needReset, apc, seturls>> /\ (pc' = "reset" => pc = "reset")
  BY <1>0, <1>1 DEF CommandsInv
<1>2. CASE Reset
  BY <1>0, <1>2 DEF CommandsInv, Reset
<1>3. CASE FreeUrl
  BY <1>0, <1>3 DEF CommandsInv, FreeUrl, threadVars
<1>4. CASE SetUrl
  BY <1>0, <1>4 DEF CommandsInv, SetUrl, threadVars
<1>5. CASE AskReset
  BY <1>0, <1>5 DEF CommandsInv, AskReset, threadVars
<1> QED
  BY <1>1, <1>2, <1>3, <1>4, <1>5, Counting

LEMMA CrashStep ==
  ASSUME RaceInv, [Next]_vars
  PROVE  CrashNeedsARace'
<1>0. /\ ConnType /\ drops \in Nat /\ (drops' = drops \/ drops' = drops + 1)
      /\ seturls \in Nat /\ SubscribeInv /\ CommandsInv /\ CrashNeedsARace
  BY Counting DEF RaceInv, TypeInv, OtherType
<1>1. seturls' = seturls \/ seturls' = seturls + 1
  BY Counting DEF RaceInv, Reset, FreeUrl, SetUrl, AskReset
<1>2. CASE pc' # "crashed" \/ pc = "crashed"
  BY <1>0, <1>1, <1>2 DEF CrashNeedsARace
<1>3. CASE ResetUrl
  <2>1. pc' = "crashed" => apc = "freed" /\ pc = "reset"
    BY <1>3 DEF ResetUrl
  <2>2. UNCHANGED seturls
    BY <1>3 DEF ResetUrl, apiVars
  <2> QED
    BY <1>0, <2>1, <2>2 DEF CommandsInv, CrashNeedsARace
<1>4. CASE Subscribe /\ pc' = "crashed"
  <2>1. SendFails /\ link /\ (peer = "open" => drops' = drops + 1)
    BY <1>0, <1>4 DEF Subscribe, SubscribeInv, SendFails, Fault
  <2> QED
    BY <1>0, <2>1 DEF SubscribeInv, CrashNeedsARace
<1>5. CASE SubscribeUnanswered /\ pc' = "crashed"
  <2>1. /\ wire = <<>> /\ pc \in {"answer", "reanswer"}
        /\ pc = "reanswer" \/ Fails
        /\ TimesOut \/ peer = "closed"
    BY <1>5 DEF SubscribeUnanswered, SubscribeFails
  <2>2. pc = "reanswer"
    BY <1>5, <2>1, NoMethodIsCrash
  <2>3. CASE peer = "closed"
    BY <1>0, <2>2, <2>3 DEF SubscribeInv, CrashNeedsARace
  <2>4. CASE TimesOut
    <3>1. owed = <<>> \/ drops' = drops + 1
      BY <2>4 DEF TimesOut, Fault
    <3> QED
      BY <1>0, <2>1, <2>2, <3>1 DEF SubscribeInv, CrashNeedsARace
  <2> QED
    BY <2>1, <2>3, <2>4
<1> QED
  BY <1>2, <1>3, <1>4, <1>5, Counting DEF RaceInv

LEMMA RaceInvInit == Init => RaceInv
BY TypeInvInit DEF Init, RaceInv, SubscribeInv, CommandsInv, CrashNeedsARace

LEMMA RaceInvStep == RaceInv /\ [Next]_vars => RaceInv'
BY TypeInvStep, SubscribeInvStep, CommandsInvStep, CrashStep DEF RaceInv

(* Released memory is used only after a lost connection or a request that  *)
(* was not answered, or with a second seturl command.                      *)
THEOREM RaceSafe == Spec => []CrashNeedsARace
<1>1. RaceInv => CrashNeedsARace
  BY DEF RaceInv
<1> QED
  BY <1>1, RaceInvInit, RaceInvStep, PTL DEF Spec, Safety

-----------------------------------------------------------------------------
(* Who has granted the connection                                          *)

IsAnswer(l) == l.kind = "answer"

(* A connection starts with nothing granted.                               *)
Ungranted == ~link => ~early /\ stage = "none"

(* The pool says yes to mining.authorize when it has authorized.           *)
GrantSeen ==
  \A l \in Lines : IsAnswer(l) /\ l.id = 2 /\ l.verdict = "yes" => stage = "authorized"

(* The lines are in step with the handshake, as long as nothing came       *)
(* early.  A subscribe is sent when nothing is under way;                  *)
Opening ==
  pc \in {"subscribe", "resubscribe"} /\ ~early =>
    stage = "none" /\ buf = <<>> /\ wire = <<>> /\ owed = <<>>

(* its answer is the first line that comes;                                *)
Unanswered == stage = "none" /\ wire = <<>> /\ (owed = <<>> \/ (Len(owed) = 1 /\ owed[1].id = 1))
Refused == stage = "none" /\ owed = <<>> /\ Len(wire) = 1 /\ ~Subscribed(wire[1])
Accepted == /\ stage = "subscribed" /\ owed = <<>>
            /\ Len(wire) >= 1 /\ Subscribed(wire[1])
            /\ \A i \in 2..Len(wire) : ~IsAnswer(wire[i])
Waiting ==
  pc \in {"answer", "reanswer"} /\ ~early =>
    buf = <<>> /\ (Unanswered \/ Refused \/ Accepted)

(* then only mining.authorize is to be answered;                           *)
OnlyAuthorize == /\ \A l \in Lines : IsAnswer(l) => l.id = 2
                 /\ \A req \in Owed : req.id = 2
Asking == pc \in {"authorize", "granted"} /\ ~early => stage = "authorized" \/ OnlyAuthorize

(* and what follows is an authorized connection.                           *)
Using ==
  pc \in {"extranonce", "extra", "recv", "loop"} /\ link /\ ~early => stage = "authorized"

GrantInv == Ungranted /\ GrantSeen /\ Opening /\ Waiting /\ Asking /\ Using

LEMMA NoLinesLeft ==
  ASSUME NEW S, NEW s \in Seq(S), Items(s) = {}
  PROVE  s = <<>>
BY ItemsOfSeq

(* What is left of the socket by a reading is what was behind the line.    *)
LEMMA ReadingLeaves ==
  ASSUME ConnType, buf = <<>>, NEW r \in Readings
  PROVE  /\ Len(wire) >= 1 /\ r.line = wire[1]
         /\ \A l \in Items(r.buf) \cup Items(r.wire) : \E i \in 2..Len(wire) : l = wire[i]
<1>1. PICK n \in 1..Len(wire) : r = [line |-> Head(wire), buf |-> SubSeq(wire, 2, n),
                                     wire |-> SubSeq(wire, n + 1, Len(wire))]
  BY DEF Readings
<1>2. r.line = Head(wire) /\ r.buf = SubSeq(wire, 2, n) /\ r.wire = SubSeq(wire, n + 1, Len(wire))
  BY <1>1
<1>3. wire \in Seq(Line) /\ Len(wire) \in Nat /\ Len(wire) >= 1 /\ Head(wire) = wire[1]
  BY LenProperties DEF ConnType
<1>4. \A i \in 1..Len(wire) : wire[i] \in Line
  BY <1>3, ElementOfSeq
<1>5. ASSUME NEW m \in 2..Len(wire) + 1, NEW k \in 1..Len(wire)
      PROVE  \A l \in Items(SubSeq(wire, m, k)) : \E i \in 2..Len(wire) : l = wire[i]
  <2> DEFINE t == SubSeq(wire, m, k)
  <2>1. m \in Int /\ k \in Int /\ \A i \in m..k : wire[i] \in Line
    BY <1>3, <1>4
  <2>2. /\ t \in Seq(Line) /\ Len(t) = IF m <= k THEN k - m + 1 ELSE 0
        /\ \A i \in 1..k - m + 1 : t[i] = wire[m + i - 1]
    BY <2>1, SubSeqProperties
  <2>3. DOMAIN t = 1..Len(t)
    BY <2>2, LenProperties
  <2> HIDE DEF t
  <2>4. ASSUME NEW i \in 1..Len(t)
        PROVE  t[i] = wire[m + i - 1] /\ m + i - 1 \in 2..Len(wire)
    BY <2>1, <2>2, <1>3
  <2>5. \A l \in Items(t) : \E i \in 2..Len(wire) : l = wire[i]
    BY <2>3, <2>4 DEF Items
  <2> QED
    BY <2>5 DEF t
<1>6. 2 \in 2..Len(wire) + 1 /\ n + 1 \in 2..Len(wire) + 1 /\ Len(wire) \in 1..Len(wire)
  BY <1>3
<1> QED
  BY <1>2, <1>3, <1>5, <1>6

LEMMA UngrantedStep ==
  ASSUME TypeInv, GrantInv, [Next]_vars
  PROVE  Ungranted'
<1>0. ConnType /\ Ungranted
  BY DEF TypeInv, GrantInv
<1>1. CASE Stays \/ Closes \/ Opens
  BY <1>0, <1>1 DEF Ungranted, Stays, Closes, Closed, Opens
<1>2. CASE Asks \/ Writes
  BY <1>0, <1>2 DEF Ungranted, Asks, Writes, Sends
<1>3. CASE Reads
  BY <1>0, <1>3 DEF Ungranted, Reads, Takes
<1>4. CASE Pool
  BY <1>0, <1>4, PoolAnswering, PoolIgnoring, PoolSending, PoolClosing DEF Pool, Ungranted
<1> QED
  BY Moves, <1>1, <1>2, <1>3, <1>4

(* The answers under way, after a step: those there were, or a new one.    *)
LEMMA NewLines ==
  ASSUME TypeInv, [Next]_vars
  PROVE  /\ Lines \subseteq Line /\ Owed \subseteq Req
         /\ \A l \in Lines' : IsAnswer(l) =>
              \/ l \in Lines /\ (stage = "authorized" => stage' = "authorized" \/ Closed)
              \/ /\ PoolAnswers
                 /\ \E v \in {"yes", "no", "none"} :
                      l = Answer(Head(owed), v) /\ stage' = Grant(Head(owed).id, v)
         /\ Closed => Lines' = {} /\ Owed' = {}
         /\ \A req \in Owed' : \/ req \in Owed
                               \/ Asks /\ \E i \in {1, 2, 3} : req = Request(i, 0) /\ Sends(req)
                               \/ Writes /\ req = Request(4, share)
<1>0. ConnType
  BY DEF TypeInv
<1>1. Lines \subseteq Line /\ Owed \subseteq Req
  BY <1>0, ItemsOfSeq DEF Lines, Owed, ConnType
<1>2. Closed => Lines' = {} /\ Owed' = {}
  BY NoItems DEF Closed, Lines, Owed
<1> DEFINE
  OldAnswers == Lines' \subseteq Lines /\ (stage = "authorized" => stage' = "authorized" \/ Closed)
  OldRequests == Owed' \subseteq Owed
<1>3. CASE Stays \/ Opens
  <2>1. OldAnswers /\ OldRequests
    BY <1>3 DEF Stays, Opens, Lines, Owed
  <2> QED
    BY <1>1, <1>2, <2>1
<1>4. CASE Closes
  BY <1>1, <1>2, <1>4 DEF Closes
<1>5. CASE Asks
  <2>1. OldAnswers
    BY <1>5 DEF Asks, Sends, Lines
  <2>2. PICK i \in {1, 2, 3} : Sends(Request(i, 0))
    BY <1>5 DEF Asks
  <2>3. Owed' \subseteq Owed \cup {Request(i, 0)}
    BY <1>0, <2>2, Sending, MadeLines DEF Owed
  <2> QED
    BY <1>1, <1>2, <1>5, <2>1, <2>2, <2>3
<1>6. CASE Writes
  <2>1. OldAnswers
    BY <1>6 DEF Writes, Sends, Lines
  <2>2. Sends(Request(4, share)) /\ Request(4, share) \in Req
    BY <1>6, MadeLines DEF Writes
  <2>3. Owed' \subseteq Owed \cup {Request(4, share)}
    BY <1>0, <2>2, Sending DEF Owed
  <2> QED
    BY <1>1, <1>2, <1>6, <2>1, <2>3
<1>7. CASE Reads
  <2>1. OldAnswers /\ OldRequests
    <3>1. PICK r \in Readings : Takes(r)
      BY <1>7 DEF Reads
    <3>2. Items(r.buf) \cup Items(r.wire) \subseteq Lines
      BY <1>0, ReadingTakes DEF ConnType
    <3> QED
      BY <3>1, <3>2 DEF Takes, Lines, Owed
  <2> QED
    BY <1>1, <1>2, <2>1
<1>8. CASE PoolAnswers
  <2>1. PICK v \in {"yes", "no", "none"} :
          /\ Items(wire') = Items(wire) \cup {Answer(Head(owed), v)}
          /\ stage' = Grant(Head(owed).id, v)
    BY <1>0, <1>8, PoolAnswering
  <2>2. Lines' = Lines \cup {Answer(Head(owed), v)}
    BY <1>0, <1>8, <2>1, PoolAnswering DEF Lines
  <2>3. stage = "authorized" => stage' = "authorized"
    BY <2>1 DEF Grant
  <2>4. OldRequests
    BY <1>0, <1>8, PoolAnswering DEF Owed
  <2> QED
    BY <1>1, <1>2, <1>8, <2>1, <2>2, <2>3, <2>4
<1>9. CASE PoolIgnores \/ PoolCloses
  <2>1. OldAnswers /\ OldRequests
    BY <1>0, <1>9, PoolIgnoring, PoolClosing, NoItems DEF Lines, Owed
  <2> QED
    BY <1>1, <1>2, <2>1
<1>10. CASE PoolSends
  <2>1. PICK l \in Line : ~IsAnswer(l) /\ Items(wire') = Items(wire) \cup {l}
    BY <1>0, <1>10, PoolSending DEF IsAnswer
  <2>2. Lines' = Lines \cup {l} /\ stage' = stage /\ OldRequests
    BY <1>0, <1>10, <2>1, PoolSending DEF Lines, Owed
  <2> QED
    BY <1>1, <1>2, <2>1, <2>2
<1> QED
  BY Moves, <1>3, <1>4, <1>5, <1>6, <1>7, <1>8, <1>9, <1>10 DEF Pool

LEMMA GrantSeenStep ==
  ASSUME TypeInv, GrantInv, [Next]_vars
  PROVE  GrantSeen'
<1> SUFFICES ASSUME NEW l \in Lines', IsAnswer(l), l.id = 2, l.verdict = "yes"
             PROVE  stage' = "authorized"
  BY DEF GrantSeen
<1>1. CASE l \in Lines /\ (stage = "authorized" => stage' = "authorized" \/ Closed)
  BY <1>1, NewLines DEF GrantInv, GrantSeen
<1>2. CASE PoolAnswers /\ \E v \in {"yes", "no", "none"} :
             l = Answer(Head(owed), v) /\ stage' = Grant(Head(owed).id, v)
  <2>1. PICK v \in {"yes", "no", "none"} :
          l = Answer(Head(owed), v) /\ stage' = Grant(Head(owed).id, v)
    BY <1>2
  <2>2. Head(owed) \in Req
    BY <1>2, PoolAnswering DEF TypeInv
  <2>3. Head(owed).id = 2 /\ v = "yes"
    BY <2>1, <2>2, MadeLines
  <2> QED
    BY <2>1, <2>3 DEF Grant
<1> QED
  BY <1>1, <1>2, NewLines

LEMMA OpeningStep ==
  ASSUME TypeInv, GrantInv, [Next]_vars
  PROVE  Opening'
<1>0. ConnType /\ Ungranted /\ Opening /\ Waiting
  BY DEF TypeInv, GrantInv
<1>1. CASE Stays
  BY <1>0, <1>1 DEF Opening, Stays, PcStays
<1>2. CASE Closes
  BY <1>2 DEF Opening, Closes
<1>3. CASE Opens
  BY <1>0, <1>3 DEF Opening, Opens, Ungranted, ConnType
<1>4. CASE Asks
  BY <1>4 DEF Opening, Asks
<1>5. CASE Writes
  BY <1>0, <1>5 DEF Opening, Writes
<1>6. CASE Reads
  <2> SUFFICES ASSUME pc' \in {"subscribe", "resubscribe"}, ~early'
               PROVE  (stage = "none" /\ buf = <<>> /\ wire = <<>> /\ owed = <<>>)'
    BY DEF Opening
  <2>1. PICK r \in Readings : Takes(r) /\ PcReads(r.line)
    BY <1>6 DEF Reads
  <2>2. pc = "answer" /\ ~Subscribed(r.line) /\ ~early
    BY <2>1 DEF PcReads, Takes
  <2>3. buf = <<>> /\ (Unanswered \/ Refused \/ Accepted)
    BY <1>0, <2>2 DEF Waiting
  <2>4. /\ Len(wire) >= 1 /\ r.line = wire[1] /\ wire # <<>>
        /\ \A l \in Items(r.buf) \cup Items(r.wire) : \E i \in 2..Len(wire) : l = wire[i]
    BY <1>0, <2>3, ReadingLeaves, ReadingTakes DEF ConnType
  <2>5. Refused
    BY <2>2, <2>3, <2>4 DEF Unanswered, Accepted
  <2>6. Items(r.buf) = {} /\ Items(r.wire) = {}
    BY <2>4, <2>5 DEF Refused
  <2>7. r.buf = <<>> /\ r.wire = <<>>
    BY <1>0, <2>6, ReadingTakes, NoLinesLeft DEF ConnType
  <2> QED
    BY <2>1, <2>5, <2>7 DEF Takes, Refused
<1>7. CASE Pool
  BY <1>0, <1>7, PoolAnswering, PoolIgnoring, PoolSending, PoolClosing DEF Pool, Opening
<1> QED
  BY Moves, <1>1, <1>2, <1>3, <1>4, <1>5, <1>6, <1>7

LEMMA WaitingStep ==
  ASSUME TypeInv, GrantInv, [Next]_vars
  PROVE  Waiting'
<1>0. ConnType /\ Opening /\ Waiting
  BY DEF TypeInv, GrantInv
<1>1. CASE Stays
  <2>1. pc' \in {"answer", "reanswer"} => pc' = pc
    BY <1>1 DEF Stays, PcStays
  <2> QED
    BY <1>0, <1>1, <2>1 DEF Waiting, Unanswered, Refused, Accepted, Stays
<1>2. CASE Closes \/ Opens \/ Reads
  BY <1>2 DEF Waiting, Closes, Opens, Reads, PcReads
<1>3. CASE Asks
  <2> SUFFICES ASSUME pc' \in {"answer", "reanswer"}, ~early'
               PROVE  buf' = <<>> /\ Unanswered'
    BY DEF Waiting
  <2>1. Sends(Request(1, 0)) /\ pc \in {"subscribe", "resubscribe"} /\ ~early
    BY <1>3 DEF Asks
  <2>2. stage = "none" /\ buf = <<>> /\ wire = <<>> /\ owed = <<>>
    BY <1>0, <2>1 DEF Opening
  <2>3. Request(1, 0) \in Req /\ Request(1, 0).id = 1
    BY MadeLines
  <2>4. owed' = <<>> \/ owed' = Append(<<>>, Request(1, 0))
    BY <1>0, <2>1, <2>2, <2>3, Sending
  <2>5. /\ Len(Append(<<>>, Request(1, 0))) = 1
        /\ Append(<<>>, Request(1, 0))[1] = Request(1, 0)
    BY <2>3, NoItems, AppendProperties
  <2> QED
    BY <2>1, <2>2, <2>3, <2>4, <2>5 DEF Sends, Unanswered
<1>4. CASE Writes
  <2>1. pc' = pc /\ (~early' => ~early /\ stage = "authorized")
    BY <1>4 DEF Writes
  <2> QED
    BY <1>0, <2>1 DEF Waiting, Unanswered, Refused, Accepted
<1>5. CASE PoolAnswers
  <2> SUFFICES ASSUME pc \in {"answer", "reanswer"}, ~early
               PROVE  buf' = <<>> /\ (Refused \/ Accepted)'
    BY <1>0, <1>5, PoolAnswering DEF Waiting
  <2>1. owed # <<>>
    BY <1>0, <1>5, PoolAnswering
  <2>2. buf = <<>> /\ Unanswered /\ Len(owed) = 1 /\ owed[1].id = 1 /\ wire = <<>>
    BY <1>0, <2>1 DEF Waiting, Unanswered, Refused, Accepted
  <2>3. owed' = <<>>
    <3>1. owed \in Seq(Req)
      BY <1>0 DEF ConnType
    <3>2. Tail(owed) \in Seq(Req) /\ Len(Tail(owed)) = 0
      BY <2>1, <2>2, <3>1, HeadTailProperties
    <3> QED
      BY <1>0, <1>5, <3>2, EmptySeq, PoolAnswering
  <2>4. Head(owed) = owed[1] /\ Head(owed) \in Req
    BY <1>0, <1>5, PoolAnswering, HeadTailProperties DEF ConnType
  <2>5. PICK v \in {"yes", "no", "none"} :
          /\ Head(owed).id # 4 => v # "none"
          /\ wire' = Append(wire, Answer(Head(owed), v))
          /\ stage' = Grant(Head(owed).id, v)
    BY <1>0, <1>5, PoolAnswering
  <2> DEFINE a == Answer(Head(owed), v)
  <2>6. /\ a \in Line /\ a.kind = "answer" /\ a.id = 1 /\ a.verdict = v
        /\ v \in {"yes", "no"}
    BY <2>2, <2>4, <2>5, MadeLines
  <2> HIDE DEF a
  <2>7. wire' = Append(<<>>, a)
    BY <2>2, <2>5 DEF a
  <2>8. Len(wire') = 1 /\ wire'[1] = a
    BY <2>6, <2>7, NoItems, AppendProperties
  <2>9. stage' = IF v = "yes" THEN "subscribed" ELSE "none"
    BY <2>2, <2>4, <2>5, <2>6 DEF Grant, Unanswered
  <2>10. Subscribed(wire'[1]) <=> v = "yes"
    BY <2>6, <2>8 DEF Subscribed
  <2>11. buf' = <<>>
    BY <1>0, <1>5, <2>2, PoolAnswering
  <2>12. CASE v = "yes"
    BY <2>3, <2>8, <2>9, <2>10, <2>11, <2>12 DEF Accepted
  <2>13. CASE v = "no"
    BY <2>3, <2>8, <2>9, <2>10, <2>11, <2>13 DEF Refused
  <2> QED
    BY <2>6, <2>12, <2>13
<1>6. CASE PoolIgnores
  <2> SUFFICES ASSUME pc \in {"answer", "reanswer"}, ~early
               PROVE  buf' = <<>> /\ Unanswered'
    BY <1>0, <1>6, PoolIgnoring DEF Waiting
  <2>1. owed # <<>> /\ owed' = Tail(owed) /\ owed \in Seq(Req)
    BY <1>0, <1>6, PoolIgnoring DEF ConnType
  <2>2. buf = <<>> /\ Unanswered /\ Len(owed) = 1
    BY <1>0, <2>1 DEF Waiting, Unanswered, Refused, Accepted
  <2>3. owed' = <<>>
    BY <2>1, <2>2, HeadTailProperties, EmptySeq
  <2> QED
    BY <1>0, <1>6, <2>2, <2>3, PoolIgnoring DEF Unanswered
<1>7. CASE PoolSends
  <2> SUFFICES ASSUME pc \in {"answer", "reanswer"}, ~early'
               PROVE  buf' = <<>> /\ Accepted'
    BY <1>0, <1>7, PoolSending DEF Waiting
  <2>1. ~early /\ stage # "none" /\ UNCHANGED <<buf, owed, stage>>
    BY <1>0, <1>7, PoolSending
  <2>2. buf = <<>> /\ Accepted
    BY <1>0, <2>1 DEF Waiting, Unanswered, Refused
  <2>3. PICK l \in Line : ~IsAnswer(l) /\ wire' = Append(wire, l)
    BY <1>0, <1>7, PoolSending DEF IsAnswer
  <2>4. wire \in Seq(Line) /\ Len(wire) \in Nat
    BY <1>0, LenProperties DEF ConnType
  <2>5. /\ Len(wire') = Len(wire) + 1
        /\ \A i \in 1..Len(wire) : wire'[i] = wire[i]
        /\ wire'[Len(wire) + 1] = l
    BY <2>3, <2>4, AppendProperties
  <2>6. \A i \in 2..Len(wire') : ~IsAnswer(wire'[i])
    <3> SUFFICES ASSUME NEW i \in 2..Len(wire')
                 PROVE  ~IsAnswer(wire'[i])
      OBVIOUS
    <3>1. CASE i = Len(wire) + 1
      BY <2>3, <2>5, <3>1
    <3>2. CASE i # Len(wire) + 1
      <4>1. i \in 2..Len(wire) /\ i \in 1..Len(wire)
        BY <2>4, <2>5, <3>2
      <4>2. wire'[i] = wire[i] /\ ~IsAnswer(wire[i])
        BY <2>2, <2>5, <4>1 DEF Accepted
      <4> QED
        BY <4>2
    <3> QED
      BY <3>1, <3>2
  <2>7. Len(wire') >= 1 /\ wire'[1] = wire[1]
    BY <2>2, <2>4, <2>5 DEF Accepted
  <2> QED
    BY <2>1, <2>2, <2>6, <2>7 DEF Accepted
<1>8. CASE PoolCloses
  <2>1. owed' = <<>> /\ UNCHANGED <<buf, wire, stage, early, pc>>
    BY <1>0, <1>8, PoolClosing
  <2> QED
    BY <1>0, <2>1 DEF Waiting, Unanswered, Refused, Accepted
<1> QED
  BY Moves, <1>1, <1>2, <1>3, <1>4, <1>5, <1>6, <1>7, <1>8 DEF Pool

LEMMA AskingStep ==
  ASSUME TypeInv, GrantInv, [Next]_vars
  PROVE  Asking'
<1>0. ConnType /\ Waiting /\ Asking
  BY DEF TypeInv, GrantInv
<1>1. CASE Stays
  <2>1. pc' \in {"authorize", "granted"} => pc' = pc
    BY <1>1 DEF Stays, PcStays
  <2>2. Lines' = Lines /\ Owed' = Owed
    BY <1>1 DEF Stays, Lines, Owed
  <2> QED
    BY <1>0, <1>1, <2>1, <2>2 DEF Asking, OnlyAuthorize, Stays
<1>2. CASE Closes
  <2>1. Lines' = {} /\ Owed' = {}
    BY <1>2, NewLines DEF Closes
  <2> QED
    BY <2>1 DEF Asking, OnlyAuthorize
<1>3. CASE Opens
  BY <1>3 DEF Asking, Opens
<1>4. CASE Asks
  <2> SUFFICES ASSUME pc' \in {"authorize", "granted"}, ~early', stage # "authorized"
               PROVE  OnlyAuthorize'
    BY <1>4 DEF Asking, Asks, Sends
  <2>1. pc = "authorize" /\ Sends(Request(2, 0)) /\ ~early
    BY <1>4 DEF Asks
  <2>2. OnlyAuthorize
    BY <1>0, <2>1 DEF Asking
  <2>3. Lines' = Lines
    BY <2>1 DEF Sends, Lines
  <2>4. Request(2, 0) \in Req /\ Request(2, 0).id = 2
    BY MadeLines
  <2>5. Owed' \subseteq Owed \cup {Request(2, 0)}
    BY <1>0, <2>1, <2>4, Sending DEF Owed
  <2> QED
    BY <2>2, <2>3, <2>4, <2>5 DEF OnlyAuthorize
<1>5. CASE Writes
  BY <1>0, <1>5 DEF Asking, Writes, Sends
<1>6. CASE Reads
  <2> SUFFICES ASSUME pc' \in {"authorize", "granted"}, ~early', stage # "authorized"
               PROVE  OnlyAuthorize'
    BY <1>6 DEF Asking, Reads, Takes
  <2>1. PICK r \in Readings : Takes(r) /\ PcReads(r.line)
    BY <1>6 DEF Reads
  <2>2. ~early /\ Lines' = Items(r.buf) \cup Items(r.wire) /\ Owed' = Owed
    BY <2>1 DEF Takes, Lines, Owed
  <2>3. CASE pc = "granted"
    <3>1. OnlyAuthorize
      BY <1>0, <2>2, <2>3 DEF Asking
    <3>2. Lines' \subseteq Lines
      BY <1>0, <2>2, ReadingTakes DEF ConnType
    <3> QED
      BY <2>2, <3>1, <3>2 DEF OnlyAuthorize
  <2>4. CASE pc \in {"answer", "reanswer"} /\ Subscribed(r.line)
    <3>1. buf = <<>> /\ (Unanswered \/ Refused \/ Accepted)
      BY <1>0, <2>2, <2>4 DEF Waiting
    <3>2. /\ Len(wire) >= 1 /\ r.line = wire[1] /\ wire # <<>>
          /\ \A l \in Items(r.buf) \cup Items(r.wire) : \E i \in 2..Len(wire) : l = wire[i]
      BY <1>0, <3>1, ReadingLeaves, ReadingTakes DEF ConnType
    <3>3. Accepted
      BY <2>4, <3>1, <3>2 DEF Unanswered, Refused
    <3>4. \A l \in Lines' : ~IsAnswer(l)
      BY <2>2, <3>2, <3>3 DEF Accepted
    <3>5. Owed' = {}
      BY <2>2, <3>3, NoItems DEF Owed, Accepted
    <3> QED
      BY <3>4, <3>5 DEF OnlyAuthorize
  <2> QED
    BY <2>1, <2>3, <2>4 DEF PcReads
<1>7. CASE Pool
  <2> SUFFICES ASSUME pc \in {"authorize", "granted"}, ~early, stage' # "authorized"
               PROVE  OnlyAuthorize'
    BY <1>0, <1>7, PoolAnswering, PoolIgnoring, PoolSending, PoolClosing DEF Pool, Asking
  <2>1. stage # "authorized"
    BY <1>0, <1>7, PoolAnswering, PoolIgnoring, PoolSending, PoolClosing DEF Pool, Grant
  <2>2. OnlyAuthorize
    BY <1>0, <2>1 DEF Asking
  <2>3. Owed' \subseteq Owed
    BY <1>0, <1>7, PoolAnswering, PoolIgnoring, PoolSending, PoolClosing, NoItems
       DEF Pool, Owed
  <2>4. ASSUME NEW l \in Lines', IsAnswer(l)
        PROVE  l.id = 2
    <3>1. CASE l \in Lines
      BY <2>2, <2>4, <3>1 DEF OnlyAuthorize
    <3>2. CASE PoolAnswers /\ \E v \in {"yes", "no", "none"} : l = Answer(Head(owed), v)
      <4>1. Head(owed) \in Req /\ Head(owed) \in Owed
        BY <1>0, <3>2, PoolAnswering
      <4> QED
        BY <2>2, <3>2, <4>1, MadeLines DEF OnlyAuthorize
    <3> QED
      BY <2>4, <3>1, <3>2, NewLines
  <2> QED
    BY <2>2, <2>3, <2>4 DEF OnlyAuthorize
<1> QED
  BY Moves, <1>1, <1>2, <1>3, <1>4, <1>5, <1>6, <1>7

LEMMA UsingStep ==
  ASSUME TypeInv, GrantInv, [Next]_vars
  PROVE  Using'
<1>0. ConnType /\ GrantSeen /\ Asking /\ Using
  BY DEF TypeInv, GrantInv
<1>1. CASE Stays
  BY <1>0, <1>1 DEF Using, Stays, PcStays
<1>2. CASE Closes \/ Opens
  BY <1>2 DEF Using, Closes, Closed, Opens
<1>3. CASE Asks \/ Writes
  BY <1>0, <1>3 DEF Using, Asks, Writes, Sends
<1>4. CASE Reads
  <2> SUFFICES ASSUME pc' \in {"extranonce", "extra", "recv", "loop"}, link', ~early'
               PROVE  stage' = "authorized"
    BY DEF Using
  <2>1. PICK r \in Readings : Takes(r) /\ PcReads(r.line)
    BY <1>4 DEF Reads
  <2>2. ~early /\ link /\ stage' = stage
    BY <2>1 DEF Takes
  <2>3. CASE pc = "granted" /\ Grants(r.line)
    <3>1. r.line \in Lines /\ IsAnswer(r.line) /\ r.line.verdict = "yes"
      BY <1>0, <2>3, ReadingTakes DEF ConnType, Grants, IsAnswer
    <3> QED
      BY <1>0, <2>2, <2>3, <3>1 DEF Asking, OnlyAuthorize, GrantSeen
  <2>4. CASE pc \in {"extra", "recv"}
    BY <1>0, <2>2, <2>4 DEF Using
  <2> QED
    BY <2>1, <2>3, <2>4 DEF PcReads
<1>5. CASE Pool
  BY <1>0, <1>5, PoolAnswering, PoolIgnoring, PoolSending, PoolClosing DEF Pool, Using, Grant
<1> QED
  BY Moves, <1>1, <1>2, <1>3, <1>4, <1>5

LEMMA GrantInvInit == Init => GrantInv
BY NoItems DEF Init, GrantInv, Ungranted, GrantSeen, Opening, Waiting, Asking, Using,
   Lines

LEMMA GrantInvStep == TypeInv /\ GrantInv /\ [Next]_vars => GrantInv'
BY UngrantedStep, GrantSeenStep, OpeningStep, WaitingStep, AskingStep, UsingStep
   DEF GrantInv

(* A connection that is used is one the pool has granted, unless something *)
(* came before its turn.                                                   *)
THEOREM AuthorizedSafe == Spec => []AuthorizedByPool
<1>1. GrantInv => AuthorizedByPool
  BY DEF GrantInv, Using, AuthorizedByPool, Established
<1> QED
  BY <1>1, TypeInvInit, TypeInvStep, GrantInvInit, GrantInvStep, PTL DEF Spec, Safety

-----------------------------------------------------------------------------
(* The difficulty a share is reported with                                 *)

(* While shares are sent one at a time, stratum.sharediff is that of every *)
(* share under way, be it to be sent, to be answered or to be read.        *)
Labelled ==
  /\ \A l \in Lines : IsAnswer(l) /\ l.id = 4 => l.diff = sharediff
  /\ \A req \in Owed : req.id = 4 => req.diff = sharediff
  /\ wpc = "write" => share = sharediff
LabelInv == ~overlapped => Labelled /\ ~mislabelled

LEMMA UnreadLines ==
  ASSUME ConnType
  PROVE  /\ Unread <=> \E l \in Lines : IsAnswer(l) /\ l.id = 4
         /\ ShareOwed <=> \E req \in Owed : req.id = 4
<1>1. ShareOwed <=> \E req \in Owed : req.id = 4
  BY DEF ShareOwed, Owed, Items
<1>2. buf \in Seq(Line) /\ wire \in Seq(Line) /\ Len(buf) \in Nat /\ Len(wire) \in Nat
      /\ DOMAIN buf = 1..Len(buf) /\ DOMAIN wire = 1..Len(wire)
  BY LenProperties DEF ConnType
<1>3. /\ buf \o wire \in Seq(Line)
      /\ Len(buf \o wire) = Len(buf) + Len(wire)
      /\ \A i \in 1..Len(buf) + Len(wire) :
           (buf \o wire)[i] = IF i <= Len(buf) THEN buf[i] ELSE wire[i - Len(buf)]
  BY <1>2, ConcatProperties
<1>4. DOMAIN (buf \o wire) = 1..Len(buf) + Len(wire)
  BY <1>3, LenProperties
<1>5. Items(buf \o wire) = Lines
  <2>1. ASSUME NEW i \in 1..Len(buf) + Len(wire)
        PROVE  (buf \o wire)[i] \in Lines
    <3>1. CASE i <= Len(buf)
      BY <1>2, <1>3, <2>1, <3>1 DEF Lines, Items
    <3>2. CASE i > Len(buf)
      <4>1. i - Len(buf) \in 1..Len(wire) /\ (buf \o wire)[i] = wire[i - Len(buf)]
        BY <1>2, <1>3, <3>2
      <4> QED
        BY <1>2, <4>1 DEF Lines, Items
    <3> QED
      BY <1>2, <3>1, <3>2
  <2>2. ASSUME NEW i \in 1..Len(buf)
        PROVE  i \in 1..Len(buf) + Len(wire) /\ (buf \o wire)[i] = buf[i]
    BY <1>2, <1>3
  <2>3. ASSUME NEW i \in 1..Len(wire)
        PROVE  /\ i + Len(buf) \in 1..Len(buf) + Len(wire)
               /\ (buf \o wire)[i + Len(buf)] = wire[i]
    <3>1. i + Len(buf) \in 1..Len(buf) + Len(wire) /\ ~(i + Len(buf) <= Len(buf))
          /\ (i + Len(buf)) - Len(buf) = i
      BY <1>2
    <3> QED
      BY <1>3, <3>1
  <2>4. Items(buf \o wire) \subseteq Lines
    BY <1>4, <2>1 DEF Items
  <2>5. Items(buf) \subseteq Items(buf \o wire)
    BY <1>2, <1>4, <2>2 DEF Items
  <2>6. Items(wire) \subseteq Items(buf \o wire)
    BY <1>2, <1>4, <2>3 DEF Items
  <2> QED
    BY <2>4, <2>5, <2>6 DEF Lines
<1>6. Unread <=> \E l \in Items(buf \o wire) : IsAnswer(l) /\ l.id = 4
  BY DEF Unread, Items, IsAnswer
<1> QED
  BY <1>1, <1>5, <1>6

(* Which steps touch the share, its difficulty and what is reported.       *)
LEMMA Labelling ==
  ASSUME [Next]_vars
  PROVE  /\ \/ LabelShare
            \/ /\ UNCHANGED <<sharediff, overlapped>>
               /\ wpc' = "write" => wpc = "write" /\ share' = share
         /\ mislabelled' = mislabelled \/ Receive
<1> USE DEF shareVars, countVars
<1> DEFINE Kept == UNCHANGED <<sharediff, overlapped, mislabelled>>
                   /\ (wpc' = "write" => wpc = "write" /\ share' = share)
<1>1. Fails \/ SubscribeFails => Kept
  BY DEF Fails, SubscribeFails
<1>2. CASE Reset \/ ResetUrl \/ Top \/ Connect \/ SubscribeExtranonce
           \/ ExtranonceUnanswered \/ ExtranonceAnswered \/ ReceiveNothing
  BY <1>2 DEF Reset, ResetUrl, Top, Connect, SubscribeExtranonce, ExtranonceUnanswered,
              ExtranonceAnswered, ReceiveNothing
<1>3. CASE NotConnected \/ SubscribeUnanswered \/ AuthorizeUnanswered
  BY <1>1, <1>3 DEF NotConnected, SubscribeUnanswered, AuthorizeUnanswered
<1>4. CASE Subscribe
  BY <1>1, <1>4 DEF Subscribe
<1>5. CASE SubscribeAnswered
  BY <1>1, <1>5 DEF SubscribeAnswered
<1>6. CASE Authorize
  BY <1>1, <1>6 DEF Authorize
<1>7. CASE AuthorizeAnswered
  BY <1>1, <1>7 DEF AuthorizeAnswered
<1>8. CASE Receive
  BY <1>8 DEF Receive
<1>9. CASE FindShare \/ DiscardShare \/ WriteShare \/ WriteFails
  BY <1>9 DEF FindShare, DiscardShare, WriteShare, WriteFails
<1>10. CASE LabelShare
  BY <1>10 DEF LabelShare
<1>11. CASE FreeUrl \/ Api
  BY <1>11 DEF FreeUrl, Api, SetUrl, AskReset
<1>12. CASE PoolAnswers \/ PoolIgnores \/ PoolSends \/ PoolCloses
  BY <1>12 DEF PoolAnswers, PoolIgnores, PoolSends, PoolCloses
<1>13. CASE UNCHANGED vars
  BY <1>13 DEF vars
<1> QED
  BY <1>2, <1>3, <1>4, <1>5, <1>6, <1>7, <1>8, <1>9, <1>10, <1>11, <1>12, <1>13
     DEF Next, StratumThread, Workio, Ended

LEMMA LabelInvStep ==
  ASSUME TypeInv, LabelInv, [Next]_vars
  PROVE  LabelInv'
<1>0. ConnType
  BY DEF TypeInv
<1>1. CASE LabelShare
  <2> SUFFICES ASSUME ~overlapped'
               PROVE  Labelled' /\ ~mislabelled'
    BY DEF LabelInv
  <2>1. ~overlapped /\ ~ShareOwed /\ ~Unread
    BY <1>1 DEF LabelShare
  <2>2. Lines' = Lines /\ Owed' = Owed /\ mislabelled' = mislabelled
    BY <1>1 DEF LabelShare, connVars, poolVars, countVars, Lines, Owed
  <2>3. share' = share /\ sharediff' = share
    BY <1>1 DEF LabelShare, Noted
  <2>4. /\ \A l \in Lines : ~(IsAnswer(l) /\ l.id = 4)
        /\ \A req \in Owed : req.id # 4
    BY <1>0, <2>1, UnreadLines
  <2> QED
    BY <2>1, <2>2, <2>3, <2>4 DEF LabelInv, Labelled
<1>2. CASE /\ UNCHANGED <<sharediff, overlapped>>
           /\ wpc' = "write" => wpc = "write" /\ share' = share
  <2> SUFFICES ASSUME ~overlapped
               PROVE  Labelled' /\ ~mislabelled'
    BY <1>2 DEF LabelInv
  <2>1. Labelled /\ ~mislabelled
    BY DEF LabelInv
  <2>2. ASSUME NEW req \in Owed', req.id = 4
        PROVE  req.diff = sharediff
    <3>1. CASE req \in Owed
      BY <2>1, <2>2, <3>1 DEF Labelled
    <3>2. CASE \E i \in {1, 2, 3} : req = Request(i, 0)
      BY <2>2, <3>2, MadeLines
    <3>3. CASE Writes /\ req = Request(4, share)
      <4>1. wpc = "write" /\ share \in Diffs
        BY <3>3 DEF Writes
      <4> QED
        BY <2>1, <3>3, <4>1, MadeLines DEF Labelled
    <3> QED
      BY <3>1, <3>2, <3>3, NewLines
  <2>3. ASSUME NEW l \in Lines', IsAnswer(l), l.id = 4
        PROVE  l.diff = sharediff
    <3>1. CASE l \in Lines
      BY <2>1, <2>3, <3>1 DEF Labelled
    <3>2. CASE PoolAnswers /\ \E v \in {"yes", "no", "none"} : l = Answer(Head(owed), v)
      <4>1. Head(owed) \in Req /\ Head(owed) \in Owed
        BY <1>0, <3>2, PoolAnswering
      <4> QED
        BY <2>1, <2>3, <3>2, <4>1, MadeLines DEF Labelled
    <3> QED
      BY <2>3, <3>1, <3>2, NewLines
  <2>4. wpc' = "write" => share' = sharediff'
    BY <1>2, <2>1 DEF Labelled
  <2>5. ~mislabelled'
    <3>1. CASE mislabelled' = mislabelled
      BY <2>1, <3>1
    <3>2. CASE Receive
      <4>1. PICK r \in Readings : ShareResult(r.line)
        BY <3>2 DEF Receive
      <4>2. r.line \in Lines /\ r.line \in Line
        BY <1>0, ReadingTakes DEF ConnType
      <4>3. AnswersShare(r.line) => r.line.diff = sharediff
        BY <2>1, <4>2, LineFields DEF AnswersShare, Labelled, IsAnswer
      <4> QED
        BY <2>1, <4>1, <4>3 DEF ShareResult, countVars
    <3> QED
      BY <3>1, <3>2, Labelling
  <2> QED
    BY <1>2, <2>2, <2>3, <2>4, <2>5 DEF Labelled
<1> QED
  BY <1>1, <1>2, Labelling

LEMMA LabelInvInit == Init => LabelInv
BY NoItems DEF Init, LabelInv, Labelled, Lines, Owed

(* A share is reported with its own difficulty as long as none is sent     *)
(* before the one before it is answered.                                   *)
THEOREM LabelsSafe == Spec => []LabelsRight
<1>1. TypeInv /\ LabelInv => LabelsRight
  BY DEF LabelInv, LabelsRight
<1>2. TypeInv /\ LabelInv /\ [Next]_vars => LabelInv'
  BY LabelInvStep
<1> QED
  BY <1>1, <1>2, TypeInvInit, TypeInvStep, LabelInvInit, PTL DEF Spec, Safety

-----------------------------------------------------------------------------
(* The number of answers to shares                                         *)

IsShare(l, v) == l.kind = "answer" /\ l.id = 4 /\ l.verdict = v
One(l, v) == IF IsShare(l, v) THEN 1 ELSE 0
(* The positions from a to b where s has one.                              *)
Positions(s, a, b, v) == {i \in a..b : IsShare(s[i], v)}

LEMMA PlacesFinite ==
  ASSUME NEW s, NEW a \in Int, NEW b \in Int, NEW v
  PROVE  IsFiniteSet(Positions(s, a, b, v)) /\ Cardinality(Positions(s, a, b, v)) \in Nat
<1>1. IsFiniteSet(a..b)
  BY FS_Interval
<1>2. Positions(s, a, b, v) \in SUBSET (a..b)
  BY DEF Positions
<1> QED
  BY <1>1, <1>2, FS_Subset, FS_CardinalityType

LEMMA CountPlaces ==
  ASSUME NEW S, NEW s \in Seq(S), NEW v
  PROVE  ShareAnswers(s, v) = Cardinality(Positions(s, 1, Len(s), v))
<1>1. DOMAIN s = 1..Len(s)
  BY LenProperties
<1> QED
  BY <1>1 DEF ShareAnswers, Positions, IsShare

(* Two ranges, one after the other.                                        *)
LEMMA PlacesSplit ==
  ASSUME NEW s, NEW a \in Int, NEW b \in Int, NEW c \in Int,
         NEW d, d = b + 1, a <= d, b <= c, NEW v
  PROVE  Cardinality(Positions(s, a, c, v)) =
           Cardinality(Positions(s, a, b, v)) + Cardinality(Positions(s, d, c, v))
<1>1. Positions(s, a, c, v) = Positions(s, a, b, v) \cup Positions(s, d, c, v)
  <2>1. a..c = (a..b) \cup (d..c)
    OBVIOUS
  <2> QED
    BY <2>1 DEF Positions
<1>2. Positions(s, a, b, v) \cap Positions(s, d, c, v) = {}
  BY DEF Positions
<1>3. /\ IsFiniteSet(Positions(s, a, b, v)) /\ Cardinality(Positions(s, a, b, v)) \in Nat
      /\ IsFiniteSet(Positions(s, d, c, v)) /\ Cardinality(Positions(s, d, c, v)) \in Nat
  BY PlacesFinite
<1>4. Cardinality({}) = 0
  BY FS_EmptySet
<1>5. Cardinality(Positions(s, a, b, v) \cup Positions(s, d, c, v)) =
        Cardinality(Positions(s, a, b, v)) + Cardinality(Positions(s, d, c, v))
        - Cardinality(Positions(s, a, b, v) \cap Positions(s, d, c, v))
  BY <1>3, FS_Union
<1>6. Cardinality(Positions(s, a, b, v) \cap Positions(s, d, c, v)) = 0
  BY <1>2, <1>4
<1> QED
  BY <1>1, <1>3, <1>5, <1>6

LEMMA PlacesNone ==
  ASSUME NEW s, NEW a \in Int, NEW b \in Int, b < a, NEW v
  PROVE  Cardinality(Positions(s, a, b, v)) = 0
<1>1. Positions(s, a, b, v) = {}
  BY DEF Positions
<1> QED
  BY <1>1, FS_EmptySet

LEMMA PlacesOne ==
  ASSUME NEW s, NEW a \in Int, NEW v
  PROVE  Cardinality(Positions(s, a, a, v)) = One(s[a], v)
<1>1. CASE IsShare(s[a], v)
  <2>1. Positions(s, a, a, v) = {a}
    BY <1>1 DEF Positions
  <2> QED
    BY <1>1, <2>1, FS_Singleton, FS_EmptySet DEF One, Positions
<1>2. CASE ~IsShare(s[a], v)
  <2>1. Positions(s, a, a, v) = {}
    BY <1>2 DEF Positions
  <2> QED
    BY <1>2, <2>1, FS_EmptySet DEF One, Positions
<1> QED
  BY <1>1, <1>2

(* A part of a sequence has what the sequence has there.                   *)
LEMMA PlacesShift ==
  ASSUME NEW s, NEW t, NEW k \in Nat, NEW n \in Nat, NEW v,
         NEW a, a = k + 1, NEW b, b = k + n,
         \A i \in 1..n : t[i] = s[i + k]
  PROVE  Cardinality(Positions(t, 1, n, v)) = Cardinality(Positions(s, a, b, v))
<1> DEFINE A == Positions(t, 1, n, v)
           B == Positions(s, a, b, v)
           F == [i \in A |-> i + k]
<1>1. \A i \in A : i \in 1..n /\ i + k \in B
  BY DEF Positions
<1>2. \A j \in B : j - k \in A /\ j \in Int
  <2> SUFFICES ASSUME NEW j \in B
               PROVE  j - k \in A /\ j \in Int
    OBVIOUS
  <2>1. j \in a..b /\ IsShare(s[j], v)
    BY DEF Positions
  <2>2. j - k \in 1..n /\ (j - k) + k = j
    BY <2>1
  <2> QED
    BY <2>1, <2>2 DEF Positions
<1>3. IsFiniteSet(A)
  BY PlacesFinite
<1> HIDE DEF A, B
<1>4. F \in [A -> B]
  BY <1>1
<1>5. \A i, j \in A : F[i] = F[j] => i = j
  BY <1>1
<1>6. \A j \in B : \E i \in A : F[i] = j
  <2> SUFFICES ASSUME NEW j \in B
               PROVE  F[j - k] = j /\ j - k \in A
    OBVIOUS
  <2> QED
    BY <1>2
<1>7. F \in Bijection(A, B)
  BY <1>4, <1>5, <1>6, Fun_IsBij
<1>8. ExistsBijection(A, B)
  BY <1>7, Fun_ExistsBij
<1>9. Cardinality(B) = Cardinality(A)
  BY <1>3, <1>8, FS_Bijection
<1> QED
  BY <1>9 DEF A, B

LEMMA CountEmpty ==
  ASSUME NEW v
  PROVE  ShareAnswers(<<>>, v) = 0
<1>1. {i \in DOMAIN <<>> : <<>>[i].kind = "answer" /\ <<>>[i].id = 4 /\ <<>>[i].verdict = v} = {}
  OBVIOUS
<1> QED
  BY <1>1, FS_EmptySet DEF ShareAnswers

LEMMA CountNat ==
  ASSUME NEW S, NEW s \in Seq(S), NEW v
  PROVE  ShareAnswers(s, v) \in Nat
BY CountPlaces, PlacesFinite, LenProperties

LEMMA CountAppend ==
  ASSUME NEW S, NEW s \in Seq(S), NEW x \in S, NEW v
  PROVE  ShareAnswers(Append(s, x), v) = ShareAnswers(s, v) + One(x, v)
<1> DEFINE t == Append(s, x)
           n == Len(s)
<1>1. /\ t \in Seq(S) /\ Len(t) = n + 1 /\ n \in Nat
      /\ \A i \in 1..n : t[i] = s[i]
      /\ t[n + 1] = x
  BY AppendProperties, LenProperties
<1> HIDE DEF t, n
<1>2. ShareAnswers(t, v) = Cardinality(Positions(t, 1, n + 1, v))
  BY <1>1, CountPlaces
<1>3. ShareAnswers(s, v) = Cardinality(Positions(s, 1, n, v))
  BY CountPlaces DEF n
<1>4. Positions(s, 1, n, v) = Positions(t, 1, n, v)
  BY <1>1 DEF Positions
<1>5. Cardinality(Positions(t, 1, n + 1, v)) =
        Cardinality(Positions(t, 1, n, v)) + Cardinality(Positions(t, n + 1, n + 1, v))
  BY <1>1, PlacesSplit
<1>6. Cardinality(Positions(t, n + 1, n + 1, v)) = One(x, v)
  BY <1>1, PlacesOne
<1> QED
  BY <1>2, <1>3, <1>4, <1>5, <1>6 DEF t

LEMMA CountSubSeq ==
  ASSUME NEW S, NEW s \in Seq(S), NEW m \in 1..Len(s) + 1, NEW n \in 0..Len(s), NEW v
  PROVE  ShareAnswers(SubSeq(s, m, n), v) = Cardinality(Positions(s, m, n, v))
<1> DEFINE t == SubSeq(s, m, n)
           k == m - 1
<1>0. Len(s) \in Nat
  BY LenProperties
<1>1. m \in Int /\ n \in Int /\ k \in Nat /\ k + 1 = m
  BY <1>0
<1>2. \A i \in m..n : s[i] \in S
  BY <1>0, ElementOfSeq
<1>3. /\ t \in Seq(S) /\ Len(t) = IF m <= n THEN n - m + 1 ELSE 0
      /\ \A i \in 1..n - m + 1 : t[i] = s[m + i - 1]
  BY <1>1, <1>2, SubSeqProperties
<1> HIDE DEF t, k
<1>4. ShareAnswers(t, v) = Cardinality(Positions(t, 1, Len(t), v)) /\ Len(t) \in Nat
  BY <1>3, CountPlaces, LenProperties
<1>5. CASE m <= n
  <2>1. ASSUME NEW i \in 1..Len(t)
        PROVE  t[i] = s[i + k]
    <3>1. i \in 1..n - m + 1
      BY <1>1, <1>3, <1>5
    <3>2. m + i - 1 = i + k
      BY <1>1, <3>1 DEF k
    <3> QED
      BY <1>3, <3>1, <3>2
  <2>2. Cardinality(Positions(t, 1, Len(t), v)) = Cardinality(Positions(s, k + 1, k + Len(t), v))
    BY <1>1, <1>4, <2>1, PlacesShift
  <2>3. k + Len(t) = n
    BY <1>1, <1>3, <1>5
  <2> QED
    BY <1>1, <1>4, <2>2, <2>3 DEF t
<1>6. CASE ~(m <= n)
  <2>1. Cardinality(Positions(s, m, n, v)) = 0
    BY <1>1, <1>6, PlacesNone
  <2>2. Len(t) = 0
    BY <1>3, <1>6
  <2>3. Cardinality(Positions(t, 1, 0, v)) = 0
    BY PlacesNone
  <2> QED
    BY <1>4, <2>1, <2>2, <2>3 DEF t
<1> QED
  BY <1>5, <1>6
LEMMA CountTail ==
  ASSUME NEW S, NEW s \in Seq(S), s # <<>>, NEW v
  PROVE  ShareAnswers(s, v) = One(Head(s), v) + ShareAnswers(Tail(s), v)
<1> DEFINE t == Tail(s)
           n == Len(s)
<1>1. /\ n \in Nat /\ n >= 1 /\ Head(s) = s[1]
      /\ t \in Seq(S) /\ Len(t) = n - 1 /\ \A i \in 1..Len(t) : t[i] = s[i + 1]
  BY HeadTailProperties, LenProperties
<1>2. ShareAnswers(s, v) = Cardinality(Positions(s, 1, n, v))
  BY CountPlaces
<1>3. ShareAnswers(t, v) = Cardinality(Positions(t, 1, n - 1, v))
  BY <1>1, CountPlaces
<1> HIDE DEF t, n
<1>4. Cardinality(Positions(t, 1, n - 1, v)) = Cardinality(Positions(s, 2, n, v))
  <2>1. PICK m \in Nat : m = n - 1
    BY <1>1
  <2>2. n = 1 + m /\ \A i \in 1..m : t[i] = s[i + 1]
    BY <1>1, <2>1
  <2>3. \A k \in Nat : \A a : a = k + 1 /\ n = k + m /\ (\A i \in 1..m : t[i] = s[i + k]) =>
          Cardinality(Positions(t, 1, m, v)) = Cardinality(Positions(s, a, n, v))
    BY PlacesShift
  <2>4. 1 \in Nat /\ 2 = 1 + 1
    OBVIOUS
  <2> QED
    BY <2>1, <2>2, <2>3, <2>4
<1>6. Cardinality(Positions(s, 1, n, v)) =
        Cardinality(Positions(s, 1, 1, v)) + Cardinality(Positions(s, 2, n, v))
  BY <1>1, PlacesSplit
<1>7. Cardinality(Positions(s, 1, 1, v)) = One(Head(s), v)
  BY <1>1, PlacesOne
<1> QED
  BY <1>2, <1>3, <1>4, <1>6, <1>7 DEF t

(* A reading takes one line out of what is under way.                      *)
LEMMA CountReading ==
  ASSUME ConnType, NEW r \in Readings, NEW v
  PROVE  /\ ShareAnswers(r.buf, v) \in Nat /\ ShareAnswers(r.wire, v) \in Nat
         /\ One(r.line, v) \in {0, 1}
         /\ InFlight(v) = One(r.line, v) + ShareAnswers(r.buf, v) + ShareAnswers(r.wire, v)
<1>0. buf \in Seq(Line) /\ wire \in Seq(Line) /\ Len(wire) \in Nat
  BY LenProperties DEF ConnType
<1>1. ShareAnswers(r.buf, v) \in Nat /\ ShareAnswers(r.wire, v) \in Nat
  BY <1>0, ReadingTakes, CountNat
<1>2. One(r.line, v) \in {0, 1}
  BY DEF One
<1>3. CASE buf # <<>>
  <2>1. r = [line |-> Head(buf), buf |-> Tail(buf), wire |-> wire]
    BY <1>3 DEF Readings
  <2>2. r.line = Head(buf) /\ r.buf = Tail(buf) /\ r.wire = wire
    BY <2>1
  <2>3. ShareAnswers(buf, v) = One(r.line, v) + ShareAnswers(r.buf, v)
    BY <1>0, <1>3, <2>2, CountTail
  <2>4. InFlight(v) = ShareAnswers(buf, v) + ShareAnswers(r.wire, v)
    BY <2>2 DEF InFlight
  <2> QED
    BY <1>1, <1>2, <2>3, <2>4
<1>4. CASE buf = <<>>
  <2>1. PICK n \in 1..Len(wire) : r = [line |-> Head(wire), buf |-> SubSeq(wire, 2, n),
                                       wire |-> SubSeq(wire, n + 1, Len(wire))]
    BY <1>4 DEF Readings
  <2>2. r.line = Head(wire) /\ r.buf = SubSeq(wire, 2, n) /\ r.wire = SubSeq(wire, n + 1, Len(wire))
    BY <2>1
  <2>3. /\ n \in Int /\ 2 \in 1..Len(wire) + 1 /\ n + 1 \in 1..Len(wire) + 1 /\ n \in 0..Len(wire)
        /\ Len(wire) \in 0..Len(wire) /\ Len(wire) \in Int /\ 2 <= n + 1 /\ n <= Len(wire)
        /\ 1 <= Len(wire) /\ wire # <<>>
    BY <1>0, EmptySeq
  <2>4. ShareAnswers(r.buf, v) = Cardinality(Positions(wire, 2, n, v))
    BY <1>0, <2>2, <2>3, CountSubSeq
  <2>5. ShareAnswers(r.wire, v) = Cardinality(Positions(wire, n + 1, Len(wire), v))
    BY <1>0, <2>2, <2>3, CountSubSeq
  <2>6. Cardinality(Positions(wire, 2, Len(wire), v)) =
          ShareAnswers(r.buf, v) + ShareAnswers(r.wire, v)
    BY <2>3, <2>4, <2>5, PlacesSplit
  <2>7. Cardinality(Positions(wire, 1, Len(wire), v)) =
          Cardinality(Positions(wire, 1, 1, v)) + Cardinality(Positions(wire, 2, Len(wire), v))
    <3>1. \A b \in Int : \A d : d = b + 1 /\ 1 <= d /\ b <= Len(wire) =>
            Cardinality(Positions(wire, 1, Len(wire), v)) =
              Cardinality(Positions(wire, 1, b, v)) + Cardinality(Positions(wire, d, Len(wire), v))
      BY <2>3, PlacesSplit
    <3>2. 1 \in Int /\ 2 = 1 + 1 /\ 1 <= 2
      OBVIOUS
    <3> QED
      BY <2>3, <3>1, <3>2
  <2>8. Cardinality(Positions(wire, 1, 1, v)) = One(r.line, v)
    <3>1. r.line = wire[1]
      BY <1>0, <2>2, <2>3, HeadTailProperties
    <3> QED
      BY <3>1, PlacesOne
  <2>9. ShareAnswers(wire, v) = One(r.line, v) + ShareAnswers(r.buf, v) + ShareAnswers(r.wire, v)
    <3>1. ShareAnswers(wire, v) = Cardinality(Positions(wire, 1, Len(wire), v))
      BY <1>0, CountPlaces
    <3> QED
      BY <1>1, <1>2, <2>6, <2>7, <2>8, <3>1
  <2>10. InFlight(v) = ShareAnswers(wire, v)
    <3>1. ShareAnswers(buf, v) = 0 /\ ShareAnswers(wire, v) \in Nat
      BY <1>0, <1>4, CountEmpty, CountNat
    <3> QED
      BY <3>1 DEF InFlight
  <2> QED
    BY <1>1, <1>2, <2>9, <2>10
<1> QED
  BY <1>1, <1>2, <1>3, <1>4

-----------------------------------------------------------------------------
(* Every share counted                                                     *)

Handshake == {"subscribe", "answer", "resubscribe", "reanswer",
              "authorize", "granted", "extranonce", "extra"}
NoShares == /\ \A l \in Lines : IsAnswer(l) => l.id # 4
            /\ \A req \in Owed : req.id # 4

(* A handshake, which drops lines without counting them, meets no share.   *)
CountInv == CountsRight /\ (~disturbed /\ pc \in Handshake => NoShares)

(* A step takes a line, adds one, closes the connection or leaves the      *)
(* lines as they are.                                                      *)
LEMMA Accounting ==
  ASSUME TypeInv, [Next]_vars
  PROVE  \/ Close /\ UNCHANGED <<tally, given>>
         \/ /\ UNCHANGED <<buf, wire, tally, given>>
            /\ disturbed' = disturbed \/ WriteShare
         \/ /\ UNCHANGED <<disturbed, given>>
            /\ \E r \in Readings :
                 /\ Takes(r)
                 /\ (pc \in Handshake /\ UNCHANGED tally) \/ ShareResult(r.line)
         \/ (PoolAnswers \/ PoolSends) /\ UNCHANGED <<tally, disturbed>>
<1> USE DEF countVars, connVars, poolVars
<1> DEFINE Shuts == Close /\ UNCHANGED <<tally, given>>
           Still == UNCHANGED <<buf, wire, tally, given, disturbed>>
           Reading == /\ UNCHANGED <<disturbed, given>>
                      /\ \E r \in Readings :
                           /\ Takes(r)
                           /\ (pc \in Handshake /\ UNCHANGED tally) \/ ShareResult(r.line)
<1>1. Fails => Shuts
  BY DEF Fails
<1>2. SubscribeFails => Shuts \/ Still
  BY <1>1 DEF SubscribeFails
<1>3. CASE Reset \/ ReceiveNothing
  BY <1>3 DEF Reset, ReceiveNothing
<1>4. CASE ResetUrl \/ Top \/ Connect \/ SubscribeExtranonce \/ ExtranonceUnanswered
  BY <1>4 DEF ResetUrl, Top, Connect, SubscribeExtranonce, ExtranonceUnanswered
<1>5. CASE NotConnected \/ SubscribeUnanswered \/ AuthorizeUnanswered
  BY <1>1, <1>2, <1>5 DEF NotConnected, SubscribeUnanswered, AuthorizeUnanswered
<1>6. CASE Subscribe
  BY <1>2, <1>6 DEF Subscribe
<1>7. CASE SubscribeAnswered
  BY <1>1, <1>7 DEF SubscribeAnswered, Taken, Takes, Handshake
<1>8. CASE Authorize
  BY <1>1, <1>8 DEF Authorize
<1>9. ASSUME NEW r \in Readings, HandleMethod(r)
      PROVE  (Close /\ r.line.kind = "redirect") \/ (Takes(r) /\ disturbed' = disturbed)
  BY <1>9 DEF HandleMethod, Taken, Takes
<1>10. CASE AuthorizeAnswered
  <2>1. \/ Fails
        \/ /\ pc = "granted" /\ UNCHANGED <<tally, given>>
           /\ \E r \in Readings : HandleMethod(r) \/ (Takes(r) /\ disturbed' = disturbed)
    BY <1>10 DEF AuthorizeAnswered, Taken, Takes
  <2> QED
    BY <1>1, <1>9, <2>1 DEF Handshake
<1>11. CASE ExtranonceAnswered
  BY <1>9, <1>11 DEF ExtranonceAnswered, Handshake
<1>12. CASE Receive
  <2>1. PICK r \in Readings : HandleMethod(r) /\ ShareResult(r.line)
    BY <1>12 DEF Receive
  <2>2. given' = given
    BY <1>12 DEF Receive
  <2>3. CASE Close /\ r.line.kind = "redirect"
    BY <2>1, <2>2, <2>3 DEF ShareResult, AnswersShare
  <2>4. CASE Takes(r) /\ disturbed' = disturbed
    BY <2>1, <2>2, <2>4
  <2> QED
    BY <1>9, <2>1, <2>3, <2>4
<1>13. CASE FindShare \/ DiscardShare \/ LabelShare \/ WriteShare \/ WriteFails
  BY <1>13 DEF FindShare, DiscardShare, LabelShare, WriteShare, WriteFails
<1>14. CASE FreeUrl \/ Api
  BY <1>14 DEF FreeUrl, Api, SetUrl, AskReset
<1>15. CASE PoolAnswers \/ PoolIgnores \/ PoolSends \/ PoolCloses
  BY <1>15 DEF PoolAnswers, PoolIgnores, PoolSends, PoolCloses
<1>16. CASE UNCHANGED vars
  BY <1>16 DEF vars
<1> QED
  BY <1>3, <1>4, <1>5, <1>6, <1>7, <1>8, <1>10, <1>11, <1>12, <1>13, <1>14, <1>15, <1>16
     DEF Next, StratumThread, Workio, Ended

LEMMA InFlightNat ==
  ASSUME ConnType, NEW v
  PROVE  InFlight(v) \in Nat /\ ShareAnswers(buf, v) \in Nat /\ ShareAnswers(wire, v) \in Nat
BY CountNat DEF ConnType, InFlight

LEMMA CountsRightStep ==
  ASSUME TypeInv, CountInv, [Next]_vars
  PROVE  CountsRight'
<1> DEFINE Fair(v) == tally[v] + InFlight(v) = given[v]
<1>0. /\ ConnType /\ tally \in [{"yes", "no"} -> Nat] /\ given \in [{"yes", "no"} -> Nat]
      /\ disturbed \in BOOLEAN
  BY DEF TypeInv, CountType
<1>1. \A v \in {"yes", "no"} : tally[v] \in Nat /\ given[v] \in Nat /\ InFlight(v) \in Nat
  BY <1>0, InFlightNat
<1>2. ~disturbed => Fair("yes") /\ Fair("no")
  BY DEF CountInv, CountsRight
<1>3. (~disturbed' => Fair("yes")' /\ Fair("no")') => CountsRight'
  BY DEF CountsRight
<1>4. CASE Close /\ UNCHANGED <<tally, given>>
  <2> SUFFICES ASSUME ~disturbed'
               PROVE  Fair("yes")' /\ Fair("no")'
    BY <1>3
  <2>1. ~disturbed /\ ~(InFlight("yes") + InFlight("no") > 0)
    BY <1>4 DEF Close
  <2>2. InFlight("yes") = 0 /\ InFlight("no") = 0
    BY <1>1, <2>1
  <2>3. buf' = <<>> /\ wire' = <<>>
    BY <1>4 DEF Close
  <2>4. InFlight("yes")' = 0 /\ InFlight("no")' = 0
    BY <2>3, CountEmpty DEF InFlight
  <2> QED
    BY <1>1, <1>2, <1>4, <2>1, <2>2, <2>4
<1>5. CASE UNCHANGED <<buf, wire, tally, given>> /\ (disturbed' = disturbed \/ WriteShare)
  <2>1. InFlight("yes")' = InFlight("yes") /\ InFlight("no")' = InFlight("no")
    BY <1>5 DEF InFlight
  <2>2. ~disturbed' => ~disturbed
    BY <1>5 DEF WriteShare
  <2> QED
    BY <1>2, <1>3, <1>5, <2>1, <2>2
<1>6. CASE /\ UNCHANGED <<disturbed, given>>
           /\ \E r \in Readings :
                /\ Takes(r)
                /\ (pc \in Handshake /\ UNCHANGED tally) \/ ShareResult(r.line)
  <2> SUFFICES ASSUME ~disturbed
               PROVE  Fair("yes")' /\ Fair("no")'
    BY <1>3, <1>6
  <2>1. PICK r \in Readings :
          /\ Takes(r)
          /\ (pc \in Handshake /\ UNCHANGED tally) \/ ShareResult(r.line)
    BY <1>6
  <2>2. r.line \in Lines /\ r.line \in Line
    BY <1>0, ReadingTakes DEF ConnType
  <2>3. ASSUME NEW v \in {"yes", "no"}
        PROVE  /\ InFlight(v) = One(r.line, v) + InFlight(v)' /\ InFlight(v)' \in Nat
               /\ One(r.line, v) \in {0, 1}
    <3>1. InFlight(v)' = ShareAnswers(r.buf, v) + ShareAnswers(r.wire, v)
      BY <2>1 DEF InFlight, Takes
    <3>2. /\ ShareAnswers(r.buf, v) \in Nat /\ ShareAnswers(r.wire, v) \in Nat
          /\ One(r.line, v) \in {0, 1}
          /\ InFlight(v) = One(r.line, v) + ShareAnswers(r.buf, v) + ShareAnswers(r.wire, v)
      BY <1>0, CountReading
    <3> QED
      BY <3>1, <3>2
  <2>4. \A v \in {"yes", "no"} : tally'[v] = tally[v] + One(r.line, v)
    <3>1. CASE pc \in Handshake /\ UNCHANGED tally
      <4>1. NoShares
        BY <3>1 DEF CountInv
      <4>2. \A v \in {"yes", "no"} : One(r.line, v) = 0
        BY <2>2, <4>1 DEF NoShares, One, IsShare, IsAnswer
      <4> QED
        BY <1>1, <3>1, <4>2
    <3>2. CASE ShareResult(r.line) /\ AnswersShare(r.line)
      <4>1. r.line.id = 4 /\ r.line.kind = "answer" /\ r.line.verdict \in {"yes", "no"}
        BY <2>2, <3>2, LineFields DEF AnswersShare
      <4>2. tally' = [tally EXCEPT ![r.line.verdict] = @ + 1]
        BY <3>2 DEF ShareResult
      <4>3. \A v \in {"yes", "no"} : One(r.line, v) = IF v = r.line.verdict THEN 1 ELSE 0
        BY <4>1 DEF One, IsShare
      <4> QED
        BY <1>0, <1>1, <4>1, <4>2, <4>3
    <3>3. CASE ShareResult(r.line) /\ ~AnswersShare(r.line)
      <4>1. tally' = tally
        BY <3>3 DEF ShareResult, countVars
      <4>2. \A v \in {"yes", "no"} : One(r.line, v) = 0
        BY <3>3 DEF One, IsShare, AnswersShare
      <4> QED
        BY <1>1, <4>1, <4>2
    <3> QED
      BY <2>1, <3>1, <3>2, <3>3
  <2>5. ASSUME NEW v \in {"yes", "no"}
        PROVE  Fair(v)'
    <3>1. /\ InFlight(v) = One(r.line, v) + InFlight(v)' /\ InFlight(v)' \in Nat
          /\ One(r.line, v) \in {0, 1} /\ tally'[v] = tally[v] + One(r.line, v)
          /\ tally[v] \in Nat /\ given'[v] = given[v] /\ tally[v] + InFlight(v) = given[v]
      BY <1>1, <1>2, <1>6, <2>3, <2>4, <2>5
    <3> QED
      BY <3>1
  <2> QED
    BY <2>5
<1>7. CASE PoolAnswers /\ UNCHANGED <<tally, disturbed>>
  <2> SUFFICES ASSUME ~disturbed
               PROVE  Fair("yes")' /\ Fair("no")'
    BY <1>3, <1>7
  <2> DEFINE req == Head(owed)
  <2>1. PICK v \in {"yes", "no", "none"} :
          /\ wire' = Append(wire, Answer(req, v))
          /\ given' = IF req.id = 4 /\ v # "none" THEN [given EXCEPT ![v] = @ + 1] ELSE given
    BY <1>7 DEF PoolAnswers
  <2>2. req \in Req /\ buf' = buf
    BY <1>0, <1>7, PoolAnswering
  <2> HIDE DEF req
  <2>3. /\ Answer(req, v) \in Line /\ Answer(req, v).kind = "answer"
        /\ Answer(req, v).id = req.id /\ Answer(req, v).verdict = v
    BY <2>2, MadeLines
  <2>4. ASSUME NEW w \in {"yes", "no"}
        PROVE  Fair(w)'
    <3>1. ShareAnswers(wire', w) = ShareAnswers(wire, w) + One(Answer(req, v), w)
      BY <1>0, <2>1, <2>3, CountAppend DEF ConnType
    <3>2. InFlight(w)' = ShareAnswers(buf, w) + ShareAnswers(wire', w)
      BY <2>2 DEF InFlight
    <3>3. One(Answer(req, v), w) = IF req.id = 4 /\ v = w THEN 1 ELSE 0
      BY <2>3 DEF One, IsShare
    <3>4. given'[w] = given[w] + (IF req.id = 4 /\ v = w THEN 1 ELSE 0)
      BY <1>0, <1>1, <2>1
    <3>5. /\ ShareAnswers(buf, w) \in Nat /\ ShareAnswers(wire, w) \in Nat
          /\ InFlight(w) = ShareAnswers(buf, w) + ShareAnswers(wire, w)
          /\ tally[w] + InFlight(w) = given[w] /\ tally'[w] = tally[w]
          /\ tally[w] \in Nat /\ given[w] \in Nat
      BY <1>0, <1>1, <1>2, <1>7, InFlightNat DEF InFlight
    <3> QED
      BY <3>1, <3>2, <3>3, <3>4, <3>5
  <2> QED
    BY <2>4
<1>8. CASE PoolSends /\ UNCHANGED <<tally, disturbed>>
  <2> SUFFICES ASSUME ~disturbed
               PROVE  Fair("yes")' /\ Fair("no")'
    BY <1>3, <1>8
  <2>1. PICK l \in Line : l.kind # "answer" /\ wire' = Append(wire, l)
    BY <1>0, <1>8, PoolSending
  <2>2. buf' = buf /\ given' = given
    BY <1>8 DEF PoolSends
  <2>3. ASSUME NEW w \in {"yes", "no"}
        PROVE  InFlight(w)' = InFlight(w)
    <3>1. ShareAnswers(wire', w) = ShareAnswers(wire, w) + One(l, w) /\ One(l, w) = 0
      BY <1>0, <2>1, CountAppend DEF ConnType, One, IsShare
    <3>2. ShareAnswers(wire, w) \in Nat
      BY <1>0, InFlightNat
    <3> QED
      BY <2>2, <3>1, <3>2 DEF InFlight
  <2> QED
    BY <1>2, <1>8, <2>2, <2>3
<1> QED
  BY <1>4, <1>5, <1>6, <1>7, <1>8, Accounting

LEMMA NoSharesStep ==
  ASSUME TypeInv, CountInv, [Next]_vars, ~disturbed', pc' \in Handshake
  PROVE  NoShares'
<1>0. ConnType /\ (Closed => NoShares') /\ (~link => Lines = {} /\ Owed = {})
  BY NewLines, NoItems DEF TypeInv, ConnType, NoShares, Lines, Owed
<1>1. ~disturbed
  BY Accounting DEF Close, WriteShare, TypeInv, CountType
<1>2. CASE pc \in Handshake
  <2>1. NoShares
    BY <1>1, <1>2 DEF CountInv
  <2>2. ~Writes
    BY <1>2 DEF Writes, Established, Handshake
  <2>3. ASSUME NEW req \in Owed'
        PROVE  req.id # 4
    <3>1. CASE req \in Owed
      BY <2>1, <3>1 DEF NoShares
    <3>2. CASE \E i \in {1, 2, 3} : req = Request(i, 0)
      BY <3>2, MadeLines
    <3> QED
      BY <2>2, <3>1, <3>2, NewLines
  <2>4. ASSUME NEW l \in Lines', IsAnswer(l)
        PROVE  l.id # 4
    <3>1. CASE l \in Lines
      BY <2>1, <2>4, <3>1 DEF NoShares
    <3>2. CASE PoolAnswers /\ \E v \in {"yes", "no", "none"} : l = Answer(Head(owed), v)
      <4>1. Head(owed) \in Req /\ Head(owed) \in Owed
        BY <1>0, <3>2, PoolAnswering
      <4> QED
        BY <2>1, <3>2, <4>1, MadeLines DEF NoShares
    <3> QED
      BY <2>4, <3>1, <3>2, NewLines
  <2> QED
    BY <2>3, <2>4 DEF NoShares
<1>3. CASE pc \notin Handshake
  <2>1. CASE Stays \/ Asks \/ Reads \/ Writes \/ Pool
    <3>1. pc' = pc \/ pc' \notin Handshake \/ pc \in Handshake
      BY <1>0, <2>1, PoolAnswering, PoolIgnoring, PoolSending, PoolClosing
         DEF Stays, PcStays, Asks, Reads, PcReads, Writes, Pool, Handshake
    <3> QED
      BY <1>3, <3>1
  <2>2. CASE Closes
    BY <1>0, <2>2 DEF Closes
  <2>3. CASE Opens
    BY <1>0, <2>3 DEF Opens, ConnType, NoShares, Lines, Owed
  <2> QED
    BY <2>1, <2>2, <2>3, Moves
<1> QED
  BY <1>2, <1>3

LEMMA CountInvInit == Init => CountInv
<1> SUFFICES ASSUME Init
             PROVE  CountInv
  OBVIOUS
<1>1. InFlight("yes") = 0 /\ InFlight("no") = 0
  BY CountEmpty DEF Init, InFlight
<1> QED
  BY <1>1 DEF Init, CountInv, CountsRight, Handshake

LEMMA CountInvStep == TypeInv /\ CountInv /\ [Next]_vars => CountInv'
BY CountsRightStep, NoSharesStep DEF CountInv

(* The counters are what the pool has answered, but for the answers under  *)
(* way, unless a connection was lost with some or a share sent too early.  *)
THEOREM CountsSafe == Spec => []CountsRight
<1>1. CountInv => CountsRight
  BY DEF CountInv
<1> QED
  BY <1>1, TypeInvInit, TypeInvStep, CountInvInit, CountInvStep, PTL DEF Spec, Safety

(* All of the session's invariants, together.                              *)
THEOREM Invariance == Spec => [](RaceInv /\ GrantInv /\ LabelInv /\ CountInv)
<1>1. TypeInv /\ LabelInv /\ [Next]_vars => LabelInv'
  BY LabelInvStep
<1>2. RaceInv => TypeInv
  BY DEF RaceInv
<1> QED
  BY <1>1, <1>2, RaceInvInit, RaceInvStep, GrantInvInit, GrantInvStep, LabelInvInit,
     CountInvInit, CountInvStep, PTL
     DEF Spec, Safety
=============================================================================
