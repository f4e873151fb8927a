------------------------------ MODULE ShareTarget ------------------------------
(***************************************************************************)
(* From a difficulty to a share, and to its answer: the target of a piece  *)
(* of work, the test of a hash in the scan, the difficulty of the share,   *)
(* and whether share_result counts it as a block.                          *)
(*                                                                         *)
(* share_result reads two globals.  net_diff is that of whatever work was  *)
(* made last, or what the node answered to getmininginfo; here netOf, the  *)
(* bits it was computed from, stands for it.  stratum.sharediff is that of *)
(* the share that was sent last, which lastSent stands for.  Answers of a  *)
(* pool come later, several shares may be outstanding, and work is made in *)
(* between.                                                                *)
(*                                                                         *)
(* A hash and a target are arrays of words, the last the most significant. *)
(* A word has four bytes of ByteRadix values.  A difficulty is a fraction; *)
(* the code's doubles are taken as exact, and --hide-diff is not given.    *)
(* Which hash comes out is left open.  Any miner may still have any of the *)
(* works that were made: one place in the scan stands for all of them.     *)
(***************************************************************************)
EXTENDS Integers, Sequences, FiniteSets, FiniteSetsExt

CONSTANTS
  None,         \* no work, no share, no difficulty yet
  ByteRadix,    \* 256
  Words,        \* 8: words in a hash
  JobDiffs,     \* difficulties the pool may set
  Compacts,     \* "nbits" of headers: a mantissa of three bytes and a length
  Settings      \* what the program is started with and meets

Half == ByteRadix * ByteRadix        \* 65536
Radix == Half * Half                 \* of a word
Top == Words - 1
Bytes == 4 * Words

(* As the loops have it that multiply or divide by the base.               *)
Power(base, n) ==
  LET power[j \in 0..n] == IF j = 0 THEN 1 ELSE base * power[j - 1] IN power[n]

Protocols == {"gbt", "getwork", "stratum"}
Job == [diff : JobDiffs, nbits : Compacts]

(* The protocol at the start and those it may change to; the jobs that the *)
(* pool or the node may give; the hashes that scans come across, as        *)
(* numbers; and a bound, the number of shares that are sent.               *)
Setting ==
  [began : Protocols, next : SUBSET {"getwork", "stratum"}, jobs : SUBSET Job,
   hashes : SUBSET (0..(Power(Radix, Words) - 1)), shares : Nat]

ASSUME TargetAssumption ==
  /\ ByteRadix \in Nat \ {0, 1} /\ Words \in Nat \ {0, 1, 2}
  /\ \A d \in JobDiffs : d.num \in Nat \ {0} /\ d.den \in Nat \ {0}
  /\ \A c \in Compacts : /\ c.mantissa \in 1..(Half * ByteRadix - 1) /\ c.length \in 3..Bytes
                         /\ c.mantissa * Power(ByteRadix, c.length - 3) < Power(Radix, Words)
  /\ Settings \subseteq Setting
  /\ None \notin [nbits : Compacts, reversed : BOOLEAN]

VARIABLES
  met,          \* what this run meets
  been,         \* the protocols so far
  protocol,     \* have_gbt and have_stratum
  have_longpoll,
  allow_mininginfo,
  g_work,       \* the work made last
  works,        \* all that were made, which a miner may still have
  netOf,        \* what net_diff was computed from
  pc, work, hash, \* the scan: place, work, vhash
  sent,         \* shares without an answer yet
  lastSent,     \* the share that stratum.sharediff is of
  count,        \* shares sent
  accepted_count, solved_count

vars == <<met, been, protocol, have_longpoll, allow_mininginfo, g_work, works, netOf,
          pc, work, hash, sent, lastSent, count, accepted_count, solved_count>>
modeVars == <<met, been, protocol, have_longpoll, allow_mininginfo>>
workVars == <<g_work, works, netOf>>
scanVars == <<pc, work, hash>>
shareVars == <<sent, lastSent, count, accepted_count, solved_count>>

(* The number that the top k words of w make, for each k.                  *)
Upper(w) ==
  LET upper[k \in 0..Words] ==
        IF k = 0 THEN 0 ELSE Radix * upper[k - 1] + w[Words - k]
  IN upper
Number(w) == Upper(w)[Words]
ToWords(n) == [j \in 0..Top |-> (n \div Power(Radix, j)) % Radix]
AllOnes == [j \in 0..Top |-> Radix - 1]
Fraction(num, den) == [num |-> num, den |-> den]

(* The target of difficulty one, 0xffff << 208, as everybody counts it.    *)
Diff1 == (Half - 1) * Half * Power(Radix, Words - 2)
NetTarget(c) == c.mantissa * Power(ByteRadix, c.length - 3)

-----------------------------------------------------------------------------
(* The target                                                              *)

(* Mutant: divided before the first test.                                  *)
DividedFirst(diff, k) == Fraction(diff.num, diff.den * Power(Radix, Words - 1 - k))

(* The word diff_to_target begins with: the difficulty is divided by 2^32  *)
(* for each word it goes down.                                             *)
Divided(diff, k) == Fraction(diff.num, diff.den * Power(Radix, Words - 2 - k))
Below(k, diff) == k = 0 \/ Divided(diff, k).num <= Divided(diff, k).den
FirstWord(diff) == Max({k \in 0..(Words - 2) : Below(k, diff)})

(* (uint64_t)(4294901760.0 / diff).  A quotient of 64 bits or more has no  *)
(* defined value: it comes out as zero or as the greatest.                 *)
Quotients(diff, k) ==
  LET q == ((Half - 1) * Half * Divided(diff, k).den) \div diff.num
  IN  IF q < Radix * Radix THEN {q} ELSE {0, Radix * Radix - 1}

diff_to_target(diff) ==
  LET k == FirstWord(diff)
  IN  {IF m = 0 /\ k = Words - 2
       THEN AllOnes
       ELSE [[j \in 0..Top |-> 0] EXCEPT ![k] = m % Radix, ![k + 1] = m \div Radix] :
         m \in Quotients(diff, k)}

(* scrypt_set_target, with --diff-factor left at one.                      *)
Scaled(d) == Fraction(d.num, d.den * Half)

(* Mutant: computed for the first work only.                               *)
NetDiffOnce(c, reversed) ==
  netOf' = IF netOf = None THEN [nbits |-> c, reversed |-> reversed] ELSE netOf

(* net_diff = calc_network_diff                                            *)
SetNetDiff(c, reversed) == netOf' = [nbits |-> c, reversed |-> reversed]

MakeWork(w) == g_work' = w /\ works' = works \cup {w}

(* std_stratum_gen_work.  calc_network_diff takes the bytes of the word    *)
(* the other way round while have_longpoll is on, which it may still be    *)
(* after a change to Stratum.                                              *)
StratumWork ==
  /\ protocol = "stratum"
  /\ \E job \in met.jobs : \E t \in diff_to_target(Scaled(job.diff)) :
       /\ MakeWork([kind |-> "stratum", diff |-> job.diff, nbits |-> job.nbits,
                    target |-> t, targetdiff |-> Scaled(job.diff)])
       /\ SetNetDiff(job.nbits, have_longpoll)
  /\ UNCHANGED <<modeVars, scanVars, shareVars>>

(* Mutant: one byte further down.                                          *)
WindowShifted(t) == (Number(t) \div Power(ByteRadix, Bytes - 11)) % Power(ByteRadix, 8)

(* target_to_diff looks at bytes 22 to 29 of the 32.                       *)
Window(t) == (Number(t) \div Power(ByteRadix, Bytes - 10)) % Power(ByteRadix, 8)

target_to_diff(t) ==
  IF Window(t) = 0 THEN Fraction(0, 1) ELSE Fraction((Half - 1) * Half * Half, Window(t))

NodeWork(kind, job, targetdiff) ==
  [kind |-> kind, diff |-> job.diff, nbits |-> job.nbits,
   target |-> ToWords(NetTarget(job.nbits)), targetdiff |-> targetdiff]

(* work_decode.  The network's difficulty is computed only if the node     *)
(* does not know getmininginfo.  An answer may come after the protocol has *)
(* changed.                                                                *)
GetWork ==
  /\ "getwork" \in been
  /\ \E job \in met.jobs :
       /\ MakeWork(NodeWork("getwork", job, target_to_diff(ToWords(NetTarget(job.nbits)))))
       /\ IF allow_mininginfo THEN UNCHANGED netOf ELSE SetNetDiff(job.nbits, have_longpoll)
  /\ UNCHANGED <<modeVars, scanVars, shareVars>>

(* gbt_work_decode sets the target, but not targetdiff, which is zero from *)
(* calloc, and computes no difficulty.                                     *)
TemplateWork ==
  /\ "gbt" \in been
  /\ \E job \in met.jobs : MakeWork(NodeWork("gbt", job, Fraction(0, 1)))
  /\ UNCHANGED <<modeVars, netOf, scanVars, shareVars>>

EverSolo == been # {"stratum"}

(* get_mininginfo, before a share is sent and after work has come: the     *)
(* difficulty of some block, or it is not supported.  No difficulty that   *)
(* is a real number: nothing changes.                                      *)
MiningInfo ==
  /\ EverSolo /\ allow_mininginfo
  /\ \/ /\ \E job \in met.jobs : SetNetDiff(job.nbits, FALSE)
        /\ UNCHANGED allow_mininginfo
     \/ allow_mininginfo' = FALSE /\ UNCHANGED netOf
  /\ UNCHANGED <<met, been, protocol, have_longpoll, g_work, works, scanVars, shareVars>>

(* Long polling is offered, or fails.                                      *)
LongPolling ==
  /\ EverSolo
  /\ have_longpoll' = ~have_longpoll
  /\ UNCHANGED <<met, been, protocol, allow_mininginfo, workVars, scanVars, shareVars>>

(* "falling back to getwork", or X-Stratum in an answer.                   *)
ChangeProtocol ==
  /\ protocol # "stratum"
  /\ protocol' \in met.next \ been
  /\ been' = been \cup {protocol'}
  /\ UNCHANGED <<met, have_longpoll, allow_mininginfo, workVars, scanVars, shareVars>>

-----------------------------------------------------------------------------
(* The scan                                                                *)

Different(h, t) == {j \in 0..Top : h[j] # t[j]}

(* Mutant: from the bottom.                                                *)
fulltestUpwards(h, t) ==
  Different(h, t) # {} => h[Min(Different(h, t))] < t[Min(Different(h, t))]

(* The first word from the top that differs decides.                       *)
fulltest(h, t) ==
  Different(h, t) # {} => h[Max(Different(h, t))] < t[Max(Different(h, t))]

(* "vhash[7] < Htarg" comes before the full test.                          *)
Found(h, t) == h[Top] < t[Top] /\ fulltest(h, t)

(* A share that was found before and not sent was stale.                   *)
Scan ==
  /\ count < met.shares
  /\ \E w \in works, n \in met.hashes :
       /\ work' = w
       /\ hash' = ToWords(n)
       /\ pc' = IF Found(hash', w.target) THEN "share" ELSE "missed"
  /\ UNCHANGED <<modeVars, workVars, shareVars>>

(* work_set_target_ratio                                                   *)
sharediff(w, h) ==
  IF Number(h) > 0
  THEN Fraction(w.targetdiff.num * Number(w.target), w.targetdiff.den * Number(h))
  ELSE Fraction(0, 1)

-----------------------------------------------------------------------------
(* The share                                                               *)

(* submit_upstream_work, one share after the other: a call to the node     *)
(* lasts until its answer, a line to the pool does not.                    *)
Send ==
  /\ pc = "share" /\ \A s \in sent : s.via = "pool"
  /\ LET share == [id |-> count + 1, work |-> work, hash |-> hash,
                   via |-> IF protocol = "stratum" THEN "pool" ELSE "node"]
     IN  /\ sent' = sent \cup {share}
         /\ lastSent' = IF protocol = "stratum" THEN share ELSE lastSent
  /\ count' = count + 1
  /\ pc' = "sent"
  /\ UNCHANGED <<modeVars, workVars, work, hash, accepted_count, solved_count>>

(* std_calc_network_diff: 0xffff / bits, a byte up or down for each byte   *)
(* that the length is away from 29.                                        *)
NetDiff(c) ==
  IF c.length <= Bytes - 3
  THEN Fraction((Half - 1) * Power(ByteRadix, Bytes - 3 - c.length), c.mantissa)
  ELSE Fraction(Half - 1, c.mantissa * Power(ByteRadix, c.length - (Bytes - 3)))

(* The bytes of the word the other way round: the length is the lowest of  *)
(* the mantissa's.                                                         *)
Reversed(c) ==
  LET byte(k) == (c.mantissa \div Power(ByteRadix, k)) % ByteRadix
  IN  [mantissa |-> byte(1) * Half + byte(2) * ByteRadix + c.length, length |-> byte(0)]

net_diff ==
  IF netOf = None THEN Fraction(0, 1)
  ELSE NetDiff(IF netOf.reversed THEN Reversed(netOf.nbits) ELSE netOf.nbits)

(* What the pool and the node accept.                                      *)
Accepts(w, h) ==
  IF w.kind = "stratum" THEN Number(h) * Scaled(w.diff).num <= Diff1 * Scaled(w.diff).den
                        ELSE Number(h) <= NetTarget(w.nbits)

(* Mutant: the difficulties compared the other way round.                  *)
AtLeastSwapped(a, b) == b.num * a.den >= a.num * b.den

AtLeast(a, b) == a.num * b.den >= b.num * a.den

(* share_result: the difficulty of the work it is given, or that of the    *)
(* last share sent, against the network's of this moment.                  *)
Counted(s) ==
  LET of == IF s.via = "node" THEN s ELSE lastSent
  IN  net_diff.num > 0 /\ AtLeast(sharediff(of.work, of.hash), net_diff)

(* The answer, in any order from a pool.  A share may be refused for what  *)
(* is not seen here, and is when its work is not the receiver's.           *)
Answer(s) ==
  /\ sent' = sent \ {s}
  /\ \/ /\ s.via = "pool" <=> s.work.kind = "stratum"
        /\ Accepts(s.work, s.hash)
        /\ accepted_count' = accepted_count + 1
        /\ solved_count' = IF Counted(s) THEN solved_count + 1 ELSE solved_count
     \/ UNCHANGED <<accepted_count, solved_count>>
  /\ UNCHANGED <<modeVars, workVars, scanVars, lastSent, count>>

Init ==
  /\ met \in Settings
  /\ protocol = met.began /\ been = {met.began}
  /\ have_longpoll = FALSE /\ allow_mininginfo = TRUE
  /\ g_work = None /\ works = {} /\ netOf = None
  /\ pc = "none" /\ work = None /\ hash = ToWords(0)
  /\ sent = {} /\ lastSent = None
  /\ count = 0 /\ accepted_count = 0 /\ solved_count = 0

Next ==
  \/ StratumWork \/ GetWork \/ TemplateWork \/ MiningInfo
  \/ LongPolling \/ ChangeProtocol
  \/ Scan \/ Send \/ \E s \in sent : Answer(s)

Spec == Init /\ [][Next]_vars

-----------------------------------------------------------------------------
(* Properties                                                              *)

(* A share is never refused for its difficulty: the rounding in            *)
(* diff_to_target and a quotient that does not fit make a target harder,   *)
(* never easier, than the difficulty that the pool has set, and the words  *)
(* are compared in the order of their weight.                              *)
NoLowDifficulty == pc = "share" => Accepts(work, hash)

(* A hash that meets the target is a share, unless it has the target's     *)
(* most significant word ("vhash[7] < Htarg" takes none of these): nothing *)
(* else stands between a hash and its share.                               *)
OnlyTopWordMissed ==
  pc = "missed" /\ Number(hash) <= Number(work.target) => hash[Top] = work.target[Top]

OwnBits(w) == [nbits |-> w.nbits, reversed |-> FALSE]

(* An answer that share_result counts as solved is that of a block, though *)
(* the difficulty of the share is made of two rounded numbers, but where   *)
(* the globals it reads (cpu-miner.c:858) are not those of the share: a    *)
(* pool's, when another share has been sent since, or when net_diff is not *)
(* that of the share's own bits; and in a program that was started with    *)
(* Stratum, only work made since with other bits can have changed that.    *)
SolvedIsBlock ==
  [][\A s \in sent \ sent' : solved_count' # solved_count =>
       \/ Number(s.hash) <= NetTarget(s.work.nbits)
       \/ s.via = "pool" /\ s # lastSent
       \/ s.via = "pool" /\ IF EverSolo THEN netOf # OwnBits(s.work)
                                    ELSE g_work.nbits # s.work.nbits]_vars

(* Each share that the node accepts is a block.  share_result counts it if *)
(* it is of getwork and net_diff is that of its bits, although its         *)
(* difficulty is read from eight bytes of the target only, unless these    *)
(* are zero; and if it is of getblocktemplate, the default, never.         *)
BlockIsCounted ==
  [][\A s \in sent \ sent' : accepted_count' # accepted_count /\ s.via = "node" =>
       IF s.work.kind = "gbt"
       THEN solved_count' = solved_count
       ELSE netOf = OwnBits(s.work) /\ Window(s.work.target) # 0 /\ Number(s.hash) # 0
              => solved_count' = solved_count + 1]_vars
=============================================================================
