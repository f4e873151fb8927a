-------------------------- MODULE BlockTemplateProofs --------------------------
(***************************************************************************)
(* Proofs about BlockTemplate: for every template and every option of the  *)
(* command line, the coinbase fits its buffer and its script the limit of  *)
(* consensus, but for the two kinds of bad template; and the merkle trees  *)
(* are reduced within their arrays.                                        *)
(***************************************************************************)
EXTENDS BlockTemplate, SequenceTheorems, FiniteSetTheorems, TLAPS

-----------------------------------------------------------------------------
(* The size of the coinbase                                                *)

TypeInv ==
  /\ tmpl \in Template
  /\ pc \in {"fields", "out", "overrun", "height", "witnesses", "witness level", "locktime",
             "append", "aux", "leaves", "level", "done"}
  /\ script \in Seq(Nat)
  /\ len \in Nat /\ size \in Nat /\ xsig \in 0..100

(* A script beyond the limit came so.                                      *)
Limit == len > 100 => tmpl.given # None /\ len = tmpl.given.len

StartInv ==
  /\ pc = "fields" => len = 0 /\ size = 0 /\ room = 0
  /\ pc \in {"out", "overrun"} => size <= room /\ Limit
  /\ pc = "overrun" => BadTemplate

(* Nothing is appended before the coinbase is there.                       *)
NothingYet ==
  pc \in {"fields", "height", "witnesses", "witness level", "locktime", "append"} => xsig = 0

(* The height, byte by byte: the more have been pushed, the less is left,  *)
(* unless it is below zero and stays so.                                   *)
HeightInv ==
  pc = "height" =>
    /\ tmpl.given = None /\ room = 256 /\ len = 0
    /\ left \in Int
    /\ tmpl.height < 0 => left < 0 /\ size \in 43..256
    /\ tmpl.height >= 0 =>
         /\ left \in Nat
         /\ size \in 43..47
         /\ size = 43 => left <= IntMax
         /\ size = 44 => left <= IntMax \div 256
         /\ size = 45 => left <= (IntMax \div 256) \div 256
         /\ size = 46 => left <= 127
         /\ size = 47 => left = 0

(* The size of a coinbase that is built here, when its script is finished: *)
(* the script has at most five bytes.                                      *)
BuiltInv ==
  /\ pc \in {"witnesses", "witness level"} =>
       /\ tmpl.given = None /\ tmpl.segwit = TRUE /\ room = 256
       /\ len \in 1..5 /\ size = 42 + len + Outputs
  /\ pc = "locktime" =>
       /\ tmpl.given = None /\ room = 256 /\ len \in 1..5
       /\ size + 4 = len + Rest

(* What is appended, once the coinbase is there.                           *)
Whole == {"append", "aux", "leaves", "level", "done"}
AppendInv ==
  /\ pc \in Whole => Limit /\ size <= room /\ size = len + Rest
  /\ pc \in {"append", "aux"} =>
       /\ aux \in Seq(0..100)
       /\ xsig > 0 => len + xsig <= 100
       /\ IF tmpl.given # None
            THEN len = tmpl.given.len /\ size = tmpl.given.size /\ room = tmpl.given.size + 100
            ELSE room = 256

SizeInv == TypeInv /\ StartInv /\ NothingYet /\ HeightInv /\ BuiltInv /\ AppendInv

LEMMA TemplateType ==
  tmpl \in Template =>
    /\ tmpl.txs \in Nat /\ tmpl.height \in Int /\ tmpl.height <= IntMax
    /\ tmpl.sig \in 0..100 /\ tmpl.pk \in 0..42 /\ tmpl.aux \in Seq(0..100)
    /\ (tmpl.given # None => tmpl.given.size \in Nat /\ tmpl.given.len \in 0..255)
    /\ tmpl.segwit \in BOOLEAN
  <1> SUFFICES ASSUME tmpl \in Template
               PROVE  /\ tmpl.txs \in Nat /\ tmpl.height \in Int /\ tmpl.height <= IntMax
                      /\ tmpl.sig \in 0..100 /\ tmpl.pk \in 0..42 /\ tmpl.aux \in Seq(0..100)
                      /\ (tmpl.given # None => tmpl.given.size \in Nat /\ tmpl.given.len \in 0..255)
                      /\ tmpl.segwit \in BOOLEAN
    OBVIOUS
  <1>1. IntMax \in Nat
    BY TemplateAssumption
  <1>2. tmpl.given # None => tmpl.given.size \in 0..IntMax \div 2 /\ tmpl.given.len \in 0..255
    BY DEF Template, Given
  <1>3. tmpl.height \in (-IntMax - 1)..IntMax
    BY DEF Template
  <1> QED
    BY <1>1, <1>2, <1>3 DEF Template

(* Beside its script, a coinbase that is built here has 149 bytes at most. *)
LEMMA RestSize ==
  tmpl \in Template =>
    /\ Outputs \in 14..56 /\ Rest \in Int
    /\ (tmpl.given = None => Rest \in 60..149)
    /\ (tmpl.given # None => Rest = tmpl.given.size - tmpl.given.len)
  <1> SUFFICES ASSUME tmpl \in Template
               PROVE  /\ Outputs \in 14..56 /\ Rest \in Int
                      /\ (tmpl.given = None => Rest \in 60..149)
                      /\ (tmpl.given # None => Rest = tmpl.given.size - tmpl.given.len)
    OBVIOUS
  <1>p. /\ tmpl.pk \in 0..42
        /\ (tmpl.given # None => tmpl.given.size \in Nat /\ tmpl.given.len \in 0..255)
    BY TemplateType
  <1>1. Outputs \in 14..56
    BY <1>p DEF Outputs
  <1>2. CommitmentOutput = 47
    BY DEF CommitmentOutput
  <1>3. CASE tmpl.given # None
    <2>1. Rest = tmpl.given.size - tmpl.given.len
      BY <1>3 DEF Rest
    <2> QED
      BY <1>p, <1>1, <1>3, <2>1
  <1>4. CASE tmpl.given = None
    <2>1. CASE tmpl.segwit
      BY <1>1, <1>2, <1>4, <2>1 DEF Rest
    <2>2. CASE ~tmpl.segwit
      BY <1>1, <1>4, <2>2 DEF Rest
    <2> QED
      BY <2>1, <2>2
  <1> QED
    BY <1>3, <1>4

LEMMA SizeInit == Init => SizeInv
  <1> SUFFICES ASSUME Init PROVE SizeInv
    OBVIOUS
  <1> USE TemplateAssumption DEF Init
  <1>1. TypeInv
    BY DEF TypeInv
  <1>2. StartInv /\ NothingYet /\ HeightInv /\ BuiltInv /\ AppendInv
    BY DEF StartInv, NothingYet, HeightInv, BuiltInv, AppendInv, Whole
  <1> QED
    BY <1>1, <1>2 DEF SizeInv

(* The coinbase and what is to be appended stay as they are.               *)
Quiet == UNCHANGED <<tmpl, pc, coinbaseVars, appendVars>>

LEMMA QuietStep == SizeInv /\ Quiet => SizeInv'
  <1> SUFFICES ASSUME SizeInv, Quiet PROVE SizeInv'
    OBVIOUS
  <1> USE DEF SizeInv, Quiet, coinbaseVars, appendVars
  <1>1. (TypeInv /\ StartInv /\ NothingYet)'
    BY DEF TypeInv, StartInv, NothingYet, Limit, BadTemplate
  <1>2. HeightInv'
    BY DEF HeightInv
  <1>3. BuiltInv' /\ AppendInv'
    BY DEF BuiltInv, AppendInv, Whole, Limit, Rest, Outputs
  <1> QED
    BY <1>1, <1>2, <1>3

LEMMA SizeFits == SizeInv => CoinbaseFits /\ Limit
  <1> SUFFICES ASSUME SizeInv PROVE CoinbaseFits /\ Limit
    OBVIOUS
  <1> USE DEF SizeInv
  <1>s. /\ Outputs \in 14..56 /\ Rest \in Int
        /\ (tmpl.given = None => Rest \in 60..149)
    BY RestSize DEF TypeInv
  <1>x. xsig <= 100
    <2>1. xsig \in 0..100
      BY DEF TypeInv
    <2> QED
      BY <2>1
  <1>b. pc = "overrun" => BadTemplate
    BY DEF StartInv
  <1>g. pc \in Whole => size = len + Rest
    BY DEF AppendInv
  <1>f. size <= room /\ Limit
    <2>1. CASE pc \in {"fields", "out", "overrun"}
      BY <2>1 DEF StartInv, Limit
    <2>2. CASE pc = "height"
      <3>1. room = 256 /\ len = 0 /\ size \in 43..256
        BY <1>s, <2>2, TemplateType DEF HeightInv, TypeInv
      <3> QED
        BY <3>1 DEF Limit
    <2>3. CASE pc \in {"witnesses", "witness level"}
      <3>1. room = 256 /\ len \in 1..5 /\ size = 42 + len + Outputs
        BY <2>3 DEF BuiltInv
      <3> QED
        BY <1>s, <3>1 DEF Limit
    <2>4. CASE pc = "locktime"
      <3>1. tmpl.given = None /\ room = 256 /\ len \in 1..5 /\ size + 4 = len + Rest /\ size \in Nat
        BY <2>4 DEF BuiltInv, TypeInv
      <3> QED
        BY <1>s, <3>1 DEF Limit
    <2>5. CASE pc \in Whole
      BY <2>5 DEF AppendInv
    <2> QED
      BY <2>1, <2>2, <2>3, <2>4, <2>5 DEF TypeInv, Whole
  <1> QED
    BY <1>x, <1>b, <1>g, <1>f DEF CoinbaseFits, Limit, Whole

LEMMA PushedLen ==
  ASSUME NEW a \in Seq(Nat), NEW x \in Nat, NEW b \in Seq(Nat)
  PROVE  /\ a \o <<x>> \o b \in Seq(Nat)
         /\ Len(a \o <<x>> \o b) = Len(a) + 1 + Len(b)
  <1>1. a \o <<x>> \in Seq(Nat) /\ Len(a \o <<x>>) = Len(a) + 1
    OBVIOUS
  <1> QED
    BY <1>1

LEMMA StillNegative ==
  ASSUME NEW x \in Int, x < 0
  PROVE  x \div 256 \in Int /\ x \div 256 < 0
  OBVIOUS

LEMMA SizeStep == SizeInv /\ [Next]_vars => SizeInv'
  <1> SUFFICES ASSUME SizeInv, [Next]_vars PROVE SizeInv'
    OBVIOUS
  <1> USE DEF SizeInv
  <1>t. tmpl \in Template
    BY DEF TypeInv
  <1>s. /\ Outputs \in 14..56 /\ Rest \in Int
        /\ (tmpl.given = None => Rest \in 60..149)
        /\ (tmpl.given # None => Rest = tmpl.given.size - tmpl.given.len)
    BY <1>t, RestSize
  <1>f. size <= room /\ Limit
    BY SizeFits DEF CoinbaseFits
  <1>u. tmpl' = tmpl => Outputs' = Outputs /\ Rest' = Rest /\ BadTemplate' = BadTemplate
    BY DEF Outputs, Rest, CommitmentOutput, BadTemplate
  <1>1. CASE InvalidField \/ InvalidCoinbase \/ NoPayout \/ InvalidHash
    <2>a. /\ tmpl' = tmpl /\ pc' = "out" /\ pc # "out"
          /\ UNCHANGED <<script, len, size, room, xsig>>
      BY <1>1 DEF InvalidField, InvalidCoinbase, NoPayout, InvalidHash, coinbaseVars, appendVars
    <2>1. (TypeInv /\ StartInv /\ NothingYet)'
      BY <1>f, <1>t, <2>a DEF TypeInv, StartInv, NothingYet, Limit
    <2>2. (HeightInv /\ BuiltInv /\ AppendInv)'
      BY <2>a DEF HeightInv, BuiltInv, AppendInv, Whole
    <2> QED
      BY <2>1, <2>2
  <1>2. CASE TakeCoinbase
    <2>a. /\ tmpl' = tmpl /\ pc = "fields" /\ tmpl.given # None /\ pc' \in {"append", "leaves"}
          /\ len' = tmpl.given.len /\ size' = tmpl.given.size /\ room' = size' + 100
          /\ aux' = tmpl.aux /\ xsig' = xsig /\ script' = script
      BY <1>2 DEF TakeCoinbase, HasCoinbase, appendVars
    <2>g. tmpl.given.size \in Nat /\ tmpl.given.len \in 0..255 /\ tmpl.aux \in Seq(0..100)
      BY <1>t, <2>a, TemplateType
    <2>w. xsig' = 0
      BY <2>a DEF NothingYet
    <2>n. len' \in Nat /\ size' \in Nat /\ xsig' \in 0..100
      <3>1. len' \in 0..255 /\ size' \in Nat
        BY <2>a, <2>g
      <3>2. xsig' \in 0..100
        BY <2>w
      <3> QED
        BY <3>1, <3>2
    <2>1. TypeInv'
      <3>1. tmpl' \in Template /\ pc' \in {"append", "leaves"} /\ script' \in Seq(Nat)
        BY <1>t, <2>a DEF TypeInv
      <3> QED
        BY <2>n, <3>1 DEF TypeInv
    <2>2. StartInv' /\ NothingYet' /\ HeightInv' /\ BuiltInv'
      BY <2>a, <2>w DEF StartInv, NothingYet, HeightInv, BuiltInv
    <2>3. AppendInv'
      <3>1. Rest' = size' - len'
        BY <1>s, <1>u, <2>a
      <3>2. size' <= room' /\ size' = len' + Rest'
        BY <2>a, <2>n, <3>1
      <3>3. Limit'
        BY <2>a DEF Limit
      <3>4. aux' \in Seq(0..100) /\ ~(xsig' > 0)
        BY <2>a, <2>g, <2>w
      <3>5. tmpl'.given # None /\ len' = tmpl'.given.len /\ size' = tmpl'.given.size
            /\ room' = tmpl'.given.size + 100
        BY <2>a
      <3> QED
        BY <3>2, <3>3, <3>4, <3>5 DEF AppendInv
    <2> QED
      BY <2>1, <2>2, <2>3
  <1>4. CASE BuildCoinbase
    <2> USE <1>4 DEF BuildCoinbase, coinbaseVars, appendVars, treeVars
    <2>k. tmpl' = tmpl /\ Outputs' = Outputs /\ Rest' = Rest
      BY <1>u
    <2>1. (TypeInv /\ StartInv /\ NothingYet)'
      BY <1>t, <2>k DEF TypeInv, StartInv, NothingYet
    <2>2. HeightInv'
      BY <1>t, <2>k, TemplateType DEF StartInv, HeightInv
    <2>3. BuiltInv'
      BY DEF BuiltInv
    <2>4. AppendInv'
      BY DEF AppendInv, Whole
    <2> QED
      BY <2>1, <2>2, <2>3, <2>4
  <1>5. CASE PushHeight
    <2>a. /\ tmpl' = tmpl /\ pc = "height" /\ pc' = "height" /\ left # 0
          /\ size + 1 + Len(SignByte) <= room
          /\ script' = script \o <<left % 256>> \o SignByte
          /\ size' = size + 1 + Len(SignByte) /\ left' = left \div 256
          /\ UNCHANGED <<len, room, xsig>>
      BY <1>5 DEF PushHeight, appendVars
    <2>h. left \in Int /\ room = 256 /\ tmpl.height \in Int /\ size \in Nat
      BY <1>t, <2>a, TemplateType DEF HeightInv, TypeInv
    <2> DEFINE sign == IF left < 256 /\ left >= 128 THEN 1 ELSE 0
    <2>b. left % 256 \in Nat /\ SignByte \in Seq(Nat) /\ Len(SignByte) = sign
      BY <2>h DEF SignByte
    <2>n. script' \in Seq(Nat)
      BY <2>a, <2>b, PushedLen DEF TypeInv
    <2>z. size' = size + 1 + sign /\ size' \in Nat /\ size' <= 256
      BY <2>a, <2>h, <2>b
    <2>1. (TypeInv /\ StartInv /\ NothingYet)'
      BY <1>t, <2>a, <2>n, <2>z DEF TypeInv, StartInv, NothingYet
    <2>2. HeightInv'
      <3>1. CASE tmpl.height < 0
        <4>1. left < 0 /\ size \in 43..256
          BY <2>a, <3>1 DEF HeightInv
        <4>2. left' \in Int /\ left' < 0
          BY <2>a, <2>h, <4>1, StillNegative
        <4>3. size' \in 43..256
          BY <2>z, <4>1
        <4> QED
          BY <2>a, <2>h, <3>1, <4>2, <4>3 DEF HeightInv
      <3>2. CASE tmpl.height >= 0
        BY <2>a, <2>h, <2>z, <3>2, TemplateAssumption DEF HeightInv
      <3> QED
        BY <2>h, <3>1, <3>2
    <2>3. BuiltInv' /\ AppendInv'
      BY <2>a DEF BuiltInv, AppendInv, Whole
    <2> QED
      BY <2>1, <2>2, <2>3
  <1>16. CASE HeightOverruns
    <2>a. /\ tmpl' = tmpl /\ pc = "height" /\ pc' = "overrun" /\ left # 0
          /\ size + 1 + Len(SignByte) > room
          /\ UNCHANGED <<script, len, size, room, xsig>>
      BY <1>16 DEF HeightOverruns, coinbaseVars, appendVars
    <2>h. left \in Int /\ room = 256 /\ tmpl.height \in Int /\ size \in Nat /\ tmpl.given = None
      BY <1>t, <2>a, TemplateType DEF HeightInv, TypeInv
    <2>b. Len(SignByte) \in 0..1
      BY DEF SignByte
    <2>g. tmpl.height < 0
      <3>0. PICK l \in 0..1 : l = Len(SignByte)
        BY <2>b
      <3>1. size >= 255
        <4>1. size + 1 + l > 256 /\ size \in Nat
          BY <2>a, <2>h, <3>0
        <4> QED
          BY <4>1
      <3>2. tmpl.height >= 0 => size \in 43..47
        BY <2>a DEF HeightInv
      <3>3. ~(size \in 43..47)
        BY <3>1
      <3> QED
        BY <2>h, <3>2, <3>3
    <2>1. (TypeInv /\ StartInv /\ NothingYet)'
      BY <1>f, <1>t, <2>a, <2>g, <2>h DEF TypeInv, StartInv, NothingYet, Limit, BadTemplate
    <2>2. (HeightInv /\ BuiltInv /\ AppendInv)'
      BY <2>a DEF HeightInv, BuiltInv, AppendInv, Whole
    <2> QED
      BY <2>1, <2>2
  <1>6. CASE FinishScript
    <2> USE <1>6 DEF FinishScript, coinbaseVars, appendVars, treeVars
    <2>k. tmpl' = tmpl /\ Outputs' = Outputs /\ Rest' = Rest
      BY <1>u
    <2>h. tmpl.given = None /\ room = 256 /\ size \in 43..47
      <3>1. tmpl.given = None /\ room = 256 /\ (tmpl.height < 0 => left < 0)
            /\ (tmpl.height >= 0 => size \in 43..47)
        BY DEF HeightInv
      <3>2. left = 0 /\ tmpl.height \in Int
        BY <1>t, TemplateType
      <3>3. ~(tmpl.height < 0)
        BY <3>1, <3>2
      <3>4. tmpl.height >= 0
        BY <3>2, <3>3
      <3> QED
        BY <3>1, <3>4
    <2>n. script' \in Seq(Nat) /\ len' \in 1..5 /\ size' \in Nat
      <3>1. size - 43 \in Nat /\ size - 42 \in 1..5 /\ size + Outputs \in Nat
        BY <1>s, <2>h
      <3>2. script' = <<size - 43>> \o script /\ script \in Seq(Nat)
        BY DEF TypeInv
      <3>3. <<size - 43>> \in Seq(Nat)
        BY <3>1
      <3>4. len' = size - 42 /\ size' = size + Outputs
        OBVIOUS
      <3>5. script' \in Seq(Nat)
        BY <3>2, <3>3
      <3> QED
        BY <3>1, <3>4, <3>5
    <2>1. (TypeInv /\ StartInv /\ NothingYet)'
      BY <1>t, <2>k, <2>n DEF TypeInv, StartInv, NothingYet
    <2>2. HeightInv'
      BY DEF HeightInv
    <2>3. BuiltInv'
      BY <1>s, <2>h, <2>n, <2>k DEF BuiltInv, CommitmentOutput, Rest
    <2>4. AppendInv'
      BY DEF AppendInv, Whole
    <2> QED
      BY <2>1, <2>2, <2>3, <2>4
  <1>7. CASE Witnesses
    <2> USE <1>7 DEF Witnesses, coinbaseVars, appendVars, treeVars
    <2>k. tmpl' = tmpl /\ Outputs' = Outputs /\ Rest' = Rest
      BY <1>u
    <2>1. (TypeInv /\ StartInv /\ NothingYet)'
      BY <1>t, <2>k DEF TypeInv, StartInv, NothingYet
    <2>2. HeightInv'
      BY DEF HeightInv
    <2>3. BuiltInv'
      BY <2>k DEF BuiltInv
    <2>4. AppendInv'
      BY DEF AppendInv, Whole
    <2> QED
      BY <2>1, <2>2, <2>3, <2>4
  <1>8. CASE Commit
    <2>a. /\ tmpl' = tmpl /\ pc = "witness level" /\ pc' = "locktime"
          /\ size' = size + CommitmentOutput /\ len' = len /\ room' = room
          /\ xsig' = xsig /\ script' = script
      BY <1>8 DEF Commit, appendVars
    <2>k. Outputs' = Outputs /\ Rest' = Rest
      BY <1>u, <2>a
    <2>c. CommitmentOutput = 47
      BY DEF CommitmentOutput
    <2>h. /\ tmpl.given = None /\ tmpl.segwit = TRUE /\ room = 256
          /\ len \in 1..5 /\ size = 42 + len + Outputs
      BY <2>a DEF BuiltInv
    <2>n. size' = size + 47 /\ Rest = 42 + Outputs + 51 /\ size' \in Nat
      <3>1. size' = size + 47
        BY <2>a, <2>c
      <3>2. Rest = 42 + Outputs + 51
        BY <1>s, <2>c, <2>h DEF Rest
      <3> QED
        BY <1>s, <2>h, <3>1, <3>2
    <2>1. (TypeInv /\ StartInv /\ NothingYet)'
      BY <1>t, <2>a, <2>n DEF TypeInv, StartInv, NothingYet
    <2>2. BuiltInv'
      <3>1. (pc = "locktime" => /\ tmpl.given = None /\ room = 256 /\ len \in 1..5
                           /\ size + 4 = len + Rest)'
        <4>1. size + 47 + 4 = len + (42 + Outputs + 51)
          BY <1>s, <2>h
        <4> QED
          BY <2>a, <2>h, <2>k, <2>n, <4>1
      <3> QED
        BY <2>a, <3>1 DEF BuiltInv
    <2>3. HeightInv' /\ AppendInv'
      BY <2>a DEF HeightInv, AppendInv, Whole
    <2> QED
      BY <2>1, <2>2, <2>3
  <1>9. CASE LockTime
    <2> USE <1>9 DEF LockTime, coinbaseVars, appendVars, treeVars
    <2>k. tmpl' = tmpl /\ Outputs' = Outputs /\ Rest' = Rest
      BY <1>u
    <2>1. (TypeInv /\ StartInv /\ NothingYet)'
      BY <1>t, <2>k DEF TypeInv, StartInv, NothingYet
    <2>2. HeightInv'
      BY DEF HeightInv
    <2>3. BuiltInv'
      BY <1>s, <2>k DEF TypeInv, HeightInv, BuiltInv
    <2>4. AppendInv'
      <3>1. /\ tmpl.given = None /\ room = 256 /\ len \in 1..5 /\ size + 4 = len + Rest
            /\ size \in Nat /\ xsig = 0
        BY DEF BuiltInv, TypeInv, NothingYet
      <3>2. size' = len' + Rest' /\ size' <= room' /\ len' <= 100
        BY <1>s, <2>k, <3>1
      <3>3. Limit'
        BY <1>f, <2>k DEF Limit
      <3>4. aux' \in Seq(0..100) /\ ~(xsig' > 0) /\ tmpl'.given = None /\ room' = 256
        BY <1>t, <2>k, <3>1, TemplateType
      <3> QED
        BY <3>2, <3>3, <3>4 DEF AppendInv, Whole
    <2> QED
      BY <2>1, <2>2, <2>3, <2>4
  <1>10. CASE AppendSignature
    <2> USE <1>10 DEF AppendSignature, coinbaseVars, appendVars, treeVars
    <2>k. tmpl' = tmpl /\ Outputs' = Outputs /\ Rest' = Rest
      BY <1>u
    <2>f. tmpl.sig \in 0..100 /\ len \in Nat /\ xsig = 0
      BY <1>t, TemplateType DEF TypeInv, NothingYet
    <2>n. xsig' \in 0..100 /\ (xsig' > 0 => len + xsig' <= 100)
      BY <2>f DEF Fits
    <2>1. (TypeInv /\ StartInv /\ NothingYet)'
      BY <1>t, <2>k, <2>n DEF TypeInv, StartInv, NothingYet
    <2>2. HeightInv'
      BY DEF HeightInv
    <2>3. BuiltInv'
      BY DEF BuiltInv
    <2>4. AppendInv'
      BY <2>n, <2>k DEF AppendInv, Whole, Limit
    <2> QED
      BY <2>1, <2>2, <2>3, <2>4
  <1>11. CASE AppendAux
    <2>a. /\ pc = "aux" /\ pc' = "aux" /\ aux # <<>> /\ aux' = Tail(aux)
          /\ xsig' = IF Fits(Head(aux)) THEN xsig + Head(aux) ELSE xsig
          /\ UNCHANGED <<tmpl, script, len, size, room>>
      BY <1>11 DEF AppendAux, coinbaseVars
    <2>k. Outputs' = Outputs /\ Rest' = Rest
      BY <1>u, <2>a
    <2>e. aux \in Seq(0..100) /\ (xsig > 0 => len + xsig <= 100)
      BY <2>a DEF AppendInv
    <2>f. Head(aux) \in 0..100 /\ Tail(aux) \in Seq(0..100)
      BY <2>a, <2>e, HeadTailProperties
    <2>n. xsig' \in 0..100 /\ (xsig' > 0 => len + xsig' <= 100)
      <3>1. CASE Fits(Head(aux))
        <4> DEFINE h == Head(aux)
        <4>1. xsig' = xsig + h /\ h \in 0..100 /\ len + xsig + h <= 100 /\ xsig \in 0..100 /\ len \in Nat
          BY <2>a, <2>f, <3>1 DEF Fits, TypeInv
        <4> HIDE DEF h
        <4> QED
          BY <4>1
      <3>2. CASE ~Fits(Head(aux))
        BY <2>a, <2>e, <3>2 DEF TypeInv
      <3> QED
        BY <3>1, <3>2
    <2>1. (TypeInv /\ StartInv /\ NothingYet)'
      BY <1>t, <2>a, <2>n DEF TypeInv, StartInv, NothingYet
    <2>2. HeightInv' /\ BuiltInv'
      BY <2>a DEF HeightInv, BuiltInv
    <2>3. AppendInv'
      BY <2>a, <2>f, <2>k, <2>n DEF AppendInv, Whole, Limit
    <2> QED
      BY <2>1, <2>2, <2>3
  <1>17. CASE AppendOverruns
    <2>a. /\ tmpl' = tmpl /\ pc = "aux" /\ pc' = "overrun" /\ Behind < 0
          /\ UNCHANGED <<script, len, size, room, xsig>>
      BY <1>17 DEF AppendOverruns, coinbaseVars, appendVars
    <2>h. /\ len \in Nat /\ size \in Nat /\ size = len + Rest
          /\ (tmpl.given # None => len = tmpl.given.len /\ size = tmpl.given.size)
      BY <2>a DEF TypeInv, AppendInv, Whole
    <2>g. BadTemplate
      BY <1>s, <2>a, <2>h DEF BadTemplate, Behind
    <2>1. (TypeInv /\ StartInv /\ NothingYet)'
      BY <1>f, <1>t, <1>u, <2>a, <2>g DEF TypeInv, StartInv, NothingYet, Limit
    <2>2. (HeightInv /\ BuiltInv /\ AppendInv)'
      BY <2>a DEF HeightInv, BuiltInv, AppendInv, Whole
    <2> QED
      BY <2>1, <2>2
  <1>12. CASE FinishAppend
    <2> DEFINE added == IF xsig = 0 THEN 0 ELSE xsig + PushLen
    <2>a. /\ tmpl' = tmpl /\ pc = "aux" /\ pc' = "leaves"
          /\ len' = len + added /\ size' = size + added
          /\ UNCHANGED <<script, room, xsig>>
      BY <1>12 DEF FinishAppend, appendVars
    <2>f. /\ len \in Nat /\ size \in Nat /\ xsig \in 0..100 /\ size <= room /\ size = len + Rest
          /\ (xsig > 0 => len + xsig <= 100)
          /\ (tmpl.given # None => size = tmpl.given.size /\ room = tmpl.given.size + 100)
          /\ (tmpl.given = None => room = 256)
      BY <2>a DEF TypeInv, AppendInv, Whole
    <2>p. PushLen \in 0..2 /\ (xsig > 0 => len + xsig + PushLen <= 100)
      BY <2>f DEF PushLen
    <2>d. /\ added \in 0..100 /\ (added = 0 \/ len + added <= 100)
      BY <2>f, <2>p
    <2>k. Rest' = Rest
      BY <1>u, <2>a
    <2>n. len' \in Nat /\ size' \in Nat /\ (added # 0 => len' <= 100)
      BY <2>a, <2>d, <2>f
    <2>r. size' <= room
      <3>1. CASE tmpl.given # None
        BY <2>a, <2>d, <2>f, <3>1
      <3>2. CASE tmpl.given = None
        <4>1. CASE added = 0
          BY <2>a, <2>f, <4>1
        <4>2. CASE added # 0
          BY <1>s, <2>a, <2>d, <2>f, <3>2, <4>2
        <4> QED
          BY <4>1, <4>2
      <3> QED
        BY <3>1, <3>2
    <2>e. size' = len' + Rest'
      BY <1>s, <2>a, <2>d, <2>f, <2>k
    <2>l. Limit'
      <3>1. CASE added = 0
        BY <1>f, <2>a, <2>f, <3>1 DEF Limit
      <3>2. CASE added # 0
        BY <2>n, <3>2 DEF Limit
      <3> QED
        BY <3>1, <3>2
    <2> HIDE DEF added
    <2>1. (TypeInv /\ StartInv /\ NothingYet)'
      BY <1>t, <2>a, <2>f, <2>n DEF TypeInv, StartInv, NothingYet
    <2>2. (HeightInv /\ BuiltInv)'
      BY <2>a DEF HeightInv, BuiltInv
    <2>3. AppendInv'
      BY <2>a, <2>e, <2>l, <2>r DEF AppendInv
    <2> QED
      BY <2>1, <2>2, <2>3
  <1>13. CASE Leaves
    <2> USE <1>13 DEF Leaves, coinbaseVars, appendVars, treeVars
    <2>k. tmpl' = tmpl /\ Outputs' = Outputs /\ Rest' = Rest
      BY <1>u
    <2>1. (TypeInv /\ StartInv /\ NothingYet)'
      BY <1>t, <2>k DEF TypeInv, StartInv, NothingYet
    <2>2. HeightInv'
      BY DEF HeightInv
    <2>3. BuiltInv'
      BY DEF BuiltInv
    <2>4. AppendInv'
      BY <2>k DEF AppendInv, Whole, Limit
    <2> QED
      BY <2>1, <2>2, <2>3, <2>4
  <1>14. CASE AssembleHeader
    <2> USE <1>14 DEF AssembleHeader, coinbaseVars, appendVars, treeVars
    <2>k. tmpl' = tmpl /\ Outputs' = Outputs /\ Rest' = Rest
      BY <1>u
    <2>1. (TypeInv /\ StartInv /\ NothingYet)'
      BY <1>f, <1>t, <2>k DEF TypeInv, StartInv, NothingYet, Limit
    <2>2. HeightInv'
      BY DEF HeightInv
    <2>3. BuiltInv'
      BY DEF BuiltInv
    <2>4. AppendInv'
      BY <2>k DEF AppendInv, Whole, Limit
    <2> QED
      BY <2>1, <2>2, <2>3, <2>4
  <1>20. CASE EvenOut \/ HashPair \/ NextLevel \/ Returned \/ UNCHANGED vars
    BY <1>20, QuietStep DEF EvenOut, HashPair, NextLevel, Returned, vars, Quiet, coinbaseVars, appendVars
  <1> QED
    BY <1>1, <1>2, <1>4, <1>5, <1>6, <1>7, <1>8, <1>9, <1>10, <1>11, <1>12, <1>13, <1>14, <1>16, <1>17, <1>20
       DEF Next

(* The coinbase stays in its buffer and its script within 100 bytes, or as *)
(* it came, for every template, signature and list of auxiliary items but  *)
(* the two bad kinds of template.                                          *)
THEOREM CoinbaseStaysInBounds == Spec => []CoinbaseFits
  BY SizeFits, SizeInit, SizeStep, PTL DEF Spec

-----------------------------------------------------------------------------
(* Induction over numbers, in a form without an operator as a parameter:   *)
(* a set of numbers has a least one, since 1..k is a strict subset of 1..m *)
(* when k is less than m.                                                  *)

LEMMA LeastNumber ==
  ASSUME NEW S, S \subseteq Nat, S # {}
  PROVE  \E m \in S : \A k \in S : m <= k
  <1> DEFINE T == {1..k : k \in S}
  <1>1. T \subseteq FiniteSubsetsOf(Nat) /\ T # {}
    <2>1. \A k \in Nat : 1..k \subseteq Nat /\ IsFiniteSet(1..k)
      BY FS_Interval
    <2> QED
      BY <2>1 DEF FiniteSubsetsOf
  <1> HIDE DEF T
  <1>2. PICK x \in T : \A y \in T : ~(<<y, x>> \in StrictSubsetOrdering(Nat))
    BY <1>1, WFMin, FS_StrictSubsetOrderingWellFounded
  <1>3. PICK m \in S : x = 1..m
    BY DEF T
  <1>4. \A k \in S : m <= k
    <2> SUFFICES ASSUME NEW k \in S, k < m PROVE FALSE
      OBVIOUS
    <2>1. 1..k \in T /\ 1..k \in SUBSET Nat /\ x \in SUBSET Nat
      BY <1>3 DEF T
    <2>2. 1..k \subseteq x /\ 1..k # x
      BY <1>3
    <2> QED
      BY <1>2, <2>1, <2>2 DEF StrictSubsetOrdering
  <1> QED
    BY <1>4

LEMMA Induction ==
  ASSUME NEW S, 0 \in S, \A k \in Nat : k \in S => k + 1 \in S
  PROVE  Nat \subseteq S
  <1> SUFFICES ASSUME ~(Nat \subseteq S) PROVE FALSE
    OBVIOUS
  <1>1. PICK m \in Nat \ S : \A k \in Nat \ S : m <= k
    BY LeastNumber
  <1>2. m # 0 /\ m - 1 \in Nat /\ m - 1 \in S
    BY <1>1
  <1>3. (m - 1) + 1 \in S
    BY <1>2
  <1> QED
    BY <1>1, <1>2, <1>3

-----------------------------------------------------------------------------
(* The height, read back                                                   *)

(* There is such a function as LastBytes.                                  *)
IsSum(g, c, high, m) ==
  /\ g = [k \in 0..m |-> g[k]] /\ g[0] = high
  /\ \A k \in 1..m : g[k] = c[k] + 256 * g[k - 1]

LEMMA SumExists ==
  ASSUME NEW c, NEW high, NEW n0 \in Nat
  PROVE  \E g : IsSum(g, c, high, n0)
  <1> DEFINE Good == {m \in Nat : \E g : IsSum(g, c, high, m)}
  <1>1. 0 \in Good
    <2> DEFINE g == [k \in 0..0 |-> high]
    <2>1. g = [k \in 0..0 |-> g[k]] /\ g[0] = high /\ \A k \in 1..0 : g[k] = c[k] + 256 * g[k - 1]
      OBVIOUS
    <2> HIDE DEF g
    <2>2. IsSum(g, c, high, 0)
      BY <2>1 DEF IsSum
    <2> QED
      BY <2>2
  <1>2. ASSUME NEW m \in Nat, m \in Good PROVE m + 1 \in Good
    <2>1. PICK g : IsSum(g, c, high, m)
      BY <1>2
    <2> DEFINE h == [k \in 0..m + 1 |-> IF k = m + 1 THEN c[m + 1] + 256 * g[m] ELSE g[k]]
    <2>2. h = [k \in 0..m + 1 |-> h[k]]
      OBVIOUS
    <2>3. h[m + 1] = c[m + 1] + 256 * g[m] /\ \A k \in 0..m : h[k] = g[k]
      OBVIOUS
    <2> HIDE DEF h
    <2>4. ASSUME NEW k \in 1..m + 1
          PROVE  h[k] = c[k] + 256 * h[k - 1]
      <3>1. CASE k = m + 1
        BY <2>3, <3>1
      <3>2. CASE k \in 1..m
        <4>1. k \in 0..m /\ k - 1 \in 0..m
          BY <3>2
        <4>2. h[k] = g[k] /\ h[k - 1] = g[k - 1]
          BY <2>3, <4>1
        <4> QED
          BY <2>1, <3>2, <4>2 DEF IsSum
      <3> QED
        BY <3>1, <3>2
    <2>5. h[0] = high
      BY <2>1, <2>3 DEF IsSum
    <2>6. IsSum(h, c, high, m + 1)
      BY <2>2, <2>4, <2>5 DEF IsSum
    <2> QED
      BY <2>6
  <1> HIDE DEF Good
  <1>3. n0 \in Good
    BY <1>1, <1>2, Induction
  <1> QED
    BY <1>3 DEF Good

LEMMA LastBytesDef ==
  ASSUME NEW b, NEW high, Len(b) \in Nat
  PROVE  /\ LastBytes(b, high)[0] = high
         /\ \A k \in 1..Len(b) :
              LastBytes(b, high)[k] = b[Len(b) - k + 1] + 256 * LastBytes(b, high)[k - 1]
  <1> DEFINE P(g) == g = [k \in 0..Len(b) |->
                            IF k = 0 THEN high ELSE b[Len(b) - k + 1] + 256 * g[k - 1]]
             c == [k \in 1..Len(b) |-> b[Len(b) - k + 1]]
  <1>1. PICK g : IsSum(g, c, high, Len(b))
    BY SumExists
  <1>2. P(g)
    <2>1. \A k \in 0..Len(b) : g[k] = IF k = 0 THEN high ELSE b[Len(b) - k + 1] + 256 * g[k - 1]
      <3> TAKE k \in 0..Len(b)
      <3>1. CASE k = 0
        BY <1>1, <3>1 DEF IsSum
      <3>2. CASE k \in 1..Len(b)
        <4>1. c[k] = b[Len(b) - k + 1] /\ g[k] = c[k] + 256 * g[k - 1]
          BY <1>1, <3>2 DEF IsSum
        <4> QED
          BY <3>2, <4>1
      <3> QED
        BY <3>1, <3>2
    <2>2. [k \in 0..Len(b) |-> g[k]] =
            [k \in 0..Len(b) |-> IF k = 0 THEN high ELSE b[Len(b) - k + 1] + 256 * g[k - 1]]
      BY <2>1
    <2>3. g = [k \in 0..Len(b) |-> g[k]]
      BY <1>1 DEF IsSum
    <2> QED
      BY <2>2, <2>3
  <1>3. LastBytes(b, high) = CHOOSE f : P(f)
    BY Zenon DEF LastBytes
  <1> HIDE DEF P
  <1>4. P(LastBytes(b, high))
    BY <1>2, <1>3
  <1>5. LastBytes(b, high) = [k \in 0..Len(b) |->
            IF k = 0 THEN high ELSE b[Len(b) - k + 1] + 256 * LastBytes(b, high)[k - 1]]
    BY <1>4 DEF P
  <1> QED
    BY <1>5

(* A byte at the end is the lowest of what was to follow.                  *)
LEMMA AppendByte ==
  ASSUME NEW b \in Seq(Nat), NEW x \in Nat, NEW high \in Nat
  PROVE  Value(b \o <<x>>, high) = Value(b, x + 256 * high)
  <1> DEFINE c == b \o <<x>>
             f == LastBytes(c, high)
             g == LastBytes(b, x + 256 * high)
             L == Len(b)
             S == {k \in Nat : k <= L => f[k + 1] = g[k]}
  <1>1. L \in Nat /\ Len(c) = L + 1 /\ c[L + 1] = x /\ \A k \in 1..L : c[k] = b[k]
    OBVIOUS
  <1>2. f[0] = high /\ \A k \in 1..L + 1 : f[k] = c[(L + 1) - k + 1] + 256 * f[k - 1]
    <2> HIDE DEF c, L
    <2>1. Len(c) \in Nat
      BY <1>1
    <2>2. f[0] = high /\ \A k \in 1..Len(c) : f[k] = c[Len(c) - k + 1] + 256 * f[k - 1]
      BY <2>1, LastBytesDef
    <2> QED
      BY <1>1, <2>2
  <1>3. g[0] = x + 256 * high /\ \A k \in 1..L : g[k] = b[L - k + 1] + 256 * g[k - 1]
    BY <1>1, LastBytesDef
  <1> HIDE DEF c, f, g, L
  <1>4. 0 \in S
    BY <1>1, <1>2, <1>3
  <1>5. ASSUME NEW k \in Nat, k \in S PROVE k + 1 \in S
    <2> SUFFICES ASSUME k + 1 <= L PROVE f[(k + 1) + 1] = g[k + 1]
      OBVIOUS
    <2>1. f[k + 1] = g[k]
      BY <1>1, <1>5
    <2>2. f[k + 2] = c[L - k] + 256 * f[k + 1] /\ g[k + 1] = b[L - k] + 256 * g[k]
      <3>1. k + 2 \in 1..L + 1 /\ k + 1 \in 1..L
        BY <1>1
      <3>2. (L + 1) - (k + 2) + 1 = L - k /\ (k + 2) - 1 = k + 1
            /\ L - (k + 1) + 1 = L - k /\ (k + 1) - 1 = k
        BY <1>1
      <3> QED
        BY <1>2, <1>3, <3>1, <3>2
    <2>3. c[L - k] = b[L - k] /\ (k + 1) + 1 = k + 2
      <3>1. L - k \in 1..L
        BY <1>1
      <3> QED
        BY <1>1, <3>1
    <2> QED
      BY <2>1, <2>2, <2>3
  <1>6. L \in S
    <2> HIDE DEF S
    <2> QED
      BY <1>1, <1>4, <1>5, Induction
  <1>7. f[L + 1] = g[L]
    BY <1>1, <1>6
  <1> QED
    BY <1>1, <1>7 DEF Value, c, f, g, L

LEMMA NoBytes == ASSUME NEW high PROVE Value(<<>>, high) = high
  BY LastBytesDef DEF Value

(* While the height is pushed, the bytes in the script and what is left    *)
(* make the height; the length byte is still to come.  One below zero is   *)
(* never finished.                                                         *)
PushingInv ==
  pc = "height" /\ tmpl.height >= 0 =>
    /\ Len(script) = size - 43
    /\ Value(script, left) = tmpl.height
    /\ left = 0 => Positive(script) /\ Minimal(script)

Reads ==
  LET bytes == Tail(script)
  IN /\ Head(script) = Len(bytes)
     /\ Value(bytes, 0) = tmpl.height /\ Positive(bytes) /\ Minimal(bytes)

ReadInv ==
  /\ pc = "fields" => script = <<>>
  /\ PushingInv
  /\ pc \in Whole \cup {"witnesses", "witness level", "locktime"} /\ tmpl.given = None => Reads

(* What PushHeight makes of the script.                                    *)
LEMMA PushedByte ==
  ASSUME SizeInv, ReadInv, PushHeight, tmpl.height >= 0
  PROVE  /\ script' \in Seq(Nat) /\ left' \in Nat
         /\ Len(script') = size' - 43
         /\ Value(script', left') = Value(script, left)
         /\ left' = 0 => Positive(script') /\ Minimal(script')
  <1> DEFINE x == left % 256
             s == script \o <<x>>
  <1>1. /\ pc = "height" /\ left # 0 /\ left' = left \div 256
        /\ script' = s \o SignByte /\ size' = size + 1 + Len(SignByte)
    BY DEF PushHeight
  <1>2. /\ script \in Seq(Nat) /\ left \in Nat /\ size \in Nat
        /\ Len(script) = size - 43
    BY <1>1 DEF SizeInv, TypeInv, HeightInv, ReadInv, PushingInv
  <1>3. /\ x \in Nat /\ left' \in Nat /\ x + 256 * left' = left
        /\ s \in Seq(Nat) /\ Len(s) = Len(script) + 1 /\ s[Len(s)] = x
    BY <1>1, <1>2
  <1>4. Len(script') = size' - 43
    <2>1. SignByte \in Seq(Nat) /\ Len(SignByte) \in Nat
      BY DEF SignByte
    <2>2. Len(script') = Len(s) + Len(SignByte)
      BY <1>1, <1>3, <2>1
    <2> HIDE DEF s, x
    <2>3. Len(script') = Len(script) + 1 + Len(SignByte)
      BY <1>3, <2>2
    <2>4. Len(script') = size - 43 + 1 + Len(SignByte)
      BY <1>2, <2>3
    <2> QED
      BY <1>1, <1>2, <2>1, <2>4
  <1>5. Value(s, left') = Value(script, left)
    <2> HIDE DEF x
    <2>1. Value(s, left') = Value(script, x + 256 * left')
      BY <1>2, <1>3, AppendByte
    <2> QED
      BY <1>3, <2>1
  <1>6. CASE left < 256 /\ left >= 128
    <2>1. SignByte = <<0>> /\ script' = s \o <<0>>
      BY <1>1, <1>6 DEF SignByte
    <2>2. left' = 0 /\ x = left
      BY <1>1, <1>2, <1>6
    <2> HIDE DEF s, x
    <2>3. /\ script' \in Seq(Nat) /\ Len(script') = Len(s) + 1
          /\ script'[Len(s) + 1] = 0 /\ script'[Len(s)] = x
      BY <1>2, <1>3, <2>1
    <2>4. Value(script', 0) = Value(s, 0 + 256 * 0)
      BY <1>3, <2>1, AppendByte
    <2>5. Value(script', left') = Value(script, left)
      BY <1>5, <2>2, <2>4
    <2>6. Positive(script') /\ Minimal(script')
      <3>1. script'[Len(script')] = 0 /\ script'[Len(script') - 1] >= 128 /\ Len(script') > 1
        BY <1>2, <1>3, <1>6, <2>2, <2>3
      <3> QED
        BY <3>1 DEF Positive, Minimal
    <2> QED
      BY <1>3, <1>4, <2>3, <2>5, <2>6
  <1>7. CASE ~(left < 256 /\ left >= 128)
    <2>1. SignByte = <<>>
      BY <1>7 DEF SignByte
    <2> HIDE DEF s
    <2>2. script' = s
      BY <1>1, <1>3, <2>1
    <2>3. ASSUME left' = 0 PROVE Positive(script') /\ Minimal(script')
      <3>1. x = left /\ x < 128 /\ x > 0
        BY <1>1, <1>2, <1>7, <2>3
      <3> HIDE DEF x
      <3>2. s[Len(s)] = left /\ left < 128 /\ left # 0
        BY <1>2, <1>3, <3>1
      <3>3. Positive(s) /\ Minimal(s)
        BY <3>2 DEF Positive, Minimal
      <3> QED
        BY <2>2, <3>3
    <2> QED
      BY <1>3, <1>4, <1>5, <2>2, <2>3
  <1> QED
    BY <1>6, <1>7

LEMMA ReadStep == SizeInv /\ ReadInv /\ [Next]_vars => ReadInv'
  <1> SUFFICES ASSUME SizeInv, ReadInv, [Next]_vars PROVE ReadInv'
    OBVIOUS
  <1>t. script \in Seq(Nat) /\ size \in Nat
    BY DEF SizeInv, TypeInv
  <1>1. CASE BuildCoinbase
    <2>1. /\ pc' = "height" /\ script' = <<>> /\ left' = tmpl.height /\ size' = 43 /\ tmpl' = tmpl
      BY <1>1 DEF BuildCoinbase, ReadInv
    <2>2. Value(script', left') = tmpl'.height
      BY <2>1, NoBytes
    <2>3. PushingInv'
      BY <2>1, <2>2 DEF PushingInv, Positive, Minimal
    <2> QED
      BY <2>1, <2>3 DEF ReadInv, Whole
  <1>2. CASE PushHeight
    <2>1. pc = "height" /\ pc' = "height" /\ tmpl' = tmpl
      BY <1>2 DEF PushHeight
    <2>2. tmpl.height >= 0 =>
            /\ Len(script') = size' - 43 /\ Value(script', left') = tmpl.height
            /\ left' = 0 => Positive(script') /\ Minimal(script')
      BY <1>2, <2>1, PushedByte DEF ReadInv, PushingInv
    <2>3. PushingInv'
      BY <2>1, <2>2 DEF PushingInv
    <2> QED
      BY <2>1, <2>3 DEF ReadInv, Whole
  <1>3. CASE FinishScript
    <2>1. /\ pc = "height" /\ left = 0 /\ script' = <<size - 43>> \o script /\ tmpl' = tmpl
          /\ pc' \in {"witnesses", "locktime"}
      BY <1>3 DEF FinishScript
    <2>p. tmpl.height >= 0
      BY <2>1, TemplateType DEF SizeInv, TypeInv, HeightInv
    <2>2. /\ Len(script) = size - 43 /\ Value(script, 0) = tmpl.height
          /\ Positive(script) /\ Minimal(script)
      BY <2>1, <2>p DEF ReadInv, PushingInv
    <2>3. Head(script') = size - 43 /\ Tail(script') = script
      <3>1. size - 43 \in Nat
        BY <1>t, <2>2
      <3> QED
        BY <1>t, <2>1, <3>1
    <2>4. Reads'
      BY <2>1, <2>2, <2>3 DEF Reads
    <2> QED
      BY <2>1, <2>4 DEF ReadInv, PushingInv
  <1>4. CASE TakeCoinbase
    BY <1>4 DEF TakeCoinbase, HasCoinbase, ReadInv, PushingInv
  <1>5. CASE pc' \in {"out", "overrun"}
    BY <1>5 DEF ReadInv, PushingInv, Whole
  <1>6. CASE UNCHANGED vars
    BY <1>6 DEF vars, ReadInv, PushingInv, Reads
  <1>7. CASE /\ UNCHANGED <<tmpl, script>>
             /\ {pc, pc'} \subseteq Whole \cup {"witnesses", "witness level", "locktime"} \cup {"done"}
    BY <1>7 DEF ReadInv, PushingInv, Reads, Whole
  <1> QED
    BY <1>1, <1>2, <1>3, <1>4, <1>5, <1>6, <1>7
       DEF Next, vars, InvalidField, InvalidCoinbase, NoPayout, HeightOverruns, InvalidHash,
       Witnesses, Commit, LockTime, AppendSignature, AppendAux, AppendOverruns, FinishAppend,
       Leaves, EvenOut, HashPair, NextLevel, AssembleHeader, Returned, InLevel, coinbaseVars, Whole

(* The height reads back as it was pushed, for every height there is.      *)
THEOREM HeightIsPushed == Spec => []HeightReadsBack
  <1>1. Init => ReadInv
    BY DEF Init, ReadInv, PushingInv, Whole
  <1>2. SizeInv /\ ReadInv => HeightReadsBack
    BY DEF ReadInv, Reads, HeightReadsBack, Whole
  <1> QED
    BY <1>1, <1>2, SizeInit, SizeStep, ReadStep, PTL DEF Spec

-----------------------------------------------------------------------------
(* The arrays of the merkle trees                                          *)

Room == IF pc = "level" THEN LeavesRoom ELSE tmpl.txs + 2

(* An odd level is shorter than its array.                                 *)
TreeInv ==
  /\ tmpl \in Template
  /\ InLevel =>
       /\ DOMAIN tree = 0..Room - 1
       /\ n \in 1..Room
       /\ n % 2 = 1 /\ n > 1 => n < Room

LEMMA TreeInit == Init => TreeInv
  BY TemplateAssumption DEF Init, TreeInv, InLevel

(* An even number of leaves, at least as many as there are.                *)
LEMMA RoundedUp ==
  ASSUME NEW t \in Nat
  PROVE  /\ 2 * ((1 + t + 1) \div 2) \in Nat /\ 1 + t <= 2 * ((1 + t + 1) \div 2)
         /\ (1 + t) % 2 = 1 => 1 + t < 2 * ((1 + t + 1) \div 2)
  OBVIOUS

LEMMA RoomType == tmpl.txs \in Nat => Room \in Nat /\ LeavesRoom \in Nat
  BY RoundedUp DEF Room, LeavesRoom

LEMMA TreeStep == TreeInv /\ [Next]_vars => TreeInv'
  <1> SUFFICES ASSUME TreeInv, [Next]_vars PROVE TreeInv'
    OBVIOUS
  <1>t. tmpl \in Template /\ tmpl.txs \in Nat
    BY TemplateType DEF TreeInv
  <1>1. CASE Witnesses
    <2>1. tmpl' = tmpl /\ pc' = "witness level" /\ n' = tmpl.txs + 1 /\ DOMAIN tree' = 0..tmpl.txs + 1
      BY <1>1 DEF Witnesses
    <2>2. Room' = tmpl.txs + 2 /\ (tmpl.txs + 2) - 1 = tmpl.txs + 1
      <3>1. Room' = tmpl.txs + 2
        BY <2>1 DEF Room
      <3>2. (tmpl.txs + 2) - 1 = tmpl.txs + 1
        BY <1>t
      <3> QED
        BY <3>1, <3>2
    <2>3. n' \in 1..Room' /\ n' < Room'
      <3>1. n' = tmpl.txs + 1
        BY <2>1
      <3> QED
        BY <1>t, <2>2, <3>1
    <2>4. DOMAIN tree' = 0..Room' - 1
      BY <2>1, <2>2
    <2> QED
      BY <1>t, <2>1, <2>3, <2>4 DEF TreeInv
  <1>2. CASE Leaves
    <2>1. tmpl' = tmpl /\ pc' = "level" /\ n' = 1 + tmpl.txs /\ DOMAIN tree' = 0..LeavesRoom - 1
      BY <1>2 DEF Leaves
    <2>2. LeavesRoom \in Nat /\ n' <= LeavesRoom /\ (n' % 2 = 1 => n' < LeavesRoom)
      <3>1. n' = 1 + tmpl.txs
        BY <2>1
      <3> QED
        BY <1>t, <3>1, RoundedUp DEF LeavesRoom
    <2>3. Room' = LeavesRoom
      BY <2>1 DEF Room, LeavesRoom
    <2>4. n' \in 1..LeavesRoom
      <3>1. n' = 1 + tmpl.txs
        BY <2>1
      <3> QED
        BY <1>t, <2>2, <3>1
    <2>5. DOMAIN tree' = 0..Room' - 1
      BY <2>1, <2>3
    <2> QED
      BY <1>t, <2>1, <2>2, <2>3, <2>4, <2>5 DEF TreeInv
  <1>3. CASE EvenOut
    <2>1. /\ InLevel /\ n > 1 /\ n % 2 = 1 /\ n' = n + 1 /\ DOMAIN tree' = DOMAIN tree
          /\ tmpl' = tmpl /\ pc' = pc
      BY <1>3 DEF EvenOut
    <2>2. Room' = Room /\ Room \in Nat /\ InLevel'
      BY <1>t, <2>1, RoomType DEF Room, LeavesRoom, InLevel
    <2> QED
      BY <2>1, <2>2 DEF TreeInv
  <1>4. CASE HashPair
    <2>1. n' = n /\ DOMAIN tree' = DOMAIN tree /\ tmpl' = tmpl /\ pc' = pc
      BY <1>4 DEF HashPair
    <2> QED
      BY <2>1 DEF TreeInv, InLevel, Room, LeavesRoom
  <1>5. CASE NextLevel
    <2>1. InLevel /\ n > 1 /\ n % 2 = 0 /\ n' = n \div 2 /\ tree' = tree /\ tmpl' = tmpl /\ pc' = pc
      BY <1>5 DEF NextLevel
    <2>2. Room' = Room /\ Room \in Nat /\ InLevel'
      BY <1>t, <2>1, RoomType DEF Room, LeavesRoom, InLevel
    <2> QED
      BY <2>1, <2>2 DEF TreeInv
  <1>u. tmpl' = tmpl
    BY DEF Next, vars, InvalidField, InvalidCoinbase, TakeCoinbase, NoPayout, BuildCoinbase,
       PushHeight, HeightOverruns, FinishScript, InvalidHash, Witnesses, Commit, LockTime,
       AppendSignature, AppendAux, AppendOverruns, FinishAppend,
       Leaves, EvenOut, HashPair, NextLevel, AssembleHeader, Returned
  <1>6. CASE ~InLevel'
    BY <1>t, <1>u, <1>6 DEF TreeInv
  <1>7. CASE pc' = pc /\ UNCHANGED <<tmpl, tree, n>>
    BY <1>7 DEF TreeInv, InLevel, Room, LeavesRoom
  <1> QED
    BY <1>1, <1>2, <1>3, <1>4, <1>5, <1>6, <1>7
       DEF Next, vars, InLevel, InvalidField, InvalidCoinbase, TakeCoinbase, NoPayout,
       BuildCoinbase, PushHeight, HeightOverruns, FinishScript, InvalidHash, Commit, LockTime,
       AppendSignature, AppendAux, AppendOverruns, FinishAppend, AssembleHeader,
       Returned, treeVars

(* Reducing a level in place, odd or even, never reads or writes beyond    *)
(* the array that was allocated, for any number of transactions.           *)
THEOREM TreesStayInBounds == Spec => []TreesInBounds
  <1>1. ASSUME TreeInv PROVE TreesInBounds
    <2> SUFFICES ASSUME InLevel, n > 1
                 PROVE  (IF n % 2 = 1 THEN n ELSE n - 1) \in DOMAIN tree
      BY DEF TreesInBounds
    <2>1. Room \in Nat
      BY <1>1, TemplateType, RoomType DEF TreeInv
    <2>2. DOMAIN tree = 0..Room - 1 /\ n \in 1..Room /\ (n % 2 = 1 => n < Room)
      BY <1>1 DEF TreeInv
    <2>3. (IF n % 2 = 1 THEN n ELSE n - 1) \in 0..Room - 1
      BY <2>1, <2>2
    <2> QED
      BY <2>2, <2>3
  <1> QED
    BY <1>1, TreeInit, TreeStep, PTL DEF Spec
-----------------------------------------------------------------------------
(* The roots of the merkle trees                                           *)

IsRows(g, leaf, count, m) ==
  /\ g = [l \in 0..m |-> g[l]] /\ g[0] = [width |-> count, node |-> leaf]
  /\ \A l \in 1..m : g[l] = Above(g[l - 1])

LEMMA RowsExist ==
  ASSUME NEW leaf, NEW count \in Nat
  PROVE  \E g : IsRows(g, leaf, count, count)
  <1> DEFINE Good == {m \in Nat : \E g : IsRows(g, leaf, count, m)}
             bottom == [width |-> count, node |-> leaf]
  <1>1. 0 \in Good
    <2> HIDE DEF bottom
    <2> DEFINE g == [l \in 0..0 |-> bottom]
    <2>1. g = [l \in 0..0 |-> g[l]] /\ g[0] = bottom /\ \A l \in 1..0 : g[l] = Above(g[l - 1])
      OBVIOUS
    <2> HIDE DEF g
    <2>2. IsRows(g, leaf, count, 0)
      BY <2>1 DEF IsRows, bottom
    <2> QED
      BY <2>2
  <1>2. ASSUME NEW m \in Nat, m \in Good PROVE m + 1 \in Good
    <2>1. PICK g : IsRows(g, leaf, count, m)
      BY <1>2
    <2> DEFINE h == [l \in 0..m + 1 |-> IF l = m + 1 THEN Above(g[m]) ELSE g[l]]
    <2>2. h = [l \in 0..m + 1 |-> h[l]]
      OBVIOUS
    <2>3. h[m + 1] = Above(g[m]) /\ \A l \in 0..m : h[l] = g[l]
      OBVIOUS
    <2> HIDE DEF h
    <2>4. ASSUME NEW l \in 1..m + 1
          PROVE  h[l] = Above(h[l - 1])
      <3>1. CASE l = m + 1
        BY <2>3, <3>1
      <3>2. CASE l \in 1..m
        <4>1. l \in 0..m /\ l - 1 \in 0..m
          BY <3>2
        <4>2. h[l] = g[l] /\ h[l - 1] = g[l - 1]
          BY <2>3, <4>1
        <4> QED
          BY <2>1, <3>2, <4>2 DEF IsRows
      <3> QED
        BY <3>1, <3>2
    <2>5. h[0] = bottom
      BY <2>1, <2>3 DEF IsRows
    <2>6. IsRows(h, leaf, count, m + 1)
      BY <2>2, <2>4, <2>5 DEF IsRows
    <2> QED
      BY <2>6
  <1> HIDE DEF Good
  <1>3. count \in Good
    BY <1>1, <1>2, Induction
  <1> QED
    BY <1>3 DEF Good

LEMMA RowsDef ==
  ASSUME NEW leaf, NEW count \in Nat
  PROVE  /\ Rows(leaf, count)[0] = [width |-> count, node |-> leaf]
         /\ \A l \in 1..count : Rows(leaf, count)[l] = Above(Rows(leaf, count)[l - 1])
  <1> DEFINE P(g) == g = [l \in 0..count |->
                            IF l = 0 THEN [width |-> count, node |-> leaf] ELSE Above(g[l - 1])]
  <1>1. PICK g : IsRows(g, leaf, count, count)
    BY RowsExist
  <1>2. P(g)
    <2>1. \A l \in 0..count :
            g[l] = IF l = 0 THEN [width |-> count, node |-> leaf] ELSE Above(g[l - 1])
      BY <1>1 DEF IsRows
    <2>2. [l \in 0..count |-> g[l]] =
            [l \in 0..count |-> IF l = 0 THEN [width |-> count, node |-> leaf] ELSE Above(g[l - 1])]
      BY <2>1
    <2>3. g = [l \in 0..count |-> g[l]]
      BY <1>1 DEF IsRows
    <2> QED
      BY <2>2, <2>3
  <1>3. Rows(leaf, count) = CHOOSE f : P(f)
    BY Zenon DEF Rows
  <1> HIDE DEF P
  <1>4. P(Rows(leaf, count))
    BY <1>2, <1>3
  <1>5. Rows(leaf, count) = [l \in 0..count |->
          IF l = 0 THEN [width |-> count, node |-> leaf] ELSE Above(Rows(leaf, count)[l - 1])]
    BY <1>4 DEF P
  <1> QED
    BY <1>5

Leaf == IF pc = "level" THEN Identifiers ELSE WitnessHashes
Levels == Rows(Leaf, 1 + tmpl.txs)

(* The array stands between level l and the one above it: the first i      *)
(* nodes are those of the level above, the nodes still to be read are      *)
(* those of level l, with a copy of its last one when it has been evened   *)
(* out.                                                                    *)
Standing(l, rows) ==
  LET row == rows[l]
  IN /\ \A k \in 0..l - 1 : rows[k].width # 1
     /\ row.width \in Nat \ {0} /\ l + row.width <= 1 + tmpl.txs
     /\ \/ n = row.width
        \/ n = row.width + 1 /\ row.width > 1 /\ row.width % 2 = 1
     /\ i \in Nat /\ 2 * i <= n /\ (i > 0 => n % 2 = 0)
     /\ \A k \in 0..i - 1 : tree[k] = Above(row).node[k]
     /\ \A k \in 2 * i..n - 1 : tree[k] = row.node[IF k < row.width THEN k ELSE k - 1]

RootsInv ==
  /\ InLevel => \E l \in 0..tmpl.txs : Standing(l, Levels)
  /\ pc = "done" => tree[0] = Root(Identifiers, 1 + tmpl.txs)
  /\ commitment # None => commitment = Hash(Root(WitnessHashes, 1 + tmpl.txs), Zero)

LEMMA AboveDef ==
  ASSUME NEW row, row.width \in Nat
  PROVE  /\ Above(row).width = Pairs(row.width)
         /\ \A k \in 0..Pairs(row.width) - 1 :
              Above(row).node[k] =
                Hash(row.node[2 * k], row.node[IF 2 * k + 1 < row.width THEN 2 * k + 1 ELSE 2 * k])
  BY DEF Above

LEMMA EvenedOut ==
  ASSUME TreeInv, NEW rows, NEW l \in Nat, Standing(l, rows), EvenOut
  PROVE  Standing(l, rows)'
  <1> DEFINE w == rows[l].width
             node == rows[l].node
  <1>1. /\ n > 1 /\ n % 2 = 1 /\ tree' = [tree EXCEPT ![n] = tree[n - 1]] /\ n' = n + 1
        /\ i' = i /\ tmpl' = tmpl /\ InLevel
    BY DEF EvenOut
  <1>2. /\ w \in Nat \ {0} /\ l + w <= 1 + tmpl.txs
        /\ n = w \/ (n = w + 1 /\ w > 1 /\ w % 2 = 1)
        /\ i \in Nat /\ 2 * i <= n /\ (i > 0 => n % 2 = 0)
        /\ \A k \in 2 * i..n - 1 : tree[k] = node[IF k < w THEN k ELSE k - 1]
        /\ \A k \in 0..l - 1 : rows[k].width # 1
    BY DEF Standing
  <1> HIDE DEF w, node
  <1>3. n = w /\ i = 0
    BY <1>1, <1>2
  <1>4. DOMAIN tree = 0..Room - 1 /\ n < Room /\ Room \in Nat
    BY <1>1, TemplateType, RoomType DEF TreeInv
  <1>5. tree'[n] = tree[n - 1] /\ \A k \in 0..n - 1 : tree'[k] = tree[k]
    BY <1>1, <1>2, <1>3, <1>4
  <1>6. \A k \in 0..n' - 1 : tree'[k] = node[IF k < w THEN k ELSE k - 1]
    <2> TAKE k \in 0..n' - 1
    <2>1. CASE k = n
      BY <1>2, <1>3, <1>5, <2>1
    <2>2. CASE k \in 0..n - 1
      BY <1>2, <1>3, <1>5, <2>2
    <2> QED
      BY <1>1, <1>2, <1>3, <2>1, <2>2
  <1>7. n' = w + 1 /\ w > 1 /\ w % 2 = 1 /\ i' = 0 /\ 2 * i' <= n' /\ 2 * i' = 0
    BY <1>1, <1>2, <1>3
  <1>8. \A k \in 2 * i'..n' - 1 : tree'[k] = node[IF k < w THEN k ELSE k - 1]
    BY <1>6, <1>7
  <1>9. \A k \in 0..i' - 1 : tree'[k] = Above(rows[l]).node[k]
    BY <1>7
  <1> QED
    BY <1>1, <1>2, <1>7, <1>8, <1>9 DEF Standing, w, node

LEMMA PairHashed ==
  ASSUME TreeInv, NEW rows, NEW l \in Nat, Standing(l, rows), HashPair
  PROVE  Standing(l, rows)'
  <1> DEFINE w == rows[l].width
             node == rows[l].node
             up == Above(rows[l]).node
             from(k) == IF k < w THEN k ELSE k - 1
  <1>1. /\ n > 1 /\ n % 2 = 0 /\ i < n \div 2 /\ i' = i + 1 /\ n' = n
        /\ tree' = [tree EXCEPT ![i] = Hash(tree[2 * i], tree[2 * i + 1])]
        /\ tmpl' = tmpl /\ InLevel
    BY DEF HashPair
  <1>2. /\ w \in Nat \ {0} /\ l + w <= 1 + tmpl.txs
        /\ n = w \/ (n = w + 1 /\ w > 1 /\ w % 2 = 1)
        /\ i \in Nat
        /\ \A k \in 0..i - 1 : tree[k] = up[k]
        /\ \A k \in 2 * i..n - 1 : tree[k] = node[from(k)]
        /\ \A k \in 0..l - 1 : rows[k].width # 1
    BY DEF Standing
  <1>3. \A k \in 0..Pairs(w) - 1 : up[k] = Hash(node[2 * k], node[IF 2 * k + 1 < w THEN 2 * k + 1 ELSE 2 * k])
    BY <1>2, AboveDef
  <1> HIDE DEF w, node, up
  <1>4. DOMAIN tree = 0..Room - 1 /\ n <= Room /\ Room \in Nat
    BY <1>1, TemplateType, RoomType DEF TreeInv
  <1>5. n \in Nat /\ 2 * (i + 1) <= n /\ i \in 0..Pairs(w) - 1 /\ 2 * i \in 2 * i..n - 1
        /\ 2 * i + 1 \in 2 * i..n - 1 /\ 2 * i < w
    BY <1>1, <1>2 DEF Pairs
  <1>6. tree'[i] = up[i]
    <2>1. i \in DOMAIN tree
      BY <1>2, <1>4, <1>5
    <2>2. tree'[i] = Hash(tree[2 * i], tree[2 * i + 1])
      BY <1>1, <2>1
    <2>3. tree[2 * i] = node[2 * i]
      BY <1>2, <1>5
    <2>4. tree[2 * i + 1] = node[IF 2 * i + 1 < w THEN 2 * i + 1 ELSE 2 * i]
      <3>1. from(2 * i + 1) = IF 2 * i + 1 < w THEN 2 * i + 1 ELSE 2 * i
        BY <1>2
      <3> QED
        BY <1>2, <1>5, <3>1
    <2> QED
      BY <1>3, <1>5, <2>2, <2>3, <2>4
  <1>7. \A k \in 0..i' - 1 : tree'[k] = up[k]
    <2> TAKE k \in 0..i' - 1
    <2>1. CASE k = i
      BY <1>6, <2>1
    <2>2. CASE k \in 0..i - 1
      <3>1. tree'[k] = tree[k]
        BY <1>1, <1>2, <2>2
      <3> QED
        BY <1>2, <2>2, <3>1
    <2> QED
      BY <1>1, <1>2, <2>1, <2>2
  <1>8. \A k \in 2 * i'..n' - 1 : tree'[k] = node[from(k)]
    <2> TAKE k \in 2 * i'..n' - 1
    <2>1. k \in 2 * i..n - 1 /\ k # i
      BY <1>1, <1>2, <1>5
    <2>2. tree'[k] = tree[k]
      BY <1>1, <2>1
    <2> QED
      BY <1>2, <2>1, <2>2
  <1>9. i' \in Nat /\ 2 * i' <= n' /\ n' % 2 = 0
    BY <1>1, <1>2, <1>5
  <1> QED
    BY <1>1, <1>2, <1>7, <1>8, <1>9 DEF Standing, w, node, up

LEMMA LevelDone ==
  ASSUME TreeInv, NEW rows, NEW l \in Nat, Standing(l, rows), NextLevel,
         tmpl.txs \in Nat,
         \A k \in 1..1 + tmpl.txs : rows[k] = Above(rows[k - 1])
  PROVE  l + 1 \in 0..tmpl.txs /\ Standing(l + 1, rows)'
  <1> DEFINE w == rows[l].width
             up == rows[l + 1].node
  <1>1. /\ n > 1 /\ n % 2 = 0 /\ i = n \div 2 /\ n' = n \div 2 /\ i' = 0
        /\ tree' = tree /\ tmpl' = tmpl
    BY DEF NextLevel
  <1>2. /\ w \in Nat \ {0} /\ l + w <= 1 + tmpl.txs
        /\ n = w \/ (n = w + 1 /\ w > 1 /\ w % 2 = 1)
        /\ i \in Nat
        /\ \A k \in 0..i - 1 : tree[k] = Above(rows[l]).node[k]
        /\ \A k \in 0..l - 1 : rows[k].width # 1
    BY DEF Standing
  <1>3. w > 1 /\ l + 1 \in 1..1 + tmpl.txs /\ l + 1 \in 0..tmpl.txs
    <2> HIDE DEF w
    <2> QED
      BY <1>1, <1>2
  <1>4. rows[l + 1] = Above(rows[l])
    <2>1. (l + 1) - 1 = l
      OBVIOUS
    <2> QED
      BY <1>3, <2>1
  <1>5. rows[l + 1].width = Pairs(w) /\ \A k \in 0..i - 1 : tree[k] = up[k]
    BY <1>2, <1>4, AboveDef
  <1>6. \A k \in 0..(l + 1) - 1 : rows[k].width # 1
    BY <1>2, <1>3
  <1> HIDE DEF w, up
  <1>7. n' = Pairs(w) /\ Pairs(w) \in Nat \ {0} /\ (l + 1) + Pairs(w) <= 1 + tmpl.txs
    BY <1>1, <1>2, <1>3 DEF Pairs
  <1>8. \A k \in 2 * i'..n' - 1 : tree'[k] = up[IF k < Pairs(w) THEN k ELSE k - 1]
    <2> TAKE k \in 2 * i'..n' - 1
    <2>1. k \in 0..i - 1 /\ k < Pairs(w)
      BY <1>1, <1>2, <1>7
    <2> QED
      BY <1>1, <1>5, <2>1
  <1>9. i' \in Nat /\ 2 * i' <= n' /\ ~(i' > 0)
    BY <1>1, <1>7
  <1>10. \A k \in 0..i' - 1 : tree'[k] = Above(rows[l + 1]).node[k]
    BY <1>1
  <1> QED
    BY <1>1, <1>3, <1>5, <1>6, <1>7, <1>8, <1>9, <1>10 DEF Standing, up

(* The level with a single node is the top.                                *)
LEMMA SingleNode ==
  ASSUME NEW leaf, NEW l \in 0..tmpl.txs, tmpl.txs \in Nat,
         Standing(l, Rows(leaf, 1 + tmpl.txs)), n = 1
  PROVE  tree[0] = Root(leaf, 1 + tmpl.txs)
  <1> DEFINE rows == Rows(leaf, 1 + tmpl.txs)
             top == CHOOSE k \in 0..1 + tmpl.txs : IsTop(k, rows)
  <1>1. rows[l].width = 1 /\ i = 0 /\ (\A k \in 0..l - 1 : rows[k].width # 1) /\ tree[0] = rows[l].node[0]
    <2> HIDE DEF rows
    <2>1. /\ rows[l].width \in Nat \ {0} /\ i \in Nat /\ 2 * i <= n
          /\ n = rows[l].width \/ (n = rows[l].width + 1 /\ rows[l].width > 1)
          /\ \A k \in 0..l - 1 : rows[k].width # 1
          /\ \A k \in 2 * i..n - 1 :
               tree[k] = rows[l].node[IF k < rows[l].width THEN k ELSE k - 1]
      BY DEF Standing, rows
    <2>2. rows[l].width = 1 /\ i = 0
      BY <2>1
    <2>3. 0 \in 2 * i..n - 1
      BY <2>2
    <2> QED
      BY <2>1, <2>2, <2>3
  <1> HIDE DEF rows
  <1>2. IsTop(l, rows) /\ l \in 0..1 + tmpl.txs
    BY <1>1 DEF IsTop
  <1>3. top \in 0..1 + tmpl.txs /\ IsTop(top, rows)
    BY <1>2
  <1> HIDE DEF top
  <1>4. top = l
    <2>1. ~(top < l) /\ ~(l < top)
      BY <1>2, <1>3 DEF IsTop
    <2> QED
      BY <1>3, <2>1
  <1> QED
    BY <1>1, <1>4 DEF Root, rows, top

(* The leaves, in an array of their own.                                   *)
LEMMA LeavesSet ==
  ASSUME NEW leaf, tmpl.txs \in Nat, n' = 1 + tmpl.txs, i' = 0, tmpl' = tmpl,
         \A k \in 0..tmpl.txs : tree'[k] = leaf[k],
         NEW rows, rows[0] = [width |-> 1 + tmpl.txs, node |-> leaf]
  PROVE  Standing(0, rows)'
  <1>1. rows[0].width = 1 + tmpl.txs /\ rows[0].node = leaf
    OBVIOUS
  <1>2. \A k \in 2 * i'..n' - 1 :
          tree'[k] = rows[0].node[IF k < rows[0].width THEN k ELSE k - 1]
    <2> TAKE k \in 2 * i'..n' - 1
    <2>1. k \in 0..tmpl.txs /\ k < 1 + tmpl.txs
      OBVIOUS
    <2> QED
      BY <1>1, <2>1
  <1>3. /\ rows[0].width \in Nat \ {0} /\ 0 + rows[0].width <= 1 + tmpl.txs
        /\ n' = rows[0].width /\ i' \in Nat /\ 2 * i' <= n' /\ ~(i' > 0)
    BY <1>1
  <1>4. (\A k \in 0..i' - 1 : tree'[k] = Above(rows[0]).node[k]) /\ \A k \in 0..0 - 1 : rows[k].width # 1
    OBVIOUS
  <1> QED
    BY <1>2, <1>3, <1>4 DEF Standing

LEMMA RootsStep == TreeInv /\ RootsInv /\ [Next]_vars => RootsInv'
  <1> SUFFICES ASSUME TreeInv, RootsInv, [Next]_vars PROVE RootsInv'
    OBVIOUS
  <1>t. tmpl \in Template /\ tmpl.txs \in Nat /\ 1 + tmpl.txs \in Nat
    BY TemplateType DEF TreeInv
  <1>u. tmpl' = tmpl
    BY DEF Next, vars, InvalidField, InvalidCoinbase, TakeCoinbase, NoPayout, BuildCoinbase,
       PushHeight, HeightOverruns, FinishScript, InvalidHash, Witnesses, Commit, LockTime,
       AppendSignature, AppendAux, AppendOverruns, FinishAppend,
       Leaves, EvenOut, HashPair, NextLevel, AssembleHeader, Returned
  <1>v. Identifiers' = Identifiers /\ WitnessHashes' = WitnessHashes
    BY <1>u DEF Identifiers, WitnessHashes
  <1>l. pc' = pc => Leaf' = Leaf /\ Levels' = Levels
    BY <1>u, <1>v DEF Leaf, Levels
  <1>r. /\ Levels[0] = [width |-> 1 + tmpl.txs, node |-> Leaf]
        /\ \A k \in 1..1 + tmpl.txs : Levels[k] = Above(Levels[k - 1])
    BY <1>t, RowsDef DEF Levels
  <1>1. CASE Witnesses
    <2>a. /\ pc' = "witness level" /\ n' = tmpl.txs + 1 /\ i' = 0 /\ commitment' = commitment
          /\ tree' = [k \in 0..tmpl.txs + 1 |-> IF k \in 1..tmpl.txs THEN Tx(k) ELSE Zero]
      BY <1>1 DEF Witnesses
    <2>1. pc' = "witness level" /\ n' = 1 + tmpl.txs /\ i' = 0 /\ commitment' = commitment
      <3>1. tmpl.txs + 1 = 1 + tmpl.txs
        BY <1>t
      <3> QED
        BY <2>a, <3>1
    <2>2. \A k \in 0..tmpl.txs : tree'[k] = WitnessHashes[k]
      <3> TAKE k \in 0..tmpl.txs
      <3>1. tree'[k] = IF k \in 1..tmpl.txs THEN Tx(k) ELSE Zero
        <4>1. k \in 0..tmpl.txs + 1
          BY <1>t
        <4> QED
          BY <2>a, <4>1
      <3>2. DOMAIN Identifiers = 0..tmpl.txs /\ Identifiers[k] = Tx(k)
        BY DEF Identifiers
      <3>3. WitnessHashes[k] = IF k = 0 THEN Zero ELSE Tx(k)
        BY <3>2 DEF WitnessHashes
      <3> QED
        BY <1>t, <3>1, <3>3
    <2>3. Rows(WitnessHashes, 1 + tmpl.txs)[0] = [width |-> 1 + tmpl.txs, node |-> WitnessHashes]
      BY <1>t, RowsDef
    <2>4. Levels' = Rows(WitnessHashes, 1 + tmpl.txs)
      BY <1>u, <1>v, <2>1 DEF Levels, Leaf
    <2>5. \A rows : rows[0] = [width |-> 1 + tmpl.txs, node |-> WitnessHashes] => Standing(0, rows)'
      <3> TAKE rows
      <3> HAVE rows[0] = [width |-> 1 + tmpl.txs, node |-> WitnessHashes]
      <3> QED
        BY <1>t, <1>u, <2>1, <2>2, LeavesSet
    <2>6. Standing(0, Levels)'
      BY <2>3, <2>4, <2>5 DEF Standing
    <2>7. 0 \in 0..tmpl'.txs /\ pc' # "done"
      <3>1. 0 \in 0..tmpl.txs
        BY <1>t
      <3> QED
        BY <1>u, <2>1, <3>1
    <2>8. \E l \in 0..tmpl'.txs : Standing(l, Levels)'
      BY <2>6, <2>7
    <2> QED
      BY <1>u, <1>v, <2>1, <2>7, <2>8 DEF RootsInv
  <1>2. CASE Leaves
    <2>1. /\ pc' = "level" /\ n' = 1 + tmpl.txs /\ i' = 0 /\ commitment' = commitment
          /\ tree' = [k \in 0..LeavesRoom - 1 |-> IF k <= tmpl.txs THEN Tx(k) ELSE Zero]
      BY <1>2, <1>t DEF Leaves
    <2>2. \A k \in 0..tmpl.txs : tree'[k] = Identifiers[k]
      <3>1. LeavesRoom \in Nat /\ 1 + tmpl.txs <= LeavesRoom
        BY <1>t, RoundedUp DEF LeavesRoom
      <3> QED
        BY <1>t, <2>1, <3>1 DEF Identifiers
    <2>3. Rows(Identifiers, 1 + tmpl.txs)[0] = [width |-> 1 + tmpl.txs, node |-> Identifiers]
      BY <1>t, RowsDef
    <2>4. Levels' = Rows(Identifiers, 1 + tmpl.txs)
      BY <1>u, <1>v, <2>1 DEF Levels, Leaf
    <2>5. \A rows : rows[0] = [width |-> 1 + tmpl.txs, node |-> Identifiers] => Standing(0, rows)'
      <3> TAKE rows
      <3> HAVE rows[0] = [width |-> 1 + tmpl.txs, node |-> Identifiers]
      <3> QED
        BY <1>t, <1>u, <2>1, <2>2, LeavesSet
    <2>6. Standing(0, Levels)'
      BY <2>3, <2>4, <2>5 DEF Standing
    <2> QED
      BY <1>t, <1>u, <1>v, <2>1, <2>6 DEF RootsInv
  <1>3. CASE EvenOut \/ HashPair \/ NextLevel
    <2>1. InLevel /\ pc' = pc /\ commitment' = commitment
      BY <1>3 DEF EvenOut, HashPair, NextLevel
    <2>2. PICK l \in 0..tmpl.txs : Standing(l, Levels)
      BY <2>1 DEF RootsInv
    <2>3. \E m \in 0..tmpl.txs : \A rows : rows = Levels => Standing(m, rows)'
      <3>1. CASE EvenOut
        BY <1>t, <2>2, <3>1, EvenedOut
      <3>2. CASE HashPair
        BY <1>t, <2>2, <3>2, PairHashed
      <3>3. CASE NextLevel
        BY <1>t, <1>r, <2>2, <3>3, LevelDone
      <3> QED
        BY <1>3, <3>1, <3>2, <3>3
    <2>4. \E m \in 0..tmpl.txs : Standing(m, Levels)'
      BY <1>l, <2>1, <2>3 DEF Standing
    <2> QED
      BY <1>u, <1>v, <2>1, <2>4 DEF RootsInv, InLevel
  <1>4. CASE Commit
    <2>1. pc = "witness level" /\ n = 1 /\ commitment' = Hash(tree[0], Zero) /\ pc' = "locktime"
      BY <1>4 DEF Commit
    <2>2. tree[0] = Root(WitnessHashes, 1 + tmpl.txs)
      BY <1>t, <2>1, SingleNode DEF RootsInv, InLevel, Levels, Leaf
    <2> QED
      BY <1>u, <1>v, <2>1, <2>2 DEF RootsInv, InLevel
  <1>5. CASE AssembleHeader
    <2>1. pc = "level" /\ n = 1 /\ commitment' = commitment /\ tree' = tree /\ pc' \in {"out", "done"}
      BY <1>5 DEF AssembleHeader, treeVars
    <2>2. tree[0] = Root(Identifiers, 1 + tmpl.txs)
      BY <1>t, <2>1, SingleNode DEF RootsInv, InLevel, Levels, Leaf
    <2> QED
      BY <1>u, <1>v, <2>1, <2>2 DEF RootsInv, InLevel
  <1>6. CASE commitment' = commitment /\ ~InLevel' /\ pc' # "done"
    BY <1>u, <1>v, <1>6 DEF RootsInv
  <1>7. CASE UNCHANGED <<pc, treeVars, commitment>>
    <2>1. InLevel' = InLevel /\ Levels' = Levels
      BY <1>l, <1>7 DEF InLevel
    <2>2. \A l : Standing(l, Levels)' = Standing(l, Levels)
      BY <1>u, <1>7, <2>1 DEF Standing, treeVars
    <2> QED
      BY <1>u, <1>v, <1>7, <2>1, <2>2 DEF RootsInv, treeVars
  <1> QED
    BY <1>1, <1>2, <1>3, <1>4, <1>5, <1>6, <1>7
       DEF Next, vars, InLevel, InvalidField, InvalidCoinbase, TakeCoinbase, NoPayout,
       BuildCoinbase, PushHeight, HeightOverruns, FinishScript, InvalidHash, LockTime,
       AppendSignature, AppendAux, AppendOverruns, FinishAppend,
       Returned, treeVars

(* Both reductions come to the root of the tree as it is defined, for any  *)
(* number of transactions, and stay within their arrays.                   *)
THEOREM TreesComeToRoots == Spec => []TreesRight
  <1>1. Init => RootsInv
    BY DEF Init, RootsInv, InLevel
  <1>2. RootsInv /\ TreesInBounds => TreesRight
    BY DEF RootsInv, TreesRight
  <1>3. Spec => []RootsInv
    BY <1>1, TreeInit, TreeStep, RootsStep, PTL DEF Spec
  <1> QED
    BY <1>2, <1>3, TreesStayInBounds, PTL

=============================================================================
