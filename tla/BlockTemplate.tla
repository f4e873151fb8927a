----------------------------- MODULE BlockTemplate -----------------------------
(***************************************************************************)
(* gbt_work_decode: how a block is made of a template of the node, as far  *)
(* as it can go wrong with the size of things.                             *)
(*                                                                         *)
(* Without "coinbasetxn" the coinbase is built here: the height is pushed  *)
(* byte by byte into its script, outputs follow, one of them with the      *)
(* commitment to the witnesses.  The signature of --coinbase-sig and the   *)
(* items of "coinbaseaux" are then pushed behind, in a script that must    *)
(* stay within 100 bytes.  Last, the merkle tree is reduced in place.      *)
(*                                                                         *)
(* A "coinbasetxn" is taken as it comes: its size is the length of what    *)
(* was sent, the length of its script one of the bytes in it, and nothing  *)
(* compares the two.  Where the code would then write outside the buffer   *)
(* the behaviour ends, at "overrun".                                       *)
(*                                                                         *)
(* The bytes of the height are kept, of the rest of the coinbase only the  *)
(* sizes: cbtx[41], the length of the script, cbtx_size and the size of    *)
(* the buffer.  A hash is the pair that was hashed.                        *)
(***************************************************************************)
EXTENDS Integers, Sequences

CONSTANTS
  IntMax,       \* the greatest "int"
  None,         \* no "coinbasetxn", no commitment
  Templates     \* the templates, and what the command line gives

(* "coinbasetxn": its size, zero when it is not hexadecimal, and its byte  *)
(* 41, the length of the script if it is a coinbase.                       *)
Given == [size : 0..IntMax \div 2, len : 0..255]

(* height, whatever "int" the node's number becomes; number of             *)
(* transactions; rules with "segwit"; "coinbasetxn"; "coinbase/append" in  *)
(* "mutable"; lengths of the items of "coinbaseaux" and of coinbase_sig;   *)
(* pk_script_size, zero without an address; and what is missing or has     *)
(* another type: a field at the top, a hash of a transaction, or the       *)
(* target.  Items behind a bad one in "coinbaseaux" are not there.         *)
Template ==
  [height : (-IntMax - 1)..IntMax, txs : Nat, segwit : BOOLEAN, given : Given \cup {None},
   append : BOOLEAN, aux : Seq(0..100), sig : 0..100, pk : 0..42,
   bad : {"nothing", "field", "hash", "target"}]

ASSUME TemplateAssumption ==
  /\ IntMax \in Nat /\ ((IntMax \div 256) \div 256) \div 256 <= 127      \* 32 bits
  /\ None \notin Given
  /\ Templates \subseteq Template

VARIABLES
  tmpl,         \* the template, and what the command line gives
  pc,           \* where gbt_work_decode is
  left,         \* "n" of the loop that pushes the height
  script,       \* the bytes of the height
  len,          \* cbtx[41]
  size,         \* cbtx_size
  room,         \* the size of cbtx
  xsig,         \* xsig_len
  aux,          \* items of "coinbaseaux" to come
  tree,         \* wtree, then merkle_tree
  n, i,         \* their loops
  commitment    \* to the witnesses

vars == <<tmpl, pc, left, script, len, size, room, xsig, aux, tree, n, i, commitment>>
coinbaseVars == <<left, script, len, size, room>>
appendVars == <<xsig, aux>>
treeVars == <<tree, n, i>>

Init ==
  /\ tmpl \in Templates
  /\ pc = "fields"
  /\ left = 0 /\ script = <<>> /\ len = 0 /\ size = 0 /\ room = 0
  /\ xsig = 0 /\ aux = <<>>
  /\ tree = <<>> /\ n = 0 /\ i = 0
  /\ commitment = None

Zero == <<"zero">>                   \* 32 bytes of zero
Tx(k) == <<"tx", k>>
Hash(a, b) == <<"hash", a, b>>

-----------------------------------------------------------------------------
(* The coinbase                                                            *)

(* A field is missing or has another type.                                 *)
InvalidField ==
  /\ pc = "fields" /\ tmpl.bad = "field"
  /\ pc' = "out"
  /\ UNCHANGED <<tmpl, coinbaseVars, appendVars, treeVars, commitment>>

HasCoinbase == tmpl.bad # "field" /\ tmpl.given # None

(* "JSON invalid coinbasetxn".                                             *)
InvalidCoinbase ==
  /\ pc = "fields" /\ HasCoinbase /\ tmpl.given.size < 60
  /\ pc' = "out"
  /\ UNCHANGED <<tmpl, coinbaseVars, appendVars, treeVars, commitment>>

(* "coinbasetxn": 100 bytes are left for what is appended.                 *)
TakeCoinbase ==
  /\ pc = "fields" /\ HasCoinbase /\ tmpl.given.size >= 60
  /\ len' = tmpl.given.len
  /\ size' = tmpl.given.size
  /\ room' = size' + 100
  /\ pc' = IF tmpl.append THEN "append" ELSE "leaves"
  /\ aux' = tmpl.aux
  /\ UNCHANGED <<tmpl, left, script, xsig, treeVars, commitment>>

(* "No payout address provided".                                           *)
NoPayout ==
  /\ pc = "fields" /\ tmpl.bad # "field" /\ tmpl.given = None /\ tmpl.pk = 0
  /\ pc' = "out"
  /\ UNCHANGED <<tmpl, coinbaseVars, appendVars, treeVars, commitment>>

(* version, one input without a previous output; the script's length and   *)
(* that of the push are left for later.                                    *)
BuildCoinbase ==
  /\ pc = "fields" /\ tmpl.bad # "field" /\ tmpl.given = None /\ tmpl.pk > 0
  /\ size' = 43 /\ room' = 256
  /\ left' = tmpl.height
  /\ pc' = "height"
  /\ UNCHANGED <<tmpl, script, len, appendVars, treeVars, commitment>>

(* Mutant: as it was before the height's own bytes were tested.            *)
SignByteOfEach == IF left % 256 >= 128 THEN <<0>> ELSE <<>>

(* A last byte of 0x80 or more would make the number negative.             *)
SignByte == IF left < 256 /\ left >= 128 THEN <<0>> ELSE <<>>

(* A negative number keeps its sign when it is shifted.                    *)
PushHeight ==
  /\ pc = "height" /\ left # 0
  /\ size + 1 + Len(SignByte) <= room
  /\ script' = script \o <<left % 256>> \o SignByte
  /\ size' = size + 1 + Len(SignByte)
  /\ left' = left \div 256
  /\ UNCHANGED <<tmpl, pc, len, room, appendVars, treeVars, commitment>>

(* The next byte goes behind the buffer.                                   *)
HeightOverruns ==
  /\ pc = "height" /\ left # 0
  /\ size + 1 + Len(SignByte) > room
  /\ pc' = "overrun"
  /\ UNCHANGED <<tmpl, coinbaseVars, appendVars, treeVars, commitment>>

(* The sequence number, and the payment: value, script length, script.     *)
Outputs == 4 + 1 + 8 + 1 + tmpl.pk

FinishScript ==
  /\ pc = "height" /\ left = 0
  /\ script' = <<size - 43>> \o script
  /\ len' = size - 42
  /\ size' = size + Outputs
  /\ pc' = IF tmpl.segwit THEN "witnesses" ELSE "locktime"
  /\ UNCHANGED <<tmpl, left, room, appendVars, treeVars, commitment>>

(* A transaction has no hash, or no identifier.                            *)
InvalidHash ==
  /\ pc \in {"witnesses", "leaves"} /\ tmpl.bad = "hash" /\ tmpl.txs > 0
  /\ pc' = "out"
  /\ UNCHANGED <<tmpl, coinbaseVars, appendVars, treeVars, commitment>>

(* The witnesses' hashes, the coinbase's being zero.                       *)
Witnesses ==
  /\ pc = "witnesses" /\ (tmpl.bad = "hash" => tmpl.txs = 0)
  /\ n' = tmpl.txs + 1 /\ i' = 0
  /\ tree' = [k \in 0..tmpl.txs + 1 |-> IF k \in 1..tmpl.txs THEN Tx(k) ELSE Zero]
  /\ pc' = "witness level"
  /\ UNCHANGED <<tmpl, coinbaseVars, appendVars, commitment>>

(* The output with the commitment.                                         *)
CommitmentOutput == 8 + 1 + 6 + 32

Commit ==
  /\ pc = "witness level" /\ n = 1
  /\ commitment' = Hash(tree[0], Zero)
  /\ size' = size + CommitmentOutput
  /\ pc' = "locktime"
  /\ UNCHANGED <<tmpl, left, script, len, room, appendVars, treeVars>>

LockTime ==
  /\ pc = "locktime"
  /\ size' = size + 4
  /\ aux' = tmpl.aux
  /\ pc' = "append"
  /\ UNCHANGED <<tmpl, left, script, len, room, xsig, treeVars, commitment>>

(* Mutant: the limit is applied to what is added alone.                    *)
FitsAlone(k) == xsig + k <= 100

Fits(k) == len + xsig + k <= 100

AppendSignature ==
  /\ pc = "append"
  /\ xsig' = IF Fits(tmpl.sig) THEN tmpl.sig ELSE 0
  /\ pc' = "aux"
  /\ UNCHANGED <<tmpl, coinbaseVars, aux, treeVars, commitment>>

AppendAux ==
  /\ pc = "aux" /\ aux # <<>>
  /\ xsig' = IF Fits(Head(aux)) THEN xsig + Head(aux) ELSE xsig
  /\ aux' = Tail(aux)
  /\ UNCHANGED <<tmpl, pc, coinbaseVars, treeVars, commitment>>

(* The opcodes of the push: the length itself, or OP_PUSHDATA1 before it,  *)
(* or none when there is no room for them.                                 *)
PushLen == IF len + xsig < 76 THEN 1 ELSE IF len + 2 + xsig > 100 THEN 0 ELSE 2

(* What is behind the script moves up to make room: memmove takes a        *)
(* negative length for a very large one.                                   *)
Behind == size - 42 - len

AppendOverruns ==
  /\ pc = "aux" /\ aux = <<>> /\ xsig # 0 /\ Behind < 0
  /\ pc' = "overrun"
  /\ UNCHANGED <<tmpl, coinbaseVars, appendVars, treeVars, commitment>>

FinishAppend ==
  /\ pc = "aux" /\ aux = <<>> /\ (xsig # 0 => Behind >= 0)
  /\ LET added == IF xsig = 0 THEN 0 ELSE xsig + PushLen
     IN len' = len + added /\ size' = size + added
  /\ pc' = "leaves"
  /\ UNCHANGED <<tmpl, left, script, room, appendVars, treeVars, commitment>>

-----------------------------------------------------------------------------
(* The merkle trees                                                        *)

(* (1 + tx_count + 1) & ~1                                                 *)
LeavesRoom == 2 * ((1 + tmpl.txs + 1) \div 2)

Leaves ==
  /\ pc = "leaves" /\ (tmpl.bad = "hash" => tmpl.txs = 0)
  /\ n' = 1 + tmpl.txs /\ i' = 0
  /\ tree' = [k \in 0..LeavesRoom - 1 |-> IF k <= tmpl.txs THEN Tx(k) ELSE Zero]
  /\ pc' = "level"
  /\ UNCHANGED <<tmpl, coinbaseVars, appendVars, commitment>>

InLevel == pc \in {"level", "witness level"}

(* Mutant: the level is lengthened, but nothing is copied.                 *)
EvenOutUncopied ==
  /\ InLevel /\ n > 1 /\ n % 2 = 1
  /\ n' = n + 1
  /\ UNCHANGED <<tmpl, pc, coinbaseVars, appendVars, tree, i, commitment>>

(* An odd level gets a copy of its last node.                              *)
EvenOut ==
  /\ InLevel /\ n > 1 /\ n % 2 = 1
  /\ tree' = [tree EXCEPT ![n] = tree[n - 1]]
  /\ n' = n + 1
  /\ UNCHANGED <<tmpl, pc, coinbaseVars, appendVars, i, commitment>>

(* The nodes are hashed two by two, into the array they are read from.     *)
HashPair ==
  /\ InLevel /\ n > 1 /\ n % 2 = 0 /\ i < n \div 2
  /\ tree' = [tree EXCEPT ![i] = Hash(tree[2 * i], tree[2 * i + 1])]
  /\ i' = i + 1
  /\ UNCHANGED <<tmpl, pc, coinbaseVars, appendVars, n, commitment>>

NextLevel ==
  /\ InLevel /\ n > 1 /\ n % 2 = 0 /\ i = n \div 2
  /\ n' = n \div 2 /\ i' = 0
  /\ UNCHANGED <<tmpl, pc, coinbaseVars, appendVars, tree, commitment>>

AssembleHeader ==
  /\ pc = "level" /\ n = 1
  /\ pc' = IF tmpl.bad = "target" THEN "out" ELSE "done"
  /\ UNCHANGED <<tmpl, coinbaseVars, appendVars, treeVars, commitment>>

Returned == pc \in {"out", "overrun", "done"} /\ UNCHANGED vars

Next ==
  \/ InvalidField \/ InvalidCoinbase \/ TakeCoinbase \/ NoPayout \/ BuildCoinbase
  \/ PushHeight \/ HeightOverruns \/ FinishScript
  \/ InvalidHash \/ Witnesses \/ Commit \/ LockTime
  \/ AppendSignature \/ AppendAux \/ AppendOverruns \/ FinishAppend
  \/ Leaves \/ EvenOut \/ HashPair \/ NextLevel \/ AssembleHeader
  \/ Returned

Spec == Init /\ [][Next]_vars

-----------------------------------------------------------------------------
(* Properties                                                              *)

(* The bytes of a script number, the lowest first; the highest bit of the  *)
(* last is its sign.  high stands for what would follow them.              *)
LastBytes(bytes, high) ==
  LET last[k \in 0..Len(bytes)] ==
        IF k = 0 THEN high ELSE bytes[Len(bytes) - k + 1] + 256 * last[k - 1]
  IN last
Value(bytes, high) == LastBytes(bytes, high)[Len(bytes)]
Positive(bytes) == bytes # <<>> => bytes[Len(bytes)] < 128
Minimal(bytes) ==
  bytes # <<>> /\ bytes[Len(bytes)] = 0
    => Len(bytes) > 1 /\ bytes[Len(bytes) - 1] >= 128

(* BIP 34 (cpu-miner.c:585): the script of a coinbase that is built here   *)
(* begins with a push, and the number pushed is the height, positive and   *)
(* in its shortest form, at every boundary where a byte is added.          *)
HeightReadsBack ==
  pc = "done" /\ tmpl.given = None =>
    LET bytes == Tail(script)
    IN /\ Head(script) = Len(bytes)
       /\ Value(bytes, 0) = tmpl.height /\ Positive(bytes) /\ Minimal(bytes)

(* What the coinbase has beside its script.                                *)
Rest ==
  IF tmpl.given # None THEN tmpl.given.size - tmpl.given.len
  ELSE 42 + Outputs + 4 + IF tmpl.segwit THEN CommitmentOutput ELSE 0

(* The two ways out of the buffer: a height below zero, whose shifts never *)
(* end (cpu-miner.c:591), and a "coinbasetxn" that says its script is      *)
(* longer than all there is (706).                                         *)
BadTemplate ==
  IF tmpl.given = None THEN tmpl.height < 0
  ELSE tmpl.given.size < 42 + tmpl.given.len

(* Whatever is appended (cpu-miner.c:656), the coinbase stays within its   *)
(* buffer and the pushes within xsig; nothing is written outside unless    *)
(* the template is one of the two bad kinds.  The script stays within the  *)
(* 100 bytes that consensus allows unless it came longer, and then nothing *)
(* is appended to it; and the script's length and the size of the coinbase *)
(* grow together.                                                          *)
CoinbaseFits ==
  /\ size <= room /\ xsig <= 100
  /\ pc = "overrun" => BadTemplate
  /\ len > 100 => tmpl.given # None /\ len = tmpl.given.len
  /\ pc \in {"aux", "leaves", "level", "done"} => size = len + Rest

(* The tree as it is defined: each level has half the nodes of the one     *)
(* below, an odd one out being paired with itself.                         *)
Pairs(w) == (w + 1) \div 2
Above(row) ==
  [width |-> Pairs(row.width),
   node |-> [k \in 0..Pairs(row.width) - 1 |->
               Hash(row.node[2 * k],
                    row.node[IF 2 * k + 1 < row.width THEN 2 * k + 1 ELSE 2 * k])]]
Rows(leaf, count) ==
  LET row[l \in 0..count] ==
        IF l = 0 THEN [width |-> count, node |-> leaf] ELSE Above(row[l - 1])
  IN row
IsTop(l, rows) == rows[l].width = 1 /\ \A k \in 0..l - 1 : rows[k].width # 1
Root(leaf, count) ==
  LET rows == Rows(leaf, count)
  IN rows[CHOOSE l \in 0..count : IsTop(l, rows)].node[0]

Identifiers == [k \in 0..tmpl.txs |-> Tx(k)]
WitnessHashes == [Identifiers EXCEPT ![0] = Zero]

(* The reductions stay within the arrays that were allocated.              *)
TreesInBounds == InLevel /\ n > 1 => (IF n % 2 = 1 THEN n ELSE n - 1) \in DOMAIN tree

(* Both reductions in place (cpu-miner.c:640 and 752), which write into    *)
(* the array they read and lengthen an odd level by one, stay within it    *)
(* and come to the root of the tree, for every number of transactions.     *)
TreesRight ==
  /\ TreesInBounds
  /\ pc = "done" => tree[0] = Root(Identifiers, 1 + tmpl.txs)
  /\ commitment # None => commitment = Hash(Root(WitnessHashes, 1 + tmpl.txs), Zero)
=============================================================================
