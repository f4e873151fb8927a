# Verification of cpuminer-opt-sugarchain

TLA+ models of the miner's own logic (`cpu-miner.c`, `util.c`, parts of
`api.c` and `uint256.cpp`, `algo/yespower/yespower.c`), the TLC runs that check them, and theorems that
the TLA+ proof system checks. Line numbers are those of the commit in `src/`;
the map from definitions to lines is in `PROJECT.json`.

## 1. The system

A miner process is a handful of threads around one piece of shared work.

| Part | State | Operations | Talks to |
|---|---|---|---|
| **thread queue** (`thread_q`, util.c) | list, `frozen`, mutex, condition variable | `tq_push`, `tq_pop`, `tq_freeze` | every thread: each owns one queue |
| **miner threads** (`miner_thread`) | own `work`, `end_nonce`, rates | take work, scan, submit | `g_work` under `g_work_lock`; workio's queue; own queue for answers |
| **workio thread** (`workio_thread`) | current command, `net_blocks`, `allow_mininginfo` | get work, submit work, retry, end | node by JSON-RPC; Stratum socket for shares |
| **shared work** | `g_work`, `g_work_time`, `g_work_lock`, `work_restart[]` | `get_work`, `get_new_work`, `restart_threads` | written by miners, long-poll and Stratum threads |
| **nonce scan** (`std_get_new_work`, `scanhash_yespower`) | nonce, range | divide, step, scan | restart flag |
| **Stratum client** (`stratum_thread`, `stratum_*`) | socket, session, extranonce, current job, `next_diff` | connect, subscribe, authorize, notify, set_difficulty, set_extranonce, reconnect, handle responses | `g_work`, miners (`stratum_gen_work`), workio (sends the shares) |
| **long polling** (`longpoll_thread`) | `lp_url`, `lp_id`, `have_longpoll`, `submit_old` | poll, decode into `g_work`, restart | workio (gives it its URL), miners |
| **protocol choice** | `have_gbt`, `allow_getwork`, `have_longpoll`, `have_stratum` | fall back from GBT to getwork; X-Long-Polling, X-Stratum headers | all of the above |
| **JSON-RPC transport** (`json_rpc_call`) | none kept | one HTTP exchange | libcurl |
| **template decoding** (`gbt_work_decode`) | work, `lp_id` | coinbase, merkle tree, header | workio, long polling |
| **share accounting** (`share_result`) | accepted, rejected, solved counters | count, report | workio, Stratum |
| **difficulty and target** (`diff_to_target`, `target_to_diff`, `fulltest`, `net_diff`) | target and difficulties of a work | set, test a hash, compare | Stratum, work decoding, scan, share accounting |
| **API server** (api.c) | its socket | summary, threads, `seturl`, `quit` | `rpc_url`, `stratum_need_reset` |
| **algo gate, options, sysinfos, hashes** | tables and options set at start-up | none at run time that the rest depends on | |

What is hard in it:

* *Hand-over between threads.* A queue's wait and signal, a request paired
  with its answer only by being next on a queue, a lock that is held while
  another thread goes to the network.
* *Checks on data somebody else changes.* `g_work` compared without its lock;
  `net_blocks` compared although the call that refreshes it failed; a restart
  flag that can be cleared after it was set for newer work.
* *Unreliable calls.* A lost request, a lost answer, an answer that makes no
  sense; retries with the same structures; giving up half way and ending the
  process.
* *What is read is of something else.* `share_result` reads globals that a
  later share or job may have set.
* *Owners of strings.* `rpc_url` and `lp_id` are shared, replaced and freed
  without a lock.
* *Boundaries.* The ends of the nonce ranges, `uint32_t` wrap-around, the gap
  of `0x20` nonces, a target in 64 bits of a quotient.
* *Sessions.* Jobs, extranonces, difficulties and shares that belong to a
  session that is gone (Stratum).

What makes each part correct:

* thread queue: a first-in first-out mailbox; no wakeup lost; nothing linked
  into a queue nobody will read again.
* workio and shared work: one outstanding request, given to who asked; no share
  lost, settled twice, thrown away without cause or sent for a height already
  won; nobody waits for ever.
* nonce scan: two threads never try the same nonce of a header, and a thread
  leaves out as little as the code intends.
* Stratum: a share names the job and extranonce2 its header was made with; no
  header is made twice; once the pool has sent its job, the shared work is of
  it and miners come to it; a share leaves the program; each response is
  counted for one share.
* long polling: `g_work` is a whole unit of work; a new block reaches every
  miner; the URL strings have one owner.
* template decoding: the height reads back as the number it is; nothing is
  written outside a buffer, whatever sizes the node gives; the roots of the trees are those of the
  transactions.
* difficulty and target: no share is refused for its difficulty, no hash that
  meets the target is lost, what is counted as a block is one, and a block is
  counted.

## 2. Modules

| Module | Models | Runs |
|---|---|---|
| `FifoQueue` | what a `thread_q` promises: an abstract mailbox | as a property of `thread_queue` |
| `ThreadQueue` | `tq_push`, `tq_pop`, `tq_freeze` step by step, with the mutex, the condition variable and the owner's loop | `thread_queue` |
| `ThreadQueueProofs` | theorems about `ThreadQueue` | |
| `WorkIO` | miners, `g_work`, `g_work_lock`, workio, node, main in solo mining | `workio_*` |
| `WorkIOProofs` | theorems about `WorkIO` | |
| `LongPoll` | `longpoll_thread`, the choice of protocol at run time, and everybody who writes `g_work` meanwhile | `long_poll` |
| `LongPollProofs` | theorems about `LongPoll` | |
| `StratumJob` | `stratum_thread`, `stratum_gen_work`, the Stratum branch of `miner_thread`, and workio sending shares | `stratum_job`, `stratum_share` |
| `StratumJobProofs` | theorems about `StratumJob`: headers and their labels, the shared work, restarts, shares thrown away | |
| `StratumSession` | the connection: handshake line by line, answers to shares, redirection, `seturl` | `stratum_session` |
| `StratumSessionProofs` | theorems about `StratumSession` | |
| `NonceScan` | ranges, `std_get_new_work`, `max_nonce`, `scanhash_yespower` | `nonce_scan` |
| `NonceScanProofs` | theorems about `NonceScan` | |
| `BlockTemplate` | `gbt_work_decode` | `block_template` |
| `BlockTemplateProofs` | theorems about `BlockTemplate` | |
| `ShareTarget` | difficulty, target, the test of a hash, what counts as a block | `share_target` |
| `ShareTargetProofs` | theorems about `ShareTarget` | |
| `MC...` | the values TLC needs | |

`ThreadQueue` implements `FifoQueue` (proved, see 5); `WorkIO` uses each queue
as that mailbox, one atomic step per push or pop, which is what the refinement
allows. It therefore leaves spurious wakeups to `ThreadQueue`. `LongPoll` uses
what `WorkIO` shows of requests (there is one at a time, and its answer goes to
who asked): its queues between miners and workio hold one thing each.
`StratumSession` and `StratumJob` are two views of one thread: the first has
the order of lines and the sockets, the second what the jobs in those lines do
to the shared work.

### ThreadQueue

A step is what a thread does between two points at which another can be seen
to run. `PushCall`, `PushLock`, `PushLink`, `PushSignal`, `PushUnlock` are the
parts of `tq_push`; `PopLock`, `PopWait`, `PopReacquire`, `PopTake`,
`PopGiveUp`, `PopReturn` those of `tq_pop`; `FreezeLock`, `FreezeSet` are
`tq_freeze`. The owner runs the loop of `workio_thread`: it ends on a NULL
result or on a failed command (`HandlerFails`) and then freezes its queue.
`accepted` and `delivered` are histories. `SpuriousWakeups` lets
`pthread_cond_wait` return unsignalled, as POSIX allows: `tq_pop` does not wait
in a loop (util.c:2402) and then hands over a NULL that nobody pushed. The
mailbox of `FifoQueue` has an action of its own for that (`GiveUp`), enabled by
`MayGiveUp`; the refinement gives `MayGiveUp` the value of `SpuriousWakeups`.

### WorkIO

`mpc` is where a miner is in its loop: `top`, `waiting` (in `get_work`'s
`tq_pop`, holding `g_work_lock`), `copying` (the `memcpy` into `g_work`),
`stored`, `scan`, `expire` (about to reset `g_work_time`), `gone`. `wpc` is
where the workio thread is: `pop`, `get` and `getinfo`/`badinfo` (the two calls
of `get_upstream_work`), `check`, `info`, `send` (the tests and the call of
`submit_upstream_work`), `freeze`, `dead`. Work is the block it builds on and
`work->height`. Time is one bit: `fresh` says that `g_work` is younger than
`opt_scantime`. `fate` records what became of each share. The node keeps the
height of its best block and the heights that are ours (`won`); it accepts a
block that builds on its best block and is encoded correctly. A call comes to
`ok`, `lostRequest` (the node never saw it), `lostReply` (it did) or
`badReply` (an answer that is not a unit of work). `getmininginfo` comes to
`ok`, `fail` or `unsupported`.

The comparison with `g_work` in `submit_upstream_work` takes no lock, so while
a miner copies new work into `g_work` it may come out either way.

A getwork answer has no height. `get_mininginfo` fills it in, and does so even
when the answer could not be decoded; `workio_get_work` tries again with the
same structure, so the next work, of a later block, keeps that height
(cpu-miner.c:418). `DiscardJustified` names this as the one way in which a
share that could win is discarded as solved (`HeightLeftOver`).

### LongPoll

The flags `have_gbt`, `have_longpoll` and `have_stratum` are plain variables
written by whichever thread received an answer. `mpc`, `wpc`, `lpc`, `spc` are
where a miner, workio, the long-poll thread and the Stratum thread are. A miner
reads `have_stratum` (`ReadMode`) before it takes the lock, so it can go on
with the branch of the protocol that was (`TakeFromPool`, `RequestWork`). A
work has three parts, each with its block: header, target and job id. The
long-poll answer is decoded into `g_work` in steps (`LpDecodeHeader`,
`LpDecodeTarget`, `LpDecoded`), and the second may fail.

Two strings have no owner. `lp_url` is what its string was made of: `"rpc_url"`
for a template without `longpolluri`, which makes `lp_url` the same pointer as
`rpc_url` (cpu-miner.c:800) and so has `free(lp_url)` release the address that
every call uses: `RpcUrlKept` says that this is the only way. Afterwards
(`rpcFreed`) the miner goes on with released memory: each use of `rpc_url`
(`UseRpcUrl`) may end the process, each call may fail, as often as it likes, and
the next failed long poll frees the address once more. `lp_id` is freed and
replaced at the end of `gbt_work_decode` in two steps (`FreeLpId`, then
`TemplateEffects`), between which the other threads go on: a long poll that
takes its length then (`LpFirstCall`) reads released memory. `LpIdKnown` has
this window as its exception. That it is never freed twice, although two
threads decode templates, is proved: each does so under `g_work_lock`, the
workio thread under that of the miner that waits for it.

`crashed` is the use of what is not there: `strcmp` with a NULL job id
(cpu-miner.c:2482), a header made of no job (cpu-miner.c:1894), or released
memory as above. Use of released memory need not end the process, so it always
has both outcomes. `CrashOnlyInSwitch` says that there are no other ways.
`lateWrite` records that solo code has written `g_work` or its time after the
Stratum thread had stopped the miners. Both properties that mention it were
found to need it: a fetch that was under way when X-Stratum came stores an empty
work, and the Stratum thread then compares its job id; or the long-poll thread
writes header and target of a solo block over the job's work and leaves its job
id, so that the test for new work sees nothing to do. `NewBlockMined` promises
nothing once `rpc_url` has been freed, for no call need succeed after that.

Time: `age` of `g_work` is zero, less than the scan time, or more. A restart
ends a scan, and a scan may end at any step here, so the flags are left to
`StratumJob`.

### StratumJob

`pc` is where each thread is. Stratum thread: `loop` (the top), `connect`,
`authorize`, `check` (the test for new work), `gen`, `header`, `target`
(parts of `stratum_gen_work`), `announce` (the restart), `recv` (waiting for a
line), `done`. Miner: `wait` (`std_wait_for_diff`), `lock`, then `header` and
`target` when it makes a header itself or `take` when it does not, `ready`,
`scan`. `wpc` is the workio thread.

A job is its id with what the pool sent it with: the block it builds on
(`tip`), the extranonce1 of the moment (`ext`), the difficulty, clean or not. A
header records what was hashed into it; the id and extranonce2 that a share
will name are kept beside it (`id`, `xn2` of a `Work`), because the code copies
them at another moment. `NoHeader` is `g_work.data` after the `memset` in
`std_build_block_header`.

Time is the three answers the code can get: `g_work_time` is zero, recent, or
120 seconds old. `TimePasses` makes it old only while the Stratum thread waits
for a line: the steps in between take no such time.

Steps that are one action here: taking `work_lock` and copying the label (no
other thread sees the label without `g_work_lock`, except the test of ids,
which is modelled as either answer while a miner is at it); setting the target
and, by a miner, taking the work (both under `g_work_lock`; the job read by
`set_target` may have changed since the header was made, which the model
has); the end of the loop of `stratum_thread` and the test for new work when no
line lies between them. The workio thread's end and `main`'s return are one
step: `ThreadQueue` and `WorkIO` model what lies between.

Assumed: the pool keeps `extranonce2_size` (see the hazard at util.c:1412) and
its job ids do not come back once replaced; `WorkDiffers` leaves the third
condition of `std_get_new_work` out, because it compares pointers of two
separate `strdup`s.

### StratumSession

A line of the pool is an answer (with the id and, for shares, which one) or a
method. `wire` is what the pool has sent, `buf` what `recv` has moved to
`sockbuf`; `Readings` is `stratum_recv_line`, which reads the socket only when
`sockbuf` holds no line, and `Readable` is `socket_full`, which looks at the
socket only. `pc` follows `stratum_connect`, `stratum_subscribe` (`answer`, and
`resubscribe`, `reanswer` for its second try), `stratum_authorize` (`granted`)
with `mining.extranonce.subscribe` (`extra`), and the loop of `stratum_thread`
(`loop`, `recv`). The workio thread writes shares to whatever connection there
is (`WriteShare`), which can be in the middle of its handshake. `owed` and
`stage` are the pool's: what it has yet to answer, and what it has granted. It
answers in order or not at all.

Three things of the code that a reader may not expect, and that are in the
model as they are: the first line that is not a method is taken for the answer
to `mining.authorize`, whatever its id (util.c:1538), and an unknown method
without an id is such a line, although the comment at util.c:2296 wants it not
to disconnect; the second try of `stratum_subscribe` that fails without an
answer releases the answer to the first again (util.c:1501); and
`stratum_need_reset` is looked at in the outer loop only, so that an address
given by `seturl` is not followed while the inner loop tries to reach a pool
that is not there (`SetUrlFollowed` says when it is).

### BlockTemplate

One action per part of `gbt_work_decode`; the loops are actions that are taken
again (`PushHeight`, `AppendAux`, `EvenOut`, `HashPair`, `NextLevel`). The bytes
of the height are kept, of the rest of the coinbase its sizes. What the node
gives is not made consistent: the size of a `coinbasetxn` is the length of the
string, the length of its script is the byte at 41, any of 0 to 255, and the
code tests only that there are 60 bytes (cpu-miner.c:555); the height is any
`int`. Two kinds of template lead outside the buffer, and end the behaviour at
`"overrun"`: a height below zero, which `n >>= 8` never makes zero
(`HeightOverruns`, cpu-miner.c:591), and a script longer than all that is there,
with something to append to it, which gives `memmove` a negative length
(`AppendOverruns`, cpu-miner.c:706). `CoinbaseFits` says that there are no
others. The trees are
arrays reduced in place as in the code, a hash being the pair that was hashed;
`Root` is the definition of a merkle root they are compared with. For heights 1
to 16 other implementations push the number with an opcode of its own
(`OP_1`..`OP_16`); the code pushes a byte. `HeightReadsBack` is about the
number, which is the same.

### NonceScan

A header is a version number. `FetchNew` and `FetchSame` are the two branches
of `std_get_new_work` with the fetch before it, `Scan` is `max_nonce` and the
loop of `scanhash_yespower`: it tests its bound after the first nonce, ends on
the nonce of a share or one further on. `hashed` records every nonce tried.

### ShareTarget

Works come from the pool (`StratumWork`: `std_stratum_gen_work` with
`scrypt_set_target`, which is yespower's, and `diff_to_target`), from getwork
(`GetWork`: `work_decode` and `target_to_diff`) or from getblocktemplate
(`TemplateWork`: `gbt_work_decode`, which leaves `targetdiff` zero). A miner may
still have any of them; `Scan` is the test of `scanhash_yespower` with
`fulltest`, `Send` is `submit_upstream_work`, and `Answer` is `share_result`,
in any order for the shares sent to a pool. `ChangeProtocol` is the fallback to
getwork and the change to Stratum.

`share_result` reads two globals, and so does the model. `net_diff` is set by
`std_stratum_gen_work` (2387), by `work_decode` if the node does not know
`getmininginfo` (364), and by `get_mininginfo` (405); `netOf` is the `nbits` it
was computed from, and whether the bytes were read the other way round, as
`std_calc_network_diff` does while `have_longpoll` is on (1696).
`stratum.sharediff` is that of the share sent last (`lastSent`). A pool's answer
may therefore be compared with another share's difficulty or another job's
`net_diff`: `SolvedIsBlock` has these two cases as its exceptions, and says that
without them a share counted as solved is a block; in a program that started on
Stratum the second case needs a work with other bits in between. Under
getblocktemplate, the default in solo mining, no block is ever counted as
solved, for its difficulty comes out as zero: `BlockIsCounted` says so, and that
under getwork one is counted when `net_diff` is that of its bits.

Hashes and targets are arrays of words; a byte has
`ByteRadix` values and there are `Words` words, all other sizes follow from
them as they do in the code. Difficulties are fractions: the rounding of a
`double`, to the 53rd bit, is not modelled, the cuts to whole numbers and to
two words are. A quotient of 64 bits or more has no defined value as a
`uint64_t`; both values that compilers produce are there. `--diff-factor` is
one, and `--hide-diff`, which makes every share's difficulty zero, is off.

## 3. Runs, bounds, and what they show

| Run | Bounds | Shows |
|---|---|---|
| `thread_queue` | 3 producers, 4 pushes, values: two units of work and NULL; spurious wakeups | no lost wakeup; refinement of `FifoQueue`: what is delivered is what was pushed, in order, and at most one NULL beside it, on which the owner ends; every accepted value is delivered or the owner ends |
| `workio_getwork` | 2 miners, 2 shares, 2 failed calls (requests or answers lost, answers not decoded), 1 retry, 1 foreign block | one outstanding request; every share in workio's hands once until it is settled; a miner scans only after its own shares are settled; shared work never goes back; no share that could win is thrown away but one with the height of an earlier answer |
| `workio_node` | GBT, 2 miners, 2 shares, 2 failed calls (lost answers, answers not decoded), 1 retry, 1 foreign block; `getmininginfo` answers | none is sent for a height already won, even after a lost answer; a waiting miner is answered and a share settled, or the process ends |
| `workio_retry` | 2 miners, 1 share, 1 lost request | **violation**: a block whose `submitblock` was lost is thrown away at the retry (cpu-miner.c:1145) |
| `workio_twice` | 2 miners, 2 shares, one `getmininginfo` that fails | **violation**: a second share is sent for a height already won (cpu-miner.c:1186) |
| `stratum_job` | 2 miners, 2 jobs, one sent again, difficulties 1 and 2, one connection | a share is named after its header; the next extranonce2 is fresh; `g_work` settles on the pool's job and a target of it; a miner that scans something else has its restart flag up, unless it cleared it between taking work and scanning |
| `stratum_share` | 1 miner, 2 jobs, 2 extranonces, 1 lost or failed connection, 1 share | across sessions, a miner leaves the work of an old job; a share is sent or thrown away, or the process ends; it is thrown away only when the pool's job builds on another block, or while a header is being written into `g_work` |
| `nonce_scan` | 13 nonces, 2 threads with ranges of 4 and 7 and gaps of 3, 2 headers, one refetch of a used-up header | no nonce of a header tried by two threads; only single nonces left out |
| `long_poll` | 1 miner, 1 new block, 1 failed call or lost connection, no payout address, getwork allowed, templates with and without `longpolluri`, X-Long-Polling and X-Stratum on any answer | the flags tell what the long-poll thread does; `lp_id` is there when it is used, but while it is replaced; `rpc_url` is kept but in one case; `g_work` is whole; what ends the process is a race in the change to Stratum, `rpc_url` after it was freed, or `lp_id` while it is replaced; work goes back only by a late long-poll answer; a new block is mined by every miner, but after some of these |
| `stratum_session` | 3 addresses, one dead; 3 of: a method of the pool, a fault, 2 shares, 2 `seturl`s | a connection that is used is one the pool has granted, counters and labels of shares are right, memory is released twice in two races only, `seturl` is followed, sessions come about again and again |
| `block_template` | 14 heights around the places where a byte is added and 3 below zero, coinbases of the node with scripts of 4 to 255 bytes that are or are not within them, lengths around the limits of the pushes, 0 to 11 transactions, each kind of bad template | the height reads back, the coinbase stays within its buffer but for the two bad kinds of template, both trees within theirs, the trees come to their roots |
| `share_target` | bytes of one bit, 3 words; 30 difficulties, 15 compact targets, hashes around each target and each change of a word, each with one share and under each protocol; 2 jobs and 2 shares under way, with the changes from getwork and getblocktemplate to Stratum | no share is refused for its difficulty; a hash missed has the target's top word (yespower.c:108 asks for less than it: when the top word of the target is zero, which a pool difficulty of 65536 makes it, every hash is missed); what is counted as solved is a block, unless the globals are of another share or job; a block under getwork is counted, unless the bytes its difficulty is read from are zero or `net_diff` is another's; one under getblocktemplate never |

Why the bounds are enough: with three producers one can be before, one inside
and one after its critical section while the owner sleeps, and four pushes fill
the queue twice over; two miners are the holder of the lock and another; two
shares are one being handled and one queued behind it, and one more than the node can
accept of one height; two failed calls with one retry reach both
the second try and giving up; one foreign block makes work stale; two jobs are the
one in `g_work` and the one that replaces it, at any point of making a header;
two miners and the Stratum thread are two that make headers and one that scans
meanwhile; one lost connection leaves a job and a share of the session before;
13 nonces reach the end of both ranges and the gaps behind them.
In `long_poll` one miner is enough because the others differ in nothing that
the shared state tells apart: while one waits with the lock held, another does
nothing; what races with it is the long-poll thread, workio and the Stratum
thread, which are all there, and one new block with one fault gives every flag
a reason to change both ways. In `stratum_session` the joint bound `MaxEvents`
of three leaves out only behaviours in which four unusual things happen in one
run; each property that names an exception needs two at most (two `seturl`s, two
shares, a method and a share, a fault and a share). 11 transactions make
twelve leaves, whose levels are even, odd and one of each kind of repair.
In `share_target` three words are the one above the quotient, its two, and a
difficulty that moves them down once; with bytes of one bit every carry between
words and every edge of the eight bytes of `target_to_diff` is met by some
target. Two shares are the one answered and the one that has replaced its
difficulty, two jobs the share's own and the one made since; that the numbers
differ enough for a share that is no block to be counted is seen by leaving out
any exception of `SolvedIsBlock`, which TLC then refutes. In `block_template` the
coinbases of 60 bytes have a script that ends exactly with them and one that is
a byte longer.
The modules of theorems then lift the bounds where there are some (section 5).

Four more violations of what the code's comments say were found and are now
stated as the exceptions of properties that hold: the NULL that nobody pushed
(`GiveUp` in `FifoQueue`), the height left over from an answer that could not
be decoded (`HeightLeftOver` in `DiscardJustified`), a share of the current
block that is thrown away while another thread writes a header into `g_work`,
which the test of cpu-miner.c:1175 reads without a lock (`DropsOnlyStale`), and
the hashes that yespower.c:108 leaves out (`OnlyTopWordMissed`).

`CHECK_DEADLOCK FALSE` is used for `nonce_scan` only, where a behaviour stops
because its bounds (headers, refetches) are used up. The other modules have an
explicit final step (`Quiescent`, `Terminated`, `Silent`: the pool says nothing
more and the miners have stopped, or the process has ended), so that a real deadlock would
be reported.

Symmetry among the miners is used for safety properties only.

## 4. Fairness

* `ThreadQueue`: weak fairness of the parts of a call already begun
  (`Push(p)`, `Pop`, `Freeze`): a runnable thread is scheduled, and the mutex
  is free again after finitely many steps. No fairness of making calls, of
  failing or of spurious wakeups.
* `WorkIO`: weak fairness of the workio thread (each call of the node returns:
  `json_rpc_call` sets `CURLOPT_TIMEOUT`), of `main`, and of each miner. No
  fairness of other miners of the network or of the clock. Failures are
  bounded by `MaxFaults`, so a retry succeeds in the end or the thread gives
  up.

* `StratumJob`: weak fairness of the Stratum thread's own steps, of workio and
  of each miner; strong fairness of taking `g_work_lock`, which the others hold
  for a few instructions between scans. A scan ends: `max_nonce` bounds it. No
  fairness of the pool (it need not answer or send anything), of the clock or
  of finding shares. `SharesLeave` needs `opt_retries`: without a limit the
  thread tries for ever while the connection is away.
* `LongPoll`: weak fairness of every thread (calls return, scans end; a long
  poll has its own time limit) and of time; strong fairness of taking
  `g_work_lock`, for each thread that waits for it: the others release it again
  and again. No fairness of headers or of blocks.
* `StratumSession`: weak fairness of the Stratum, workio and API threads
  (`stratum_recv_line` and `curl_easy_perform` have time limits) and of a pool
  answering what it has not decided to ignore; ignoring is a fault, of which
  there are `MaxDrops`.

## 5. What is proved

`ThreadQueueProofs`, for any producers, values and number of calls, from
`QueueAssumption` (the names of the threads are distinct, NULL is a value):

* `TypeCorrect`, `MutexSafe`, `WakeupSafe`: `TypeOK`, `MutualExclusion` and
  `NoLostWakeup` are invariants. None is inductive alone. The inductive
  invariant `IInv` adds who holds the mutex for every program counter
  (`LockInv`), that the queue is frozen exactly when its owner is done
  (`FrozenInv`), that a producer about to signal has filled the list
  (`SignalInv`) and that without spurious wakeups a woken owner finds
  something (`WokenInv`).
* `FrozenFinal`: the action property, from the same invariant.
* `Refinement` and `OrderUntilGivingUp`: the queue implements `FifoQueue`, with
  `MayGiveUp` if wakeups can be spurious, and hands over what was pushed, in
  order, but for one last NULL. `InOrder`: without spurious wakeups there is no
  such NULL; `WokenInv` is what makes `PopGiveUp` impossible there.

`NonceScanProofs`, for any number of threads, nonces, gap and headers, from
`NonceAssumption` (the gap is smaller than a thread's share of the nonces and
larger than twice the number of times a used-up header is handed out again):

* `TypeCorrect`, `NoDuplicates`: the inductive invariant says where a thread
  stands (`PlaceInv`: not past the end of its range by more than two nonces per
  refetch, plus one between a scan and the next fetch) and where the nonces it
  has tried lie (`HashedInv`). The gap of `0x20` therefore holds as long as a
  thread is handed the same header at most 15 times after it has used up its
  range.
* `SingleSkips`: with `LastTriedInv`, the nonce a thread stands at or the one
  before has been tried whenever it fetches.

`StratumJobProofs`, for any number of miners, jobs, extranonces, difficulties,
connections and shares, from `StratumAssumption` (names of the threads,
difficulties are numbers):

* `TypeCorrect`, `LabelsRight`, `FreshNext`: `TypeOK`, `LabelMatchesHeader` and
  `NextIsFresh` are invariants, whatever the pool sends. The inductive
  invariant adds who holds which lock where (`LockInv`), what `g_work` is while
  a header is being written into it and otherwise (`GWorkInv`), and that
  everything a thread has a copy of is `Usable`: labelled with what was hashed,
  of the pool's job or an older one, and with an extranonce2 below the next one
  if it is of the pool's job (`CopiesInv`). That the two locks overlap during
  `stratum_gen_work` is what makes label and header agree.

A second invariant of the same module, `WInv`, adds when `g_work` is of the pool's job (`SettledInv`: unless
the Stratum thread is on its way to make it, or has it still to see that the
job is new) and who has a restart to heed (`RestartInv`: a miner that scans
something older than the last clean job that was announced has its flag up, or
cleared it on its way into the scan). `SettledSafe` and `RestartSafe`:
`WorkSettled` and `RestartHeeded` are invariants. `DropsSound`:
`DropsOnlyStale`, from `BlockInv`: no copy of any work is ahead of `g_work`, or
of the header about to be in it, and neither is ahead of the pool's job. A copy
that builds on the job's block then has `g_work`'s block too, wherever in the
queue it waited.

`StratumSessionProofs`, for any addresses, numbers of lines, shares, faults
and `seturl`s, from `SessionAssumption`. A step is first reduced to what it
does to the connection (`Moves`: it closes, opens, asks, writes, reads, or
leaves it to the pool), and the invariants are proved over these few cases:

* `TypeCorrect`: `TypeInv` in three parts; a closed connection leaves nothing
  to be read behind.
* `AuthorizedSafe`: `GrantInv` says what can be on its way in each stage of the
  handshake as long as nothing came early: no answer, that to the one question
  that is open, or after it methods only.
* `CountsSafe`: counters, answers in flight and answers due add up to the
  shares written. Answers in a sequence are counted as the size of the set of
  their positions, which is split, shifted and cut with the theorems on finite
  sets (`PlacesSplit`, `PlacesShift`, `CountReading`). `CountInv` adds that no
  answer to a share meets a handshake that is undisturbed.
* `LabelsSafe`: `LabelInv`, every answer in flight is labelled with the one
  difficulty that was noted, while shares do not overlap.
* `RaceSafe`: memory is released twice in the two races only.

`BlockTemplateProofs`, for any set of templates, from `TemplateAssumption`
(integers of 32 bits):

* `CoinbaseStaysInBounds`: `CoinbaseFits`, for every `int` as height, every size
  of a `coinbasetxn` and every script length in it, with what is in the buffer
  at each point of the decoding and the height that is still to be pushed
  (`HeightInv`: four bytes and a sign byte at most, or a number that stays below
  zero).
* `HeightIsPushed`: `HeightReadsBack`, for heights from zero on; with the others
  the loop does not come to its end. `PushingInv` says that the bytes pushed
  so far, with what is left of the height as the digits above them, make the
  height; the sign byte goes on the last byte only.
* `TreesStayInBounds`, where the room of an array shrinks with the level, and
  `TreesComeToRoots`: `TreesRight`, in-place reduction against the definition of
  the root (`Root`). `Standing` says, for the level that is being reduced, that
  the pairs below the running index are nodes of the next row of the tree and
  the rest still nodes of this one; `RootsInv` what the commitment is made of.

`ShareTargetProofs`, for any number of words from three on, any size of a byte,
difficulties, compact targets and hashes, from `TargetAssumption` (numerators,
denominators and mantissas are positive; a compact target and a hash fit the
words). The module first proves what the operators compute: powers and the
numbers that words make (`PowerSum`, `UpperLess`), that `fulltest` compares
these numbers (`FulltestCompares`), that writing a number into words and reading
it is the identity (`ToWordsNumber`), that `diff_to_target` rounds to the hard
side, its overflow of 64 bits and its target of all ones included (`TargetHard`),
and that `std_calc_network_diff` times the compact target is the target of
difficulty one, whichever way it shifts (`NetDiffRight`). The invariant `IInv`
says of every work that was made whose target it has and how hard that is
(`WorkInv`, which also has whose `net_diff` it is in a program that knows only
Stratum), and what the scan has said of the hash and of the shares under way
(`ScanInv`, `ShareInv`):

* `SharesAreGood`, `OnlyEqualTopMissed`: `NoLowDifficulty`, `OnlyTopWordMissed`.
* `SolvedAreBlocks`, `BlocksAreCounted`: the action properties `SolvedIsBlock`
  and `BlockIsCounted`, for any jobs, any number of shares under way, and any
  order of answers, `getmininginfo`s and changes of protocol. Both
  cancel the difficulty against `NetDiffRight`; the second needs that the eight
  bytes `target_to_diff` reads never make more than the target (`WindowBelow`).

These two modules need induction over data, for which the library's theorems
take an operator as a parameter. They use it in another form: `LeastNumber`
(a set of numbers that is not empty has a least one) follows from the theorem
that finite sets are well founded under strict inclusion, applied to the sets
`1..k`; `Induction` then speaks of a set of numbers, and what is to be proved
of all numbers is written as the set of those it holds for. That a recursive
function exists at all, which the provers do not know of its `CHOOSE`, is
proved the same way (`PowersExist`, `UpperExists`).

`WorkIOProofs`, for any miners, shares, faults and retries, from
`WorkIOAssumption`. The inductive invariant `IInv` says what command is in
workio's hands where (`CommandInv`), that `g_work_lock` is held exactly by a
miner in `get_work` (`LockInv`), that a request is outstanding exactly while a
miner waits, in one place (`RequestInv`), where a share that is not settled is
(`ShareInv`), what stands before a miner that scans (`SettledInv`), and that no
work is ahead of the node or behind the miner's own (`TipInv`):

* `TypeCorrect`, `OneRequestSafe`, `SharesSafe`, `Settled`, and `MovesForward`
  as an action property.
* `DiscardSound`: `DiscardJustified`, for getwork, or for GBT when every call
  gets through. The second condition is where the run `workio_retry` finds its
  violation.
* `SubmitOnceSafe`: `SubmitOnce`, for GBT when `getmininginfo` answers; the run
  `workio_twice` is the other case.
* `LockMovesOn`: whoever holds `g_work_lock` can go on, has its answer, or there
  is something for workio to do, or workio has ended (and `main` returns).
* `WaitIsBounded`: while a miner waits under the lock, each step of workio
  lowers `Rank`, a natural number that no step of anybody raises: 5 for each
  failure still to come and each command queued, the rest of the command in
  hand, and 6 for each miner that scans, because it can queue one share before
  it needs the lock itself. With `LockMovesOn` and the fairness of section 4
  this is why `RequestAnswered` holds; the last step, from fairness to the
  conclusion, is TLC's. It counts on finitely many failures (`MaxFaults`, of any
  size): with `opt_retries = -1` and a node that never answers, a miner does
  wait for ever.

`LongPollProofs`, for any miners, addresses and faults, from
`LongPollAssumption`: `UrlInv` gives `PollerSafe` and `RpcUrlSafe`.
`IInv` adds the lock and the one request (`LockInv`, `RequestInv`), that the two
threads that decode templates are never in the middle of one together and what
is left of `lp_id` then (`IdInv`), that nobody writes `g_work` while a request is
out and that `have_gbt` never comes back (`HalfInv`), how old the works under way
are (`TipInv`) and which of them has a job id after the change to Stratum
(`JobInv`); from it `TypeCorrect`, `LpIdSafe`, `WholeSafe`, `CrashSafe`,
`BackSafe`.

Every invariant and action property that a passing run checks is stated by a
theorem; the properties of the two runs that expect a violation are proved under
the condition that excludes it.

Only model-checked: liveness (the proof system has no rule for fairness and
`ENABLED` here), which is `EveryPushDelivered`, `RequestAnswered`,
`ShareSettled`, `WorkCatchesUp`, `SharesLeave`, `NewBlockMined`,
`SetUrlFollowed` and `SessionEstablished`; for `RequestAnswered` the part that
does not rest on fairness is proved (`LockMovesOn`, `WaitIsBounded`). The type invariants are
proved for every value of the constants and not listed in the runs again.

## 6. Not modelled, and why

* The input and output of libcurl, sockets and the system; logging, formats,
  statistics: no property is about them.
* The hash functions: whether a nonce meets the target is left open.
* `--randomize`, the time limit, benchmark mode and conditional mining: the
  first makes the ranges of the threads overlap with some probability, the
  others stop and start miners by a clock or a temperature.
* JSON-RPC 2 (`rpc2_*`, `jr2_*`): entered only by the cryptonight algorithms,
  not by those of this fork.
* A change of `extranonce2_size` between jobs (util.c:1412): it is about the
  layout of a buffer made with the old size.
* What a program does after it has used released memory, beyond ending or going
  on with calls that succeed or fail as others do. `StratumSession` and `WorkIO`
  do not follow the release of `rpc_url` by the long-poll thread: they have no
  long polling.
* The text protocol of the API but for `seturl`; libcurl; rates, log lines,
  system information; the options.
* `address_to_script`: pure, run once on the command line's address; the other
  models take its script by its length.
* Short helpers on text and time (`hex2bin`, `varint_encode`,
  `hack_json_numbers`, `timeval_subtract`).
* Reorganisations of the chain in `WorkIO`: one block hash per height.
* Everything else in `src/` (hash algorithms, SHA and SIMD code, vendored
  libraries under `depends/`) is not the miner's own logic; it is by far the
  larger part of the tree.

## 7. Plan

The modules planned at first, and their theorems, are all there. What is left,
in order of use:

1. `--randomize` in `NonceScan`: what is left of the properties of the ranges.
2. A change of `extranonce2_size` in `StratumJob`, with the sizes of the
   coinbase that the job was made with.
3. JSON-RPC 2 as a third protocol beside `LongPoll`'s.

The miner composed with `ThreadQueue` itself, instead of the mailbox, would add
states and no behaviour, since the refinement is proved.
