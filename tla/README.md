# TLA+ models of the VL micro-benchmarks

This directory holds TLA+ models of the programs under `src/` and the TLC
configurations that check them. The main subject is the self-scheduling bitonic
sort engine in `src/apps/bitonic`. Every definition is translated from the C++
source; `PROJECT.json` maps each one to the lines it models.

## 1. The system

### 1.1 Bitonic sort engine (`src/apps/bitonic`)

The engine comes in three programs that share `utils.hpp` and `utils.cpp`:

| program | threads | granularity | channel |
|---|---|---|---|
| `vl.cpp` | 1 coordinator, `NUM_SLAVES` workers | mini task: `2^MINI_TASK_EXP` elements | two VL queues, `tosort` and `topair` |
| `zmq.cpp` | 1 coordinator, workers | element pair | ZeroMQ sockets |
| `seq.cpp` | 1 | element pair | four in-process FIFO queues |

**Compare-exchange kernels** (`utils.hpp` 99-166).
- `swap`, `swap_seg`, `rswap`, `rswap_seg`, `reverse`.
- Each is a loop over fixed index pairs. The pairs of one call are disjoint.

**Completion tracker** (`utils.cpp` 4-38).
- Three byte arrays, indexed by block id `beg >> MINI_TASK_EXP`:
  - `scnts`: sorted length, as a log2;
  - `dcnts`: depth reached in the swap/rswap task tree;
  - `bcnts`: depth reached in the bottom-task tree.
- Three functions read them:
  - `ispaired`: are two aligned sibling runs of equal sorted length?
  - `maxsorted`: how far does the sorted super-run around a block extend?
  - `maxdone`: record one leaf completion and climb while the sibling subtree is equally deep. It returns the depth reached.

**Coordinator** (`vl.cpp` `sort`, 270-588).
- Allocates the counters and passes the startup barrier (`ready`).
- Seeds up to `MAX_ON_THE_FLY` initial tasks (exponent 0).
- Then loops:
  - It pops a completion from `topair` without blocking.
  - If it got one, it handles it by exponent:
    - `0`, an initial task: record the mini task as sorted; pair it if possible.
    - `MINI_TASK_EXP`, a bottom task: when the merge tree is done, record the longer sorted run, stop if it is the whole array, otherwise pair it.
    - larger, a segment of a swap/rswap: when the whole block is done, split it into two groups of swap tasks one exponent lower.
  - Every emitted task goes out with a *blocking* `line_vl_push_weak`.
  - With no completion, it feeds another initial task with a non-blocking push, or just flushes.
- On completion it sets `lock.done`.

**Worker** (`vl.cpp` `slave`, 69-267).
- Opens its two endpoints. On failure it returns before `ready++`.
- Passes the barrier.
- Loops: pop a task from `tosort` without blocking, run its kernel on the shared array without any lock, push the message back to `topair` with a blocking push.
- When the pop finds nothing, it flushes and reads `lock.done`.

**Interaction.** The coordinator alone reads and writes the counters. The workers alone write the array. They synchronise only through the two channels, the barrier counter and the stop flag. Correctness rests on two things:
- the counters never let two outstanding tasks touch the same element;
- the counters never record a run as sorted before it is.

`zmq.cpp` and `seq.cpp` run the same algorithm at pair granularity with a pair counter `pcount`. `seq.cpp` adds a connect counter `ccount`.

### 1.2 Other programs

- `network` (`pipeline.cpp`, `firewall.cpp`): packet pointers from a pool circulate through a ring of queues. In `pipeline.cpp`, stage0 numbers the packets, stage1 and stage2 threads forward them, and main counts them and hands them back to the pool. In `firewall.cpp`, stage1 classifies packets by checksum and holds bad ones in `pktsm`, and two stage2 sinks count them. Main fills the pool, generates the packets and sets `lock.done`.
- `ember` (`ember.cpp`): the sweep, halo and incast communication patterns of the Ember suite. Worker threads sit on a `pex x pey` grid, and each sends every line of every message to a neighbour through its own VL queue.
- `fir` (`fir.cpp`): a FIR filter pipeline. `input_stream` produces samples, each `queued_fir` stage filters them through a 16-tap `FIR`, and `output_stream` consumes the result.
- `pingpong` (`pingpong.cpp`): ping pushes bursts of balls to pong, which echoes each ball back; the queue back end is chosen at build time (VL, gem5 line buffers `m5_q_t`, CAF, ZeroMQ, boost).
- `max_sce` (`max_sce.c`): a producer fills one cache line of a 64-line ring per round and a consumer takes each line's maximum. The two are kept apart only by the rounds each publishes, `prod.round` and `cons.round`, and main checks every maximum at the end.
- `latency` (`latency.c`): main links the cache lines of an array into one pointer-chasing chain in a random order (`rand() % cnt`, redrawn while it is 0), then times a loop of dependent loads that follows the chain from `arr` back to `arr` and divides by the number of lines.
- `shopping` (`shopping.c`): candy-lover threads share one cart. Each round a lover adds last round's price to `cart.subtotal1` (atomically in the ATOMIC build, as a plain `+=` in the DIRECT build), picks this round's candy from its pattern, reads its price from the cart and spends it, until its budget is negative. Main sets the prices, releases the lovers and prints the subtotal.
- `lockhammer` locks (`vlink_lock.h`, `boost_qlock.cc`): a lock emulated by one token in a queue. Acquire pops the token, spinning until it can, and release pushes it back. The VL lock also has a startup barrier on a plain `ready` counter.
- Also present but not modelled (section 5):
  - the other streaming benchmarks: `echo`, `fluidanimate`, `phish`, `search`, `shuffler`, `streamcluster`;
  - the platform helpers under `src/include` and `src/src`.

All of these share one startup protocol. An atomic `ready` starts at -1. Every thread increments it and then spins until it equals the number of threads, and main's own increment releases them. Every queue operation is a non-blocking try that the caller retries after `sched_yield()`.

## 2. Modules

| module | models | kind |
|---|---|---|
| `BitonicKernels` | the kernels of `utils.hpp`, plus the worker's initial, bottom and segment routines | pure operators (RECURSIVE ladders) |
| `CompletionTracker` | `ispaired`, `maxsorted` and `maxdone` of `utils.cpp` | pure operators returning records |
| `MergeTree` | the engine's contract: blocks are sorted one at a time, equal sibling runs merge, and the sort finishes exactly when one run covers the array | abstract spec |
| `BitonicVL` | the coordinator, workers and channels of `vl.cpp`, in the default, `INIT_RELOAD` and `EXCL_RELOAD` builds, chosen by constants | state machine; refines `MergeTree` |
| `MCBitonicVL` | the input arrays for TLC | MC module |
| `BitonicSeq` | `sort()` of `seq.cpp`: four FIFO queues, `ccount` and `pcount` | state machine; refines `MergeTree` |
| `BitonicZMQ` | the master and slaves of `zmq.cpp`, over per-slave ZeroMQ pipes | state machine; refines `MergeTree` |
| `MCBitonicSeq` | instantiation of `BitonicSeq` for the len-1 reproduction (`MCBitonicSeqLen1.cfg`) | MC module |
| `MCBitonicEngines` | four experiments, one chosen in `Init`: the worker kernels against sortedness, `maxdone` over every completion order, `seq.cpp` and `zmq.cpp` | composition (disjoint union) |
| `NetworkPipeline` | every thread of `pipeline.cpp`, the pool fill, the barrier and the `done` handshake | state machine |
| `NetworkFirewall` | every thread of `firewall.cpp` except the unused `stage0` (classify, gather, flush, the two sinks) | state machine |
| `Ember` | the VL build of `ember.cpp`: grid positions and neighbours, `get_queue_id`, the per-pattern line schedules, and every push and pop | state machine; the pattern is a constant |
| `FirPipeline` | `fir.cpp`: `FIR::filter` as an operator, the three thread kinds with their retried pops and pushes, and main | state machine |
| `PingPong` | `pingpong.cpp`: the ready barrier, ping's bursts and receipts, pong's echo, main; the VL build and the gem5 `m5_q_t` build, chosen by `BUILD` | state machine; `m5_q_t`'s slot arithmetic as operators |
| `TokenLock` | `boost_qlock.cc` and `vlink_lock.h`, chosen by `IMPL`: making the lock, the VL lock's thread init and barrier, acquire and release | state machine |
| `MaxSce` | `max_sce.c`: the producer, the consumer and main's store and joins | state machine |
| `Latency` | `latency.c`: the pool fill, the randomised build loop and the timed chase | state machine |
| `Shopping` | `shopping.c`: the lover threads in the ATOMIC and DIRECT builds (`BUILD`), and main's prices, release and joins | state machine |
| `MCShopping` | two lovers for the DIRECT reproduction (`MCShoppingDirect.cfg`) | MC module |
| `MCBenchmarks` | twelve experiments, one chosen in `Init`: pipeline, firewall, sweep, halo, incast, fir, pingpong, qlock, maxsce, latency, shopping (ATOMIC) and shopping_direct | composition (disjoint union) |

### How `BitonicVL` corresponds to `vl.cpp`

**State.**

| variable | in the code |
|---|---|
| `arr` | the shared array |
| `tosort`, `topair` | the two VL queues |
| `held[w]` | worker `w`'s `msg` while `loaded` |
| `wpc[w]` | where `slave()` is |
| `cpc` | where `sort()` is |
| `ready` | the barrier counter |
| `feed_in`, `on_the_fly` | the coordinator's locals of the same names |
| `scnts`, `dcnts`, `bcnts` | the counter arrays |
| `outbox` | tasks a completion handler still has to push |
| `stop` | `lock.done` |
| `icnts[w]` | worker `w`'s `icnts` array (`INIT_RELOAD`) |

A message is `[beg, exp, torswap, loaded]`. Workers are the numbers `1 .. NUM_SLAVES`, which are their `desired_core`s, because `EXCL_RELOAD` tests `1 < desired_core`. `base` and `len` are constant and `end` is never read. An initial task's `torswap` is ignored by the worker, so the model sets it to FALSE.

**Coordinator actions.**

| action | code |
|---|---|
| `CoordinatorArrive` | `ready++` |
| `CoordinatorStart` | the barrier spin |
| `Seed` | one iteration of the seeding loop |
| `ReceiveInitDone`, `ReceiveBottomDone`, `ReceiveSwapDone` | the three handlers, one disjunct per outcome; they apply all counter updates of the handler |
| `Emit` | one blocking push of an emitted task |
| `Feed` | the non-blocking feed |
| `ReceiveLoaded` | a loaded message (reload builds): `on_the_fly--`, and under `INIT_RELOAD` the pair's counters and `on_the_fly += 2`; then the feed that follows in the same iteration (`TryFeed`) |

The handlers apply their counter resets at once, before the pushes that the code interleaves with them. Only the coordinator reads the counters, so no other thread can observe the difference.

**Worker actions.**

| action | code |
|---|---|
| `WorkerOpen` | success or failure of the opens |
| `WorkerStart` | the barrier |
| `WorkerPop` | a successful `line_vl_pop_non` |
| `WorkerExecute` | the kernel, plus the blocking push to `topair`; under `INIT_RELOAD` the `icnts` count or the loaded pair rswap the worker keeps; under `EXCL_RELOAD` the blocking push of the first bottom task to `tosort`, keeping the second |
| `WorkerReply` | `EXCL_RELOAD`'s blocking push of the loaded message to `topair`, after the push to `tosort` |
| `WorkerExit` | the failed pop that reads `lock.done` |

`WorkerExecute` is one step. `TasksDisjoint` shows that no other task touches its elements, so splitting it would add no behaviours that matter.

**The stale initial completion.** Under `INIT_RELOAD`, the coordinator drops an initial completion whose block a loaded message has already recorded (lines 384-386). The worker pushes that completion into the same FIFO before the loaded message, so the branch cannot be taken. The model has no action for it: if such a message reached the head of `topair`, the coordinator would have no step, and `vl_reload`'s `StuckOnlyAfterOpenFailure` (as well as `NoStaleInitCompletion`) would report it.

**Stutter steps.** Idle flushes and spins change no state. They are stuttering steps, not actions. `Terminated` is the final stutter once `sort()` and every worker have returned.

**Channels.**
- A channel is a bounded sequence of whole messages.
- `push_weak` is enabled only when there is room.
- `push_non` fails when the channel is full.
- `pop_non` fails when it is empty.
- The VL library packs messages into cache lines that travel on a full line or a flush. That buffering is not modelled. Both threads flush whenever idle, so it delays messages but does not reorder them.

### How `BitonicSeq` corresponds to `seq.cpp`

`sort()` is one thread. Each iteration of `while (true)` runs four stages in a
fixed order: swap, connect, pair, reverse. Each stage takes at most one message
from its queue. `stage` records which stage runs next, so the model has exactly
the program's one execution for each input.

| action | code |
|---|---|
| `Init` | the counters `ccount`/`pcount` and the loop that queues every pair (38-52) |
| `SwapStage` | `swap`, then split into two halves or pass the pair on to connect (55-85) |
| `ConnectStage` | `ccount[beg]++` and the scan of the aligned range (`Connected`, 87-116) |
| `PairStage` | `pcount[beg]++`, the break on a full-length run, the sibling test (`Paired`, 118-145) |
| `ReverseStage` | `reverse` of the first run, then queue the bitonic pair to swap (147-169) |

### How `BitonicZMQ` corresponds to `zmq.cpp`

| variable | in the code |
|---|---|
| `to_slave[w]`, `rr` | the inproc pipe from the master's PUSH socket to slave `w`, and the socket's round-robin cursor |
| `to_master[w]` | the pipe from slave `w` to the master's PULL socket |
| `held[w]` | slave `w`'s `msg` between `zmq_recv` and `zmq_send` |
| `mpc`, `spc[w]` | where `sort()` and `slave()` are |
| `ready`, `done` | the barrier counter and `lock.done` |
| `feed_in`, `on_the_fly`, `pcount` | the master's locals of the same names |

- **Sockets.** `SNDHWM` and `RCVHWM` are 0 (no limit), so no send blocks. A
  PUSH socket binds each message to one peer pipe, round robin, when it is
  sent. A PULL socket reads the pipes fair-queued. The model lets the master
  read any non-empty pipe, which includes every fair-queued order.
- **Master.** `FeedInitial` is one iteration of the initial loop (136-149).
  `RecvNone` and `Receive(w)` are the two outcomes of the non-blocking receive
  (152-171). `Receive` covers the break on a whole-array result, the pairing,
  and the retirement (`on_the_fly--`). `Feed` is the feed at 172-180.
  `MasterJoin` is the joins.
- **Slaves.** `SlaveRecv` is a successful receive. `SlaveWork` is the kernel
  (`rswap` or `swap` of the range, then the halving ladder: `BottomTask`) plus
  the reply. `SlaveExit` is the read of `lock.done` that ends the loop.

### How `NetworkPipeline` and `NetworkFirewall` correspond to `network/`

- **State.**
  - `q` holds the queues as FIFOs of whole bulks; a pointer is the index of the header it points to.
  - `hdr` holds the one header field a property reads: `srcIP` in the pipeline, the bad-checksum flag in the firewall.
  - The remaining variables are `ready`, `lock.done`, each thread's program point, and the counters of stage0, main and the sinks.
- **`Pool`** is main's pool fill loop, as written: the pipeline's `PoolEntry(i, j)` ignores `j`, and since `i` moves only after the push (`i += j`), the inner `while`'s `POOL_SIZE > i` never stops `j`, so every bulk, the last included, holds `BULK_SIZE` pointers. In `firewall.cpp` the same loop points the pointers at headers `i + j`, which run past `headerpool` when `POOL_SIZE` is not a multiple of `BULK_SIZE` (a hazard in `PROJECT.json`; the firewall model keeps only bulk sizes).
- **Barrier.** `Arrive`/`Start` are a thread's `ready++` and spin; `MainRelease` is main's `ready++`.
- **Pipeline actions.**
  - `Stage0Bulk` is stage0 popping a pool bulk, numbering its headers `i + j` and pushing the bulk to `q01`.
  - `MidPop`/`MidPush` are a stage1 or stage2 thread moving one bulk.
  - `MidEmpty` then `MidReadDone` is an empty pop followed by the read of `done` that ends the loop.
  - `MainBulk` is main's pop, count and push back to the pool; `MainDone` stores `done` and `MainJoin` joins.
- **Firewall actions.**
  - `Generate` is main's generation of a bulk.
  - `Classify` is stage1's pop of a bulk, sorting its packets into `pktsc` and `pktsm` by checksum.
  - `Forward` is stage1's push of the correct packets, then of the gathered bad ones once a bulk has gathered or `MISTAKE_GATHER_RETRY` bulks have passed.
  - `Drain` is a stage2 sink's gather, count and return to the pool.
  - `PopEmpty`/`ReadDone` end a stage1 or stage2 loop.
- **Mutants.** The `...NoStore`, `...Bytes`, `...FullOnly`, `...NoReset` and `...RoomPlusOne` operators are mutants, each defined just before the action it mutates.

### How `Ember` corresponds to `ember.cpp`

- **Operators.**
  - `get_position`, `get_neighbor` and `get_queue_id` translate the functions of the same names.
  - `QueueIdsOf(rank)` is the loop of the worker that fills its `Rx`/`Tx` ids.
  - `SweepOps`, `HaloOps` and `IncastOps` list, in code order, the sends and receives that one pass of the pattern makes for one line.
  - `IterOp(rank, n)` is the n-th operation of an iteration; it runs the outer loop over the lines for sweep and halo, and the inner one for incast.
- **Actions.**
  - `Open` is the worker's setup up to `ready++`, and `Begin` its spin.
  - `Push` is one `line_vl_push_strong` (it waits while the queue holds `CAP` lines).
  - `Pop` is one `line_vl_pop_weak` loop that returns a line.
  - `Skip` is an operation whose neighbour is -1.
  - `Advance` moves on to the next operation or iteration.
  - `Release`/`Join` are main's.
- **The pattern** is the constant `PATTERN`, since the code picks it with a build macro.

### How `FirPipeline` corresponds to `fir.cpp`

- **Operators.**
  - `filter(buf, off, input)` translates `FIR::filter`: it writes at `offset`, runs the two loops of products, and wraps `offset`. It returns the new buffer and offset together with the output.
  - `coeffs` is `queued_fir`'s coefficient array, scaled by 10 (and given for any `TAPS`).
- **Actions.**
  - `InputPush` is one successful `bounded_push` of a sample.
  - `FirPop` is the successful `pop` of a stage.
  - `FirFilterPush` is one try of `bounded_push(fir1->filter(input_data))`. The filter runs on every try; a refused try marks `refused`, keeps the sample, and will try again.
  - `OutputPop` is `output_stream`'s pop.
  - `Finish` is the end of a thread's loop.
  - Failed pops and the VL `flush` change nothing the model records, so they are not steps.
- **History.** `hist` records every value ever pushed into each queue, for the properties.

### How `PingPong` corresponds to `pingpong.cpp`

- **Queues.** In the VL build a queue is a FIFO of at most `CAP` values: `vl_q_t::push` (`twin_vl_push_strong`) waits for room, and `vl_q_t::pop` fails when the queue is empty.
- **`m5_q_t`.** A queue is a record of the producer line, its byte 62 (`pctrl`), the consumer line, its byte 62 (`cctrl`), and the link, a FIFO of whole lines. `M5Push` and `M5Pop` translate `push` and `pop` statement by statement, with the `uint8_t` arithmetic kept (`Byte`, `& 0x3f` as `Low6`, `& 0xc0` as `High2`). `m5_vl_push` appends a line, and `m5_vl_pop` takes the head line or, on an empty link, waits (the pop does not return: `returns` is false and the step is disabled).
- **Actions.**
  - `Arrive` and `Start` are a player's `ready++` and its spin. `Release` is main's `ready++`, and `Join` is the two joins.
  - `PingPush`, `PingPop`, `PongPop` and `PongPush` are one successful try of the retried push or pop, with the loop counters. A failed VL pop changes nothing, so it is not a step; a failed `m5_q_t` pop that fetches a line is one.
- **History.** `sent`, `got` and `rcvd` record the balls ping pushed, pong popped and ping got back.

### How `TokenLock` corresponds to the lockhammer locks

- `MakeLock` is `get_boost_qlock` or `vlink_lock_init`. `link[fd]` is the byte FIFO of link `fd`; the boost queue is `link[1]`.
- `ThreadInit` opens the endpoints on descriptor 1 and loads `ready`, and `StoreReady` stores the loaded value minus one: `ready--` on a `volatile sig_atomic_t` is not atomic. `PassBarrier` is `while(ready)`.
- `Acquire` is a successful pop of the spinning `boost_qlock_acquire` or the waiting `byte_vl_pop_weak`, and `Release` is the push and flush.
- The lockhammer driver is not in the repository. The threads follow its usual loop: thread init, `ITER` acquire/release pairs, done; main makes the lock first and joins the threads.

### How `MaxSce` corresponds to `max_sce.c`

- `prod_round` and `cons_round` are `prod.round` and `cons.round`. `cls[l]` is the round whose row of `arr` line `l` holds; `NONE` is a line never written.
- `Fill` is the producer's spin test and its copy of a row into the line `(round << 6) & 0x0FFF`, that is `round % RING`; `Publish` is `prod.round = round + 1`.
- `SetRound` is the consumer's `cons.round = round`, and `Scan` its spin test and its scan of the line into `max[round]`.
- `ResetCons` is main's `cons.round = 0`, and `Join` the two joins.
- `arr`'s row `r` is built so that its maximum is `r & 0xFF`. The model keeps only which row a line holds, so a `max[r]` equal to `r` means the consumer scanned row `r`.
- The flush instruction is not a fence. The model assumes the threads see each other's stores in program order, as x86 guarantees; weak ordering is a hazard left open in `PROJECT.json`.

### How `Latency` corresponds to `latency.c`

- A line is its index; `next[idx] = new_idx` is `arr[idx << 3] = &arr[new_idx << 3]`, and `NONE` a line never written (`arr` is uninitialised).
- `Init` is the fill `pool[cnt] = cnt` and `cnt = num_cls, idx = 0`. `Link` is one pass of the build loop (lines 170-179): `Draws(cnt)` is every value `rand() % cnt` can keep after the redraw of 0 (line 172), and the hole is filled with `pool[cnt - 1]`.
- `Chase` is one iteration of the timed loop (`ldr x8, [x8]; cmp x8, x9; b.NE LOOP`, and the same `movq`/`cmp`/`jne` on x86); it stops at `arr` (line 0). A load of an unwritten line would read garbage; the model stops there as `"garbage"`.

### How `Shopping` corresponds to `shopping.c`

- `budget`, `behavior`, `price` and `rnd` (`round % 10`) are the locals of `shopping_together`; `subtotal` is `cart.subtotal1`, `prices` the four price fields, and `paid[t]` a history of what lover `t` added.
- `Begin` is `while (wait_to_begin);`. A round is one of `Watch` (budget - 1), `AddPrice` (ATOMIC: `__sync_add_and_fetch`) or `LoadSubtotal` then `StoreSubtotal` (DIRECT: the load and store of `+=`), each followed by `Choose`: the pattern, the price read (watching reads `cart.MM`), `budget -= price` and the `break` when it is negative.
- `SetPrices`, `Release` and `Join` are main's stores of the prices, `wait_to_begin = 0` and the joins.

## 3. Runs

| run | cfg | expect | shows |
|---|---|---|---|
| `vl_safety` | `MCBitonicVL.cfg` | pass | Every 0/1 array of length 8 (256 inputs), mini tasks of 2 elements, 2 workers, `MAX_ON_THE_FLY` 2, channels of 2, every interleaving. `TasksDisjoint`: no two tasks that may still write the array (queued, being pushed, or held by a worker) share an element. `RecordedRunsSorted`: every run the counters call sorted is sorted whenever no task touches it. `SortedWhenDone`: the array is sorted when `sort()` breaks. `StartAfterAllReady`: no task is fed before every thread has passed the barrier. `Termination`: under weak fairness of every thread, `sort()` finishes and every worker exits. |
| `vl_default_len_counters` | `MCBitonicVLShort.cfg` | violation | A length below one mini task gives zero-length counter arrays, and the first completion indexes past them. This is the default invocation (len 16, `MINI_TASK_EXP` 6). |
| `vl_reload` | `MCBitonicVLReload.cfg` | pass | Both reload builds at once, every 0/1 array of length 8, a window of 4 that holds every initial task. Tasks a worker keeps for itself never overlap running tasks. Recorded runs are sorted. The result is sorted. No completion of an already-recorded pair is ever in `topair`, so the stale-completion branch (384-386) is unreachable. Worker opens may fail here, which really stops the program at the barrier, so TLC's deadlock check is off; `StuckOnlyAfterOpenFailure` checks instead that every state without a failed open lets some thread step or is the end of the program. Every step consumes a message or advances a thread, so with no state stuck the only infinite behaviour ends in `Terminated`, and this invariant stands in for `Termination` (the temporal check over all 552k states would take close to 4 minutes). |
| `vl_excl_reload_hang` | `MCBitonicVLExclReload.cfg` | violation | `EXCL_RELOAD`, length 8, a window of 2: `on_the_fly` wraps below zero and the feed stops (finding 4). |
| `engines` | `MCBitonicEngines.cfg` | pass | One of four experiments is chosen in `Init`. The worker kernels are run over all 3^8 arrays: the initial task sorts each half of 4, and rswap plus the ladder merges them. `maxdone` is run on a tree of 8 leaves in every completion order and reports completion once, at the last leaf. `seq.cpp` and `zmq.cpp` are run on every 0/1 array of length 8; `zmq.cpp` has 2 slaves and a window of 2. Both end sorted, refine `MergeTree` and terminate. The ZeroMQ master never has two overlapping tasks out, and its `on_the_fly` equals the messages out and stays within the window. |
| `benchmarks` | `MCBenchmarks.cfg` | pass | One of eleven programs (shopping in two builds) is chosen in `Init`. Pipeline: every packet stage0 counted is with main, in a queue or in a stage's hands. Firewall: every pool pointer is in exactly one place, and `pktsm` never overflows. Ember sweep and halo: every sender's `Tx` id is its neighbour's `Rx` id across the link, and no two senders share a queue. Fir: every stage whose pushes were never refused outputs the FIR of its input. Pingpong (VL build): pong pops exactly the balls ping pushed, in order, and ping gets them back in order. Qlock: at most one thread holds the lock, and the one token is always in the queue or held. max_sce: every round's maximum is its own row's, as main asserts. Latency: for every sequence of draws the chain is one cycle through every line, so the chase loads each line once and returns to `arr` after exactly `num_cls` loads. Shopping (ATOMIC): the final subtotal is the sum of every lover's purchases; the DIRECT build is checked for termination only, since it loses adds by design (reproduced by `MCShoppingDirect.cfg`). Every program except max_sce terminates under fair scheduling. max_sce can hang (`maxsce_reset_hang`), so this run does not check for deadlock; `Termination` refutes a stop of any other program. |
| `pipeline_pool_alias` | `MCNetworkPipelineAlias.cfg` | violation | The pool fill puts `BULK_SIZE` pointers to one header into each bulk, so the packets of a bulk end up with one number (finding 6). |
| `firewall_counts` | `MCNetworkFirewallCounts.cfg` | violation | With the defaults of `firewall.cpp`, the counts main prints can fall short of the packets it generated (finding 7). |
| `pingpong_m5_skip` | `MCPingPongM5.cfg` | violation | The gem5 build with the default burst of 7: pong's second ball is ping's third, because `m5_q_t::pop` moves its pointer two slots a pop (finding 9). |
| `maxsce_reset_hang` | `MCMaxSceHang.cfg` | violation | `max_sce.c` with a ring of 2 lines and 3 rounds: main's `cons.round = 0` lands after the consumer has caught up with a producer a whole ring ahead, and both threads spin for ever (finding 11). |
| `vlink_ready_race` | `MCTokenLockReady.cfg` | violation | The VL lock with three threads: two `ready--` interleave, one is lost, and `ready` stays 1 after every thread has decremented it (finding 10). |
| `fir_retry_filter` | `MCFirRetry.cfg` | violation | Two stages of 3 taps, 4 samples over {0,1}, one-value queues. A refused `bounded_push` of `queued_fir` runs `filter` again, and the stage's output stops being the FIR of its input (finding 8). |

Each property of a passing run has a mutant in `PROJECT.json`: a plausible bug in the modelled code that TLC shows breaks it. The mutants are:
- `ispaired` with `>=`;
- `maxsorted` without the climb;
- `maxdone` with `>=`;
- a segment task that ignores `torswap`;
- an initial-task loop or ladder that stops one level early;
- a barrier one thread short;
- a feed that does not advance `feed_in`;
- a completion push that does not wait for room;
- in `seq.cpp`: a connect scan that checks only the first pair or steps by one index, and a pair test with `>=`;
- in the reload builds: a kept bottom task whose `beg` is not advanced, and a kept pair task that swaps instead of rswapping, and a split loop that loses its last start;
- in `zmq.cpp`: a pair test with `>=`, a feed at a full window, and a retirement that forgets `on_the_fly--`;
- in `network`:
  - stage0 counting bytes instead of pointers (no `cnt /= sizeof(Packet*)`);
  - main counting bytes instead of packets;
  - a `done` that is never stored;
  - a generation that takes one pointer too many;
  - a stage1 that forwards only full bulks of bad packets, or never resets its retry count;
- in `ember.cpp`: `get_queue_id` with its two temporaries swapped;
- in `fir.cpp`: a `filter` that stores the sample after the sum;
- in `pingpong.cpp`: a pong that pops once without retrying and echoes whatever it holds;
- in `boost_qlock.cc`: an acquire that pops once and enters whether it got the token or not;
- in `max_sce.c`: a producer whose spin lets it get `RING` rounds ahead instead of `RING - 1`;
- in `latency.c`: a build loop without the redraw of 0;
- in `shopping.c`: an ATOMIC add compiled as a separate load and store.

### Bounds and why they are enough

- **Data.** Every kernel is a data-oblivious compare-exchange network. By the 0-1 principle, a network that sorts every 0/1 input sorts every input. `vl_safety` therefore enumerates all 0/1 arrays, and `algorithms` additionally checks that values are preserved, over three values.
- **Control.** The schedule does not depend on the data. Runs about control only (termination, deadlock) use one array.
- **Size.** Length 8 in mini tasks of 2 gives 4 blocks and 3 merge levels. That exercises all three handlers: pairing at two levels, a split of an exponent-3 block into two groups, and the final break. Two workers and `MAX_ON_THE_FLY` 2 make completions arrive out of order.
- **seq.cpp and zmq.cpp.** Length 8 is 4 pairs and 2 merge levels above the pairs. The throttled `zmq.cpp` run (window 2 below 4 pairs) exercises the feed after the initial loop.
- **Reload builds.** With length 8 and 2 workers, worker 2 (a core above 1) takes exponent-2 tasks and reloads, and a worker does both initial tasks of a pair. A window of 4 lets the passing run check safety apart from the window miscount. The `INIT_RELOAD` hang needs more unfed initial tasks than one reload's leak. Length 16 (8 initial tasks) is the smallest size that shows it.
- **Tracker.** The `maxdone` check uses 8 leaves (depth 4), with all 8! orders folded into 256 states.

### Bounds of the benchmark runs

- **Pipeline.** 2 stage1 threads, a pool of 10 in bulks of 4 (three full bulks of 4: the pool fill never shortens the last one), and 10 packets. Stage0's and main's counts overshoot to 12, and two stage1 threads reorder bulks.
- **Firewall.** 1 stage1 thread, a pool of 6 in bulks of 2, a retry limit of 4 and 18 packets. The pool is too small for the packets, so pointers circulate several times, and bad packets are held over several bulks before the flush.
- **Ember.**
  - Sweep uses a 3 x 2 grid, so a worker has 1 to 3 neighbours and all four wavefronts cross it; halo uses a 2 x 2 grid.
  - Sweep and halo run two iterations of one line per message. Two iterations let a line of iteration 2 race a late line of iteration 1; larger messages only repeat the per-line schedule.
  - Incast runs five senders to one receiver, two lines a message.
  - Every queue holds one line, so every push can block.
- **Fir.**
  - The benchmark run uses two stages of 2 taps, 3 samples over {0,1}, and one-value queues. That is enough for the offset to wrap and for every stage to wait on a full queue.
  - The violation run uses 3 taps and 4 samples, where one refused push is enough to make the output differ from the FIR.
  - The real coefficients are tenths. They are scaled by 10 to integers, which preserves every equality a property compares.

- **Pingpong.** Two rounds of bursts of two through one-value queues make every push wait for room and end each round while the other player is mid-burst. The gem5 run needs a burst of 7, a full line, for the pop to meet the slots it skips.
- **Qlock.** Three threads taking the lock twice each let the token pass between every pair of threads and a thread re-take it. The ready race needs only two of three threads to interleave; three make the lost decrement leave a non-zero `ready` after all have stored.

- **max_sce.** A ring of 2 lines stands for the 64 of the code (`RING`). Five rounds pass the ring twice, so every line is rewritten and the producer waits on the consumer. The hang needs one round more than the ring, so the violation run uses 3.

- **latency.** 5 lines stand for `num_cls` (256). Every draw sequence is enumerated (4! chains), and 5 lines are enough for a draw of 0 to close the chain early after 1 to 3 links.
- **shopping.** Two lovers, the round-robin pattern (with watching) and the biased one, with a budget of 10 each, make several rounds each so their adds interleave. The DIRECT reproduction uses budgets of 6.

### Fairness

- **Bitonic engine.** Each thread is pinned to its own core (`setAffinity`) and spins; none ever sleeps. Weak fairness of the coordinator's step and of each worker's step is therefore what the code guarantees. Strong fairness is not assumed.
- **Benchmarks.** Every thread retries its failed pops and pushes after `sched_yield`, and so stays enabled.
  - In `MCBenchmarks`, the n-th thread of the pipeline, the firewall and fir share one weak-fairness condition. Only one program runs in a behaviour, so this is weak fairness of each of its threads.
  - Fir needs fairness per thread, because a refused push is a step that can repeat while another thread waits.
  - The qlock threads share those conditions too: a spinning acquire is disabled while another thread holds the token, but every holder releases, and once the others are done the token stays in the queue, so weak fairness of each thread suffices.
  - The shopping lovers are pinned and never block once released, so they share the per-thread conditions; latency is one thread (main) whose steps form an acyclic graph, with its own weak-fairness condition.
  - Each ember pattern, and pingpong, has one weak-fairness condition over main and all its workers. Every ember step moves a thread forward, so its state graph has no cycles, and this condition is enough to make the run end.

## 4. Findings

1. **Counter arrays of size zero** (`vl.cpp:322`). With the defaults (len 16, `MINI_TASK_EXP` 6), `cnt_len` is 0. `scnts[0]` is then written and read out of bounds at lines 510 and 512.
2. **Burst deadlock** (reproduced by `MCBitonicVLBurst.cfg`, not among the capped runs; `vl.cpp:428`, `446`, `494`). The coordinator pushes a whole burst with blocking pushes and does not drain `topair`. This deadlocks once a channel holds fewer messages than a burst, which can be up to `len >> (MINI_TASK_EXP+1)` tasks. `MAX_ON_THE_FLY` limits only seeding.
3. **len 1 in `seq.cpp`** (reproduced by `MCBitonicSeqLen1.cfg`, not among the capped runs; `seq.cpp:50`). The loop queues `[0,2)`. `swap` then touches `arr[1]`, `pair` reads `pcount[2]`, and the stride 2 never equals len 1, so the loop never breaks. The spec says length 1 completes trivially. `zmq.cpp` feeds the same `[0,2)` (line 142).
4. **`EXCL_RELOAD` wraps `on_the_fly`** (`vl.cpp:160`). A worker on a core above 1 pushes a bottom task to `tosort` that the coordinator never counted. Both bottom completions are still subtracted (line 399), so the unsigned `on_the_fly` wraps. `MAX_ON_THE_FLY > on_the_fly` (line 546) is false from then on, and the unfed initial tasks are never fed: `sort()` spins for ever.
5. **`INIT_RELOAD` over-counts `on_the_fly`** (reproduced by `MCBitonicVLInitReload.cfg`, not among the capped runs; `vl.cpp:382`). For a reloaded pair, the coordinator has already retired the first completion. It then does `-1 + 2` for the loaded message, with only the pair's rswap in flight. Each reload leaks one slot of the window, and once the leak reaches `MAX_ON_THE_FLY` the feed stops for good.
6. **Aliased pool in `pipeline.cpp`** (`pipeline.cpp:366`). `pkts[j] = headerpool + i * HEADER_SIZE` leaves out `j`, so every pointer of a pool bulk points to one header, and stage0's numbering `i + j` collapses to the last number.
7. **Firewall counts** (`firewall.cpp:334`, `600`). main sets `done` right after generating, not after processing. The sinks and stage1 can then leave with packets still queued or held in `pktsm`, and the printed counts fall short of the packets sent.
8. **FIR re-filtered on retry** (`fir.cpp:278`). `while(!q_out->bounded_push(fir1->filter(input_data)))` calls `filter` on every try. Each refused push writes the sample into one more slot of the delay line and advances `offset`. The stage's later outputs are then not the FIR of its input, exactly when the next stage is slow.

9. **`m5_q_t::pop` skips slots** (`pingpong.cpp:204`). After a valid read `pop` has already done `Ptr -= 8` (line 198), and then it stores `Ptr - 8` in byte 62. Each pop moves two slots: pong reads slots 48, 32, 16 and 0 of a line, and the balls in 40, 24 and 8 are never echoed.
10. **Lost `ready--` in the VL lock** (`vlink_lock.h:64`). `ready` is a `volatile sig_atomic_t`, not an atomic; two threads' decrements can both load the same value, and `ready` never reaches 0. Every thread then spins at line 65 for ever.

11. **`max_sce.c` can hang at startup** (`max_sce.c:145`). main stores `cons.round = 0` after creating the threads, but the consumer stores its own round into `cons.round` at the top of every round (line 95). If main's store lands after the consumer has reached round r ≥ 64 and caught up with the producer, the producer sees itself a whole ring ahead and spins at line 55, while the consumer spins at line 96 for round r.

12. **DIRECT shopping loses adds** (reproduced by `MCShoppingDirect.cfg`, not among the capped runs; `shopping.c:141`). `cart.subtotal1 += price` is a load and a store; two lovers' loads can meet, and the printed subtotal is less than what was bought. The program demonstrates false sharing, not this race, so this is a hazard of the DIRECT build rather than a bug; the ATOMIC build is checked not to lose any add.

Both reload hangs need a window smaller than the number of initial tasks, which is the regime `MAX_ON_THE_FLY` exists for.

**Startup hang** (`vl.cpp:88`). With `OpenMayFail = TRUE`, a worker whose open fails returns before `ready++`, and the coordinator spins at line 332 for ever; the spec says the call aborts. `MCBitonicVLOpenFail.cfg` reproduces this as a `Termination` violation. It is not one of the runs, whose number is capped; the hazard is listed in `PROJECT.json`.

## 5. Not modelled, and why

- **Short lengths.** Under `INIT_RELOAD` with len equal to one mini task, `icnts` has no entries but is read (line 239). The model assumes len ≥ 2 mini tasks there. This is the same short-length edge as finding 1.
- **Overflow.** `(1 << scnts[0])` in `int` overflows for len ≥ 2^31. This is far beyond TLC's reach.
- **len 1 in `vl.cpp` and `zmq.cpp`.** The initial task reads `arr[1]`. Those models assume len ≥ 2; the defect is shown on `seq.cpp`.
- **ZeroMQ setup and teardown** (`zmq_socket`, `bind`, `connect`, `close`). The code asserts they succeed, so they have no failure path to model.
- **ZMQ and BOOST builds of the benchmarks.** Their queues behave like the VL queue as far as these programs see: a bounded FIFO with a try-push and a try-pop.
- **Failures at startup in the benchmarks.** `mkvl` and open failures make main return before any thread starts.
- **Firewall `stage0`.** `firewall.cpp`'s `stage0()` is defined but never started.
- **Ember.**
  - No pattern has a line-order property: every sweep and halo link has one sender and one receiver over a FIFO, so its lines arrive in the order sent by construction, and incast's senders mix their lines in one queue by design (the master only counts them).
  - The payload byte count of a partial last line (`ember.cpp:170`) is kept but not checked, because no receiver reads it.
- **Pingpong's other back ends.** The boost, CAF and ZeroMQ queues are library code outside `src/`; `m5_q_t::close`, which is called only at exit, is not modelled.
- **The lockhammer driver and `zmq_lock.h`.** The driver is not in the repository. `zmq_lock.h`'s token server over ROUTER/DEALER sockets is not modelled yet.
- **The VL lock's descriptors** (`vlink_lock.h:62`). Threads open descriptor 1, but the token is pushed into `mkvl(0)`'s link. Whether they coincide depends on the VL driver, so no run fixes `MKVL_FD`.
- **latency.c's warm-up and measurement.** The sweeps that bring `arr` into a cache level, PAPI, gem5 and the timers only read `arr` or measure.
- **shopping.c's layout.** `PADDING` moves fields between cache lines, which changes timing only; argument parsing and the printed counts are not modelled. Weak ordering of main's price stores before `wait_to_begin = 0` is not modelled either (the flag is `volatile`, not a fence).
- **Weak memory in `max_sce.c`.** The ordering of the line's stores before `prod.round` on ARM (`SCE_CVAC`, `SCE_CIVAC`) is not modelled.
- **No model yet.** The other streaming benchmarks are listed as not modelled in `PROJECT.json`.
- **I/O only.** Timing, gem5 statistics, printing, argument parsing, and `gen`/`check`/`dump`.
- **VL cache-line buffering,** as above.

## 6. Plan

1. (done) The bitonic engine: `BitonicKernels`, `CompletionTracker`, `BitonicVL` with its reload builds, `BitonicSeq` and `BitonicZMQ`, each refining `MergeTree`.
2. (done) `NetworkPipeline`, `NetworkFirewall`, `Ember` and `FirPipeline`, composed in `MCBenchmarks`.
3. (done) `PingPong`, with `m5_q_t`'s slot arithmetic.
4. (done) `TokenLock` (boost and VL locks); `zmq_lock.h` remains.
5. (done) `MaxSce` (`max_sce.c`).
6. (done) `Latency` (`latency.c`) and `Shopping` (`shopping.c`).
7. Next: `zmq_lock.h`, and a weak-memory model of the price and ring publications.
