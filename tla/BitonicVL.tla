----------------------------- MODULE BitonicVL -----------------------------
(***************************************************************************)
(* The multi-worker bitonic sort of src/apps/bitonic/vl.cpp, in the       *)
(* default build and in the INIT_RELOAD and EXCL_RELOAD builds, selected   *)
(* by the constants of the same names.                                      *)
(*                                                                         *)
(* One coordinator thread (sort()) and a pool of worker threads (slave())  *)
(* share the array arr and two channels: tosort (coordinator -> workers,   *)
(* task messages) and topair (workers -> coordinator, the same message     *)
(* returned as a completion).  The coordinator alone owns the counter      *)
(* arrays scnts, dcnts and bcnts of CompletionTracker.                     *)
(*                                                                         *)
(* Granularity of steps: a worker's kernel runs as one step together with  *)
(* the push of its completion (TasksDisjoint below shows no other task     *)
(* touches the same elements meanwhile); one coordinator step handles one  *)
(* completion and updates the counters (no other thread reads them), and   *)
(* each blocking push of a task it then emits is a step of its own.        *)
(***************************************************************************)
EXTENDS Integers, Sequences, FiniteSets, CompletionTracker

CONSTANTS
  N,               \* the (rounded up) array length len
  MAX_ON_THE_FLY,  \* the cap on initial tasks on the fly
  Workers,         \* the slave threads, by desired_core: 1 .. NUM_SLAVES
  CapToSort,       \* capacity of the tosort channel, in messages
  CapToPair,       \* capacity of the topair channel, in messages
  InitArrays,      \* the input arrays considered
  OpenMayFail,     \* whether a worker's open_byte_vl_as_* may fail
  INIT_RELOAD,     \* build flags of vl.cpp
  EXCL_RELOAD,
  None             \* no task held

ASSUME /\ N \in Nat \ {0}
       /\ MAX_ON_THE_FLY \in Nat \ {0}
       /\ Workers = 1 .. Cardinality(Workers) /\ Workers # {}
       /\ CapToSort \in Nat \ {0} /\ CapToPair \in Nat \ {0}
       /\ OpenMayFail \in BOOLEAN
       /\ INIT_RELOAD \in BOOLEAN /\ EXCL_RELOAD \in BOOLEAN

mini       == Pow2(MINI_TASK_EXP)         \* mini_task_len
CntLen     == N \div mini                 \* cnt_len = len >> MINI_TASK_EXP
Blocks     == 0 .. CntLen - 1
NumWorkers == Cardinality(Workers)
MinOf(x, y) == IF x < y THEN x ELSE y

ASSUME INIT_RELOAD => N >= 2 * mini

(* A task/completion message: the fields of Message<int>::arr read by the *)
(* protocol (base and len are the same in every message).  loaded marks a  *)
(* completion for a task the sending worker has scheduled itself (reload   *)
(* builds); a worker clears it on every message it pops.                    *)
Msg == [beg : 0 .. N - 1, exp : 0 .. N, torswap : BOOLEAN, loaded : BOOLEAN]

Task(b, e, r) == [beg |-> b, exp |-> e, torswap |-> r, loaded |-> FALSE]

(* The initial task message for the mini task at feed_in (exp = 0).       *)
InitMsg(b) == Task(b, 0, FALSE)

(* icnts of INIT_RELOAD: one counter per pair of mini tasks.               *)
Pairs == 0 .. (N \div (2 * mini)) - 1

(* on_the_fly is a uint64_t: a value below 0 stands for its wrap-around,   *)
(* which exceeds every bound it is compared with.                          *)
BelowCap(x) == 0 <= x /\ x < MAX_ON_THE_FLY

VARIABLES
  arr,         \* the shared array
  tosort,      \* the tosort channel
  topair,      \* the topair channel
  held,        \* held[w]: the task worker w has popped and not yet pushed back
  wpc,         \* worker control state
  cpc,         \* coordinator control state
  ready,       \* the startup barrier counter
  feed_in,     \* how much of the array has been fed in as initial tasks
  on_the_fly,  \* the coordinator's count of messages on the fly
  scnts,       \* sorted length (log2) recorded per block
  dcnts,       \* swap/rswap task tree counters per block
  bcnts,       \* bottom (merge) task tree counters per block
  outbox,      \* tasks the current completion handler has still to push
  stop,        \* lock.done
  icnts        \* icnts[w]: worker w's initial-task pair counters (INIT_RELOAD)

vars == <<arr, tosort, topair, held, wpc, cpc, ready, feed_in, on_the_fly,
          scnts, dcnts, bcnts, outbox, stop, icnts>>
cvars == <<scnts, dcnts, bcnts>>

-----------------------------------------------------------------------------
(* What a worker does with a task (the loaded branch of slave()).         *)
Execute(a, m) ==
  CASE m.exp > MINI_TASK_EXP -> SegTask(a, m.beg, m.exp, mini, m.torswap)
    [] m.exp = MINI_TASK_EXP -> BottomTask(a, m.beg, mini, m.torswap)
    [] OTHER                 -> InitialTask(a, m.beg, MinOf(m.beg + mini, N))

(* The elements a task reads and writes.                                  *)
Footprint(m) ==
  CASE m.exp > MINI_TASK_EXP ->
         LET P == SegPairs(m.beg, m.exp, mini, m.torswap)
         IN  {p[1] : p \in P} \cup {p[2] : p \in P}
    [] m.exp = MINI_TASK_EXP -> m.beg .. m.beg + mini - 1
    [] OTHER                 -> m.beg .. MinOf(m.beg + mini, N) - 1

-----------------------------------------------------------------------------
Init ==
  /\ arr \in InitArrays
  /\ tosort = <<>>
  /\ topair = <<>>
  /\ held = [w \in Workers |-> None]
  /\ wpc = [w \in Workers |-> "open"]
  /\ cpc = "setup"
  /\ ready = 0
  /\ feed_in = 0
  /\ on_the_fly = 0
  /\ scnts = [i \in Blocks |-> 0]
  /\ dcnts = [i \in Blocks |-> 0]
  /\ bcnts = [i \in Blocks |-> 0]
  /\ outbox = <<>>
  /\ stop = FALSE
  /\ icnts = [w \in Workers |-> [k \in Pairs |-> 0]]

(***************************************************************************)
(* Coordinator: sort() from ready++ on.                                    *)
(***************************************************************************)
CoordinatorArrive ==
  /\ cpc = "setup"
  /\ ready' = ready + 1
  /\ cpc' = "barrier"
  /\ UNCHANGED <<arr, tosort, topair, held, wpc, feed_in, on_the_fly, cvars, outbox, stop, icnts>>

(* Mutation: the barrier counts one thread short.                         *)
CoordinatorStartEarly ==
  /\ cpc = "barrier"
  /\ ready >= NumWorkers
  /\ cpc' = "seed"
  /\ UNCHANGED <<arr, tosort, topair, held, wpc, ready, feed_in, on_the_fly, cvars, outbox, stop, icnts>>

(* while ((1 + NUM_SLAVES) != ready.load()) spin                          *)
CoordinatorStart ==
  /\ cpc = "barrier"
  /\ ready = NumWorkers + 1
  /\ cpc' = "seed"
  /\ UNCHANGED <<arr, tosort, topair, held, wpc, ready, feed_in, on_the_fly, cvars, outbox, stop, icnts>>

(* Mutation: the seeding loop does not advance feed_in.                   *)
SeedNoAdvance ==
  /\ cpc = "seed"
  /\ Len(tosort) < CapToSort
  /\ tosort' = Append(tosort, InitMsg(feed_in))
  /\ on_the_fly' = on_the_fly + 1
  /\ cpc' = IF feed_in < N /\ on_the_fly' < MAX_ON_THE_FLY THEN "seed" ELSE "loop"
  /\ UNCHANGED <<arr, topair, held, wpc, ready, feed_in, cvars, outbox, stop, icnts>>

(* One iteration of the seeding for loop: a blocking push of the initial  *)
(* task at feed_in; the loop stops at the array end or MAX_ON_THE_FLY.    *)
Seed ==
  /\ cpc = "seed"
  /\ Len(tosort) < CapToSort
  /\ tosort' = Append(tosort, InitMsg(feed_in))
  /\ feed_in' = feed_in + mini
  /\ on_the_fly' = on_the_fly + 1
  /\ cpc' = IF feed_in' < N /\ on_the_fly' < MAX_ON_THE_FLY THEN "seed" ELSE "loop"
  /\ UNCHANGED <<arr, topair, held, wpc, ready, cvars, outbox, stop, icnts>>

(* The part every handling of a popped completion shares: on_the_fly--,   *)
(* then either break (finished) or push the emitted tasks.                *)
Handled(tasks, finished) ==
  /\ topair' = Tail(topair)
  /\ on_the_fly' = on_the_fly - 1
  /\ outbox' = tasks
  /\ stop' = finished
  /\ cpc' = IF finished THEN "done" ELSE IF tasks = <<>> THEN "loop" ELSE "emit"
  /\ UNCHANGED <<arr, tosort, held, wpc, ready, feed_in, icnts>>

(* Mutation: the loop's last start is lost (t + mini_task_len < to).      *)
StartsShort(from, to) == [k \in 1 .. (to - from - 1) \div mini |-> from + (k - 1) * mini]

(* The starts of the mini tasks in [from, to):                             *)
(* for (t = from; t < to; t += mini_task_len)                              *)
Starts(from, to) == [k \in 1 .. ((to - from - 1) \div mini) + 1 |-> from + (k - 1) * mini]

(* exp == 0: an initial task finished (vl.cpp 508-539).  Under           *)
(* INIT_RELOAD a completion whose block a loaded message has already      *)
(* recorded is dropped instead (384-386); the worker pushes that          *)
(* completion before the loaded message, so no action handles it: were it *)
(* ever at the head of topair the model would deadlock.                    *)
ReceiveInitDone ==
  LET m        == Head(topair)
      idx      == m.beg \div mini
      s1       == [scnts EXCEPT ![idx] = MINI_TASK_EXP]
      finished == Pow2(s1[0]) >= N
      pr       == IsPaired(s1, idx)
  IN
  /\ cpc = "loop"
  /\ topair # <<>>
  /\ ~m.loaded /\ m.exp = 0
  /\ ~(INIT_RELOAD /\ scnts[idx] # 0)
  /\ scnts' = s1
  /\ \/ /\ finished
        /\ Handled(<<>>, TRUE)
        /\ UNCHANGED <<dcnts, bcnts>>
     \/ /\ ~finished
        /\ pr.paired
        /\ dcnts' = [dcnts EXCEPT ![pr.first] = 0]
        /\ bcnts' = [bcnts EXCEPT ![pr.first] = 0, ![pr.first + 1] = 0]
        /\ Handled(<<Task(pr.first * mini, MINI_TASK_EXP + 1, TRUE)>>, FALSE)
     \/ /\ ~finished
        /\ ~pr.paired
        /\ Handled(<<>>, FALSE)
        /\ UNCHANGED <<dcnts, bcnts>>

(* exp > MINI_TASK_EXP: a slice of a swap/rswap over a block of length    *)
(* 2^exp finished (vl.cpp 400-449).  When the whole block is done, split  *)
(* it: swap tasks of exponent exp-1 over the first half of each half.     *)
ReceiveSwapDone ==
  LET m      == Head(topair)
      e      == m.exp
      r      == MaxDone(dcnts, m.beg \div mini, e - MINI_TASK_EXP)
      base   == AlignDown(m.beg, e)
      q      == Pow2(e - 2)
      starts == Starts(base, base + q) \o Starts(base + 2 * q, base + 3 * q)
      tasks  == [k \in DOMAIN starts |-> Task(starts[k], e - 1, FALSE)]
      news   == {starts[k] \div mini : k \in DOMAIN starts}
  IN
  /\ cpc = "loop"
  /\ topair # <<>>
  /\ ~m.loaded /\ e > MINI_TASK_EXP
  /\ UNCHANGED <<scnts, bcnts>>
  /\ \/ /\ r.cnt + MINI_TASK_EXP = e
        /\ dcnts' = [i \in Blocks |-> IF i \in news THEN 0 ELSE r.dcnts[i]]
        /\ Handled(tasks, FALSE)
     \/ /\ r.cnt + MINI_TASK_EXP # e
        /\ dcnts' = r.dcnts
        /\ Handled(<<>>, FALSE)

(* exp == MINI_TASK_EXP: a bottom task of a merge finished (vl.cpp         *)
(* 450-507).  When the whole merge is done, record the longer sorted run, *)
(* stop if it is the whole array, else try to pair it.                    *)
ReceiveBottomDone ==
  LET m        == Head(topair)
      idx      == m.beg \div mini
      te       == MaxSorted(scnts, idx).exp + 1
      r        == MaxDone(bcnts, idx, te - MINI_TASK_EXP + 1)
      ib       == AlignDown(m.beg, te) \div mini
      s1       == [scnts EXCEPT ![ib] = @ + 1]
      finished == Pow2(s1[0]) = N
      pr       == IsPaired(s1, ib)
      half     == Pow2(te - MINI_TASK_EXP)
      p        == pr.first
      tasks    == [k \in 1 .. half |-> Task((p + k - 1) * mini, te + 1, TRUE)]
  IN
  /\ cpc = "loop"
  /\ topair # <<>>
  /\ ~m.loaded /\ m.exp = MINI_TASK_EXP
  /\ \/ /\ r.cnt + MINI_TASK_EXP - 1 # te
        /\ bcnts' = r.dcnts
        /\ Handled(<<>>, FALSE)
        /\ UNCHANGED <<scnts, dcnts>>
     \/ /\ r.cnt + MINI_TASK_EXP - 1 = te
        /\ scnts' = s1
        /\ \/ /\ finished
              /\ bcnts' = r.dcnts
              /\ Handled(<<>>, TRUE)
              /\ UNCHANGED dcnts
           \/ /\ ~finished
              /\ pr.paired
              /\ dcnts' = [i \in Blocks |-> IF i \in p .. p + half - 1 THEN 0 ELSE dcnts[i]]
              /\ bcnts' = [i \in Blocks |-> IF i \in p .. p + 2 * half - 1 THEN 0 ELSE r.dcnts[i]]
              /\ Handled(tasks, FALSE)
           \/ /\ ~finished
              /\ ~pr.paired
              /\ bcnts' = r.dcnts
              /\ Handled(<<>>, FALSE)
              /\ UNCHANGED dcnts

(* The feed at the end of an iteration that popped no valid message: a   *)
(* non-blocking push of the next initial task, when any remains and the   *)
(* cap allows, that fails on a full channel (vl.cpp 546-556).              *)
TryFeed(otf) ==
  IF feed_in < N /\ BelowCap(otf) /\ Len(tosort) < CapToSort
    THEN /\ tosort' = Append(tosort, InitMsg(feed_in))
         /\ feed_in' = feed_in + mini
         /\ on_the_fly' = otf + 1
    ELSE /\ UNCHANGED <<tosort, feed_in>>
         /\ on_the_fly' = otf

(* Reload builds: a loaded message only updates counters (vl.cpp 371-383): *)
(* on_the_fly--; under INIT_RELOAD a pair of initial tasks one worker has   *)
(* merged itself records both mini tasks sorted, resets the trees of the    *)
(* rswap the worker is doing, and adds two to on_the_fly.                  *)
ReceiveLoaded ==
  LET m   == Head(topair)
      idx == m.beg \div mini
      irl == INIT_RELOAD /\ m.exp = MINI_TASK_EXP + 1
  IN
  /\ cpc = "loop"
  /\ topair # <<>>
  /\ m.loaded
  /\ topair' = Tail(topair)
  /\ IF irl
       THEN /\ scnts' = [scnts EXCEPT ![idx] = MINI_TASK_EXP, ![idx + 1] = MINI_TASK_EXP]
            /\ dcnts' = [dcnts EXCEPT ![idx] = 0]
            /\ bcnts' = [bcnts EXCEPT ![idx] = 0, ![idx + 1] = 0]
            /\ TryFeed(on_the_fly - 1 + 2)
       ELSE /\ UNCHANGED cvars
            /\ TryFeed(on_the_fly - 1)
  /\ UNCHANGED <<arr, held, wpc, cpc, ready, outbox, stop, icnts>>

(* One blocking line_vl_push_weak of an emitted task, on_the_fly++.       *)
Emit ==
  /\ cpc = "emit"
  /\ Len(tosort) < CapToSort
  /\ tosort' = Append(tosort, Head(outbox))
  /\ outbox' = Tail(outbox)
  /\ on_the_fly' = on_the_fly + 1
  /\ cpc' = IF Len(outbox) = 1 THEN "loop" ELSE "emit"
  /\ UNCHANGED <<arr, topair, held, wpc, ready, feed_in, cvars, stop, icnts>>

(* Mutation: the fed task is not recorded in feed_in.                     *)
FeedNoAdvance ==
  /\ cpc = "loop"
  /\ topair = <<>>
  /\ feed_in < N
  /\ BelowCap(on_the_fly)
  /\ Len(tosort) < CapToSort
  /\ tosort' = Append(tosort, InitMsg(feed_in))
  /\ on_the_fly' = on_the_fly + 1
  /\ UNCHANGED <<arr, topair, held, wpc, cpc, ready, feed_in, cvars, outbox, stop, icnts>>

(* No completion was popped: feed one more initial task if any remain and *)
(* the cap allows, with a non-blocking push that fails on a full channel  *)
(* (vl.cpp 546-556).  Otherwise the loop only flushes: a stuttering step. *)
Feed ==
  /\ cpc = "loop"
  /\ topair = <<>>
  /\ feed_in < N
  /\ BelowCap(on_the_fly)
  /\ Len(tosort) < CapToSort
  /\ tosort' = Append(tosort, InitMsg(feed_in))
  /\ feed_in' = feed_in + mini
  /\ on_the_fly' = on_the_fly + 1
  /\ UNCHANGED <<arr, topair, held, wpc, cpc, ready, cvars, outbox, stop, icnts>>

(***************************************************************************)
(* Workers: slave().                                                       *)
(***************************************************************************)
(* Open the two endpoints; on a failure slave() prints and returns before *)
(* ready++.                                                                *)
WorkerOpen(w) ==
  /\ wpc[w] = "open"
  /\ \/ /\ wpc' = [wpc EXCEPT ![w] = "barrier"]
        /\ ready' = ready + 1
     \/ /\ OpenMayFail
        /\ wpc' = [wpc EXCEPT ![w] = "failed"]
        /\ UNCHANGED ready
  /\ UNCHANGED <<arr, tosort, topair, held, cpc, feed_in, on_the_fly, cvars, outbox, stop, icnts>>

WorkerStart(w) ==
  /\ wpc[w] = "barrier"
  /\ ready = NumWorkers + 1
  /\ wpc' = [wpc EXCEPT ![w] = "run"]
  /\ UNCHANGED <<arr, tosort, topair, held, cpc, ready, feed_in, on_the_fly, cvars, outbox, stop, icnts>>

(* line_vl_pop_non on tosort returned a task.                             *)
WorkerPop(w) ==
  /\ wpc[w] = "run"
  /\ held[w] = None
  /\ tosort # <<>>
  /\ held' = [held EXCEPT ![w] = Head(tosort)]
  /\ tosort' = Tail(tosort)
  /\ UNCHANGED <<arr, topair, wpc, cpc, ready, feed_in, on_the_fly, cvars, outbox, stop, icnts>>

(* Mutation: the push to topair does not wait for room.                   *)
WorkerExecuteNoRoom(w) ==
  /\ held[w] # None
  /\ arr' = Execute(arr, held[w])
  /\ topair' = Append(topair, held[w])
  /\ held' = [held EXCEPT ![w] = None]
  /\ UNCHANGED <<tosort, wpc, cpc, ready, feed_in, on_the_fly, cvars, outbox, stop, icnts>>

(* Mutation: the loaded pair task swaps instead of rswapping.             *)
InitReloadMsgSwap(k) == [Task(k * 2 * mini, MINI_TASK_EXP + 1, FALSE) EXCEPT !.loaded = TRUE]

(* INIT_RELOAD: the rswap of the pair k of mini tasks, loaded.             *)
InitReloadMsg(k) == [Task(k * 2 * mini, MINI_TASK_EXP + 1, TRUE) EXCEPT !.loaded = TRUE]

(* Mutation: msg.arr.beg is not advanced past the task pushed to tosort.  *)
ExclReloadMsgSameBeg(m) == [Task(m.beg, MINI_TASK_EXP, FALSE) EXCEPT !.loaded = TRUE]

(* EXCL_RELOAD: the swap bottom task of the second mini task, loaded.      *)
ExclReloadMsg(m) == [Task(m.beg + mini, MINI_TASK_EXP, FALSE) EXCEPT !.loaded = TRUE]

(* Do the task (msg.arr.loaded = loaded = false first), then the blocking *)
(* push of the message back to topair, with what the reload builds do in   *)
(* between (vl.cpp 120-254):                                                *)
(*  - INIT_RELOAD, initial task: if this worker has already done the other  *)
(*    initial task of the pair (icnts), it turns the message into the       *)
(*    pair's rswap task, marks it loaded, pushes it as the completion and   *)
(*    keeps it to do next; otherwise it counts the task in icnts.          *)
(*  - EXCL_RELOAD, a slice of an rswap/swap of 2 mini tasks, on a core     *)
(*    other than 1: push the bottom task of the first mini task to tosort, *)
(*    keep the second one loaded, and push that as the completion           *)
(*    (WorkerReply: the second blocking push is a step of its own).         *)
WorkerExecute(w) ==
  LET m    == [held[w] EXCEPT !.loaded = FALSE]
      k    == m.beg \div (2 * mini)
      irl  == INIT_RELOAD /\ m.exp = 0 /\ N > mini /\ icnts[w][k] # 0
      erl  == EXCL_RELOAD /\ m.exp = MINI_TASK_EXP + 1 /\ 1 < w
      pair == InitReloadMsg(k)
      next == ExclReloadMsg(m)
  IN
  /\ wpc[w] = "run"
  /\ held[w] # None
  /\ arr' = Execute(arr, m)
  /\ \/ /\ irl
        /\ Len(topair) < CapToPair
        /\ topair' = Append(topair, pair)
        /\ held' = [held EXCEPT ![w] = pair]
        /\ UNCHANGED <<tosort, wpc, icnts>>
     \/ /\ erl
        /\ Len(tosort) < CapToSort
        /\ tosort' = Append(tosort, Task(m.beg, MINI_TASK_EXP, FALSE))
        /\ held' = [held EXCEPT ![w] = next]
        /\ wpc' = [wpc EXCEPT ![w] = "reply"]
        /\ UNCHANGED <<topair, icnts>>
     \/ /\ ~irl /\ ~erl
        /\ Len(topair) < CapToPair
        /\ topair' = Append(topair, m)
        /\ held' = [held EXCEPT ![w] = None]
        /\ icnts' = IF INIT_RELOAD /\ m.exp = 0
                       THEN [icnts EXCEPT ![w][k] = @ + 1]
                       ELSE icnts
        /\ UNCHANGED <<tosort, wpc>>
  /\ UNCHANGED <<cpc, ready, feed_in, on_the_fly, cvars, outbox, stop>>

(* EXCL_RELOAD: the blocking push of the loaded message to topair.         *)
WorkerReply(w) ==
  /\ wpc[w] = "reply"
  /\ Len(topair) < CapToPair
  /\ topair' = Append(topair, held[w])
  /\ wpc' = [wpc EXCEPT ![w] = "run"]
  /\ UNCHANGED <<arr, tosort, held, cpc, ready, feed_in, on_the_fly, cvars, outbox, stop, icnts>>

(* The pop found nothing; done = lock.done ends the loop.                  *)
WorkerExit(w) ==
  /\ wpc[w] = "run"
  /\ held[w] = None
  /\ tosort = <<>>
  /\ stop
  /\ wpc' = [wpc EXCEPT ![w] = "exited"]
  /\ UNCHANGED <<arr, tosort, topair, held, cpc, ready, feed_in, on_the_fly, cvars, outbox, stop, icnts>>

-----------------------------------------------------------------------------
CoordinatorStep ==
  \/ CoordinatorArrive \/ CoordinatorStart \/ Seed
  \/ ReceiveInitDone \/ ReceiveSwapDone \/ ReceiveBottomDone
  \/ ReceiveLoaded
  \/ Emit \/ Feed

WorkerStep(w) ==
  \/ WorkerOpen(w) \/ WorkerStart(w) \/ WorkerPop(w)
  \/ WorkerExecute(w) \/ WorkerReply(w) \/ WorkerExit(w)

(* The program has returned: sort() is done and every worker has left.    *)
Terminated ==
  /\ cpc = "done"
  /\ \A w \in Workers : wpc[w] \in {"exited", "failed"}
  /\ UNCHANGED vars

Next ==
  \/ CoordinatorStep
  \/ \E w \in Workers : WorkerStep(w)
  \/ Terminated

(* Every thread is pinned to its own core and spins: each keeps taking    *)
(* steps, so each is weakly fair.                                          *)
Fairness ==
  /\ WF_vars(CoordinatorStep)
  /\ \A w \in Workers : WF_vars(WorkerStep(w))

Spec == Init /\ [][Next]_vars /\ Fairness

-----------------------------------------------------------------------------
(***************************************************************************)
(* Properties.                                                             *)
(***************************************************************************)
Stages == {"setup", "barrier", "seed", "loop", "emit", "done"}
WStages == {"open", "barrier", "run", "reply", "exited", "failed"}

TypeOK ==
  /\ DOMAIN arr = 0 .. N - 1
  /\ tosort \in Seq(Msg) /\ Len(tosort) <= CapToSort
  /\ topair \in Seq(Msg) /\ Len(topair) <= CapToPair
  /\ outbox \in Seq(Msg)
  /\ held \in [Workers -> Msg \cup {None}]
  /\ wpc \in [Workers -> WStages]
  /\ cpc \in Stages
  /\ ready \in 0 .. NumWorkers + 1
  /\ feed_in \in 0 .. N + mini
  /\ on_the_fly \in Int
  /\ icnts \in [Workers -> [Pairs -> Nat]]
  /\ scnts \in [Blocks -> Nat]
  /\ dcnts \in [Blocks -> Nat]
  /\ bcnts \in [Blocks -> Nat]
  /\ stop \in BOOLEAN

(* Every task issued and not yet accounted for by the coordinator, tagged *)
(* with where it is: in tosort, in topair, in the handler's outbox, or    *)
(* held by a worker.  A loaded message in topair only reports a task its  *)
(* worker holds, so it is not a task of its own.                           *)
Outstanding ==
       { <<"tosort", i, tosort[i]>> : i \in DOMAIN tosort }
  \cup { <<"topair", i, topair[i]>> : i \in {j \in DOMAIN topair : ~topair[j].loaded} }
  \cup { <<"outbox", i, outbox[i]>> : i \in DOMAIN outbox }
  \cup { <<"held", w, held[w]>> : w \in {v \in Workers : held[v] # None} }

(* The outstanding tasks that still write arr: queued, being issued, or  *)
(* held by a worker (a completion in topair has finished writing).        *)
Running == {t \in Outstanding : t[1] # "topair"}

(* The workers write arr without any lock: two tasks that may still run  *)
(* never touch the same element.  A wrong      *)
(* counter tree (maxdone, ispaired) would issue a merge over a run that   *)
(* is still being sorted, a data race no unit test reliably shows.        *)
TasksDisjoint ==
  \A x, y \in Running :
    x # y => Footprint(x[3]) \cap Footprint(y[3]) = {}

(* The range a block id's recorded sorted length stands for.               *)
RunOf(i) == i * mini .. i * mini + Pow2(scnts[i]) - 1

(* A run the coordinator has recorded as sorted (scnts, the head of its   *)
(* maximal run per maxsorted) is sorted whenever no outstanding task       *)
(* touches it: the counters never claim more than the workers have done.   *)
RecordedRunsSorted ==
  \A i \in Blocks :
    /\ scnts[i] >= MINI_TASK_EXP
    /\ MaxSorted(scnts, i).first = i
    /\ RunOf(i) \subseteq 0 .. N - 1
    /\ \A t \in Outstanding : Footprint(t[3]) \cap RunOf(i) = {}
    => IsSortedRange(arr, i * mini, i * mini + Pow2(scnts[i]))

(* When sort() breaks out of its loop the array is sorted.                *)
SortedWhenDone == cpc = "done" => IsSortedArray(arr, N)

(* Every task or completion names a block inside the counter arrays      *)
(* (new uint8_t[len >> MINI_TASK_EXP]) that the coordinator indexes with  *)
(* beg >> MINI_TASK_EXP when it handles it.                                *)
IndicesInBounds ==
  \A t \in Outstanding : t[3].beg \div mini \in Blocks

(* INIT_RELOAD: the coordinator drops an initial task's completion when  *)
(* the block is already recorded, taking it for one a loaded message has  *)
(* overtaken (vl.cpp 384-386).  No such completion is ever in topair: a   *)
(* recorded block's initial task has been retired, so the branch never    *)
(* drops a task that still needed counting, and is never taken at all.    *)
NoStaleInitCompletion ==
  \A i \in DOMAIN topair :
    (~topair[i].loaded /\ topair[i].exp = 0) => scnts[topair[i].beg \div mini] = 0

(* Nothing stops short of the end unless a worker's open failed: in every *)
(* state some thread can still step, or sort() is done and every worker   *)
(* has returned.  With both reload builds, a miscounted on_the_fly or a   *)
(* reloaded message the coordinator does not expect would leave it         *)
(* spinning on an empty topair while the workers spin on tosort.  (A       *)
(* failed open does stop the program, at the barrier: finding "Startup     *)
(* hang" of the README.)                                                    *)
StuckOnlyAfterOpenFailure ==
  \/ \E w \in Workers : wpc[w] = "failed"
  \/ cpc = "done" /\ \A w \in Workers : wpc[w] = "exited"
  \/ ENABLED (CoordinatorStep \/ \E w \in Workers : WorkerStep(w))

(* No task reaches the workers before every thread has passed the        *)
(* startup barrier, i.e. before every worker has opened its endpoints.    *)
StartAfterAllReady ==
  feed_in > 0 => \A w \in Workers : wpc[w] \in {"barrier", "run", "exited"}

(* The runs the counters record: each block id that heads its maximal     *)
(* sorted run per maxsorted, with the run's level in blocks.               *)
Runs == { <<i, scnts[i] - MINI_TASK_EXP>> :
            i \in {j \in Blocks : scnts[j] >= MINI_TASK_EXP /\ MaxSorted(scnts, j).first = j} }

Abstract == INSTANCE MergeTree WITH NBlocks <- CntLen, runs <- Runs, finished <- (cpc = "done")

(* The coordinator's counters implement the merge tree: every completion  *)
(* it handles either records one newly sorted block or merges two equal    *)
(* sibling runs, and sort() breaks exactly when one run covers the array.  *)
RefinesMergeTree == Abstract!Spec

(* The sort finishes: sort() breaks out, and every worker sees lock.done  *)
(* and returns.                                                            *)
Termination ==
  <>[](cpc = "done" /\ \A w \in Workers : wpc[w] = "exited")

=============================================================================
