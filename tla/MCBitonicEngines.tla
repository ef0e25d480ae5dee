-------------------------- MODULE MCBitonicEngines --------------------------
(***************************************************************************)
(* The engines of src/apps/bitonic other than vl.cpp, and the pure         *)
(* algorithms, each checked against what its caller relies on.  An initial *)
(* state picks one experiment; the others keep a fixed state of their own, *)
(* so the state space is the sum, not the product, of the four:           *)
(*                                                                         *)
(* "seq": the single-thread sort of seq.cpp (BitonicSeq), every 0/1 array *)
(*   of length N.                                                          *)
(* "zmq": the ZeroMQ master and slaves of zmq.cpp (BitonicZMQ), every 0/1  *)
(*   array of length N.                                                    *)
(*                                                                         *)
(* "kernels": the worker's compound routines of vl.cpp over every input    *)
(*   of length LEN over Values: the initial task on each half (slave(),    *)
(*   exp 0), then the bottom task with rswap over the whole               *)
(*   (exp = MINI_TASK_EXP, torswap) merging them.                          *)
(* "tracker": the coordinator's use of maxdone (vl.cpp 404-405 and        *)
(*   454-455): the 2^(K-1) leaf tasks of one task tree complete in any     *)
(*   order, each reported to maxdone with max_exp = K, from the reset the  *)
(*   coordinator performs when it emits the tree.                          *)
(***************************************************************************)
EXTENDS Integers, FiniteSets, BitonicKernels, CompletionTracker

CONSTANTS
  LEN, Values,   \* kernels: array length and element values
  K,             \* tracker: depth of the tree (task_exp - MINI_TASK_EXP)
  N,             \* seq and zmq: len
  NUM_SLAVES, MAX_ON_THE_FLY, None   \* zmq

ASSUME K \in Nat \ {0}

Leaves == 0 .. Pow2(K - 1) - 1

VARIABLES
  experiment,
  orig, a, phase,   \* kernels: the input, the array, the step reached
  dcnts,            \* tracker: the counter array
  done,             \* tracker: the leaves whose completion has been handled
  full,             \* tracker: how many calls returned K
  s_arr, to_swap, to_connect, to_pair, to_reverse, ccount, s_pcount, stage,
  z_arr, to_slave, to_master, rr, z_held, z_ready, z_done, mpc, spc,
  z_feed_in, on_the_fly, z_pcount

kvars == <<orig, a, phase>>
tvars == <<dcnts, done, full>>
svars == <<s_arr, to_swap, to_connect, to_pair, to_reverse, ccount, s_pcount, stage>>
zvars == <<z_arr, to_slave, to_master, rr, z_held, z_ready, z_done, mpc, spc,
           z_feed_in, on_the_fly, z_pcount>>
vars == <<experiment, kvars, tvars, svars, zvars>>

InitArrays == [0 .. N - 1 -> {0, 1}]
Zeros == [i \in 0 .. N - 1 |-> 0]

SeqSort == INSTANCE BitonicSeq WITH arr <- s_arr, pcount <- s_pcount

ZmqSort == INSTANCE BitonicZMQ
             WITH arr <- z_arr, held <- z_held, ready <- z_ready, done <- z_done,
                  feed_in <- z_feed_in, pcount <- z_pcount

KernelsInit ==
  /\ orig \in [0 .. LEN - 1 -> Values]
  /\ a = orig
  /\ phase = "input"

TrackerInit ==
  /\ dcnts = [i \in Leaves |-> 0]
  /\ done = {}
  /\ full = 0

KernelsIdle == orig = <<>> /\ a = <<>> /\ phase = "input"
TrackerIdle == dcnts = <<>> /\ done = {} /\ full = 0
SeqIdle == SeqSort!Init /\ s_arr = Zeros
ZmqIdle == ZmqSort!Init /\ z_arr = Zeros

Init ==
  \/ experiment = "kernels" /\ KernelsInit /\ TrackerIdle /\ SeqIdle /\ ZmqIdle
  \/ experiment = "tracker" /\ TrackerInit /\ KernelsIdle /\ SeqIdle /\ ZmqIdle
  \/ experiment = "seq" /\ SeqSort!Init /\ KernelsIdle /\ TrackerIdle /\ ZmqIdle
  \/ experiment = "zmq" /\ ZmqSort!Init /\ KernelsIdle /\ TrackerIdle /\ SeqIdle

(* Two workers each run an initial task, on [0, LEN/2) and [LEN/2, LEN).  *)
InitialTasks ==
  /\ experiment = "kernels"
  /\ phase = "input"
  /\ a' = InitialTask(InitialTask(a, 0, LEN \div 2), LEN \div 2, LEN)
  /\ phase' = "halves"
  /\ UNCHANGED <<experiment, orig, tvars, svars, zvars>>

(* A worker runs the bottom task that merges the two sorted halves.       *)
MergeTask ==
  /\ experiment = "kernels"
  /\ phase = "halves"
  /\ a' = BottomTask(a, 0, LEN, TRUE)
  /\ phase' = "merged"
  /\ UNCHANGED <<experiment, orig, tvars, svars, zvars>>

(* One completion message of leaf i handled by the coordinator.           *)
Complete(i) ==
  LET r == MaxDone(dcnts, i, K)
  IN  /\ experiment = "tracker"
      /\ i \notin done
      /\ dcnts' = r.dcnts
      /\ done' = done \cup {i}
      /\ full' = IF r.cnt = K THEN full + 1 ELSE full
      /\ UNCHANGED <<experiment, kvars, svars, zvars>>

(* One step of seq.cpp's loop, of zmq.cpp's master, or of slave w.       *)
SeqStep == experiment = "seq" /\ SeqSort!Next /\ UNCHANGED <<experiment, kvars, tvars, zvars>>
ZmqMasterStep ==
  experiment = "zmq" /\ ZmqSort!MasterStep /\ UNCHANGED <<experiment, kvars, tvars, svars>>
ZmqSlaveStep(w) ==
  experiment = "zmq" /\ ZmqSort!SlaveStep(w) /\ UNCHANGED <<experiment, kvars, tvars, svars>>

Next ==
  \/ InitialTasks \/ MergeTask \/ \E i \in Leaves : Complete(i)
  \/ SeqStep
  \/ ZmqMasterStep \/ \E w \in ZmqSort!Slaves : ZmqSlaveStep(w)

(* The fairness of each engine's own specification: its threads are      *)
(* pinned and spin, so each is weakly fair.                                *)
Spec ==
  /\ Init /\ [][Next]_vars
  /\ WF_vars(SeqStep)
  /\ WF_vars(ZmqMasterStep) /\ \A w \in ZmqSort!Slaves : WF_vars(ZmqSlaveStep(w))

-----------------------------------------------------------------------------
Occurrences(f, v) == Cardinality({k \in DOMAIN f : f[k] = v})
IsPermutationOf(f, g) == \A v \in Values : Occurrences(f, v) = Occurrences(g, v)

(* The initial task sorts its mini task in place: each half is sorted and *)
(* holds the same values as before.                                       *)
InitialTaskSorts ==
  phase = "halves" =>
    /\ IsSortedRange(a, 0, LEN \div 2)
    /\ IsSortedRange(a, LEN \div 2, LEN)
    /\ IsPermutationOf(a, orig)

(* rswap followed by the halving ladder turns two sorted runs into one    *)
(* sorted run of the same values.                                          *)
BottomTaskMerges ==
  phase = "merged" => IsSortedArray(a, LEN) /\ IsPermutationOf(a, orig)

(* maxdone reports the tree complete exactly once, and exactly on the     *)
(* last leaf's completion, whatever order the workers finish in: the     *)
(* coordinator neither splits/merges early nor misses the completion.    *)
CompleteExactlyAtLast ==
  experiment = "tracker" => full = IF done = Leaves THEN 1 ELSE 0


(* seq.cpp: when the loop breaks the array is sorted.                      *)
SeqSortedWhenDone == SeqSort!SortedWhenDone

(* seq.cpp: pcount implements the merge tree (a new run is a new pair or   *)
(* the merge of two equal sibling runs; the break comes exactly when one   *)
(* run covers the array).                                                  *)
SeqRefinesMergeTree == SeqSort!RefinesMergeTree

(* seq.cpp: the loop eventually breaks: no message lost, no pairing missed. *)
SeqTermination == (experiment = "seq") ~> (stage = "done")

(* zmq.cpp: two messages the master has out never overlap, whichever      *)
(* slave's reply the fair-queued PULL socket delivers first.               *)
ZmqTasksDisjoint == ZmqSort!TasksDisjoint

(* zmq.cpp: the hand-kept on_the_fly equals the messages out and stays     *)
(* within MAX_ON_THE_FLY.                                                  *)
ZmqInFlightBounded == ZmqSort!InFlightBounded

(* zmq.cpp: after lock.done the array is sorted.                           *)
ZmqSortedWhenDone == ZmqSort!SortedWhenDone

(* zmq.cpp: the master's pcount implements the merge tree.                 *)
ZmqRefinesMergeTree == ZmqSort!RefinesMergeTree

(* zmq.cpp: the master eventually joins every slave and returns.           *)
ZmqTermination == (experiment = "zmq") ~> (mpc = "done")

=============================================================================
