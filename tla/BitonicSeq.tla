----------------------------- MODULE BitonicSeq -----------------------------
(***************************************************************************)
(* The single-thread reference sort of src/apps/bitonic/seq.cpp: element-  *)
(* pair granularity, four FIFO work queues and the per-index counters      *)
(* ccount (connect) and pcount (pair).                                     *)
(*                                                                         *)
(* One iteration of while (true) visits the four stages in a fixed order,  *)
(* each doing at most one message; stage records which one is next, so    *)
(* the model follows the program's one execution for each input.           *)
(***************************************************************************)
EXTENDS Integers, Sequences, BitonicKernels

CONSTANTS
  N,            \* len, already rounded up to a power of two
  InitArrays    \* the input arrays considered

ASSUME N \in Nat \ {0}

Idx == 0 .. N - 1

(* Message<int>: the fields seq.cpp reads are beg and end.                 *)
Range(b, e) == [beg |-> b, end |-> e]

VARIABLES
  arr,
  to_swap,      \* bitonic subarrays
  to_connect,   \* swapped pairs, to be connected into sorted runs
  to_pair,      \* sorted subarrays
  to_reverse,   \* first halves of paired runs, to reverse
  ccount,       \* ccount[i]: times the pair at i entered connect
  pcount,       \* pcount[i]: times the run starting at i entered pair
  stage         \* the stage of the loop body that runs next, or "done"

vars == <<arr, to_swap, to_connect, to_pair, to_reverse, ccount, pcount, stage>>

Init ==
  /\ arr \in InitArrays
  /\ to_swap = [k \in 1 .. (N + 1) \div 2 |-> Range(2 * (k - 1), 2 * (k - 1) + 2)]
  /\ to_connect = <<>>
  /\ to_pair = <<>>
  /\ to_reverse = <<>>
  /\ ccount = [i \in Idx |-> 0]
  /\ pcount = [i \in Idx |-> 0]
  /\ stage = "swap"

(* swap the front bitonic subarray; halves longer than a pair go back to  *)
(* to_swap, a pair goes on to to_connect.                                  *)
SwapStage ==
  /\ stage = "swap"
  /\ stage' = "connect"
  /\ \/ /\ to_swap = <<>>
        /\ UNCHANGED <<arr, to_swap, to_connect>>
     \/ LET m == Head(to_swap)
            l == m.end - m.beg
        IN  /\ to_swap # <<>>
            /\ arr' = CompareExchange(arr, SwapPairs(m.beg, l))
            /\ \/ /\ 2 < l
                  /\ to_swap' = Tail(to_swap) \o << Range(m.beg, m.beg + l \div 2),
                                                  Range(m.beg + l \div 2, m.end) >>
                  /\ UNCHANGED to_connect
               \/ /\ ~(2 < l)
                  /\ to_swap' = Tail(to_swap)
                  /\ to_connect' = Append(to_connect, m)
  /\ UNCHANGED <<to_pair, to_reverse, ccount, pcount>>

(* Mutation: the check loop steps by one index instead of by one pair.   *)
ConnectedEveryIndex(cc, b) ==
  LET L  == Pow2(cc[b])
      ib == AlignDown(b, cc[b])
  IN  \A i \in ib .. ib + L - 2 : cc[i] = cc[b]

(* Mutation: the check loop stops after the first pair (break misplaced).  *)
ConnectedFirstOnly(cc, b) == cc[AlignDown(b, cc[b])] = cc[b]

(* connect: the pair at b has been swapped once more; when every pair of  *)
(* the aligned 2^ccount[b] range has, that range is a sorted run.          *)
Connected(cc, b) ==
  LET L  == Pow2(cc[b])
      ib == AlignDown(b, cc[b])
  IN  \A i \in { ib + 2 * k : k \in 0 .. (L - 2) \div 2 } : cc[i] = cc[b]

ConnectStage ==
  /\ stage = "connect"
  /\ stage' = "pair"
  /\ \/ /\ to_connect = <<>>
        /\ UNCHANGED <<to_connect, to_pair, ccount>>
     \/ LET b  == Head(to_connect).beg
            cc == [ccount EXCEPT ![b] = @ + 1]
            ib == AlignDown(b, cc[b])
        IN  /\ to_connect # <<>>
            /\ to_connect' = Tail(to_connect)
            /\ ccount' = cc
            /\ to_pair' = IF Connected(cc, b)
                            THEN Append(to_pair, Range(ib, ib + Pow2(cc[b])))
                            ELSE to_pair
  /\ UNCHANGED <<arr, to_swap, to_reverse, pcount>>

(* Mutation: pairs when the first run's count is at least its sibling's.  *)
PairedGe(pc, i1, i2) == pc[i1] >= pc[i2]

(* The two aligned sibling runs have entered pair equally often.           *)
Paired(pc, i1, i2) == pc[i1] = pc[i2]

(* pair: a sorted run has formed; stop if it is the whole array, else     *)
(* pair it with its aligned sibling run when both have equal counts.       *)
PairStage ==
  /\ stage = "pair"
  /\ \/ /\ to_pair = <<>>
        /\ stage' = "reverse"
        /\ UNCHANGED <<to_pair, to_reverse, pcount>>
     \/ LET m      == Head(to_pair)
            pc     == [pcount EXCEPT ![m.beg] = @ + 1]
            stride == m.end - m.beg
            i1     == m.beg - (m.beg % (2 * stride))
            i2     == i1 + stride
        IN  /\ to_pair # <<>>
            /\ to_pair' = Tail(to_pair)
            /\ pcount' = pc
            /\ \/ /\ stride = N
                  /\ stage' = "done"
                  /\ UNCHANGED to_reverse
               \/ /\ stride # N
                  /\ stage' = "reverse"
                  /\ to_reverse' = IF Paired(pc, i1, i2)
                                     THEN Append(to_reverse, Range(i1, i2))
                                     ELSE to_reverse
  /\ UNCHANGED <<arr, to_swap, to_connect, ccount>>

(* reverse the first run of a pair; both runs form one bitonic subarray.  *)
ReverseStage ==
  /\ stage = "reverse"
  /\ stage' = "swap"
  /\ \/ /\ to_reverse = <<>>
        /\ UNCHANGED <<arr, to_swap, to_reverse>>
     \/ LET m == Head(to_reverse)
            l == m.end - m.beg
        IN  /\ to_reverse # <<>>
            /\ arr' = Reverse(arr, m.beg, l)
            /\ to_reverse' = Tail(to_reverse)
            /\ to_swap' = Append(to_swap, Range(m.beg, m.end + l))
  /\ UNCHANGED <<to_connect, to_pair, ccount, pcount>>

(* sort() has returned.                                                    *)
Terminated == stage = "done" /\ UNCHANGED vars

Next == SwapStage \/ ConnectStage \/ PairStage \/ ReverseStage \/ Terminated

(* The one thread always takes its next step.                              *)
Spec == Init /\ [][Next]_vars /\ WF_vars(Next)

-----------------------------------------------------------------------------
(* Every range a message names lies inside the array (and so inside       *)
(* ccount and pcount, which are indexed by its begin and by aligned        *)
(* indices of the same range).                                             *)
AccessesInBounds ==
  \A m \in {to_swap[k] : k \in DOMAIN to_swap} \cup {to_connect[k] : k \in DOMAIN to_connect}
         \cup {to_pair[k] : k \in DOMAIN to_pair} \cup {to_reverse[k] : k \in DOMAIN to_reverse} :
    m.beg .. m.end - 1 \subseteq Idx

(* When the loop breaks, the array is sorted.                              *)
SortedWhenDone == stage = "done" => IsSortedArray(arr, N)

(* The runs pcount records: a start with a count that no earlier recorded *)
(* run covers, as <<pair index, level in pairs>>.                          *)
RunHeads ==
  { x \in Idx : /\ pcount[x] >= 1
                /\ ~\E z \in 0 .. x - 1 : pcount[z] >= 1 /\ x < z + Pow2(pcount[z]) }

Runs == { <<x \div 2, pcount[x] - 1>> : x \in RunHeads }

Abstract == INSTANCE MergeTree WITH NBlocks <- N \div 2, runs <- Runs, finished <- (stage = "done")

(* pcount implements the merge tree: a newly recorded run is a new pair   *)
(* or the merge of two equal sibling runs, and the loop breaks exactly     *)
(* when one run covers the array.                                          *)
RefinesMergeTree == Abstract!Spec

(* The loop eventually breaks: no message is lost and no pairing missed.  *)
Termination == <>(stage = "done")

=============================================================================
