----------------------------- MODULE MergeTree -----------------------------
(***************************************************************************)
(* What the bitonic engine promises, independent of workers, channels and  *)
(* counters: blocks become sorted one by one, and a sorted run only ever   *)
(* grows by merging with its aligned sibling of the same length, until one *)
(* run covers the whole array, at which point (and only then) the sort is  *)
(* finished.  A run is <<first block, level>> and covers 2^level blocks.   *)
(*                                                                         *)
(* Each step removes one run or adds one block, so a finished sort has     *)
(* made exactly NBlocks - 1 merges, the merge count src/apps/bitonic's     *)
(* completion tracker is meant to achieve.                                 *)
(***************************************************************************)
EXTENDS Integers, BitonicKernels

CONSTANT NBlocks   \* number of blocks, a power of two

VARIABLES runs, finished

Whole == {<<0, CHOOSE l \in 0 .. NBlocks : Pow2(l) = NBlocks>>}

Covers(r) == r[1] .. r[1] + Pow2(r[2]) - 1

Covered == UNION {Covers(r) : r \in runs}

Init ==
  /\ runs = {}
  /\ finished = FALSE

(* A block not yet in any run has been sorted on its own.                  *)
SortBlock(i) ==
  /\ ~finished
  /\ i \notin Covered
  /\ runs' = runs \cup {<<i, 0>>}
  /\ finished' = (runs' = Whole)

(* Two sibling runs of equal length merge into the run of their parent.    *)
Merge(r) ==
  LET s == <<r[1] + Pow2(r[2]), r[2]>>
  IN  /\ ~finished
      /\ r \in runs /\ s \in runs
      /\ r[1] = AlignDown(r[1], r[2] + 1)
      /\ runs' = (runs \ {r, s}) \cup {<<r[1], r[2] + 1>>}
      /\ finished' = (runs' = Whole)

Next ==
  \/ \E i \in 0 .. NBlocks - 1 : SortBlock(i)
  \/ \E r \in runs : Merge(r)

Spec == Init /\ [][Next]_<<runs, finished>>

=============================================================================
