-------------------------- MODULE CompletionTracker --------------------------
(***************************************************************************)
(* The three counter-tree algorithms of src/apps/bitonic/utils.cpp as pure *)
(* operators.  A counter array is a function from block ids to naturals;   *)
(* block id i stands for the elements [i << MINI_TASK_EXP, (i+1) << ...).  *)
(*                                                                         *)
(* The C functions return one value and write a second through a pointer  *)
(* or mutate the array; here they return a record with both.               *)
(***************************************************************************)
EXTENDS Integers, BitonicKernels

CONSTANT MINI_TASK_EXP

ASSUME MINI_TASK_EXP \in Nat \ {0}

(* Mutation: pairs when the first run is at least as long as its sibling. *)
IsPairedGe(scnts, idx) ==
  LET cnt       == scnts[idx] - MINI_TASK_EXP
      lenSorted == Pow2(cnt)
      first     == AlignDown(idx, cnt + 1)
  IN  [paired |-> scnts[first] >= scnts[first + lenSorted], first |-> first]

(* ispaired(scnts, idx, &first): idx just recorded a sorted run of length *)
(* 2^scnts[idx]; it is paired when the aligned pair of runs of that       *)
(* length have equal sorted lengths.  first is the pair's first block.    *)
IsPaired(scnts, idx) ==
  LET cnt       == scnts[idx] - MINI_TASK_EXP
      lenSorted == Pow2(cnt)
      first     == AlignDown(idx, cnt + 1)
  IN  [paired |-> scnts[first] = scnts[first + lenSorted], first |-> first]

(* Mutation: take idx's own recorded length without climbing.           *)
MaxSortedNoClimb(scnts, idx) == [exp |-> scnts[idx], first |-> idx]

(* maxsorted(scnts, idx, &first): climb from idx to the aligned super     *)
(* arrays while the super array's recorded length covers the current one; *)
(* returns the exponent of the last one reached and its first block.      *)
MaxSorted(scnts, idx) ==
  LET RECURSIVE Climb(_)
      Climb(p) ==
        LET cnt == scnts[p] - MINI_TASK_EXP + 1
            up  == AlignDown(p, cnt)
        IN  IF cnt + MINI_TASK_EXP <= scnts[up]
              THEN Climb(up)
              ELSE [exp |-> cnt + MINI_TASK_EXP - 1, first |-> p]
  IN  Climb(idx)

(* Mutation: a sibling at least as deep counts as done (>= for =).       *)
MaxDoneGe(dcnts, idx, max_exp) ==
  LET RECURSIVE Climb(_, _)
      Climb(d, i) ==
        LET d2  == [d EXCEPT ![i] = @ + 1]
            cnt == d2[i]
            i1  == AlignDown(i, cnt)
            i2  == i1 + Pow2(cnt - 1)
        IN  IF cnt < max_exp /\ d2[i1] >= d2[i2]
              THEN Climb(d2, i1)
              ELSE [cnt |-> cnt, dcnts |-> d2]
  IN  Climb([dcnts EXCEPT ![idx] = 0], idx)

(* maxdone(dcnts, idx, max_exp): restart the leaf idx at 0, then          *)
(* increment the counter of the current subtree's first leaf and climb    *)
(* while the sibling subtree has reached the same depth, stopping at      *)
(* max_exp.  Returns the depth reached and the updated counters.          *)
MaxDone(dcnts, idx, max_exp) ==
  LET RECURSIVE Climb(_, _)
      Climb(d, i) ==
        LET d2  == [d EXCEPT ![i] = @ + 1]
            cnt == d2[i]
            i1  == AlignDown(i, cnt)
            i2  == i1 + Pow2(cnt - 1)
        IN  IF cnt < max_exp /\ d2[i1] = d2[i2]
              THEN Climb(d2, i1)
              ELSE [cnt |-> cnt, dcnts |-> d2]
  IN  Climb([dcnts EXCEPT ![idx] = 0], idx)

=============================================================================
