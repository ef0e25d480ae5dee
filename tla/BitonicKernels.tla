--------------------------- MODULE BitonicKernels ---------------------------
(***************************************************************************)
(* The compare-exchange kernels of src/apps/bitonic/utils.hpp and the      *)
(* compound routines the vl.cpp worker builds from them, as pure operators *)
(* on an array a (a function from 0..N-1 to values).                       *)
(*                                                                         *)
(* Every kernel of utils.hpp compares positions that are fixed by its      *)
(* arguments and the pairs one loop visits are pairwise disjoint, so a     *)
(* loop is modelled as one simultaneous compare-exchange over the set of   *)
(* <<low, high>> index pairs it visits.                                    *)
(***************************************************************************)
EXTENDS Integers

(* 2^e, the C expression 1 << e for the small exponents used here.        *)
RECURSIVE Pow2(_)
Pow2(e) == IF e = 0 THEN 1 ELSE 2 * Pow2(e - 1)

(* (x >> e) << e : x rounded down to a multiple of 2^e.                   *)
AlignDown(x, e) == (x \div Pow2(e)) * Pow2(e)

(* One compare-exchange pass: for every pair <<lo, hi>> of P the smaller  *)
(* value ends at lo and the larger at hi (if (arr[lo] > arr[hi]) swap).   *)
CompareExchange(a, P) ==
  [k \in DOMAIN a |->
     IF \E p \in P : p[1] = k
       THEN LET p == CHOOSE q \in P : q[1] = k
            IN  IF a[p[1]] > a[p[2]] THEN a[p[2]] ELSE a[p[1]]
     ELSE IF \E p \in P : p[2] = k
       THEN LET p == CHOOSE q \in P : q[2] = k
            IN  IF a[p[1]] > a[p[2]] THEN a[p[1]] ELSE a[p[2]]
     ELSE a[k]]

(* Index pairs of swap_seg(&arr[b], len, s, e): i with i + len/2.         *)
SwapSegPairs(b, len, s, e) ==
  { <<b + i, b + i + len \div 2>> : i \in s .. e - 1 }

(* Index pairs of rswap_seg(&arr[b], len, s, e): i with len - i - 1.      *)
RSwapSegPairs(b, len, s, e) ==
  { <<b + i, b + len - i - 1>> : i \in s .. e - 1 }

(* swap() and rswap() are the segment versions over the first half.       *)
SwapPairs(b, len)  == SwapSegPairs(b, len, 0, len \div 2)
RSwapPairs(b, len) == RSwapSegPairs(b, len, 0, len \div 2)

(* The chunks of one chunked pass over [tb, te):                         *)
(* for (beg = tb; beg < te; beg += len).                                   *)
ChunkStarts(tb, te, len) == { tb + k * len : k \in 0 .. (te - tb - 1) \div len }

(* swap and rswap of every chunk of length len in [tb, te).               *)
SwapChunks(tb, te, len)  == UNION { SwapPairs(c, len) : c \in ChunkStarts(tb, te, len) }
RSwapChunks(tb, te, len) == UNION { RSwapPairs(c, len) : c \in ChunkStarts(tb, te, len) }

(* Mutation: the ladder stops one halving early (4 < len for 2 < len).    *)
RECURSIVE LadderShort(_, _, _, _)
LadderShort(a, tb, te, len) ==
  IF 4 < len
    THEN LadderShort(CompareExchange(a, SwapChunks(tb, te, len \div 2)),
                     tb, te, len \div 2)
    ELSE a

(* The "recursive swap to the bottom" ladder of vl.cpp:                   *)
(*   while (2 < len) { len >>= 1; swap every chunk of length len; }       *)
RECURSIVE Ladder(_, _, _, _)
Ladder(a, tb, te, len) ==
  IF 2 < len
    THEN Ladder(CompareExchange(a, SwapChunks(tb, te, len \div 2)),
                tb, te, len \div 2)
    ELSE a

(* Mutation: the initial task's loop stops one doubling early.           *)
RECURSIVE InitialLoopShort(_, _, _, _)
InitialLoopShort(a, tb, te, l) ==
  IF te - tb > 2 * l
    THEN InitialLoopShort(Ladder(CompareExchange(a, RSwapChunks(tb, te, 2 * l)),
                                 tb, te, 2 * l),
                          tb, te, 2 * l)
    ELSE a

(* The while loop of the initial task: with runs of length l sorted,      *)
(* rswap every chunk of length 2l, then the ladder down to length 2.      *)
RECURSIVE InitialLoop(_, _, _, _)
InitialLoop(a, tb, te, l) ==
  IF te - tb > l
    THEN InitialLoop(Ladder(CompareExchange(a, RSwapChunks(tb, te, 2 * l)),
                            tb, te, 2 * l),
                     tb, te, 2 * l)
    ELSE a

(* The initial task (exp 0) of slave() in vl.cpp on [tb, te): one         *)
(* compare-exchange of every adjacent pair, then the InitialLoop from     *)
(* runs of length 1.  te is tb + mini_task_len, cut at the array length.  *)
InitialTask(a, tb, te) ==
  InitialLoop(CompareExchange(a, { <<b, b + 1>> : b \in { tb + 2 * k : k \in 0 .. (te - tb - 1) \div 2 } }),
              tb, te, 1)

(* The bottom task (exp = MINI_TASK_EXP) on [tb, tb + len): rswap or swap *)
(* of the whole mini task, then the ladder.                               *)
BottomTask(a, tb, len, torswap) ==
  Ladder(CompareExchange(a, IF torswap THEN RSwapPairs(tb, len) ELSE SwapPairs(tb, len)),
         tb, tb + len, len)

(* Mutation: the torswap flag is ignored and every slice is a swap.      *)
SegPairsNoRSwap(tb, exp, mini, torswap) ==
  LET base == AlignDown(tb, exp)
  IN  SwapSegPairs(base, Pow2(exp), tb - base, tb + mini - base)

(* A segment task (exp > MINI_TASK_EXP): the mini task at tb is one slice *)
(* of the block of length 2^exp that contains it.                         *)
SegPairs(tb, exp, mini, torswap) ==
  LET base == AlignDown(tb, exp)
  IN  IF torswap
        THEN RSwapSegPairs(base, Pow2(exp), tb - base, tb + mini - base)
        ELSE SwapSegPairs(base, Pow2(exp), tb - base, tb + mini - base)

SegTask(a, tb, exp, mini, torswap) == CompareExchange(a, SegPairs(tb, exp, mini, torswap))

(* reverse(&arr[b], len) of utils.hpp: an unconditional exchange.         *)
Reverse(a, b, len) ==
  [k \in DOMAIN a |-> IF k \in b .. b + len - 1 THEN a[2 * b + len - 1 - k] ELSE a[k]]

(* Reference definitions the kernels are checked against.                 *)
IsSortedRange(a, lo, hi) == \A i \in lo .. hi - 2 : a[i] <= a[i + 1]
IsSortedArray(a, n) == IsSortedRange(a, 0, n)

=============================================================================
