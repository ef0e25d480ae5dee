------------------------------ MODULE Latency ------------------------------
(***************************************************************************)
(* src/apps/latency/latency.c: main links the num_cls cache lines of arr  *)
(* into a pointer-chasing chain in a random order, then times a loop that  *)
(* follows the chain from arr until it comes back to arr, and divides the  *)
(* time by num_cls.                                                         *)
(*                                                                         *)
(* A line is its index 0 .. NUM_CLS - 1 (arr[idx << 3] holds the address  *)
(* of line new_idx, so next[idx] = new_idx).  Every value rand() % cnt can *)
(* take is a separate behaviour.  The warm-up sweeps that bring arr to a  *)
(* cache level, PAPI and the timers are not modelled: they read arr and    *)
(* change nothing the chase depends on.                                     *)
(***************************************************************************)
EXTENDS Naturals, FiniteSets

CONSTANTS
  NUM_CLS,    \* ARR_SIZE / 64 (256 in the code)
  MAX_HOPS    \* a bound on the chase's loads

VARIABLES
  pool,       \* pool[i]: the lines not yet linked (and line 0 in pool[0])
  next,       \* next[l]: the line line l points to, NONE before it is written
  idx,        \* the line last linked
  cnt,        \* the build loop's counter
  ptr,        \* the chase's x8 / rsi
  hops,       \* loads the chase has made
  seen,       \* the lines the chase has loaded
  pc

vars == <<pool, next, idx, cnt, ptr, hops, seen, pc>>

NONE == NUM_CLS                 \* a line never written (arr is uninitialised)
Lines == 0 .. NUM_CLS - 1

(* pool[cnt] = cnt for every line; the build starts at idx 0.              *)
Init ==
  /\ pool = [i \in Lines |-> i]
  /\ next = [l \in Lines |-> NONE]
  /\ idx = 0 /\ cnt = NUM_CLS
  /\ ptr = 0 /\ hops = 0 /\ seen = {}
  /\ pc = "build"

-----------------------------------------------------------------------------
(* The draws of rand() % cnt a pass can keep.                              *)
DrawsNoRetry(c) == 0 .. c - 1

(* rand() % cnt, redrawn while it is 0 and cnt > 1 (line 172), so that    *)
(* line 0 stays in pool[0] until the last pass.                            *)
Draws(c) == IF 1 < c THEN 1 .. c - 1 ELSE {0}

(* One pass of the build loop: link the current line to a line drawn from *)
(* the pool, move to it, and fill the hole with the pool's last entry.     *)
Link ==
  /\ pc = "build"
  /\ \E pool_idx \in Draws(cnt) :
       LET new_idx == pool[pool_idx] IN
       /\ next' = [next EXCEPT ![idx] = new_idx]
       /\ idx' = new_idx
       /\ pool' = [pool EXCEPT ![pool_idx] = pool[cnt - 1]]
  /\ cnt' = cnt - 1
  /\ pc' = IF cnt - 1 = 0 THEN "chase" ELSE "build"
  /\ UNCHANGED <<ptr, hops, seen>>

(* The timed loop: ldr x8, [x8]; cmp x8, x9; b.NE LOOP.  A load of a line *)
(* never written reads garbage, which the model stops at.                  *)
Chase ==
  /\ pc = "chase"
  /\ hops < MAX_HOPS
  /\ ptr' = next[ptr]
  /\ hops' = hops + 1
  /\ seen' = seen \cup {ptr}
  /\ pc' = CASE next[ptr] = NONE -> "garbage"
             [] next[ptr] = 0    -> "done"
             [] OTHER            -> "chase"
  /\ UNCHANGED <<pool, next, idx, cnt>>

Terminated == pc \in {"done", "garbage"} /\ UNCHANGED vars

Next == Link \/ Chase \/ Terminated

Spec == Init /\ [][Next]_vars /\ WF_vars(Link \/ Chase)

-----------------------------------------------------------------------------
TypeOK ==
  /\ next \in [Lines -> Lines \cup {NONE}]
  /\ pool \in [Lines -> Lines]
  /\ cnt \in 0 .. NUM_CLS /\ hops \in 0 .. MAX_HOPS
  /\ pc \in {"build", "chase", "done", "garbage"}

(* The chain is one cycle through every line: the chase comes back to arr *)
(* after exactly num_cls loads, having loaded each line once, so the      *)
(* printed latency, tsc / num_cls, is the time of one load; and it never   *)
(* loads an unwritten line.  Whatever rand() returns.                      *)
ChaseIsOneCycle ==
  /\ pc # "garbage"
  /\ pc = "done" => hops = NUM_CLS /\ seen = Lines

(* The chase ends.                                                          *)
ChaseEnds == <>(pc = "done")

====
