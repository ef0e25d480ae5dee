-------------------------------- MODULE Ember --------------------------------
(***************************************************************************)
(* The communication patterns of src/apps/ember/ember.cpp, VL build.        *)
(*                                                                         *)
(* main starts pex * pey workers on a grid, each worker opens the queues   *)
(* get_queue_id names for its neighbours, counts itself ready and spins    *)
(* until main has counted itself too (ready starts at -1); it then runs    *)
(* one pattern for repeats iterations:                                     *)
(*   sweep  - four wavefronts, one from each corner: receive from the two  *)
(*            upstream neighbours, then send to the two downstream ones;   *)
(*   halo   - send to all four neighbours, then receive from all four;     *)
(*   incast - every thread but 0 sends one message to thread 0's queue.    *)
(* A message of msgSz bytes travels as nblks cache lines; sweep and halo   *)
(* loop over the lines around the whole pattern, incast inside each        *)
(* message.  main joins the workers.                                       *)
(*                                                                         *)
(* The pattern is a build choice (EMBER_SWEEP2D, EMBER_HALO2D,             *)
(* EMBER_INCAST), the constant PATTERN.  A queue is a                    *)
(* FIFO of lines holding at most CAP lines; line_vl_push_strong waits for  *)
(* room and line_vl_pop_weak for a line.  A line carries blkId and the    *)
(* byte count pushed; it also records, for the properties only, its       *)
(* sender, the sender's iteration and the sweep it belongs to.  compute()  *)
(* only sleeps and is left out.                                             *)
(***************************************************************************)
EXTENDS Integers, Sequences, FiniteSets

CONSTANTS
  pex, pey,      \* -pex, -pey: the grid
  repeats,       \* -iterations
  msgSz,         \* -msgSz, in bytes
  CAP,           \* lines a queue holds before a push waits
  PATTERN        \* the build: "sweep", "halo" or "incast"

VARIABLES
  ready,     \* the std::atomic ready barrier
  pc,        \* pc[t]: where worker t is
  i,         \* i[t]: worker t's iteration
  k,         \* k[t]: worker t's position in one iteration's operations
  q,         \* q[id]: the lines in VL queue id
  mpc        \* where main is

vars == <<ready, pc, i, k, q, mpc>>

nthreads == pex * pey
Threads == 0 .. nthreads - 1
nblks == (msgSz + 55) \div 56

get_position(rank) == [x |-> rank % pex, y |-> rank \div pex]

get_neighbor(rank) ==
  LET p == get_position(rank) IN
  [xUp |-> IF p.x # pex - 1 THEN rank + 1 ELSE -1,
   xDn |-> IF p.x # 0 THEN rank - 1 ELSE -1,
   yUp |-> IF p.y # pey - 1 THEN rank + pex ELSE -1,
   yDn |-> IF p.y # 0 THEN rank - pex ELSE -1]

(* Mutant: the number of vertical queues where that of horizontal ones    *)
(* belongs.                                                                 *)
get_queue_id_tmp_swapped(x, y) ==
  LET xDnRx == x + y * (pex - 1)
      tmp   == pex * (pey - 1)
      yDnRx == y + x * (pey - 1) + 2 * pey * (pex - 1)
      tmp2  == pex * (pey - 1)
  IN [Rx |-> [xDn |-> xDnRx, xUp |-> xDnRx + 1 + tmp,
              yDn |-> yDnRx, yUp |-> yDnRx + 1 + tmp2],
      Tx |-> [xUp |-> xDnRx + 1, xDn |-> xDnRx + tmp,
              yUp |-> yDnRx + 1, yDn |-> yDnRx + tmp2]]

(* The queue a worker at (x, y) receives from (Rx) or sends to (Tx) in    *)
(* each direction.                                                          *)
get_queue_id(x, y) ==
  LET xDnRx == x + y * (pex - 1)
      tmp   == pey * (pex - 1)
      yDnRx == y + x * (pey - 1) + 2 * tmp
      tmp2  == pex * (pey - 1)
  IN [Rx |-> [xDn |-> xDnRx, xUp |-> xDnRx + 1 + tmp,
              yDn |-> yDnRx, yUp |-> yDnRx + 1 + tmp2],
      Tx |-> [xUp |-> xDnRx + 1, xDn |-> xDnRx + tmp,
              yUp |-> yDnRx + 1, yDn |-> yDnRx + tmp2]]

QueueIdsOf(rank) == LET p == get_position(rank) IN get_queue_id(p.x, p.y)

Dirs == {"xUp", "xDn", "yUp", "yDn"}

(* main's mkvl loop makes one queue per directed link, ids 1, 2, ...; the *)
(* incast build makes one, id 1.                                           *)
NumQueues == pex * pey * 4 - (pex + pey) * 2
QueueIds == 1 .. NumQueues

(* cnt: the doubles of line idx, plus the 2-byte blkId.                    *)
LineBytes(idx) == (IF nblks - 1 > idx THEN 7 ELSE nblks % 7) * 8 + 2

(* One operation: push to or pop from the queue of a direction, for line  *)
(* blk of the message, in sweep s.                                          *)
Op(kind, dir, blk, s) == [kind |-> kind, dir |-> dir, blk |-> blk, sweep |-> s]

(* One line of sweep(): the four wavefronts, receive before send.          *)
SweepOps(blk) ==
  << Op("recv", "xDn", blk, 1), Op("recv", "yDn", blk, 1),
     Op("send", "xUp", blk, 1), Op("send", "yUp", blk, 1),
     Op("recv", "xUp", blk, 2), Op("recv", "yDn", blk, 2),
     Op("send", "xDn", blk, 2), Op("send", "yUp", blk, 2),
     Op("recv", "xUp", blk, 3), Op("recv", "yUp", blk, 3),
     Op("send", "xDn", blk, 3), Op("send", "yDn", blk, 3),
     Op("recv", "xDn", blk, 4), Op("recv", "yUp", blk, 4),
     Op("send", "xUp", blk, 4), Op("send", "yDn", blk, 4) >>

(* One line of halo(): send to four neighbours, receive from four.         *)
HaloOps(blk) ==
  << Op("send", "xUp", blk, 1), Op("send", "xDn", blk, 1),
     Op("send", "yUp", blk, 1), Op("send", "yDn", blk, 1),
     Op("recv", "xUp", blk, 1), Op("recv", "xDn", blk, 1),
     Op("recv", "yUp", blk, 1), Op("recv", "yDn", blk, 1) >>

(* One iteration of incast(): thread 0 pops nblks lines from each of the  *)
(* nthreads - 1 others, the others push the nblks lines of one message.   *)
IncastOps(rank) ==
  IF rank = 0
  THEN [n \in 1 .. (nthreads - 1) * nblks |-> Op("recv", "incast", (n - 1) % nblks, 1)]
  ELSE [n \in 1 .. nblks |-> Op("send", "incast", n - 1, 1)]

(* The operations of one iteration of worker rank, in program order:     *)
(* IterLen(rank) of them, the n-th being IterOp(rank, n).                  *)
IterLen(rank) ==
  CASE PATTERN = "sweep"  -> Len(SweepOps(0)) * nblks
    [] PATTERN = "halo"   -> Len(HaloOps(0)) * nblks
    [] PATTERN = "incast" -> Len(IncastOps(rank))

IterOp(rank, n) ==
  CASE PATTERN = "sweep"  -> SweepOps((n - 1) \div 16)[((n - 1) % 16) + 1]
    [] PATTERN = "halo"   -> HaloOps((n - 1) \div 8)[((n - 1) % 8) + 1]
    [] PATTERN = "incast" -> IncastOps(rank)[n]

(* The queue an operation uses; -1 when the neighbour does not exist, and *)
(* the code skips the operation.                                           *)
QueueOf(rank, op) ==
  IF op.dir = "incast" THEN 1
  ELSE IF get_neighbor(rank)[op.dir] = -1 THEN -1
  ELSE IF op.kind = "send" THEN QueueIdsOf(rank).Tx[op.dir]
  ELSE QueueIdsOf(rank).Rx[op.dir]

CurOp(t) == IterOp(t, k[t])

Init ==
  /\ ready = -1
  /\ pc = [t \in Threads |-> "open"]
  /\ i = [t \in Threads |-> 0]
  /\ k = [t \in Threads |-> 1]
  /\ q = [id \in IF PATTERN = "incast" THEN {1} ELSE QueueIds |-> <<>>]
  /\ mpc = "release"

-----------------------------------------------------------------------------
(* worker() up to the barrier: position, neighbours and queue ids, the     *)
(* opens of a producer and a consumer endpoint per neighbour (one endpoint *)
(* of queue 1 for incast), then ready++.                                    *)
Open(t) ==
  /\ pc[t] = "open"
  /\ ready' = ready + 1
  /\ pc' = [pc EXCEPT ![t] = "spin"]
  /\ UNCHANGED <<i, k, q, mpc>>

(* while (nthreads != ready) spin.                                         *)
Begin(t) ==
  /\ pc[t] = "spin"
  /\ ready = nthreads
  /\ pc' = [pc EXCEPT ![t] = "run"]
  /\ UNCHANGED <<ready, i, k, q, mpc>>

(* Past the operation at k[t]: the next one, or the next iteration, or    *)
(* the return from the pattern once repeats iterations are done.           *)
Advance(t) ==
  IF k[t] < IterLen(t)
  THEN /\ k' = [k EXCEPT ![t] = k[t] + 1]
       /\ UNCHANGED <<i, pc>>
  ELSE /\ k' = [k EXCEPT ![t] = 1]
       /\ i' = [i EXCEPT ![t] = i[t] + 1]
       /\ pc' = [pc EXCEPT ![t] = IF i[t] + 1 = repeats THEN "exit" ELSE "run"]

(* if (-1 < nb): the direction has no neighbour, nothing is sent or       *)
(* received.                                                                *)
Skip(t) ==
  /\ pc[t] = "run"
  /\ QueueOf(t, CurOp(t)) = -1
  /\ Advance(t)
  /\ UNCHANGED <<ready, q, mpc>>

(* *blkId = idx; cnt = ...; line_vl_push_strong(send, buf, cnt + 2).      *)
Push(t) ==
  /\ pc[t] = "run"
  /\ LET op == CurOp(t)
         id == QueueOf(t, op)
     IN /\ op.kind = "send"
        /\ id # -1
        /\ Len(q[id]) < CAP
        /\ q' = [q EXCEPT ![id] = Append(@, [blkId |-> op.blk, cnt |-> LineBytes(op.blk),
                                              src |-> t, rep |-> i[t], sweep |-> op.sweep])]
  /\ Advance(t)
  /\ UNCHANGED <<ready, mpc>>

(* line_vl_pop_weak(recv, buf, &cnt).                                       *)
Pop(t) ==
  /\ pc[t] = "run"
  /\ LET op == CurOp(t)
         id == QueueOf(t, op)
     IN /\ op.kind = "recv"
        /\ id # -1
        /\ q[id] # <<>>
        /\ q' = [q EXCEPT ![id] = Tail(@)]
  /\ Advance(t)
  /\ UNCHANGED <<ready, mpc>>

(* main, after pthread_create and compute(): ready++.                      *)
Release ==
  /\ mpc = "release"
  /\ ready' = ready + 1
  /\ mpc' = "join"
  /\ UNCHANGED <<pc, i, k, q>>

(* pthread_join of every worker.                                            *)
Join ==
  /\ mpc = "join"
  /\ \A t \in Threads : pc[t] = "exit"
  /\ mpc' = "exit"
  /\ UNCHANGED <<ready, pc, i, k, q>>

(* main has returned.                                                        *)
Terminated == mpc = "exit" /\ UNCHANGED vars

Worker(t) == Open(t) \/ Begin(t) \/ Skip(t) \/ Push(t) \/ Pop(t)
MainStep == Release \/ Join

Next == MainStep \/ (\E t \in Threads : Worker(t)) \/ Terminated

(* Some thread moves while one can.  Every step but Terminated advances a  *)
(* thread's pc, (i, k) or main, so no behaviour returns to a state and    *)
(* this is as strong, here, as weak fairness for each pthread.             *)
Spec == Init /\ [][Next]_vars /\ WF_vars(MainStep \/ \E t \in Threads : Worker(t))

-----------------------------------------------------------------------------
TypeOK ==
  /\ ready \in -1 .. nthreads
  /\ pc \in [Threads -> {"open", "spin", "run", "exit"}]
  /\ i \in [Threads -> 0 .. repeats]
  /\ \A t \in Threads : k[t] \in 1 .. IterLen(t)
  /\ \A id \in DOMAIN q : Len(q[id]) <= CAP
  /\ mpc \in {"release", "join", "exit"}

Opposite == [xUp |-> "xDn", xDn |-> "xUp", yUp |-> "yDn", yDn |-> "yUp"]

(* get_queue_id: the queue a worker sends to towards a neighbour is the    *)
(* one that neighbour receives from in the opposite direction, no two     *)
(* senders share a queue, and every id is one main's mkvl loop made.       *)
QueueIdsConsistent ==
  LET Links == {<<r, d>> \in Threads \X Dirs : get_neighbor(r)[d] # -1}
      TxOf(l) == QueueIdsOf(l[1]).Tx[l[2]]
  IN /\ \A l \in Links :
          /\ TxOf(l) \in DOMAIN q
          /\ TxOf(l) = QueueIdsOf(get_neighbor(l[1])[l[2]]).Rx[Opposite[l[2]]]
     /\ Cardinality({TxOf(l) : l \in Links}) = Cardinality(Links)

(* No pattern deadlocks on full or empty queues: main joins every worker. *)
Termination == <>(mpc = "exit")

====
