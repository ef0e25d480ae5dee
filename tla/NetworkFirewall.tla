--------------------------- MODULE NetworkFirewall ---------------------------
(***************************************************************************)
(* The firewall of src/apps/network/firewall.cpp.                          *)
(*                                                                         *)
(* main fills the pool queue qp0, releases the ready barrier and becomes   *)
(* the generator: it gathers up to BULK_SIZE pointers from qp0, writes a   *)
(* header into each (packet number i + j carries a bad IP checksum when    *)
(* (i + j) % 8 = 0) and pushes the bulk to q01, until num_packets are     *)
(* sent; it then sets lock.done, joins the threads and prints num_correct  *)
(* and num_mistake.  NUM_STAGE1 stage1 threads classify each bulk: correct *)
(* packets go to q1c at once, bad ones gather in pktsm and go to q1m when *)
(* BULK_SIZE have gathered or MISTAKE_GATHER_RETRY bulks have passed.      *)
(* stage2correct and stage2mistake count what they pop and return the     *)
(* pointers to qp0.  A thread other than main leaves when an empty pop is *)
(* followed by reading done.                                               *)
(*                                                                         *)
(* Pointers are interchangeable here (main's pool fill gives every packet *)
(* its own header), so qp0, q1c and q1m hold the sizes of the bulks pushed *)
(* and q01 holds, per bulk, whether each packet's checksum is bad.  A     *)
(* queue is a FIFO of whole pushes; a gathering pop takes bulks from the  *)
(* head while they fit in the room left.  stage0() is never started by    *)
(* main and is left out.                                                   *)
(***************************************************************************)
EXTENDS Naturals, Sequences, FiniteSets, SequencesExt

CONSTANTS
  NUM_STAGE1,              \* utils.hpp: stage1 threads
  POOL_SIZE, BULK_SIZE,    \* utils.hpp: packets in the pool, pointers per bulk
  MISTAKE_GATHER_RETRY,    \* utils.hpp: bulks a stage1 holds its mistakes over
  num_packets              \* packets main generates before setting done

VARIABLES
  qp0, q01, q1c, q1m,   \* the queues
  ready, done,          \* the ready barrier counter and lock.done
  gen,                  \* main's packet count i
  mpc,                  \* where main is
  pc,                   \* pc[t]: where thread t is
  pktsc,                \* pktsc[k]: correct packets stage1 k holds (pktscidx)
  pktsm,                \* pktsm[k]: bad packets stage1 k holds (pktsmidx)
  mistake_cnt,          \* mistake_cnt[k] of stage1 k
  cnt_sum,              \* cnt_sum[s] of stage2correct and stage2mistake
  num_correct, num_mistake

vars == <<qp0, q01, q1c, q1m, ready, done, gen, mpc, pc, pktsc, pktsm,
          mistake_cnt, cnt_sum, num_correct, num_mistake>>

Stage1s == 1 .. NUM_STAGE1
Sinks == {"correct", "mistake"}
Workers == ({"stage1"} \X Stage1s) \cup ({"stage2"} \X Sinks)
Threads == 3 + NUM_STAGE1   \* the ready count that releases everyone


(* The bad IP checksum main writes into packet number s: i ^ (j + 1)      *)
(* where stage1 expects srcIP ^ dstIP = i ^ j (all below 2^16 here).       *)
IsMistake(s) == s % 8 = 0

(* The longest prefix of bulk sizes qs whose total fits in room: the      *)
(* retried line_vl_pop_non calls of a gathering pop.                       *)
RECURSIVE Gather(_, _)
Gather(qs, room) ==
  IF qs # <<>> /\ Head(qs) <= room
  THEN <<Head(qs)>> \o Gather(Tail(qs), room - Head(qs))
  ELSE <<>>

SumSeq(s) == FoldLeft(LAMBDA x, y : x + y, 0, s)

(* main's pool fill: BULK_SIZE pointers pushed to qp0 per bulk.  i moves  *)
(* only after the push, so POOL_SIZE > i never stops j and the last bulk   *)
(* is full too.                                                             *)
Pool == [b \in 1 .. (POOL_SIZE + BULK_SIZE - 1) \div BULK_SIZE |-> BULK_SIZE]

Init ==
  /\ qp0 = Pool
  /\ q01 = <<>> /\ q1c = <<>> /\ q1m = <<>>
  /\ ready = 0 /\ done = FALSE
  /\ gen = 0 /\ mpc = "spin"
  /\ pc = [t \in Workers |-> "arrive"]
  /\ pktsc = [k \in Stage1s |-> 0]
  /\ pktsm = [k \in Stage1s |-> 0]
  /\ mistake_cnt = [k \in Stage1s |-> 0]
  /\ cnt_sum = [s \in Sinks |-> 0]
  /\ num_correct = 0 /\ num_mistake = 0

-----------------------------------------------------------------------------
(* ready++, then spin until all 3 + NUM_STAGE1 threads have.               *)
Arrive(t) ==
  /\ pc[t] = "arrive"
  /\ ready' = ready + 1
  /\ pc' = [pc EXCEPT ![t] = "spin"]
  /\ UNCHANGED <<qp0, q01, q1c, q1m, done, gen, mpc, pktsc, pktsm, mistake_cnt,
                 cnt_sum, num_correct, num_mistake>>

Start(t) ==
  /\ pc[t] = "spin"
  /\ ready = Threads
  /\ pc' = [pc EXCEPT ![t] = "loop"]
  /\ UNCHANGED <<qp0, q01, q1c, q1m, ready, done, gen, mpc, pktsc, pktsm,
                 mistake_cnt, cnt_sum, num_correct, num_mistake>>

MainRelease ==
  /\ mpc = "spin"
  /\ ready = Threads - 1
  /\ ready' = ready + 1
  /\ mpc' = "loop"
  /\ UNCHANGED <<qp0, q01, q1c, q1m, done, gen, pc, pktsc, pktsm, mistake_cnt,
                 cnt_sum, num_correct, num_mistake>>

(* Mutation: main gathers into one slot more than pkts has.               *)
GenerateRoomPlusOne ==
  /\ mpc = "loop"
  /\ gen < num_packets
  /\ LET got == Gather(qp0, BULK_SIZE + 1)
         cnt == SumSeq(got)
     IN  /\ cnt > 0
         /\ qp0' = SubSeq(qp0, Len(got) + 1, Len(qp0))
         /\ q01' = Append(q01, [j \in 1 .. cnt |-> IsMistake(gen + j - 1)])
         /\ gen' = gen + cnt
  /\ UNCHANGED <<q1c, q1m, ready, done, mpc, pc, pktsc, pktsm, mistake_cnt,
                 cnt_sum, num_correct, num_mistake>>

(* main: gather up to BULK_SIZE pointers from the pool (one pop and up to  *)
(* BULK_SIZE retries), number the packets gen + j, push the bulk to q01.   *)
Generate ==
  /\ mpc = "loop"
  /\ gen < num_packets
  /\ LET got == Gather(qp0, BULK_SIZE)
         cnt == SumSeq(got)
     IN  /\ cnt > 0
         /\ qp0' = SubSeq(qp0, Len(got) + 1, Len(qp0))
         /\ q01' = Append(q01, [j \in 1 .. cnt |-> IsMistake(gen + j - 1)])
         /\ gen' = gen + cnt
  /\ UNCHANGED <<q1c, q1m, ready, done, mpc, pc, pktsc, pktsm, mistake_cnt,
                 cnt_sum, num_correct, num_mistake>>

(* Mutation: main leaves its loop without storing lock.done.               *)
MainDoneNoStore ==
  /\ mpc = "loop"
  /\ gen >= num_packets
  /\ mpc' = "join"
  /\ UNCHANGED <<qp0, q01, q1c, q1m, ready, done, gen, pc, pktsc, pktsm, mistake_cnt,
                 cnt_sum, num_correct, num_mistake>>

MainDone ==
  /\ mpc = "loop"
  /\ gen >= num_packets
  /\ done' = TRUE
  /\ mpc' = "join"
  /\ UNCHANGED <<qp0, q01, q1c, q1m, ready, gen, pc, pktsc, pktsm, mistake_cnt,
                 cnt_sum, num_correct, num_mistake>>

MainJoin ==
  /\ mpc = "join"
  /\ \A t \in Workers : pc[t] = "exit"
  /\ mpc' = "exit"
  /\ UNCHANGED <<qp0, q01, q1c, q1m, ready, done, gen, pc, pktsc, pktsm,
                 mistake_cnt, cnt_sum, num_correct, num_mistake>>

(* stage1 k: pop one bulk from q01 and sort its packets into pktsc and     *)
(* pktsm by their IP checksum.                                             *)
Classify(k) ==
  LET t == <<"stage1", k>> IN
  /\ pc[t] = "loop"
  /\ q01 # <<>>
  /\ LET m == Head(q01)
         bad == Cardinality({j \in DOMAIN m : m[j]})
     IN  /\ pktsm' = [pktsm EXCEPT ![k] = @ + bad]
         /\ pktsc' = [pktsc EXCEPT ![k] = Len(m) - bad]
  /\ q01' = Tail(q01)
  /\ pc' = [pc EXCEPT ![t] = "push"]
  /\ UNCHANGED <<qp0, q1c, q1m, ready, done, gen, mpc, mistake_cnt, cnt_sum,
                 num_correct, num_mistake>>

(* Mutation: the bad packets are pushed only when pktsm is full, though   *)
(* the retry limit empties it too.                                         *)
ForwardFullOnly(k) ==
  LET t == <<"stage1", k>>
      flush == BULK_SIZE = pktsm[k] \/ MISTAKE_GATHER_RETRY <= mistake_cnt[k]
  IN
  /\ pc[t] = "push"
  /\ q1c' = IF pktsc[k] > 0 THEN Append(q1c, pktsc[k]) ELSE q1c
  /\ pktsc' = [pktsc EXCEPT ![k] = 0]
  /\ q1m' = IF BULK_SIZE = pktsm[k] THEN Append(q1m, pktsm[k]) ELSE q1m
  /\ pktsm' = [pktsm EXCEPT ![k] = IF flush THEN 0 ELSE @]
  /\ mistake_cnt' = [mistake_cnt EXCEPT ![k] = IF flush THEN 0 ELSE @ + 1]
  /\ pc' = [pc EXCEPT ![t] = "loop"]
  /\ UNCHANGED <<qp0, q01, ready, done, gen, mpc, cnt_sum, num_correct, num_mistake>>

(* Mutation: pktsmidx is not reset after the bad packets are pushed.       *)
ForwardNoReset(k) ==
  LET t == <<"stage1", k>>
      flush == BULK_SIZE = pktsm[k] \/ MISTAKE_GATHER_RETRY <= mistake_cnt[k]
  IN
  /\ pc[t] = "push"
  /\ q1c' = IF pktsc[k] > 0 THEN Append(q1c, pktsc[k]) ELSE q1c
  /\ pktsc' = [pktsc EXCEPT ![k] = 0]
  /\ q1m' = IF flush /\ pktsm[k] > 0 THEN Append(q1m, pktsm[k]) ELSE q1m
  /\ pktsm' = pktsm
  /\ mistake_cnt' = [mistake_cnt EXCEPT ![k] = IF flush THEN 0 ELSE @ + 1]
  /\ pc' = [pc EXCEPT ![t] = "loop"]
  /\ UNCHANGED <<qp0, q01, ready, done, gen, mpc, cnt_sum, num_correct, num_mistake>>

(* stage1 k: push the correct packets, then the gathered bad ones when     *)
(* BULK_SIZE have gathered or MISTAKE_GATHER_RETRY bulks have passed.  A   *)
(* push of no packets is a flush and leaves the queue as it is.            *)
Forward(k) ==
  LET t == <<"stage1", k>>
      flush == BULK_SIZE = pktsm[k] \/ MISTAKE_GATHER_RETRY <= mistake_cnt[k]
  IN
  /\ pc[t] = "push"
  /\ q1c' = IF pktsc[k] > 0 THEN Append(q1c, pktsc[k]) ELSE q1c
  /\ pktsc' = [pktsc EXCEPT ![k] = 0]
  /\ q1m' = IF flush /\ pktsm[k] > 0 THEN Append(q1m, pktsm[k]) ELSE q1m
  /\ pktsm' = [pktsm EXCEPT ![k] = IF flush THEN 0 ELSE @]
  /\ mistake_cnt' = [mistake_cnt EXCEPT ![k] = IF flush THEN 0 ELSE @ + 1]
  /\ pc' = [pc EXCEPT ![t] = "loop"]
  /\ UNCHANGED <<qp0, q01, ready, done, gen, mpc, cnt_sum, num_correct, num_mistake>>

(* stage2correct pops one bulk; stage2mistake gathers with up to           *)
(* MISTAKE_GATHER_RETRY retries.  Either counts it and returns the         *)
(* pointers to the pool.                                                   *)
Drain(s) ==
  LET t == <<"stage2", s>>
      in == IF s = "correct" THEN q1c ELSE q1m
      got == IF s = "correct" THEN Gather(in, Head(in \o <<0>>)) ELSE Gather(in, BULK_SIZE)
      cnt == SumSeq(got)
      rest == SubSeq(in, Len(got) + 1, Len(in))
  IN
  /\ pc[t] = "loop"
  /\ cnt > 0
  /\ q1c' = IF s = "correct" THEN rest ELSE q1c
  /\ q1m' = IF s = "mistake" THEN rest ELSE q1m
  /\ cnt_sum' = [cnt_sum EXCEPT ![s] = @ + cnt]
  /\ num_correct' = IF s = "correct" THEN num_correct + cnt ELSE num_correct
  /\ qp0' = Append(qp0, cnt)
  /\ UNCHANGED <<q01, ready, done, gen, mpc, pc, pktsc, pktsm, mistake_cnt, num_mistake>>

(* Any thread but main: its pop found nothing.                             *)
InQueueEmpty(t) ==
  CASE t[1] = "stage1"  -> q01 = <<>>
    [] t[2] = "correct" -> q1c = <<>>
    [] OTHER            -> q1m = <<>>

PopEmpty(t) ==
  /\ pc[t] = "loop"
  /\ InQueueEmpty(t)
  /\ pc' = [pc EXCEPT ![t] = "check"]
  /\ UNCHANGED <<qp0, q01, q1c, q1m, ready, done, gen, mpc, pktsc, pktsm,
                 mistake_cnt, cnt_sum, num_correct, num_mistake>>

(* done = lock.done; a leaving stage2 thread stores its cnt_sum.           *)
ReadDone(t) ==
  /\ pc[t] = "check"
  /\ pc' = [pc EXCEPT ![t] = IF done THEN "exit" ELSE "loop"]
  /\ num_correct' = IF done /\ t = <<"stage2", "correct">> THEN cnt_sum["correct"] ELSE num_correct
  /\ num_mistake' = IF done /\ t = <<"stage2", "mistake">> THEN cnt_sum["mistake"] ELSE num_mistake
  /\ UNCHANGED <<qp0, q01, q1c, q1m, ready, done, gen, mpc, pktsc, pktsm,
                 mistake_cnt, cnt_sum>>

Terminated == mpc = "exit" /\ UNCHANGED vars

Worker(t) ==
  \/ Arrive(t) \/ Start(t) \/ PopEmpty(t) \/ ReadDone(t)
  \/ t[1] = "stage1" /\ (Classify(t[2]) \/ Forward(t[2]))
  \/ t[1] = "stage2" /\ Drain(t[2])

MainStep == MainRelease \/ Generate \/ MainDone \/ MainJoin

Next == MainStep \/ (\E t \in Workers : Worker(t)) \/ Terminated

(* Every thread is pinned to its own core and spins, so each keeps taking *)
(* steps while it has one.                                                 *)
Spec == Init /\ [][Next]_vars /\ WF_vars(MainStep) /\ \A t \in Workers : WF_vars(Worker(t))

-----------------------------------------------------------------------------
TypeOK ==
  /\ qp0 \in Seq(1 .. BULK_SIZE) /\ q1c \in Seq(1 .. BULK_SIZE) /\ q1m \in Seq(1 .. BULK_SIZE)
  /\ q01 \in Seq(Seq(BOOLEAN))
  /\ ready \in 0 .. Threads /\ done \in BOOLEAN
  /\ gen \in 0 .. num_packets + BULK_SIZE - 1
  /\ mpc \in {"spin", "loop", "join", "exit"}
  /\ pc \in [Workers -> {"arrive", "spin", "loop", "push", "check", "exit"}]
  /\ pktsc \in [Stage1s -> 0 .. BULK_SIZE]
  /\ pktsm \in [Stage1s -> Nat]
  /\ mistake_cnt \in [Stage1s -> Nat]
  /\ cnt_sum \in [Sinks -> Nat]
  /\ num_correct \in Nat /\ num_mistake \in Nat

(* Every pointer of the pool is in exactly one place: a queue, or the      *)
(* pktsc or pktsm of a stage1 thread.  None is lost when a stage1 holds    *)
(* back its bad packets, and none is returned twice.                       *)
PacketsConserved ==
  SumSeq(qp0) + Len(FlattenSeq(q01)) + SumSeq(q1c) + SumSeq(q1m)
    + FoldFunction(LAMBDA x, y : x + y, 0, [k \in Stage1s |-> pktsc[k] + pktsm[k]])
  = POOL_SIZE

(* stage1 writes the k-th bad packet of its gathering to pktsm[k - 1], an  *)
(* array of BULK_SIZE, and empties it only when exactly BULK_SIZE have     *)
(* gathered: the gathering never outgrows the array.                       *)
PktsmInBounds == \A k \in Stage1s : pktsm[k] <= BULK_SIZE

(* Every thread leaves its loop and main joins them all.                   *)
Termination == <>(mpc = "exit")

(* What main prints after the join accounts for every packet it sent:      *)
(* num_correct + num_mistake = the packets generated.                      *)
AllPacketsReported == mpc = "exit" => num_correct + num_mistake = gen

=============================================================================
