--------------------------- MODULE NetworkPipeline ---------------------------
(***************************************************************************)
(* The four-stage packet pipeline of src/apps/network/pipeline.cpp.        *)
(*                                                                         *)
(* main fills the pool queue q30 with packet pointers, then releases the   *)
(* ready barrier.  stage0 pops a bulk of pointers from q30, writes every   *)
(* header and pushes the bulk to q01; NUM_STAGE1 stage1 threads move bulks *)
(* from q01 to q12 and NUM_STAGE2 stage2 threads from q12 to q23; main     *)
(* pops q23 and hands the bulk back to q30.  stage0 and main each count    *)
(* packets up to num_packets; main then sets lock.done, and a stage1 or    *)
(* stage2 thread leaves when an empty pop is followed by reading done.     *)
(*                                                                         *)
(* A pointer is the index of the header it points to.  A queue is a FIFO  *)
(* of whole bulks (the VL channel moves one pushed line per pop); since    *)
(* the pipeline never splits or joins a bulk, a pop takes the head bulk.   *)
(* The only header field kept is srcIP, the number stage0 gives a packet. *)
(* The help-flushing push_non of an empty pop changes nothing visible.     *)
(***************************************************************************)
EXTENDS Naturals, Sequences, SequencesExt

CONSTANTS
  NUM_STAGE1, NUM_STAGE2,   \* utils.hpp: stage1 and stage2 threads
  POOL_SIZE, BULK_SIZE,     \* utils.hpp: packets in the pool, pointers per bulk
  num_packets               \* packets stage0 and main count before stopping

VARIABLES
  q,       \* q[name]: the bulks in queue q01, q12, q23 or q30
  hdr,     \* hdr[h]: the srcIP last written into header h
  ready,   \* the ready barrier counter
  done,    \* lock.done
  pc,      \* pc[t]: where thread t is ("stage0", stage1 and stage2 threads)
  held,    \* held[t]: the bulk a stage1 or stage2 thread popped and has not pushed
  i0,      \* stage0's packet count i
  mpc,     \* where main is
  i3       \* main's packet count i

vars == <<q, hdr, ready, done, pc, held, i0, mpc, i3>>

Mids == ({"stage1"} \X (1 .. NUM_STAGE1)) \cup ({"stage2"} \X (1 .. NUM_STAGE2))
Stage0 == <<"stage0", 1>>
Workers == {Stage0} \cup Mids
In(t) == IF t[1] = "stage1" THEN "q01" ELSE "q12"
Out(t) == IF t[1] = "stage1" THEN "q12" ELSE "q23"

Headers == 0 .. POOL_SIZE - 1
Unwritten == -1   \* malloc'ed header memory nothing has written yet

(* The j-th pointer of the pool bulk that starts at packet i.              *)
PoolEntry(i, j) == i

(* main's pool fill: the while loop's POOL_SIZE > i never stops j, since   *)
(* i moves only after the push (i += j), so every bulk, the last included, *)
(* holds BULK_SIZE pointers (12 for a pool of 10 in bulks of 4).         *)
PoolBulk(i) == [j \in 1 .. BULK_SIZE |-> PoolEntry(i, j - 1)]
Pool == [b \in 1 .. (POOL_SIZE + BULK_SIZE - 1) \div BULK_SIZE |-> PoolBulk((b - 1) * BULK_SIZE)]

(* The pool is filled before main waits on the barrier; the threads have  *)
(* been spawned and have not yet counted themselves ready.                 *)
Init ==
  /\ q = [n \in {"q01", "q12", "q23"} |-> <<>>] @@ ("q30" :> Pool)
  /\ hdr = [h \in Headers |-> Unwritten]
  /\ ready = 0
  /\ done = FALSE
  /\ pc = [t \in Workers |-> "arrive"]
  /\ held = [t \in Mids |-> <<>>]
  /\ i0 = 0
  /\ mpc = "spin"
  /\ i3 = 0

-----------------------------------------------------------------------------
(* ready++, then spin until all 2 + NUM_STAGE1 + NUM_STAGE2 have.          *)
Arrive(t) ==
  /\ pc[t] = "arrive"
  /\ ready' = ready + 1
  /\ pc' = [pc EXCEPT ![t] = "spin"]
  /\ UNCHANGED <<q, hdr, done, held, i0, mpc, i3>>

Start(t) ==
  /\ pc[t] = "spin"
  /\ ready = 2 + NUM_STAGE1 + NUM_STAGE2
  /\ pc' = [pc EXCEPT ![t] = "loop"]
  /\ UNCHANGED <<q, hdr, ready, done, held, i0, mpc, i3>>

(* main: wait for every other thread, then count itself.                   *)
MainRelease ==
  /\ mpc = "spin"
  /\ ready = 1 + NUM_STAGE1 + NUM_STAGE2
  /\ ready' = ready + 1
  /\ mpc' = "loop"
  /\ UNCHANGED <<q, hdr, done, pc, held, i0, i3>>

(* Mutation: stage0 counts the bytes line_vl_pop_non returned, without    *)
(* cnt /= sizeof(Packet pointer).                                          *)
Stage0BulkBytes ==
  /\ pc[Stage0] = "loop"
  /\ i0 < num_packets
  /\ q["q30"] # <<>>
  /\ LET m == Head(q["q30"])
         LastWrite(h) == Max({j \in DOMAIN m : m[j] = h})
     IN  /\ hdr' = [h \in Headers |-> IF h \in ToSet(m) THEN i0 + LastWrite(h) - 1 ELSE hdr[h]]
         /\ q' = [q EXCEPT !["q30"] = Tail(@), !["q01"] = Append(@, m)]
         /\ i0' = i0 + 8 * Len(m)
  /\ UNCHANGED <<ready, done, pc, held, mpc, i3>>

(* stage0: pop a bulk from the pool, set srcIP = i + j in the j-th header  *)
(* (through pointers that may alias, so the last write to a header wins), *)
(* push the bulk to q01 and count it.                                      *)
Stage0Bulk ==
  /\ pc[Stage0] = "loop"
  /\ i0 < num_packets
  /\ q["q30"] # <<>>
  /\ LET m == Head(q["q30"])
         LastWrite(h) == Max({j \in DOMAIN m : m[j] = h})
     IN  /\ hdr' = [h \in Headers |-> IF h \in ToSet(m) THEN i0 + LastWrite(h) - 1 ELSE hdr[h]]
         /\ q' = [q EXCEPT !["q30"] = Tail(@), !["q01"] = Append(@, m)]
         /\ i0' = i0 + Len(m)
  /\ UNCHANGED <<ready, done, pc, held, mpc, i3>>

Stage0Exit ==
  /\ pc[Stage0] = "loop"
  /\ i0 >= num_packets
  /\ pc' = [pc EXCEPT ![Stage0] = "exit"]
  /\ UNCHANGED <<q, hdr, ready, done, held, i0, mpc, i3>>

(* stage1 and stage2: pop a bulk, or find the input queue empty.           *)
MidPop(t) ==
  /\ pc[t] = "loop"
  /\ q[In(t)] # <<>>
  /\ held' = [held EXCEPT ![t] = Head(q[In(t)])]
  /\ q' = [q EXCEPT ![In(t)] = Tail(@)]
  /\ pc' = [pc EXCEPT ![t] = "push"]
  /\ UNCHANGED <<hdr, ready, done, i0, mpc, i3>>

MidPush(t) ==
  /\ pc[t] = "push"
  /\ q' = [q EXCEPT ![Out(t)] = Append(@, held[t])]
  /\ held' = [held EXCEPT ![t] = <<>>]
  /\ pc' = [pc EXCEPT ![t] = "loop"]
  /\ UNCHANGED <<hdr, ready, done, i0, mpc, i3>>

MidEmpty(t) ==
  /\ pc[t] = "loop"
  /\ q[In(t)] = <<>>
  /\ pc' = [pc EXCEPT ![t] = "check"]
  /\ UNCHANGED <<q, hdr, ready, done, held, i0, mpc, i3>>

(* done = lock.done; the while (!done) test then ends or repeats the loop. *)
MidReadDone(t) ==
  /\ pc[t] = "check"
  /\ pc' = [pc EXCEPT ![t] = IF done THEN "exit" ELSE "loop"]
  /\ UNCHANGED <<q, hdr, ready, done, held, i0, mpc, i3>>

(* Mutation: main counts the bytes line_vl_pop_non returned, not pointers. *)
MainBulkBytes ==
  /\ mpc = "loop"
  /\ i3 < num_packets
  /\ q["q23"] # <<>>
  /\ q' = [q EXCEPT !["q23"] = Tail(@), !["q30"] = Append(@, Head(q["q23"]))]
  /\ i3' = i3 + 8 * Len(Head(q["q23"]))
  /\ UNCHANGED <<hdr, ready, done, pc, held, i0, mpc>>

(* main: pop a bulk from q23, hand it back to the pool and count it.       *)
MainBulk ==
  /\ mpc = "loop"
  /\ i3 < num_packets
  /\ q["q23"] # <<>>
  /\ q' = [q EXCEPT !["q23"] = Tail(@), !["q30"] = Append(@, Head(q["q23"]))]
  /\ i3' = i3 + Len(Head(q["q23"]))
  /\ UNCHANGED <<hdr, ready, done, pc, held, i0, mpc>>

(* Mutation: main leaves its loop without storing lock.done.               *)
MainDoneNoStore ==
  /\ mpc = "loop"
  /\ i3 >= num_packets
  /\ mpc' = "join"
  /\ UNCHANGED <<q, hdr, ready, done, pc, held, i0, i3>>

MainDone ==
  /\ mpc = "loop"
  /\ i3 >= num_packets
  /\ done' = TRUE
  /\ mpc' = "join"
  /\ UNCHANGED <<q, hdr, ready, pc, held, i0, i3>>

MainJoin ==
  /\ mpc = "join"
  /\ \A t \in Workers : pc[t] = "exit"
  /\ mpc' = "exit"
  /\ UNCHANGED <<q, hdr, ready, done, pc, held, i0, i3>>

Terminated == mpc = "exit" /\ UNCHANGED vars

Worker(t) ==
  \/ Arrive(t) \/ Start(t)
  \/ t = Stage0 /\ (Stage0Bulk \/ Stage0Exit)
  \/ t \in Mids /\ (MidPop(t) \/ MidPush(t) \/ MidEmpty(t) \/ MidReadDone(t))

MainStep == MainRelease \/ MainBulk \/ MainDone \/ MainJoin

Next == MainStep \/ (\E t \in Workers : Worker(t)) \/ Terminated

(* Every thread is pinned to its own core and spins, so each keeps taking *)
(* steps while it has one.                                                 *)
Spec == Init /\ [][Next]_vars /\ WF_vars(MainStep) /\ \A t \in Workers : WF_vars(Worker(t))

-----------------------------------------------------------------------------
Bulks == Seq(Headers)

(* The counters of stage0 and main overshoot num_packets by less than a   *)
(* bulk (with 10 packets in bulks of 4 both end at 12).                    *)
TypeOK ==
  /\ q \in [{"q01", "q12", "q23", "q30"} -> Seq(Bulks)]
  /\ hdr \in [Headers -> Nat \cup {Unwritten}]
  /\ ready \in 0 .. 2 + NUM_STAGE1 + NUM_STAGE2
  /\ done \in BOOLEAN
  /\ pc \in [Workers -> {"arrive", "spin", "loop", "push", "check", "exit"}]
  /\ held \in [Mids -> Bulks]
  /\ mpc \in {"spin", "loop", "join", "exit"}
  /\ i0 \in 0 .. num_packets + BULK_SIZE - 1
  /\ i3 \in 0 .. num_packets + BULK_SIZE - 1

(* The bulks stage0 has pushed and main has not yet taken back.            *)
InFlight == q["q01"] \o q["q12"] \o q["q23"] \o SetToSeq({held[t] : t \in Mids} \ {<<>>})

(* stage0 and main count the same packets: every packet stage0 counted is *)
(* counted by main or is still in q01, q12, q23 or a stage's hands, so     *)
(* main cannot reach num_packets before stage0 has, and no stage reads     *)
(* lock.done while stage0 still has packets to send.                       *)
PipelineFlow ==
  /\ i0 = i3 + Len(FlattenSeq(InFlight))
  /\ done => pc[Stage0] = "exit" \/ i0 >= num_packets

(* Every thread leaves its loop and main joins them all.                   *)
Termination == <>(mpc = "exit")

(* stage0 numbers the packets of a bulk i, i+1, ...: every packet on its   *)
(* way from stage0 to main carries a number no other packet of its bulk   *)
(* carries.                                                                *)
PacketsNumbered ==
  \A m \in ToSet(InFlight) :
    \A a, b \in DOMAIN m : a # b => hdr[m[a]] # hdr[m[b]]

=============================================================================
