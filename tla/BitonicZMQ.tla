----------------------------- MODULE BitonicZMQ -----------------------------
(***************************************************************************)
(* The ZeroMQ bitonic sort of src/apps/bitonic/zmq.cpp: one master and     *)
(* NUM_SLAVES slave threads over two inproc PUSH/PULL socket pairs.        *)
(*                                                                         *)
(* to_slave: the master's PUSH socket load-balances round robin over one   *)
(* pipe per connected slave (SNDHWM 0: no pipe is ever full), so a message *)
(* is bound to a slave when it is sent; rr is the round-robin cursor.      *)
(* to_master: one pipe per slave; the master's PULL socket may read the    *)
(* head of any non-empty pipe (fair queueing, abstracted to a free         *)
(* choice).  A message is the range [beg, end) and the torswap flag.       *)
(***************************************************************************)
EXTENDS Integers, Sequences, FiniteSets, BitonicKernels

CONSTANTS
  N,               \* len, already rounded up to a power of two
  NUM_SLAVES,
  MAX_ON_THE_FLY,
  InitArrays,      \* the input arrays considered
  None

ASSUME N \in Nat \ {0} /\ NUM_SLAVES \in Nat \ {0} /\ MAX_ON_THE_FLY \in Nat \ {0}

Idx    == 0 .. N - 1
Slaves == 1 .. NUM_SLAVES

Msg(b, e, r) == [beg |-> b, end |-> e, torswap |-> r]

VARIABLES
  arr,
  to_slave,      \* to_slave[w]: the pipe from the master to slave w
  to_master,     \* to_master[w]: the pipe from slave w to the master
  rr,            \* the PUSH socket's next pipe
  held,          \* held[w]: the message slave w is working on, or None
  ready,         \* the startup barrier counter
  done,          \* lock.done
  mpc,           \* master: "arrive", "spin", "feed0", "recv", "feed", "join", "done"
  spc,           \* spc[w]: "arrive", "spin", "loop", "exited"
  feed_in,
  on_the_fly,
  pcount

vars == <<arr, to_slave, to_master, rr, held, ready, done, mpc, spc, feed_in, on_the_fly, pcount>>

Init ==
  /\ arr \in InitArrays
  /\ to_slave = [w \in Slaves |-> <<>>]
  /\ to_master = [w \in Slaves |-> <<>>]
  /\ rr = 1
  /\ held = [w \in Slaves |-> None]
  /\ ready = 0
  /\ done = FALSE
  /\ mpc = "arrive"
  /\ spc = [w \in Slaves |-> "arrive"]
  /\ feed_in = 0
  /\ on_the_fly = 0
  /\ pcount = [i \in Idx |-> 0]

(* zmq_send on to_slave_prod: append to the cursor's pipe, advance it.     *)
Send(m) ==
  /\ to_slave' = [to_slave EXCEPT ![rr] = Append(@, m)]
  /\ rr' = (rr % NUM_SLAVES) + 1

-----------------------------------------------------------------------------
(* Master (sort).                                                          *)

(* ready++ after spawning the slaves.                                      *)
MasterArrive ==
  /\ mpc = "arrive"
  /\ ready' = ready + 1
  /\ mpc' = "spin"
  /\ UNCHANGED <<arr, to_slave, to_master, rr, held, done, spc, feed_in, on_the_fly, pcount>>

MasterStart ==
  /\ mpc = "spin"
  /\ ready = 1 + NUM_SLAVES
  /\ mpc' = "feed0"
  /\ UNCHANGED <<arr, to_slave, to_master, rr, held, ready, done, spc, feed_in, on_the_fly, pcount>>

(* One iteration of the initial feed loop: send the next pair, and break  *)
(* once MAX_ON_THE_FLY are on the fly.                                     *)
FeedInitial ==
  /\ mpc = "feed0"
  /\ \/ /\ ~(N > feed_in)
        /\ mpc' = "recv"
        /\ UNCHANGED <<to_slave, rr, feed_in, on_the_fly>>
     \/ /\ N > feed_in
        /\ Send(Msg(feed_in, feed_in + 2, FALSE))
        /\ feed_in' = feed_in + 2
        /\ on_the_fly' = on_the_fly + 1
        /\ mpc' = IF on_the_fly + 1 >= MAX_ON_THE_FLY THEN "recv" ELSE "feed0"
  /\ UNCHANGED <<arr, to_master, held, ready, done, spc, pcount>>

(* Mutation: pairs when the first run's count is at least its sibling's.  *)
PairedGe(pc, i1, i2) == pc[i1] >= pc[i2]

(* The two aligned sibling runs have been reported equally often.         *)
Paired(pc, i1, i2) == pc[i1] = pc[i2]

(* A non-blocking receive that finds no message.                           *)
RecvNone ==
  /\ mpc = "recv"
  /\ \A w \in Slaves : to_master[w] = <<>>
  /\ mpc' = "feed"
  /\ UNCHANGED <<arr, to_slave, to_master, rr, held, ready, done, spc, feed_in, on_the_fly, pcount>>

(* Mutation: a completion that pairs with nothing is not retired         *)
(* (on_the_fly-- dropped).                                                  *)
ReceiveNoRetire(w) ==
  LET m          == Head(to_master[w])
      len_sorted == m.end - m.beg
      pc         == [pcount EXCEPT ![m.beg] = @ + 1]
      idx_1st    == m.beg - (m.beg % (2 * len_sorted))
      idx_2nd    == idx_1st + len_sorted
  IN  /\ mpc = "recv"
      /\ to_master[w] # <<>>
      /\ to_master' = [to_master EXCEPT ![w] = Tail(@)]
      /\ \/ /\ len_sorted = N
            /\ done' = TRUE
            /\ mpc' = "join"
            /\ UNCHANGED <<to_slave, rr, on_the_fly, pcount>>
         \/ /\ len_sorted # N
            /\ pcount' = pc
            /\ mpc' = "feed"
            /\ \/ /\ Paired(pc, idx_1st, idx_2nd)
                  /\ Send(Msg(idx_1st, idx_2nd + len_sorted, TRUE))
                  /\ UNCHANGED on_the_fly
               \/ /\ ~Paired(pc, idx_1st, idx_2nd)
                  /\ UNCHANGED on_the_fly
                  /\ UNCHANGED <<to_slave, rr>>
            /\ UNCHANGED done
  /\ UNCHANGED <<arr, held, ready, spc, feed_in>>

(* A finished range from slave w: the whole array ends the loop (and the  *)
(* master sets lock.done); otherwise count it at its begin and send the    *)
(* merge of it and its sibling once both are in, or retire it.             *)
Receive(w) ==
  LET m          == Head(to_master[w])
      len_sorted == m.end - m.beg
      pc         == [pcount EXCEPT ![m.beg] = @ + 1]
      idx_1st    == m.beg - (m.beg % (2 * len_sorted))
      idx_2nd    == idx_1st + len_sorted
  IN  /\ mpc = "recv"
      /\ to_master[w] # <<>>
      /\ to_master' = [to_master EXCEPT ![w] = Tail(@)]
      /\ \/ /\ len_sorted = N
            /\ done' = TRUE
            /\ mpc' = "join"
            /\ UNCHANGED <<to_slave, rr, on_the_fly, pcount>>
         \/ /\ len_sorted # N
            /\ pcount' = pc
            /\ mpc' = "feed"
            /\ \/ /\ Paired(pc, idx_1st, idx_2nd)
                  /\ Send(Msg(idx_1st, idx_2nd + len_sorted, TRUE))
                  /\ UNCHANGED on_the_fly
               \/ /\ ~Paired(pc, idx_1st, idx_2nd)
                  /\ on_the_fly' = on_the_fly - 1
                  /\ UNCHANGED <<to_slave, rr>>
            /\ UNCHANGED done
  /\ UNCHANGED <<arr, held, ready, spc, feed_in>>

(* Mutation: the feed also runs when exactly MAX_ON_THE_FLY are on the fly. *)
FeedAtLimit ==
  /\ mpc = "feed"
  /\ mpc' = "recv"
  /\ \/ /\ N > feed_in /\ MAX_ON_THE_FLY >= on_the_fly
        /\ Send(Msg(feed_in, feed_in + 2, FALSE))
        /\ feed_in' = feed_in + 2
        /\ on_the_fly' = on_the_fly + 1
     \/ /\ ~(N > feed_in /\ MAX_ON_THE_FLY >= on_the_fly)
        /\ UNCHANGED <<to_slave, rr, feed_in, on_the_fly>>
  /\ UNCHANGED <<arr, to_master, held, ready, done, spc, pcount>>

(* Feed the next pair if any is left and there is room on the fly.        *)
Feed ==
  /\ mpc = "feed"
  /\ mpc' = "recv"
  /\ \/ /\ N > feed_in /\ MAX_ON_THE_FLY > on_the_fly
        /\ Send(Msg(feed_in, feed_in + 2, FALSE))
        /\ feed_in' = feed_in + 2
        /\ on_the_fly' = on_the_fly + 1
     \/ /\ ~(N > feed_in /\ MAX_ON_THE_FLY > on_the_fly)
        /\ UNCHANGED <<to_slave, rr, feed_in, on_the_fly>>
  /\ UNCHANGED <<arr, to_master, held, ready, done, spc, pcount>>

(* join every slave thread.                                                *)
MasterJoin ==
  /\ mpc = "join"
  /\ \A w \in Slaves : spc[w] = "exited"
  /\ mpc' = "done"
  /\ UNCHANGED <<arr, to_slave, to_master, rr, held, ready, done, spc, feed_in, on_the_fly, pcount>>

-----------------------------------------------------------------------------
(* Slaves (slave).                                                         *)

SlaveArrive(w) ==
  /\ spc[w] = "arrive"
  /\ ready' = ready + 1
  /\ spc' = [spc EXCEPT ![w] = "spin"]
  /\ UNCHANGED <<arr, to_slave, to_master, rr, held, done, mpc, feed_in, on_the_fly, pcount>>

SlaveStart(w) ==
  /\ spc[w] = "spin"
  /\ ready = 1 + NUM_SLAVES
  /\ spc' = [spc EXCEPT ![w] = "loop"]
  /\ UNCHANGED <<arr, to_slave, to_master, rr, held, ready, done, mpc, feed_in, on_the_fly, pcount>>

(* zmq_recv(to_slave_cons, ..., ZMQ_DONTWAIT) returns a message.           *)
SlaveRecv(w) ==
  /\ spc[w] = "loop"
  /\ held[w] = None
  /\ to_slave[w] # <<>>
  /\ held' = [held EXCEPT ![w] = Head(to_slave[w])]
  /\ to_slave' = [to_slave EXCEPT ![w] = Tail(@)]
  /\ UNCHANGED <<arr, to_master, rr, ready, done, mpc, spc, feed_in, on_the_fly, pcount>>

(* rswap or swap the range, the ladder down to pairs, and send it back.   *)
SlaveWork(w) ==
  LET m == held[w]
  IN  /\ m # None
      /\ arr' = BottomTask(arr, m.beg, m.end - m.beg, m.torswap)
      /\ to_master' = [to_master EXCEPT ![w] = Append(@, m)]
      /\ held' = [held EXCEPT ![w] = None]
      /\ UNCHANGED <<to_slave, rr, ready, done, mpc, spc, feed_in, on_the_fly, pcount>>

(* done = lock.done at the end of an iteration ends the loop.              *)
SlaveExit(w) ==
  /\ spc[w] = "loop"
  /\ held[w] = None
  /\ done
  /\ spc' = [spc EXCEPT ![w] = "exited"]
  /\ UNCHANGED <<arr, to_slave, to_master, rr, held, ready, done, mpc, feed_in, on_the_fly, pcount>>

-----------------------------------------------------------------------------
MasterStep ==
  MasterArrive \/ MasterStart \/ FeedInitial \/ RecvNone
    \/ (\E w \in Slaves : Receive(w)) \/ Feed \/ MasterJoin

SlaveStep(w) ==
  SlaveArrive(w) \/ SlaveStart(w) \/ SlaveRecv(w) \/ SlaveWork(w) \/ SlaveExit(w)

(* sort() has returned.                                                    *)
Terminated == mpc = "done" /\ UNCHANGED vars

Next == MasterStep \/ (\E w \in Slaves : SlaveStep(w)) \/ Terminated

(* Every thread is pinned to its own core and spins, so each keeps taking *)
(* steps while it has one.                                                 *)
Fairness == WF_vars(MasterStep) /\ \A w \in Slaves : WF_vars(SlaveStep(w))

Spec == Init /\ [][Next]_vars /\ Fairness

-----------------------------------------------------------------------------
(* Every message the master has sent and not yet taken back, wherever it  *)
(* is: in a to_slave pipe, held by a slave, or in a to_master pipe.        *)
Outstanding ==
  UNION { {<<"s", w, k, to_slave[w][k]>> : k \in DOMAIN to_slave[w]}
          \cup {<<"m", w, k, to_master[w][k]>> : k \in DOMAIN to_master[w]}
          \cup (IF held[w] = None THEN {} ELSE {<<"h", w, 0, held[w]>>})
          : w \in Slaves }

Span(m) == m.beg .. m.end - 1

(* Slaves write the shared array without locks: the ranges of any two     *)
(* messages on the fly never overlap, however completions from different  *)
(* slaves are interleaved at the master's PULL socket.                     *)
TasksDisjoint ==
  \A t1, t2 \in Outstanding : t1 # t2 => Span(t1[4]) \cap Span(t2[4]) = {}

(* on_the_fly, which the master keeps by hand (++ on feed, -- on a        *)
(* completion that pairs with nothing), is exactly the number of messages *)
(* out, and never exceeds MAX_ON_THE_FLY, while the loop runs.             *)
InFlightBounded ==
  mpc \in {"recv", "feed"} =>
    /\ on_the_fly = Cardinality(Outstanding)
    /\ on_the_fly <= MAX_ON_THE_FLY

(* When the master breaks out of its loop the array is sorted.             *)
SortedWhenDone == mpc \in {"join", "done"} => IsSortedArray(arr, N)

(* The runs pcount records, as <<pair index, level in pairs>>; once the   *)
(* whole array has come back the master breaks without counting it, and   *)
(* that run is the whole array.                                            *)
RunHeads ==
  { x \in Idx : /\ pcount[x] >= 1
                /\ ~\E z \in 0 .. x - 1 : pcount[z] >= 1 /\ x < z + Pow2(pcount[z]) }

Runs ==
  IF mpc \in {"join", "done"}
    THEN {<<0, CHOOSE l \in 0 .. N : 2 * Pow2(l) = N>>}
    ELSE { <<x \div 2, pcount[x] - 1>> : x \in RunHeads }

Abstract == INSTANCE MergeTree WITH NBlocks <- N \div 2, runs <- Runs,
                                    finished <- (mpc \in {"join", "done"})

(* The master's pcount bookkeeping implements the merge tree: each        *)
(* completion it counts is a new pair or the merge of two equal sibling   *)
(* runs, and it breaks exactly when one run covers the array.              *)
RefinesMergeTree == Abstract!Spec

(* sort() returns: the master breaks, every slave sees lock.done and      *)
(* exits, and the joins complete.                                          *)
Termination == <>(mpc = "done")

=============================================================================
