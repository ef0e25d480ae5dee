------------------------------ MODULE MCBenchmarks -----------------------------
(***************************************************************************)
(* The network applications of src/apps/network and the ember patterns    *)
(* of src/apps/ember, checked in one run.  An initial state picks one     *)
(* experiment; the others keep their initial states, so the state space   *)
(* is the sum, not the product, of theirs:                                 *)
(*                                                                         *)
(* "pipeline": pipeline.cpp (NetworkPipeline) with two stage1 threads and  *)
(*   one stage2, a pool of 10 in bulks of 4 and 10 packets;                *)
(* "firewall": firewall.cpp (NetworkFirewall) with one stage1 thread, a    *)
(*   pool of 6 in bulks of 2, bad packets held over at most 4 bulks and 18 *)
(*   packets, so that three are bad and both ways of emptying pktsm occur; *)
(* "sweep": ember.cpp's sweep on a 3 x 2 grid, so that the middle column   *)
(*   has three neighbours and pex # pey, two iterations, one line each;    *)
(* "halo": its halo on a 2 x 2 grid, two iterations, one line each;        *)
(* "incast": its incast from 5 senders, two iterations of two lines each,  *)
(*   so that lines of different senders interleave in thread 0's queue.    *)
(* Every ember queue holds one line, the least room a push may wait for;  *)
(* "fir": fir.cpp (FirPipeline) with two stages of two taps, three samples *)
(*   of 0 or 1 and queues of one value, so that the delay line wraps and   *)
(*   pushes are refused;                                                   *)
(* "pingpong": pingpong.cpp's VL build (PingPong), two rounds of bursts of *)
(*   two balls through one-value queues, so that pushes wait for room;      *)
(* "qlock": boost_qlock.cc's token lock (TokenLock) taken twice by each of *)
(*   three threads;                                                         *)
(* "maxsce": max_sce.c's producer and consumer (MaxSce) over a ring of two *)
(*   lines and five rounds;                                                 *)
(* "latency": latency.c's pointer-chasing build over 5 lines and its chase, *)
(*   for every value rand() can return;                                    *)
(* "shopping", "shopping_direct": shopping.c's ATOMIC and DIRECT builds     *)
(*   (Shopping) with a round-robin and a biased lover of budget 10.        *)
(***************************************************************************)
EXTENDS Naturals, Sequences, SequencesExt

VARIABLES
  experiment,
  p_q, p_hdr, p_ready, p_done, p_pc, p_held, p_i0, p_mpc, p_i3,
  f_qp0, f_q01, f_q1c, f_q1m, f_ready, f_done, f_gen, f_mpc, f_pc, f_pktsc,
  f_pktsm, f_mistake_cnt, f_cnt_sum, f_num_correct, f_num_mistake,
  s_ready, s_pc, s_i, s_k, s_q, s_mpc,
  h_ready, h_pc, h_i, h_k, h_q, h_mpc,
  c_ready, c_pc, c_i, c_k, c_q, c_mpc,
  x_ready, x_pc, x_left, x_q, x_buffer, x_offset, x_held, x_mpc, x_hist, x_refused,
  g_ready, g_pc, g_rnd, g_i, g_ball, g_mosi, g_miso, g_mpc, g_sent, g_got, g_rcvd,
  l_link, l_ready, l_tmp, l_pc, l_left, l_mpc,
  m_prod_round, m_cons_round, m_cls, m_max, m_pround, m_ppc, m_cround, m_cpc, m_mpc,
  y_pool, y_next, y_idx, y_cnt, y_ptr, y_hops, y_seen, y_pc,
  z_wait_to_begin, z_prices, z_subtotal, z_budget, z_behavior, z_price, z_rnd, z_tmp, z_pc,
  z_paid, z_mpc,
  w_wait_to_begin, w_prices, w_subtotal, w_budget, w_behavior, w_price, w_rnd, w_tmp, w_pc,
  w_paid, w_mpc

pvars == <<p_q, p_hdr, p_ready, p_done, p_pc, p_held, p_i0, p_mpc, p_i3>>
fvars == <<f_qp0, f_q01, f_q1c, f_q1m, f_ready, f_done, f_gen, f_mpc, f_pc, f_pktsc,
           f_pktsm, f_mistake_cnt, f_cnt_sum, f_num_correct, f_num_mistake>>
svars == <<s_ready, s_pc, s_i, s_k, s_q, s_mpc>>
hvars == <<h_ready, h_pc, h_i, h_k, h_q, h_mpc>>
cvars == <<c_ready, c_pc, c_i, c_k, c_q, c_mpc>>
evars == <<svars, hvars, cvars>>
xvars == <<x_ready, x_pc, x_left, x_q, x_buffer, x_offset, x_held, x_mpc, x_hist, x_refused>>
gvars == <<g_ready, g_pc, g_rnd, g_i, g_ball, g_mosi, g_miso, g_mpc, g_sent, g_got, g_rcvd>>
lvars == <<l_link, l_ready, l_tmp, l_pc, l_left, l_mpc>>
mvars == <<m_prod_round, m_cons_round, m_cls, m_max, m_pround, m_ppc, m_cround, m_cpc, m_mpc>>
yvars == <<y_pool, y_next, y_idx, y_cnt, y_ptr, y_hops, y_seen, y_pc>>
zvars == <<z_wait_to_begin, z_prices, z_subtotal, z_budget, z_behavior, z_price, z_rnd, z_tmp,
           z_pc, z_paid, z_mpc>>
wvars == <<w_wait_to_begin, w_prices, w_subtotal, w_budget, w_behavior, w_price, w_rnd, w_tmp,
           w_pc, w_paid, w_mpc>>
vars == <<experiment, pvars, fvars, evars, xvars, gvars, lvars, mvars, yvars, zvars, wvars>>

Pipe == INSTANCE NetworkPipeline
          WITH NUM_STAGE1 <- 2, NUM_STAGE2 <- 1, POOL_SIZE <- 10, BULK_SIZE <- 4,
               num_packets <- 10,
               q <- p_q, hdr <- p_hdr, ready <- p_ready, done <- p_done, pc <- p_pc,
               held <- p_held, i0 <- p_i0, mpc <- p_mpc, i3 <- p_i3

Fw == INSTANCE NetworkFirewall
        WITH NUM_STAGE1 <- 1, POOL_SIZE <- 6, BULK_SIZE <- 2, MISTAKE_GATHER_RETRY <- 4,
             num_packets <- 18,
             qp0 <- f_qp0, q01 <- f_q01, q1c <- f_q1c, q1m <- f_q1m, ready <- f_ready,
             done <- f_done, gen <- f_gen, mpc <- f_mpc, pc <- f_pc, pktsc <- f_pktsc,
             pktsm <- f_pktsm, mistake_cnt <- f_mistake_cnt, cnt_sum <- f_cnt_sum,
             num_correct <- f_num_correct, num_mistake <- f_num_mistake

Sweep == INSTANCE Ember
           WITH pex <- 3, pey <- 2, repeats <- 2, msgSz <- 56, CAP <- 1, PATTERN <- "sweep",
                ready <- s_ready, pc <- s_pc, i <- s_i, k <- s_k, q <- s_q, mpc <- s_mpc

Halo == INSTANCE Ember
          WITH pex <- 2, pey <- 2, repeats <- 2, msgSz <- 56, CAP <- 1, PATTERN <- "halo",
               ready <- h_ready, pc <- h_pc, i <- h_i, k <- h_k, q <- h_q, mpc <- h_mpc

Incast == INSTANCE Ember
            WITH pex <- 3, pey <- 2, repeats <- 2, msgSz <- 64, CAP <- 1, PATTERN <- "incast",
                 ready <- c_ready, pc <- c_pc, i <- c_i, k <- c_k, q <- c_q, mpc <- c_mpc

Fir == INSTANCE FirPipeline
         WITH stages <- 2, samples <- 3, TAPS <- 2, Values <- {0, 1}, CAP <- 1,
              ready <- x_ready, pc <- x_pc, left <- x_left, q <- x_q, buffer <- x_buffer,
              offset <- x_offset, held <- x_held, mpc <- x_mpc, hist <- x_hist,
              refused <- x_refused

Ping == INSTANCE PingPong
          WITH BUILD <- "vl", burst <- 2, round <- 2, CAP <- 1,
               ready <- g_ready, pc <- g_pc, rnd <- g_rnd, i <- g_i, ball <- g_ball,
               mosi <- g_mosi, miso <- g_miso, mpc <- g_mpc, sent <- g_sent, got <- g_got,
               rcvd <- g_rcvd

Qlock == INSTANCE TokenLock
           WITH IMPL <- "boost", N <- 3, ITER <- 2, MKVL_FD <- 1,
                link <- l_link, ready <- l_ready, tmp <- l_tmp, pc <- l_pc, left <- l_left,
                mpc <- l_mpc

Sce == INSTANCE MaxSce
         WITH RING <- 2, MAX_ROUND <- 5,
              prod_round <- m_prod_round, cons_round <- m_cons_round, cls <- m_cls,
              max <- m_max, pround <- m_pround, ppc <- m_ppc, cround <- m_cround,
              cpc <- m_cpc, mpc <- m_mpc

Lat == INSTANCE Latency
         WITH NUM_CLS <- 5, MAX_HOPS <- 6,
              pool <- y_pool, next <- y_next, idx <- y_idx, cnt <- y_cnt, ptr <- y_ptr,
              hops <- y_hops, seen <- y_seen, pc <- y_pc

(* A round-robin lover and a biased one, each with a budget of 10.         *)
ShopModel == [t \in {1, 2} |-> IF t = 1 THEN 5 ELSE 6]
ShopBudget == [t \in {1, 2} |-> 10]

Shop == INSTANCE Shopping
          WITH BUILD <- "atomic", Lovers <- {1, 2}, Model <- ShopModel, Budget <- ShopBudget,
               wait_to_begin <- z_wait_to_begin, prices <- z_prices, subtotal <- z_subtotal,
               budget <- z_budget, behavior <- z_behavior, price <- z_price, rnd <- z_rnd,
               tmp <- z_tmp, pc <- z_pc, paid <- z_paid, mpc <- z_mpc

ShopDirect == INSTANCE Shopping
                WITH BUILD <- "direct", Lovers <- {1, 2}, Model <- ShopModel,
                     Budget <- ShopBudget,
                     wait_to_begin <- w_wait_to_begin, prices <- w_prices,
                     subtotal <- w_subtotal, budget <- w_budget, behavior <- w_behavior,
                     price <- w_price, rnd <- w_rnd, tmp <- w_tmp, pc <- w_pc, paid <- w_paid,
                     mpc <- w_mpc

Init ==
  /\ experiment \in {"pipeline", "firewall", "sweep", "halo", "incast", "fir", "pingpong", "qlock", "maxsce",
                    "latency", "shopping", "shopping_direct"}
  /\ Pipe!Init
  /\ Fw!Init
  /\ Sweep!Init
  /\ Halo!Init
  /\ Incast!Init
  /\ Fir!Init
  /\ Ping!Init
  /\ Qlock!Init
  /\ Sce!Init
  /\ Lat!Init
  /\ Shop!Init
  /\ ShopDirect!Init

PipeMain == experiment = "pipeline" /\ Pipe!MainStep /\ UNCHANGED <<experiment, fvars, evars, xvars, gvars, lvars, mvars, yvars, zvars, wvars>>
PipeWorker(t) == experiment = "pipeline" /\ Pipe!Worker(t) /\ UNCHANGED <<experiment, fvars, evars, xvars, gvars, lvars, mvars, yvars, zvars, wvars>>
FwMain == experiment = "firewall" /\ Fw!MainStep /\ UNCHANGED <<experiment, pvars, evars, xvars, gvars, lvars, mvars, yvars, zvars, wvars>>
FwWorker(t) == experiment = "firewall" /\ Fw!Worker(t) /\ UNCHANGED <<experiment, pvars, evars, xvars, gvars, lvars, mvars, yvars, zvars, wvars>>
SwMain == experiment = "sweep" /\ Sweep!MainStep /\ UNCHANGED <<experiment, pvars, fvars, hvars, cvars, xvars, gvars, lvars, mvars, yvars, zvars, wvars>>
SwWorker(t) == experiment = "sweep" /\ Sweep!Worker(t) /\ UNCHANGED <<experiment, pvars, fvars, hvars, cvars, xvars, gvars, lvars, mvars, yvars, zvars, wvars>>
HaMain == experiment = "halo" /\ Halo!MainStep /\ UNCHANGED <<experiment, pvars, fvars, svars, cvars, xvars, gvars, lvars, mvars, yvars, zvars, wvars>>
HaWorker(t) == experiment = "halo" /\ Halo!Worker(t) /\ UNCHANGED <<experiment, pvars, fvars, svars, cvars, xvars, gvars, lvars, mvars, yvars, zvars, wvars>>
InMain == experiment = "incast" /\ Incast!MainStep /\ UNCHANGED <<experiment, pvars, fvars, svars, hvars, xvars, gvars, lvars, mvars, yvars, zvars, wvars>>
InWorker(t) == experiment = "incast" /\ Incast!Worker(t) /\ UNCHANGED <<experiment, pvars, fvars, svars, hvars, xvars, gvars, lvars, mvars, yvars, zvars, wvars>>
FiMain == experiment = "fir" /\ Fir!MainStep /\ UNCHANGED <<experiment, pvars, fvars, evars, gvars, lvars, mvars, yvars, zvars, wvars>>
FiThread(t) == experiment = "fir" /\ Fir!Thread(t) /\ UNCHANGED <<experiment, pvars, fvars, evars, gvars, lvars, mvars, yvars, zvars, wvars>>
PpMain == experiment = "pingpong" /\ Ping!MainStep /\ UNCHANGED <<experiment, pvars, fvars, evars, xvars, lvars, mvars, yvars, zvars, wvars>>
PpPlayer(p) == experiment = "pingpong" /\ Ping!Player(p) /\ UNCHANGED <<experiment, pvars, fvars, evars, xvars, lvars, mvars, yvars, zvars, wvars>>
QlMain == experiment = "qlock" /\ Qlock!MainStep /\ UNCHANGED <<experiment, pvars, fvars, evars, xvars, gvars, mvars, yvars, zvars, wvars>>
QlThread(t) == experiment = "qlock" /\ Qlock!Thread(t) /\ UNCHANGED <<experiment, pvars, fvars, evars, xvars, gvars, mvars, yvars, zvars, wvars>>
ScMain == experiment = "maxsce" /\ Sce!MainStep /\ UNCHANGED <<experiment, pvars, fvars, evars, xvars, gvars, lvars, yvars, zvars, wvars>>
ScThread(t) == experiment = "maxsce" /\ Sce!Thread(t) /\ UNCHANGED <<experiment, pvars, fvars, evars, xvars, gvars, lvars, yvars, zvars, wvars>>
LaStep == experiment = "latency" /\ (Lat!Link \/ Lat!Chase) /\ UNCHANGED <<experiment, pvars, fvars, evars, xvars, gvars, lvars, mvars, zvars, wvars>>
ShMain == experiment = "shopping" /\ Shop!MainStep /\ UNCHANGED <<experiment, pvars, fvars, evars, xvars, gvars, lvars, mvars, yvars, wvars>>
ShThread(t) == experiment = "shopping" /\ Shop!Thread(t) /\ UNCHANGED <<experiment, pvars, fvars, evars, xvars, gvars, lvars, mvars, yvars, wvars>>
SdMain == experiment = "shopping_direct" /\ ShopDirect!MainStep /\ UNCHANGED <<experiment, pvars, fvars, evars, xvars, gvars, lvars, mvars, yvars, zvars>>
SdThread(t) == experiment = "shopping_direct" /\ ShopDirect!Thread(t) /\ UNCHANGED <<experiment, pvars, fvars, evars, xvars, gvars, lvars, mvars, yvars, zvars>>

(* main has joined every thread of the experiment's program.               *)
Joined ==
  \/ experiment = "pipeline" /\ p_mpc = "exit"
  \/ experiment = "firewall" /\ f_mpc = "exit"
  \/ experiment = "sweep" /\ s_mpc = "exit"
  \/ experiment = "halo" /\ h_mpc = "exit"
  \/ experiment = "incast" /\ c_mpc = "exit"
  \/ experiment = "fir" /\ x_mpc = "exit"
  \/ experiment = "pingpong" /\ g_mpc = "exit"
  \/ experiment = "qlock" /\ l_mpc = "exit"
  \/ experiment = "maxsce" /\ m_mpc = "exit"
  \/ experiment = "latency" /\ y_pc = "done"
  \/ experiment = "shopping" /\ z_mpc = "exit"
  \/ experiment = "shopping_direct" /\ w_mpc = "exit"

(* Once main has joined every thread the program has ended.                *)
Ended == Joined /\ UNCHANGED vars

Next ==
  \/ PipeMain \/ \E t \in Pipe!Workers : PipeWorker(t)
  \/ FwMain \/ \E t \in Fw!Workers : FwWorker(t)
  \/ SwMain \/ \E t \in Sweep!Threads : SwWorker(t)
  \/ HaMain \/ \E t \in Halo!Threads : HaWorker(t)
  \/ InMain \/ \E t \in Incast!Threads : InWorker(t)
  \/ FiMain \/ \E t \in Fir!Threads : FiThread(t)
  \/ PpMain \/ \E p \in Ping!Players : PpPlayer(p)
  \/ QlMain \/ \E t \in Qlock!Threads : QlThread(t)
  \/ ScMain \/ \E t \in Sce!Threads : ScThread(t)
  \/ LaStep
  \/ ShMain \/ \E t \in {1, 2} : ShThread(t)
  \/ SdMain \/ \E t \in {1, 2} : SdThread(t)
  \/ Ended

(* The fairness of each application's own specification: weak fairness  *)
(* of main and of every thread in pipeline.cpp, firewall.cpp, fir.cpp and *)
(* the qlock threads (whose spinning pop keeps retrying on its own core), *)
(* max_sce's producer and consumer, pinned and spinning on nop, and the   *)
(* shopping.c lovers, pinned and never blocked once released;            *)
(* latency.c is one thread, main, whose steps are fair by themselves,     *)
(* and for ember that some thread of the experiment moves while one can   *)
(* (Ember's Spec); the same for pingpong.cpp, whose VL build, like ember,  *)
(* has no step that leads back to an earlier state.  Only one experiment ever moves, so the n-th threads of *)
(* the seven programs share one fairness condition, which holds exactly   *)
(* when it holds for the running program's n-th thread.                    *)
PipeThreads == SetToSeq(Pipe!Workers)
FwThreads == SetToSeq(Fw!Workers)
FiThreads == SetToSeq(Fir!Threads)
QlThreads == SetToSeq(Qlock!Threads)
ScThreads == SetToSeq(Sce!Threads)
ShThreads == <<1, 2>>
NthThread(n) ==
  \/ n <= Len(PipeThreads) /\ PipeWorker(PipeThreads[n])
  \/ n <= Len(FwThreads) /\ FwWorker(FwThreads[n])
  \/ n <= Len(FiThreads) /\ FiThread(FiThreads[n])
  \/ n <= Len(QlThreads) /\ QlThread(QlThreads[n])
  \/ n <= Len(ScThreads) /\ ScThread(ScThreads[n])
  \/ n <= Len(ShThreads) /\ ShThread(ShThreads[n])
  \/ n <= Len(ShThreads) /\ SdThread(ShThreads[n])
Slots == 1 .. Max({Len(PipeThreads), Len(FwThreads), Len(FiThreads), Len(QlThreads),
                   Len(ScThreads)})

Spec ==
  /\ Init /\ [][Next]_vars
  /\ WF_vars(PipeMain \/ FwMain \/ FiMain \/ QlMain \/ ScMain \/ ShMain \/ SdMain)
  /\ \A n \in Slots : WF_vars(NthThread(n))
  /\ WF_vars(SwMain \/ \E t \in Sweep!Threads : SwWorker(t))
  /\ WF_vars(HaMain \/ \E t \in Halo!Threads : HaWorker(t))
  /\ WF_vars(PpMain \/ \E p \in Ping!Players : PpPlayer(p))
  /\ WF_vars(InMain \/ \E t \in Incast!Threads : InWorker(t))
  /\ WF_vars(LaStep)

-----------------------------------------------------------------------------
(* pipeline.cpp: stage0 and main overshoot num_packets by less than a bulk. *)
PipelineTypeOK == Pipe!TypeOK

(* pipeline.cpp: every packet stage0 counted is counted by main or still   *)
(* in a queue or a stage's hands.                                          *)
PipelineFlow == Pipe!PipelineFlow

(* firewall.cpp: the queues, counts and the packet counter keep their      *)
(* bounds; in particular no bulk is larger than pkts.                      *)
FirewallTypeOK == Fw!TypeOK

(* firewall.cpp: every pool pointer is in exactly one queue or stage1     *)
(* buffer, whichever way stage1 empties pktsm.                             *)
FirewallPacketsConserved == Fw!PacketsConserved

(* firewall.cpp: the bad packets stage1 gathers never outgrow pktsm.       *)
FirewallPktsmInBounds == Fw!PktsmInBounds

(* ember.cpp: get_queue_id pairs every sender with the receiver across    *)
(* the link and gives each link its own queue, on the 3 x 2 and 2 x 2     *)
(* grids.                                                                  *)
EmberQueueIdsConsistent ==
  /\ experiment = "sweep" => Sweep!QueueIdsConsistent
  /\ experiment = "halo" => Halo!QueueIdsConsistent

(* fir.cpp: a stage none of whose pushes was refused outputs exactly the  *)
(* FIR of what it popped: FIR::filter's circular delay line computes the  *)
(* convolution, across the wrap of offset and through two stages.         *)
FirFilterCorrectWhenAccepted == experiment = "fir" => Fir!FilterCorrectWhenAccepted

(* pingpong.cpp: every ball pong pops is the next ball ping pushed, and   *)
(* every receipt ping pops the next ball pong popped: vl_q_t's retried     *)
(* push and pop lose, duplicate and reorder nothing over both queues.      *)
PingPongEchoInOrder == experiment = "pingpong" => Ping!EchoInOrder

(* boost_qlock.cc: at most one of three threads is between                *)
(* boost_qlock_acquire and boost_qlock_release, and the one token is      *)
(* always either in the queue or held, through two acquisitions each.     *)
QlockMutualExclusion == experiment = "qlock" => Qlock!MutualExclusion

(* max_sce.c: main's final assert, max[round] = round & 0xFF for every    *)
(* round, over five rounds through a ring of two lines, so that the        *)
(* producer waits for the consumer and every line is rewritten.            *)
MaxSceAssertHolds == experiment = "maxsce" => Sce!MaxAssertHolds

(* latency.c: the chain the build links is one cycle through all 5 lines, *)
(* so the chase loads num_cls lines, each once, and comes back to arr.     *)
LatencyChaseIsOneCycle == experiment = "latency" => Lat!ChaseIsOneCycle

(* shopping.c, ATOMIC build: the subtotal main prints is the sum of the    *)
(* prices every lover added (the DIRECT build loses adds: MCShoppingDirect *)
(* reproduces it).                                                         *)
ShoppingSubtotalIsSum == experiment = "shopping" => Shop!SubtotalIsSumOfPurchases

(* Every program but max_sce.c ends (max_sce.c may hang: MaxSce, run     *)
(* maxsce_reset_hang): in pipeline.cpp and firewall.cpp every thread      *)
(* leaves its loop once main sets done, no ember pattern deadlocks on     *)
(* one-line queues, and every fir.cpp thread handles its samples values   *)
(* through full queues, pingpong and qlock run their rounds; main joins    *)
(* them all.                                                               *)
Termination == experiment # "maxsce" => <>Joined

=============================================================================
