\* The instances are fixed in MCBenchmarks.tla: pipeline.cpp with 2 stage1
\* threads, a pool of 10 in bulks of 4 and 10 packets; firewall.cpp with 1
\* stage1 thread, a pool of 6 in bulks of 2, a retry limit of 4 and 18
\* packets; ember.cpp's sweep on 3 x 2, halo on 2 x 2 and incast from 5
\* senders with two lines a message, two iterations, one-line queues;
\* fir.cpp with two stages of two taps, three samples and one-value queues;
\* pingpong.cpp's VL build with two rounds of two balls and one-value queues;
\* boost_qlock.cc taken twice by each of three threads; max_sce.c over a
\* ring of two lines and five rounds; latency.c over 5 lines; shopping.c
\* with a round-robin and a biased lover of budget 10, in both builds.
SPECIFICATION Spec
INVARIANT PipelineTypeOK
INVARIANT PipelineFlow
INVARIANT FirewallTypeOK
INVARIANT FirewallPacketsConserved
INVARIANT FirewallPktsmInBounds
INVARIANT EmberQueueIdsConsistent
INVARIANT FirFilterCorrectWhenAccepted
INVARIANT PingPongEchoInOrder
INVARIANT QlockMutualExclusion
INVARIANT MaxSceAssertHolds
INVARIANT LatencyChaseIsOneCycle
INVARIANT ShoppingSubtotalIsSum
PROPERTY Termination
\* max_sce.c can hang (run maxsce_reset_hang), so a stop is not an error
\* here; Termination covers every other program, whose stops it refutes.
CHECK_DEADLOCK FALSE
