\* seq.cpp and zmq.cpp over every 0/1 array of length 8, the ZeroMQ engine
\* with 2 slaves and a window of 2 below its 4 pairs; the worker's compound
\* routines over every array of length 8 over three values; maxdone over a
\* tree of 8 leaves in every completion order.
CONSTANTS
  LEN = 8
  Values = {0, 1, 2}
  K = 4
  MINI_TASK_EXP = 1
  N = 8
  NUM_SLAVES = 2
  MAX_ON_THE_FLY = 2
  None = None

SPECIFICATION Spec

INVARIANT InitialTaskSorts
INVARIANT BottomTaskMerges
INVARIANT CompleteExactlyAtLast
INVARIANT SeqSortedWhenDone
INVARIANT ZmqTasksDisjoint
INVARIANT ZmqInFlightBounded
INVARIANT ZmqSortedWhenDone
PROPERTY SeqRefinesMergeTree
PROPERTY SeqTermination
PROPERTY ZmqRefinesMergeTree
PROPERTY ZmqTermination

\* The kernels and tracker experiments end after their last task or leaf;
\* the two engines' progress is checked by SeqTermination and ZmqTermination.
CHECK_DEADLOCK FALSE
