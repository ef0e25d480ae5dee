\* The INIT_RELOAD and EXCL_RELOAD builds together (vl.cpp allows both),
\* over every 0/1 array of length 8, with a window that holds every initial
\* task, so that the on_the_fly miscount of the reload paths cannot stop the
\* feed: what is left to check is that reloading keeps the tasks apart, the
\* counters honest and the result sorted, and that the counters still
\* implement the merge tree.  Worker opens may fail.
CONSTANTS
  MC_N = 8
  N = 8
  MINI_TASK_EXP = 1
  MAX_ON_THE_FLY = 4
  Workers = {1, 2}
  INIT_RELOAD = TRUE
  EXCL_RELOAD = TRUE
  CapToSort = 2
  CapToPair = 2
  OpenMayFail = TRUE
  None = None
  InitArrays <- MCInitArrays

SPECIFICATION Spec

INVARIANT TasksDisjoint
INVARIANT RecordedRunsSorted
INVARIANT SortedWhenDone
INVARIANT NoStaleInitCompletion
INVARIANT StuckOnlyAfterOpenFailure
PROPERTY RefinesMergeTree

\* With OpenMayFail a worker may return before the barrier and the
\* coordinator then spins there for ever (vl.cpp 88-96, 332): the program
\* really stops, so deadlock is not an error here.
CHECK_DEADLOCK FALSE
