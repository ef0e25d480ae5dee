\* The INIT_RELOAD build with a window of 2 tasks over 8 mini tasks: each
\* pair one worker reloads leaves on_the_fly one higher than the tasks in
\* flight (vl.cpp 371-381 adds 2 for the one rswap the worker keeps).
CONSTANTS
  MC_N = 16
  N = 16
  MINI_TASK_EXP = 1
  MAX_ON_THE_FLY = 2
  Workers = {1, 2}
  INIT_RELOAD = TRUE
  EXCL_RELOAD = FALSE
  CapToSort = 2
  CapToPair = 2
  OpenMayFail = FALSE
  None = None
  InitArrays <- MCOneArray

SPECIFICATION Spec

PROPERTY Termination

\* The coordinator spinning with nothing left to receive is what this run
\* is about: the model has no idle spin steps, so it shows as a stop.
CHECK_DEADLOCK FALSE
