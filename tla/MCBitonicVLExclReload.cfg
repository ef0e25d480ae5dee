\* The EXCL_RELOAD build with the default-shaped window of 2 tasks: a
\* worker on a core above 1 pushes a bottom task to tosort that the
\* coordinator never counted into on_the_fly (vl.cpp 158-160), whose
\* completion is still subtracted (399), so on_the_fly wraps below zero.
CONSTANTS
  MC_N = 8
  N = 8
  MINI_TASK_EXP = 1
  MAX_ON_THE_FLY = 2
  Workers = {1, 2}
  INIT_RELOAD = FALSE
  EXCL_RELOAD = TRUE
  CapToSort = 2
  CapToPair = 2
  OpenMayFail = FALSE
  None = None
  InitArrays <- MCOneArray

SPECIFICATION Spec

PROPERTY Termination

\* The coordinator spinning with nothing left to receive is what this run
\* is about: the model has no idle spin steps, so it shows as a stop.
CHECK_DEADLOCK FALSE
