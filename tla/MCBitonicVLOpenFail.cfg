\* A worker's endpoint open fails: does the sort still end?
CONSTANTS
  MC_N = 8
  N = 8
  MINI_TASK_EXP = 1
  MAX_ON_THE_FLY = 2
  Workers = {1, 2}
  INIT_RELOAD = FALSE
  EXCL_RELOAD = FALSE
  CapToSort = 2
  CapToPair = 2
  OpenMayFail = TRUE
  None = None
  InitArrays <- MCOneArray

SPECIFICATION Spec

PROPERTY Termination

\* The hang at the startup barrier is what this run is about.
CHECK_DEADLOCK FALSE
