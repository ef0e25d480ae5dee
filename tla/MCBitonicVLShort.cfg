\* The default invocation: len 16 (no argument) with MINI_TASK_EXP 6, so
\* cnt_len = len >> MINI_TASK_EXP is 0.  Scaled down: len 4, mini task 8.
CONSTANTS
  MC_N = 4
  N = 4
  MINI_TASK_EXP = 3
  MAX_ON_THE_FLY = 2
  Workers = {1}
  INIT_RELOAD = FALSE
  EXCL_RELOAD = FALSE
  CapToSort = 2
  CapToPair = 2
  OpenMayFail = FALSE
  None = None
  InitArrays <- MCOneArray

SPECIFICATION Spec

INVARIANT IndicesInBounds
