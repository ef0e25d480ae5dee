\* Channels smaller than the largest burst of tasks one completion emits
\* (a 16-element array in mini tasks of 2 elements: up to 4 tasks).
CONSTANTS
  MC_N = 16
  N = 16
  MINI_TASK_EXP = 1
  MAX_ON_THE_FLY = 2
  Workers = {1, 2}
  INIT_RELOAD = FALSE
  EXCL_RELOAD = FALSE
  CapToSort = 1
  CapToPair = 1
  OpenMayFail = FALSE
  None = None
  InitArrays <- MCOneArray

SPECIFICATION Spec

PROPERTY Termination

\* The coordinator and workers all blocked in pushes is what this run is about.
CHECK_DEADLOCK FALSE
