\* Safety and termination of vl.cpp over every 0/1 array of length 8.
CONSTANTS
  MC_N = 8
  N = 8
  MINI_TASK_EXP = 1
  MAX_ON_THE_FLY = 2
  Workers = {1, 2}
  INIT_RELOAD = FALSE
  EXCL_RELOAD = FALSE
  CapToSort = 2
  CapToPair = 2
  OpenMayFail = FALSE
  None = None
  InitArrays <- MCInitArrays

SPECIFICATION Spec

INVARIANT TypeOK
INVARIANT TasksDisjoint
INVARIANT RecordedRunsSorted
INVARIANT SortedWhenDone
INVARIANT StartAfterAllReady
PROPERTY Termination
