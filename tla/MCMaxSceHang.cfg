\* max_sce.c with a ring of two lines (64 in the code) and three rounds,
\* one more than the ring: main's cons.round = 0 can come after the
\* consumer has caught up with a producer a whole ring ahead.
CONSTANTS
  RING = 2
  MAX_ROUND = 3
SPECIFICATION Spec
PROPERTY Termination
\* The hang is two threads spinning, which the model shows as a stop.
CHECK_DEADLOCK FALSE
