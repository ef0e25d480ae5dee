\* The M5VL build of pingpong.cpp with its default burst of 7, one line of
\* m5_q_t, and one round.
CONSTANTS
  BUILD = "m5"
  burst = 7
  round = 1
  CAP = 1
SPECIFICATION Spec
INVARIANT EchoInOrder
