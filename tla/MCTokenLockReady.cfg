\* lockhammer's VL lock with three threads; mkvl(0) returns 3, the first
\* descriptor after the standard streams.
CONSTANTS
  IMPL = "vlink"
  N = 3
  ITER = 1
  MKVL_FD = 3
SPECIFICATION Spec
INVARIANT ReadyCountsArrivals
