\* The defaults of utils.hpp and firewall.cpp, with a pool of 16: one
\* stage1 thread, bulks of 8, bad packets held over 64 bulks, 16 packets.
CONSTANTS
  NUM_STAGE1 = 1
  POOL_SIZE = 16
  BULK_SIZE = 8
  MISTAKE_GATHER_RETRY = 64
  num_packets = 16
SPECIFICATION Spec
INVARIANT AllPacketsReported
