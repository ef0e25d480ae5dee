\* pipeline.cpp with its pool fill as written: 2 stage1 threads, 1 stage2,
\* a pool of 10 in three full bulks of 4 (the last of them four pointers
\* to header 8) and 10 packets.
CONSTANTS
  NUM_STAGE1 = 2
  NUM_STAGE2 = 1
  POOL_SIZE = 10
  BULK_SIZE = 4
  num_packets = 10
SPECIFICATION Spec
INVARIANT PacketsNumbered
