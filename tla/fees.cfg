SPECIFICATION Spec
CONSTANTS
  Paid = {0, 1, 37}
  MaxSamples = 7
  ChunkSize = 3
  Chunks = 2
  Window = 3
  Unit = 128
  Ulps = {1, 2, 4, 8, 16, 32, 64, 128, 256, 512, 1024, 2048, 4096}
  Largest = 140000
  priority_fee = 3
  max_rpc_priority_fee = 20
INVARIANTS TypeOK LocalIsPercentile AveragesLastSlots CoversMean
CHECK_DEADLOCK FALSE
