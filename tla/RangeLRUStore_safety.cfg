SPECIFICATION FairSpec
CONSTANTS
  Readers = {r1, r2}
  Size = 3
  ChunkSize = 2
  CacheCapacity = 1
  MaxConcurrent = 1
  MaxAttempts = 2
  Requests <- Spans
INVARIANTS TypeOK CacheConsistent ReadExact PanicsOnlyClosed
PROPERTIES OneFetcher ReadReturns
