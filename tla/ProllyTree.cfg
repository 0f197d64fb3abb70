CONSTANTS
  MaxKey = 6
  KeySize <- OneLong
  Depth = 6
  Vals = {1, 2}
  MinSize = 2
  MaxSize = 3
  Hashes <- SomeHashes
  Bases <- SomeBases
  Batch <- Batches
SPECIFICATION Spec
INVARIANTS TypeOK HoldsWritten SameChunks DiffIsComplete MergeIsExact
CHECK_DEADLOCK FALSE
