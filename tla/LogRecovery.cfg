\* Crashes and failed writes at every cell; up to MaxLen cells
CONSTANTS
  leaf = leaf
  blob1 = blob1
  blob2 = blob2
  NoChunk = NoChunk
  Chunks = {leaf, blob1, blob2}
  Blobs = {blob1, blob2}
  Kids <- MCKids
  MaxLen = 18
SPECIFICATION Spec
INVARIANTS TypeOK RecoversLast NothingLeftOut
PROPERTY AckedBytesStay
CHECK_DEADLOCK FALSE
