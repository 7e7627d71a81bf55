SPECIFICATION ServerSpec
CONSTANTS
  Caller = {h1, h2}
  Sid = {s1}
  a = a
  Chunk <- MCChunk
  Bodies <- MCBodies
  MaxInMemory = 1
  MaxSize = 6
  MaxFaults = 1
  Starts = {0}
  MaxRequests = 2
  None = None
SYMMETRY Symmetry
CHECK_DEADLOCK FALSE
INVARIANTS RangeHonoured BlobsMatchDigest SessionsSurviveOrEnd
