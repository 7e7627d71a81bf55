SPECIFICATION ServerSpec
CONSTANTS
  Caller = {h1, h2}
  Sid = {s1}
  a = a
  Chunk <- MCChunk
  Bodies <- MCOneBody
  MaxInMemory = 1
  MaxSize = 6
  MaxFaults = 0
  Starts = {0, 1}
  MaxRequests = 2
  None = None
CHECK_DEADLOCK FALSE
INVARIANT RetriedPutIsNotRefused
