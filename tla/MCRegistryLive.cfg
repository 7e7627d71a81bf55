SPECIFICATION FairServerSpec
CONSTANTS
  Caller = {h1, h2}
  Sid = {s1}
  a = a
  Chunk <- MCChunk
  Bodies <- MCSingleBody
  MaxInMemory = 1
  MaxSize = 6
  MaxFaults = 0
  Starts = {0}
  MaxRequests = 2
  None = None
CHECK_DEADLOCK FALSE
PROPERTY EveryRequestAnswered
