SPECIFICATION FairSpec
CONSTANTS
  Caller = {c1, c2}
  Sid = {s1}
  a = a
  Chunk <- MCChunk
  Bodies <- MCOneBody
  MaxInMemory = 0
  MaxSize = 2
  MaxFaults = 1
  None = None
CHECK_DEADLOCK FALSE
INVARIANT UploadSafety
PROPERTY UploadsEnd
