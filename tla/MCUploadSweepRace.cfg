SPECIFICATION Spec
CONSTANTS
  Caller = {c1}
  Sid = {s1, s2}
  a = a
  Chunk <- MCChunk
  Bodies <- MCOneBody
  MaxInMemory = 0
  MaxSize = 1
  MaxFaults = 1
  None = None
CHECK_DEADLOCK FALSE
INVARIANT SweepSparesReceiving
