SPECIFICATION Spec
CONSTANTS
  Requests <- MCRequests
  Frames <- MCFrames
  ErrorIdle = 1
  ErrorChars = 2
  MaxChars = 2
  ChunkLen = 1
  MaxText = 2
INVARIANT CapExplains
CHECK_DEADLOCK FALSE
