SPECIFICATION FairSpec
CONSTANTS
  Requests <- MCRequests
  Frames <- MCFrames
  ErrorIdle = 1
  ErrorChars = 2
  MaxChars = 2
  ChunkLen = 2
  MaxText = 2
INVARIANTS EndIsAdmitted BoundedSilence NoHalfAnswer
PROPERTIES ImplementsReply ExchangeEnds
CHECK_DEADLOCK FALSE
