SPECIFICATION Spec
CONSTANTS
  Requested = "asked"
  AbortAfter = 2
  History <- MCHistory
  MaxCommits = 3
  ScanLimit = 4
  Soft <- MCSoft
  Replies <- MCReplies
  MaxFaults = 2
  Rival <- MCRival
  Reference <- MCReference
INVARIANTS
  UncountedIsWarned
CHECK_DEADLOCK FALSE
