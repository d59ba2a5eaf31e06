SPECIFICATION Spec
CONSTANTS
  Processes = {"a", "b", "n"}
  Lookers = {"b"}
  Build <- MCBuild
  MaxRetries = 1
  MaxOthers = 1
  Contents <- MCContents
  Requests <- MCRequests
  BaseOf <- MCBaseOf
  OriginOf <- MCOriginOf
  QueryOf <- MCQueryOf
  \* Every table of up to two rows, and of three whose clocks are in order.
  Seqs = {1, 2, 3}
  Detailed = 2
INVARIANTS
  HandlesAreSound
  SentAsAuthorised
  AbandonIsReliable
  StatusIsHonest
CHECK_DEADLOCK FALSE
