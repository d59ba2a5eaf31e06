\* Two jobs whose workers may die, the second a newer build's, and readers
\* about whom nothing is assumed but where a property says so.
SPECIFICATION FairWorkers
CONSTANTS
  Job = {1, 2}
  Foreign = {2}
  Capped = {}
  Readers = {r1}
  Errands <- LookOnly
  Abandonable = {1}
  Mortal = {1, 2}
  Recyclable = {}
INVARIANT ForeignRowsAreLeft
PROPERTIES WaiterResolves EverySubmissionSettles
CHECK_DEADLOCK FALSE
