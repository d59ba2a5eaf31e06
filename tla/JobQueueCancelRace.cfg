\* One job, cancelled by one reader while another collects.
SPECIFICATION Spec
CONSTANTS
  Job = {1}
  Foreign = {}
  Capped = {}
  Readers = {r1, r2}
  Errands <- LookAndCancel1
  Abandonable = {}
  Mortal = {1}
  Recyclable = {}
INVARIANT CancelFirstWins
CHECK_DEADLOCK FALSE
