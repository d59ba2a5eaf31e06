\* Two jobs, and everything that can happen to the older.
SPECIFICATION Spec
CONSTANTS
  Job = {1, 2}
  Foreign = {}
  Capped = {2}
  Readers = {r1}
  Errands <- LookAndCancel1
  Abandonable = {1}
  Mortal = {1}
  Recyclable = {1}
INVARIANTS RecoverySparesTheLiving CancelledIsConfirmed AnswerKept OneCall
PROPERTIES ImplementsSlot NoOvertaking
CHECK_DEADLOCK FALSE
