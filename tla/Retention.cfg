\* Two sessions sweeping at once, one row of this build's and one of a newer
\* build's; the row of this build is surplus as soon as it is finished.
SPECIFICATION FairSweeps
CONSTANTS
  Job = {1, 2}
  Submitter = {p1, p2}
  Regular = {p1}
  Foreign = {2}
  Retain = 0
INVARIANTS LogsOfRowsStay ProofOutlivesQuestion
PROPERTIES AbandonedAnswerSurvives OrphansAreCollected
