CONSTANTS
  Run = {i1, i2}
  MaxPolls = 2
SPECIFICATION Spec
INVARIANTS
  TypeOK
  TimedOutOnlyIfUnanswered
  OldResultsOnlyIfOverlapped
PROPERTIES
  RunsEnd
CHECK_DEADLOCK FALSE
