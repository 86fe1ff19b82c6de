SPECIFICATION SpecExecution
CONSTANTS
  Steps <- MCOneStep
  NumRuns = 1
  Workers = {w1, w2}
  Readers = {d1}
  Capacity = 2
  MaxPosts = 2
  MaxBeats = 0
  MaxCrashes = 0
  CanDelete = FALSE
INVARIANTS
  NotExecutedTwice
CHECK_DEADLOCK FALSE
