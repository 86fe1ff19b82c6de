SPECIFICATION SpecExecution
CONSTANTS
  Steps <- MCOneStep
  NumRuns = 1
  Workers = {w1}
  Readers = {d1}
  Capacity = 2
  MaxPosts = 1
  MaxBeats = 1
  MaxCrashes = 0
  CanDelete = FALSE
INVARIANTS
  NoEventPassedOver
CHECK_DEADLOCK FALSE
