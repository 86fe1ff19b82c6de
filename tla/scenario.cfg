SPECIFICATION SpecExecution
CONSTANTS
  Steps <- MCTwoSteps
  NumRuns = 2
  Workers = {w1}
  Readers = {d1}
  Capacity = 2
  MaxPosts = 2
  MaxBeats = 1
  MaxCrashes = 1
  CanDelete = TRUE
INVARIANTS
    EventsTellRun
    VerdictCoversRuns
    StreamEndsWithTheEnd
CHECK_DEADLOCK FALSE
