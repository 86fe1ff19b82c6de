SPECIFICATION MCSpec
CONSTANTS
  Scenarios <- MCScenarios
  HasDeadline = TRUE
  MaxSteps = 5
  MaxActions = 2
  Steps <- MCOneStep
  NumRuns = 1
  Workers = {w1, w2}
  Readers = {}
  Capacity = 2
  MaxPosts = 3
  MaxBeats = 0
  MaxCrashes = 1
  CanDelete = TRUE
INVARIANTS
    ReportIsTrue
    ExecutedOncePerClaim
PROPERTIES
    AcceptedEnds
CHECK_DEADLOCK FALSE
