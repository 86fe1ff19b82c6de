SPECIFICATION MCSpec
CONSTANTS
  Usages = {u1}
  Workers = {w1, w2}
  TtlSources = {"agent_summarized"}
  MaxChanges = 2
  MaxBuilds = 2
  Cited <- MCCited
  Contexts <- MCContexts
  Estimates = {10, 30}
  Given <- MCGiven
INVARIANTS
    FeedbackOnce
    ActiveWasEarned
    MissingEvidenceIsDiagnosed

    
CHECK_DEADLOCK FALSE
