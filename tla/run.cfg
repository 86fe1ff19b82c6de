SPECIFICATION FairSpec
CONSTANTS
    Runner = runner
    Resumes = {r1}
    MaxIterations = 2
    MaxDeltas = 1
INVARIANTS
    BlockedDoesNotRun
PROPERTIES
    EveryRunnerEnds
    TerminalIsNotLost
    NoCallInTerminalRun
CHECK_DEADLOCK FALSE
