SPECIFICATION MCSpec
CONSTANTS
    Runs = {r1}
    Owners = {scheduler, thread}
    Scheduler = scheduler
    NumTargets = 1
    RetryCount = 1
    MaxSlow = 1
    MaxCrashes = 1
    None = None
    Plans = {p1}
    Envs = {e1, e2}
    Schedulers = {s1, s2}
    Clients = {c1, c2}
    Deliveries = {d1}
    ManualKeys = {k1}
    Bodies = {"a", "b"}
    MaxClock = 3
    MaxVersion = 2
    MaxDeaths = 1
INVARIANTS
    TargetsRanAsSaid
    TriggersAreIdempotent
PROPERTIES
    FinishedStaysFinished
    EveryRunEnds
    DueIsFired
CHECK_DEADLOCK FALSE
