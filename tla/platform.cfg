SPECIFICATION MCSpec
CONSTANTS
  Definitions <- MCDefinitions
  Places = {1, 2, 3, 4}
  Requests = {r1, r2, r3}
  Capacity = 2
  MaxVersions = 2
  Writers = {w1, w2}
  Publishers = {p1, p2}
  MaxEvents = 3
  MaxAttempts = 2
  Batch = 2
  Page = 2
  MaxFaults = 1
  MaxSteps = 2
  Senders = {s1}
  MaxMessages = 3
  Kept = 2
  RowsOfRun <- MCRows
  CurrentLevel = 3
  StaticReasons <- MCReasons
  MissingFaults = {}
  Configured = TRUE
  Deprecated = {"scenario_execute_dry_run"}
  CaseLists <- MCLists
  MaxRequests = 1
  Strangers <- MCStrangers
INVARIANTS NodeCalledOnce RowsFollowRoutes
INVARIANTS LogIsReplayable StreamTellsLog DeliveredOrGivenUp PollerMissesNothing
INVARIANTS PromotionIsEarned P0StopsAndIsShown 
PROPERTIES SubmittedFlowEnds SkillStreamEnds IdleSessionIsReleased
CHECK_DEADLOCK FALSE
