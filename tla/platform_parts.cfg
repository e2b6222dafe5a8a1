SPECIFICATION PartsSpec
CONSTANTS
  u1 = u1
  u2 = u2
  t1 = t1
  t2 = t2
  p1 = p1
  r1 = r1
  r2 = r2
  Units = {u1, u2}
  TaskOf <- MCTaskOf
  ProductOf <- MCProductOf
  Given <- MCGiven
  Legacy <- MCLegacy
  Consumers = {c1, c2}
  Requests = {r1, r2}
  Offered <- MCOffered
  Amount = 10
  Posted = {50}
  Retries = 1
  MaxRequests = 2
  MaxFailures = 1
  Fraction = 2
  HourTicks = 4
  Hours = 3
  Days = 3
  Timeouts = {0, 1, 5}
  IdleSleep = 2
  Stall = 1
  Table <- MCTable
  MaxRounds <- MCMaxRounds
  Limit = 3
  MaxErrors = 1
  Scenarios <- MCScenarios
  Old <- MCOld
  MaxEvents = 2
  MaxIssued = 3
  MaxPosts = 1
  MaxRestarts = 1
SYMMETRY Symmetry
CONSTRAINT StrategyMatters
INVARIANTS
  PartsTypeOK
  OneQueuedCopy
  PriorityPopIsBest
  StoresAgree
  WindowIsKept
  LeftBehindExplained
  OneUnresolvedEvent
  AlertsFollowChecks
PROPERTIES
  AcknowledgedStays
CHECK_DEADLOCK FALSE
