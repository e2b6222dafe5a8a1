\* One unit of one task and no retry: when the business task is closed.
SPECIFICATION FairSpec
CONSTANTS
  a = a
  b = b
  u1 = u1
  u2 = u2
  u3 = u3
  Nothing = Nothing
  Tasks <- OneTask
  Unroutable = {}
  Units <- OneUnit
  TaskOf <- OwnerOf
  RowOf <- RowOfUnit
  RoundOf <- RoundOfUnit
  Masters = {m1}
  Consumers = {c1}
  Limit = 1
  MaxRetries = 0
  Operations = {}
  MaxRewrites = 0
  MaxFaults = 0
INVARIANTS
  ClosedMeansAllCompleted
CHECK_DEADLOCK FALSE
