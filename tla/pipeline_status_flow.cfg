\* One unit of one task, one retry and no failure: how the row of a unit moves.
SPECIFICATION FairSpec
CONSTANTS
  a = a
  b = b
  u1 = u1
  u2 = u2
  u3 = u3
  Nothing = Nothing
  Tasks <- OneTask
  Unroutable = {}
  Units <- OneUnit
  TaskOf <- OwnerOf
  RowOf <- RowOfUnit
  RoundOf <- RoundOfUnit
  Masters = {m1}
  Consumers = {c1}
  Limit = 1
  MaxRetries = 1
  Operations = {}
  MaxRewrites = 0
  MaxFaults = 0
PROPERTIES
  FinishedIsFinal
CHECK_DEADLOCK FALSE
