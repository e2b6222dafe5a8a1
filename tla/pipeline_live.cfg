\* No failure and no operator: one master and one consumer on three units of two
\* tasks; the limit fetches one row per cycle, and no task has two rows.
SPECIFICATION FairSpec
CONSTANTS
  a = a
  b = b
  u1 = u1
  u2 = u2
  u3 = u3
  Nothing = Nothing
  Tasks <- TwoTasks
  Unroutable = {}
  Units <- AllUnits
  TaskOf <- OwnerOf
  RowOf <- RowOfUnit
  RoundOf <- RoundOfUnit
  Masters = {m1}
  Consumers = {c1}
  Limit = 1
  MaxRetries = 1
  Operations = {}
  MaxRewrites = 0
  MaxFaults = 0
PROPERTIES
  EveryUnitSettled
CHECK_DEADLOCK FALSE
