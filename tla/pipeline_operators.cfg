\* One master and one consumer on one unit of task a and one of task b, which has no
\* LlmKey; one failure anywhere, one rewrite of the queue, and an operator who cancels,
\* creates and clears at any moment.
SPECIFICATION Spec
CONSTANTS
  a = a
  b = b
  u1 = u1
  u2 = u2
  u3 = u3
  Nothing = Nothing
  Tasks <- TwoTasks
  Unroutable <- TaskB
  Units = {u1, u3}
  TaskOf <- OwnerOf
  RowOf <- RowOfUnit
  RoundOf <- RoundOfUnit
  Masters = {m1}
  Consumers = {c1}
  Limit = 2
  MaxRetries = 1
  Operations = {"cancel", "create", "clear"}
  MaxRewrites = 1
  MaxFaults = 1
INVARIANTS
  StatusTruthful
PROPERTIES
  LifecycleSpec
CHECK_DEADLOCK FALSE
