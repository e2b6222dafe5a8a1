\* Two masters and two consumers share two rounds of one question; one retry, one
\* failure anywhere, and an operator who pauses and resumes.  The run stops when every
\* unit is settled or lost.
SPECIFICATION Spec
CONSTANTS
  a = a
  b = b
  u1 = u1
  u2 = u2
  u3 = u3
  m1 = m1
  m2 = m2
  c1 = c1
  c2 = c2
  Nothing = Nothing
  Tasks <- OneTask
  Unroutable = {}
  Units <- TwoUnits
  TaskOf <- OwnerOf
  RowOf <- RowOfUnit
  RoundOf <- RoundOfUnit
  Masters <- TwoMasters
  Consumers <- TwoConsumers
  Limit = 1
  MaxRetries = 1
  Operations = {"pause"}
  MaxRewrites = 0
  MaxFaults = 1
SYMMETRY Interchangeable
INVARIANTS
  TypeOK
  OneCopy
  AttemptsBounded
  DeadLetterSound
  OnlyFailuresLose
  FailureHasDeadLetter
CHECK_DEADLOCK FALSE
