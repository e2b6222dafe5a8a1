\* Two accounts, two workers and two tasks; operators change statuses, one failure.
SPECIFICATION Spec
CONSTANTS
  k1 = k1
  k2 = k2
  Nothing = Nothing
  Accounts = {k1, k2}
  Rank <- RankOf
  MaxTasks = 1
  Workers = {w1, w2}
  Tasks = {t1, t2}
  MaxRetries = 1
  Listings = {}
  Operations = {"dashboard", "patch"}
  MaxFaults = 1
INVARIANTS
  TypeOK
  CountCoversUse
  CountExact
  AnsweredOnce
SYMMETRY
  Interchangeable
CHECK_DEADLOCK FALSE
