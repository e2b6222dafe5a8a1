\* One account, two workers and one listing, no failure.
SPECIFICATION Spec
CONSTANTS
  k1 = k1
  k2 = k2
  Nothing = Nothing
  Accounts = {k1}
  Rank <- RankOf
  MaxTasks = 1
  Workers = {w1, w2}
  Tasks = {t1, t2}
  MaxRetries = 0
  Listings = {s1}
  Operations = {"sync"}
  MaxFaults = 0
INVARIANTS
  NeverOverused
CHECK_DEADLOCK FALSE
