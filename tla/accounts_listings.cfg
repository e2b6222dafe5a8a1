\* Two listings synchronise while two workers take turns at a task and an operator
\* disables the account and makes it available again; one failure.
SPECIFICATION FairSpec
CONSTANTS
  k1 = k1
  k2 = k2
  Nothing = Nothing
  Accounts = {k1}
  Rank <- RankOf
  MaxTasks = 1
  Workers = {w1, w2}
  Tasks = {t1}
  MaxRetries = 1
  Listings = {s1, s2}
  Operations = {"sync", "dashboard"}
  MaxFaults = 1
INVARIANTS
  UseIsCounted
  TableComesBack
PROPERTIES
  EveryTaskEnds
CHECK_DEADLOCK FALSE
