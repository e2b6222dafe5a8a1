\* The defaults, in ticks of five seconds: ttl 30 s, stale after 60 s.
SPECIFICATION HeartbeatFairSpec
CONSTANTS
  Consumers = {c1}
  Ttl = 6
  BeatEvery = 2
  CheckEvery = 6
  StaleAfter = 12
  MaxLate = 1
  CheckMayFail = FALSE
PROPERTIES
  KilledIsReported
CHECK_DEADLOCK FALSE
