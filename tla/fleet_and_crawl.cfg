\* The heartbeats in ticks of five seconds: ttl 30 s, a beat every 10 s, a check every
\* 30 s, and --stale-after 25, below the ttl, so that the checker has something to report.
SPECIFICATION MCSpec
CONSTANTS
  q1 = q1
  q2 = q2
  MinConsumers = 1
  Defaults = {0, 2}
  MaxWorkers = 4
  MaxCommands = 2
  MaxCrashes = 1
  Unpublished = Unpublished
  Threads = {1, 2}
  Runs <- MCRuns
  Default = "f1"
  LegacyTasks = {1, 2, 3, 4, 5, 6, 7}
  Questions = {q1, q2}
  NoQuestion = NoQuestion
  Null = Null
  Kind <- MCKind
  Created <- MCCreated
  Rounds <- MCRounds
  Worlds <- MCWorlds
  MaxRestarts = 1
  Consumers = {c1}
  Ttl = 6
  BeatEvery = 2
  CheckEvery = 6
  StaleAfter = 5
  MaxLate = 1
  CheckMayFail = TRUE
INVARIANTS
  PartTypeOK
  RunningAsWanted
  NoFalseAlarm
  StatusExplained
  RepliesExplained
  OwnSnippets
  StoredBeforeReported
  AskedOnce
  DoneMeansAsked
PROPERTIES
  SupervisorKeepsMinimum
  FleetSettles
  BeatingStaysListed
  GoneIsUnlisted
  EveryTaskIsTaken
CHECK_DEADLOCK FALSE
