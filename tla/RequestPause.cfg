SPECIFICATION RequestsSpec
CONSTANTS
  Words = {w1, w2}
  Baseline = base
  FuzzConcurrency = 2
  ConfiguredRps = 4
  Second = 4
  MaxRetries = 3
  PauseTicks = 5
  RetryDelays = {2}
PROPERTY LevelThreePauses
CHECK_DEADLOCK FALSE
