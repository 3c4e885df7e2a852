CONSTANTS
  c1 = c1
  c2 = c2
  w1 = w1
  w2 = w2
  NoTask = NoTask
  NoResult = NoResult
  Workers = {w1}
  Coordinators = {c1, c2}
  Size <- MCSizeOne
  BatchOf <- MCBatchOf
  RunOnce = {}
  CanCrash = {}
  CanExpire = {}
  CanStall = {}
SPECIFICATION FairSpec
PROPERTY AllCoordinatorsCount
CHECK_DEADLOCK FALSE
