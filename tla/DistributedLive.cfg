CONSTANTS
  c1 = c1
  c2 = c2
  w1 = w1
  w2 = w2
  NoTask = NoTask
  NoResult = NoResult
  Workers = {w1, w2}
  Coordinators = {c1, c2}
  Size <- MCSizeOne
  BatchOf <- MCBatchOf
  RunOnce = {}
  CanCrash = {w1, c2}
  CanExpire = {c1}
  CanStall = {w1}
SPECIFICATION FairSpec
PROPERTY LoneCoordinatorCounts
PROPERTY CoordinatorsStop
CHECK_DEADLOCK FALSE
