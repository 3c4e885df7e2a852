CONSTANTS
  c1 = c1
  c2 = c2
  w1 = w1
  w2 = w2
  NoTask = NoTask
  NoResult = NoResult
  Workers = {w1, w2}
  Coordinators = {c1, c2}
  Size <- MCSize
  BatchOf <- MCBatchOf
  RunOnce = {w2}
  CanCrash = {w1}
  CanExpire = {c1}
  CanStall = {}
SPECIFICATION Spec
INVARIANT TypeOK
INVARIANT AtMostOnce
INVARIANT Conserved
INVARIANT ResultAfterStatus
INVARIANT BatchIsolation
INVARIANT CompleteUnlessExpired
PROPERTY NoSecondRun
PROPERTY ImplementsScanBatch
CHECK_DEADLOCK FALSE
