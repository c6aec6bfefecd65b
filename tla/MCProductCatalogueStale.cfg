SPECIFICATION Spec
CONSTANTS
  x1 = x1
  x2 = x2
  a = a
  b = b
  w1 = w1
  w2 = w2
  Identities <- MCOneIdentity
  Contents <- MCContents
  SourceTimes <- MCKnownSourceTimes
  ReceiveTimes <- MCOneReceiveTime
  Workers <- MCWorkers
  None = None
  NumRecords = 2
  BatchSize = 2
  MaxPages = 2
INVARIANTS NewestWins
CHECK_DEADLOCK FALSE
