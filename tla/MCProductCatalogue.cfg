SPECIFICATION Spec
CONSTANTS
  x1 = x1
  x2 = x2
  a = a
  b = b
  w1 = w1
  w2 = w2
  Identities <- MCIdentities
  Contents <- MCContents
  SourceTimes <- MCSourceTimes
  ReceiveTimes <- MCOneReceiveTime
  Workers <- MCWorkers
  None = None
  NumRecords = 3
  BatchSize = 2
  MaxPages = 2
INVARIANTS TypeOK VersionsFormChain NewestWinsUnlessOutrun CountersMatchRows
PROPERTIES WatermarksRise
CHECK_DEADLOCK FALSE
SYMMETRY MCSymmetry
