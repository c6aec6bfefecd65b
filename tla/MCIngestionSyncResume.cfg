SPECIFICATION Spec
CONSTANTS
  s1 = s1
  s2 = s2
  o1 = o1
  Syncs <- MCSyncs
  Operators <- MCOperators
  FeedLength = 2
  BatchSize = 1
  PageSize = 1
  MaxErrorPercent = 50
  MinSampleRows = 1
  MaxRuns = 2
INVARIANTS PassedRowsQueued
CHECK_DEADLOCK FALSE
