SPECIFICATION Spec
CONSTANTS
  c1 = c1
  c2 = c2
  e1 = e1
  p1 = p1
  p2 = p2
  Consumers <- MCConsumers
  Events <- MCEvents
  Payloads <- MCPayloads
  NoTask = NoTask
  RetryMaxAttempts = 2
  Concurrency = 1
  MaxEntries = 2
  MaxFaults = 2
INVARIANTS TypeOK EffectAtMostOnce NothingLost
PROPERTIES HandlingSpec
CHECK_DEADLOCK FALSE
SYMMETRY MCSymmetry
