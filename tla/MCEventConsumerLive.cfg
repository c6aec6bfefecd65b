SPECIFICATION FairSpec
CONSTANTS
  c1 = c1
  c2 = c2
  e1 = e1
  p1 = p1
  p2 = p2
  Consumers <- MCConsumers
  Events <- MCEvents
  Payloads <- MCOnePayload
  NoTask = NoTask
  RetryMaxAttempts = 2
  Concurrency = 1
  MaxEntries = 2
  MaxFaults = 1
PROPERTIES EventuallyAcked
CHECK_DEADLOCK FALSE
