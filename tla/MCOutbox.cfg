SPECIFICATION FairSpec
CONSTANTS
  e1 = e1
  e2 = e2
  r1 = r1
  r2 = r2
  t1 = t1
  t2 = t2
  t3 = t3
  t4 = t4
  Events <- MCEvents
  Relays <- MCRelays
  Tokens <- MCTokens
  NoToken = NoToken
  NoEvent = NoEvent
  BatchSize = 2
  MaxAttempts = 2
  MaxFaults = 1
INVARIANTS TypeOK ClaimImpliesPending DuplicatesAccounted AttemptsAreRefusals
CHECK_DEADLOCK FALSE
PROPERTIES DeliverySpec EventuallySettled
