SPECIFICATION Spec
CONSTANTS
  a1 = a1
  a2 = a2
  w1 = w1
  w2 = w2
  Admins <- MCAdmins
  Workers <- MCWorkers
  Rates <- MCRates
  TicksPerSecond = 2
  MaxStamp = 2
  MaxEdits = 2
  MaxClock = 1
  MaxLimiters = 2
  None = None
INVARIANTS TypeOK AdapterMatchesSource RateBounded SourceRateKept
CHECK_DEADLOCK FALSE
SYMMETRY MCSymmetry
