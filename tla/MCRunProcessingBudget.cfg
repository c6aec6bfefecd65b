SPECIFICATION Spec
CONSTANTS
  r1 = r1
  w1 = w1
  w2 = w2
  t1 = t1
  t2 = t2
  t3 = t3
  Runs <- MCRuns
  Workers <- MCWorkers
  Tokens <- MCTokens
  NoToken = NoToken
  NoRun = NoRun
  RunLength = 3
  BatchSize = 2
  MaxErrorPercent = 50
  MinSampleRows = 2
  MaxCommands = 2
  MaxFaults = 2
INVARIANTS BudgetBoundsCompletion
CHECK_DEADLOCK FALSE
