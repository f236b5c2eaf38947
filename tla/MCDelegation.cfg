SPECIFICATION FairSpec
CONSTANTS
  Workers = {w1, w2}
  Ops <- Disturbing
  MaxRuns = 4
  MaxRequests = 2
  PerRun = 1
  PerTree = 2
  MaxDepth = 2
  MaxAttempts = 2
  MaxEvents = 2
INVARIANTS  WaitsAreBacked
PROPERTY DelegationsHold
CHECK_DEADLOCK FALSE
