SPECIFICATION Spec
CONSTANTS
  Workers = {w1}
  Ops <- OnlyCancelTask
  MaxRuns = 2
  MaxRequests = 1
  PerRun = 1
  PerTree = 1
  MaxDepth = 1
  MaxAttempts = 1
  MaxEvents = 1
INVARIANT TerminalizedTogether
CHECK_DEADLOCK FALSE
