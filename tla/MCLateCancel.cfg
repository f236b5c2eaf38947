CONSTANTS
  Workers = {w1}
  WorkerIds = {id}
  Tokens = {t1, t2, t3, t4}
  Nobody = Nobody
  IdOf <- SharedId
  Sessions = {s1}
  Ops = {"startRun", "cancel"}
  MaxStarts = 1
  MaxRuns = 1
  MaxApprovals = 0
  MaxAttempts = 1
  MaxFaults = 0
SPECIFICATION Spec
PROPERTY TerminalImmutable
CHECK_DEADLOCK FALSE
