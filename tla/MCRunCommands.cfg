CONSTANTS
  Workers = {w1, w2}
  WorkerIds = {id}
  Tokens = {t1, t2, t3, t4, t5}
  Nobody = Nobody
  IdOf <- SharedId
  Sessions = {s1, s2}
  Ops <- CommandsInUse
  MaxStarts = 1
  MaxRuns = 3
  MaxApprovals = 2
  MaxAttempts = 2
  MaxFaults = 4
SPECIFICATION Spec
CONSTRAINT Scenario
INVARIANTS QueueCoherence WaitingIsBacked AttemptsBounded
PROPERTY NoStaleOutcome
SYMMETRY Symmetry
CHECK_DEADLOCK FALSE
