CONSTANTS
  Workers = {w1, w2}
  WorkerIds = {id}
  Tokens = {t1, t2, t3, t4, t5}
  Nobody = Nobody
  IdOf <- SharedId
  Sessions = {s1}
  Ops <- FencedOps
  MaxStarts = 1
  MaxRuns = 3
  MaxApprovals = 2
  MaxAttempts = 2
  MaxFaults = 1
SPECIFICATION FairSpec
INVARIANTS NoLostWork OneLiveAttempt
PROPERTIES RunsSettle RunsFollow
CHECK_DEADLOCK FALSE
