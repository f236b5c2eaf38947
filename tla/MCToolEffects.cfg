CONSTANTS
  Workers = {w1, w2}
  WorkerIds = {id}
  Tokens = {t1, t2, t3}
  Nobody = Nobody
  IdOf <- SharedId
  Sessions = {s1, s2}
  Ops <- EveryOp
  Calls = {send, post}
  Protected = {send, post}
  MaxApprovals = 2
  MaxInvocations = 2
  MaxGen = 2
  MaxCrashes = 1
  MaxStalls = 1
SPECIFICATION Spec
CONSTRAINT Scenario
INVARIANTS ProtectedOnce EffectsWereGranted
SYMMETRY Symmetric
CHECK_DEADLOCK FALSE
