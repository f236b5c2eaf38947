CONSTANTS
  Workers = {w1, w2}
  Agents = {"a"}
  Skills = {}
  MaxVersion = 2
  MaxAttempts = 2
  Sessions = {"operator"}
  Commands = {"revise", "activate", "disable", "bindAgent"}
  Proposals = {p1, p2}
  Reviewed = {p1}
  Rollbacks = {r1}
SPECIFICATION CommandsSpec
INVARIANTS TypesOK IdentityIsFrozen TurnsAreKept StreamTellsState
PROPERTIES PointerMovesAreApproved ImprovementIsHonest RevisionsHold
SYMMETRY Symmetry
CHECK_DEADLOCK FALSE
