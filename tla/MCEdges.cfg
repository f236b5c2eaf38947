CONSTANTS
  Writers = {w1, w2}
  MaxTags = 4
  MaxFaults = 1
SPECIFICATION EdgesSpec
INVARIANTS TypesOK ContextHolds ActsOnApproved  VoiceTurnsEnd
PROPERTIES  AppendsKeepText
SYMMETRY Symmetry
CHECK_DEADLOCK FALSE
