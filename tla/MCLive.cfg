CONSTANTS
  Deliveries = {d1}
  Workers = {w1, w2}
  MaxAttempts = 2
  Fires = {f1, f2}
  Calls = {send, read}
  Protected = {send}
  Proposals = {p1}
  Cases = {c1}
  One = {w1}
  Session = {s1}
SPECIFICATION LiveSpec
INVARIANT TypesOK
PROPERTIES PromiseKept DeliveriesSettle ToolsHold SchedulesHold RowsFollow WorkEnds  TurnsHold IndexCatchesUp CallsReturn
CHECK_DEADLOCK FALSE
