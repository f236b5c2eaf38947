CONSTANTS
  NodeCount = 4
  Preds <- Diamond
  Workers = {w1, w2}
  Sessions = {s1}
  Commands = {"start_run", "complete_run", "fail_run", "cancel_run", "cancel_task", "cancel_child"}
  Nobody = Nobody
SPECIFICATION Spec
INVARIANTS  OutcomeMatchesNodes
CHECK_DEADLOCK FALSE
SYMMETRY Symmetry
