CONSTANTS
  NodeCount = 4
  Preds <- Wide
  Workers = {w1, w2}
  Sessions = {s1}
  Commands = {}
  Nobody = Nobody
SPECIFICATION FairSpec
PROPERTY WorkflowSettles
CHECK_DEADLOCK FALSE
