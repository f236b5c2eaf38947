CONSTANTS
  MaxChars = 14
  MinCore = 6
  MaxSkills = 3
  MaxAgent = 4
  Sep = 1
  MaxItems = 1
  SkillLens = {0}
  AgentLens = {0}
  DelegatedLens = {0}
  WorkflowLens = {3}
  MemoryLens = {0}
  MessageLens = {}
SPECIFICATION Spec
INVARIANT SchedulerAgrees
CHECK_DEADLOCK FALSE
