SPECIFICATION Spec
CONSTANTS
  Agents = {"worker", "mute"}
  Stranger = "nobody"
  Tasks = {"task"}
  RootTools = {"Read", "Edit"}
  AgentTools <- MCAgentTools
  SkillTools <- MCSkillTools
  AgentLimit <- MCAgentLimit
  Requests <- MCRequests
  RootBudget <- MCRootBudget
  ChildBudget <- MCChildBudget
  Threshold = 1
  MaxDepth = 1
  MaxBatch = 2
  MaxChildBatch = 1
  MaxTurns = 2
INVARIANTS
  StoriesWhole
  ChargesRight
PROPERTIES
  CancelReachesChild
  TurnEnds
CHECK_DEADLOCK FALSE
