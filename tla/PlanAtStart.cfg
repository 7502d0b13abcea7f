SPECIFICATION Spec
CONSTANTS
  Calls <- MCCalls
  ChildTools = {"Write", "Move", "Shell", "Mcp"}
  Skills <- MCSkills
  BaseProfile = "workspace-dev"
  AgentProfile = "workspace-dev"
  RootLength = 12
  Registered <- MCRegistered
  Credential <- MCCredential
  StartModes = {"plan"}
  MaxApprovals = 1
INVARIANT PlanHolds
CHECK_DEADLOCK FALSE
