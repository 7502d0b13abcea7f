SPECIFICATION Spec
CONSTANTS
  Calls <- MCCalls
  ChildTools = {"Write", "Move", "Shell", "Mcp"}
  Skills <- MCSkills
  BaseProfile = "workspace-dev"
  AgentProfile = "workspace-dev"
  RootLength = 12
  Registered <- MCRegistered
  Credential <- MCCredential
  StartModes = {"manual", "accept-edits", "auto"}
  MaxApprovals = 1
INVARIANTS
  NeverPastADeny
  PlanHolds
  ChildWithinParent
  LeasesCovered
CHECK_DEADLOCK FALSE
