SPECIFICATION PartsSpec
CONSTANTS
  Conns = {1,2}
  Domains = {"a","b"}
  Literals = {"ip"}
  ScopeOf <- MCScopeOf
  Grants <- MCGrants
  Requests <- MCRequests
  Hellos <- MCHellos
  Answers <- MCAnswers
  MaxConnections = 1
  MaxDnsAnswers = 2
  Workspace <- MCWorkspace
  Git <- MCGit
  AgentTmp <- MCAgentTmp
  SandboxHome <- MCSandboxHome
  Places <- MCPlaces
  LinkTo <- MCLinkTo
  Secrets <- MCSecrets
  Generated <- MCGenerated
  RuntimeBase <- MCRuntimeBase
  Trees <- MCTrees
  Calls <- MCCalls
  Abis = {0, 3, 4}
  NetworkAbi = 4
  MaxEntries = 6
  MaxRevisions = 2
  MaxChanges = 1
  MaxCommands = 1
  UserFiles <- MCUserFiles
  ProjectFiles <- MCProjectFiles
  LegacyFiles <- MCLegacyFiles
  Flags <- MCFlags
  RuleFiles <- MCRuleFiles
  RemoteFiles <- MCRemoteFiles
  Default <- MCDefault
  SystemCeiling = 5
  Profiles = {"workspace-dev", "ci", "read-only"}
  EgressDefault <- MCEgressDefault
  AnyHost = "*"
  Environment = {"VAR"}
  PlaceOf <- MCPlaceOf
  KeyFiles <- MCKeyFiles
  Absent = Absent
  Malformed = Malformed
  MaxEdits = 1
  MaxSetups = 1
  Window = 9
  Large = 4
  NameLength = 1
  PreserveExchanges = 2
  NamedAsks = 5
  Resumed <- MCResumed
  MaxTurns = 3
  MaxSteps = 2
  MaxIssued = 3
  MaxNotes = 1
  Toolbox <- MCToolbox
  SkillFiles <- MCSkillFiles
  Models = {"m", "n"}
  Efforts = {"high"}
  Objectives = {"o"}
  Criteria = {"c"}
  Ceiling <- MCCeiling
  Overrides <- MCOverrides
  Configured <- MCConfigured
  Unset = Unset
  MaxTyped = 2
  MaxRestarts = 1
  Pastes <- MCPastes
  Completions <- MCCompletions
  MaxUndo = 1
  NoDraft = NoDraft
  MaxLength = 2
  MaxLines = 2
  MaxKeys = 4
  MaxReads = 2
  Deltas <- MCDeltas
  Batch = {1, 2}
  MaxProse = 3
  MaxPieces = 2
  MaxRequests = 2
  Inputs <- MCInputs
  Windows <- MCWindows
  Prompts = {2, 9}
  Continuation = 2
  Gutter = 4
  SearchLabel = 23
  Names = {"docs", "blog", "localhost"}
  Scoped <- MCScoped
  WebHosts = {"docs", "localhost", "ip", "bench"}
  LookupAnswers <- MCLookups
  WireLimit = 3
  Chunks = {1, 2}
  NoAnswer = NoAnswer
  MaxFetches = 1
  HookFiles <- MCHookFiles
  Tools = {"edit", "shell"}
  MaxHookTurns = 1
  MaxHookSteps = 1
  MaxCalls = 2
  Sheets = {"main", "spec", "gen"}
  Folders <- MCFolders
  Texts = {1, 2}
  Blanked = 0
  Ignored = {"gen"}
  Skipped = {"gen"}
  ClassOf <- MCClassOf
  MaxScanFiles = 1
  MaxWrites = 2
  MaxShells = 1
INVARIANTS
  DialsChecked
  CommandConfined
  ProjectNarrows
  CredentialGuarded
  ConversationSound
  NarrowingHolds
  TerminalKept
  ScreenKept
  BlockKnown
  GateKept
  ToldIsLogged
  ChangesTold
PROPERTIES
  CompactionKeeps
  ToldWhatIsInForce
CHECK_DEADLOCK FALSE
