\* CHECK_DEADLOCK is off: nothing happens once the walk, the diff, the completion is at its end.
CONSTANTS
  Listings = {"SqliteConversation", "SqliteGitCheckpoint", "AdapterConversation",
              "AdapterGitCheckpoint", "Members"}
  PageLimits = {1}
  MaxRows = 3
  MaxInstant = 2
  NoCursor = NoCursor
  Paths = {"p", "q"}
  Outside = "outside"
  Texts = {"x", "y"}
  Answers = {"stdout", "output"}
  KeepTurns = 0
  MaxTurns = 2
  MaxWrites = 1
  MaxRestarts = 1
  MemoryNames = {"n", "m"}
  MemoryBodies <- MCBodies
  MemoryIds = {"a", "b"}
  Changers = {"c1", "c2"}
  MaxChanges = 2
  MemoryTokens = 4
  DiffCases <- MCCases
  UnsafePaths = {"out"}
  Radius = 5
  Asks <- MCAsks
  MaxInputTokens = 10
  WarnPercent = 80
  HardPercent = 95
  Sizes = {7, 9, 10, 11}
  Estimates = {6, 11}
  MaxLLMRetries = 2
  SourceFiles = {"a", "b"}
  IgnoredFiles = {"t"}
  Symbols <- MCSymbols
  Reserved <- MCReserved
  Score <- MCScore
  Width <- MCWidth
  MapBudget = 5
  MaxEdits = 2
  MaxBuilds = 3
  Execs = {"x", "y"}
  Ways = {"local", "cloud"}
  Commands <- MCCommands
  HookFiles <- MCHookFiles
  ShellFiles = {"a"}
  Events = {"e"}
  HookCalls = {"1"}
  MaxHookChanges = 2
  WorkSessions = {"s", "t", "u"}
  OldRegions <- MCOldRegions
  NewRegions <- MCNewRegions
  Newcomers = {"s", "t"}
  MaxLines = 1
  MaxTasks = 2
  MaxRestores = 1
  Pids = {1, 2}
  Lookers <- MCLookers
  Stops = {"s"}
  MaxPolls = 2
  MaxPlanRetries = 1
  MaxFeedbacks = 2
  NameLetters = {"a", "b", "t", "u", "_", "?"}
  ServerNames <- MCServerNames
  ServerTools <- MCServerTools
  McpCalls = {"1", "2"}
  MaxServerFaults = 1
  KeepLast = 1
  Window = 5
  SnipPercent = 80
  FullPercent = 95
  MessageSizes = {2}
  Requesters = {"1", "2"}
  MaxLog = 7
SPECIFICATION Spec
INVARIANTS EveryRowOnce RestoresWhatWasRead MemoriesReachReaders SourceTrue
  DialogueFaithful ExecutionsTrue ExtensionsTrue CheckpointsTrue ProgramsTrue
CHECK_DEADLOCK FALSE
