SPECIFICATION Spec
CONSTANTS
  MaxGoals = 2
  MaxUsed = 2
  MaxTickets = 1
  MaxBranches = 1
  GoalBudget = 1
  McpCallers = {c1}
  MaxClients = 2
  MaxChanges = 1
  MaxTurns = 2
  MaxSwitches = 1
  MaxChains = 1
  Window = 2
  HoldWork = 2
  WaitWork = 1
  MaxRequests = 1
  MaxWork = 2
  MaxToggles = 1
  LspCalls = {c1}
  MaxEvents = 3
  MaxNews = 2
  InitialQueries = 1
  Providers = 2
  MaxAdded = 2
  MaxSources = 4
  MaxCheckpoints = 2
  MaxMoves = 2
  Singles = 1
  Multis = 1
  OptionCount = 2
  MaxOthers = 1
INVARIANTS TypesOK  SessionCoherent CondenseSound OccAccountable NothingLeftBehind CurationSound QuestionnaireSound
PROPERTIES  NothingMisplaced
CHECK_DEADLOCK FALSE
