SPECIFICATION Spec
CONSTANTS
  MaxInputs = 2
  MaxTasks = 2
  MaxQueued = 2
  Keys = {k1}
  Conns = {p1, p2}
  MaxSends = 4
  MaxBoots = 2
  MaxFrames = 5
  MaxBytes = 6
  MaxPending = 3
  HighWater = 2
  Polls = {p1, p2}
  MaxPieces = 1
  MaxDeaths = 1
  Searchers = {p1, p2}
  MaxSlots = 2
  MaxServices = 2
  MaxSearching = 1
  MaxWaiting = 1
  Spare = 0
  Hosts = {p1, p2}
  MaxFetches = 2
  MaxStarts = 3
  Searches = {p1, p2}
  Targets = {t1}
  Budgets = {3, 5}
  MaxInodes = 2
  MaxSize = 2
  MaxConfigs = 1
  ControlReserve = 0
  Requests = {r1}
  FileCount = 2
  Texts = {x1, x2}
  NoText = none
  MaxEdits = 3
  MaxRequests = 2
  Notices = {n1}
  Questions = {n1}
  Calls = {c1}
  MaxFrontends = 2
  MaxReceipts = 3
INVARIANTS TypesOK InputSound AdmissionSound OutputKept CommandsAccounted ServiceSound WebSound CacheSound ScopeSound WatcherAlive
PROPERTIES ConsumedStays KeepsPromise
SYMMETRY Peers
CHECK_DEADLOCK FALSE
