SPECIFICATION Spec
CONSTANTS
  Agents = {a1}
  Writers = {}
  Dialogs = {d1}
  MaxGen = 2
  MaxRuns = 2
  MaxFrames = 1
  MaxResident = 1
  MaxScope = 2
  MaxQueue = 1
  Requests = {"spawn", "send", "respawn", "close", "interrupt", "answer"}
  Faults = {"crash", "shutdown", "protocol", "exit", "stray", "ready", "timeout"}
  None = None
INVARIANTS TypeOK RunsOwned ProjectionsActive
PROPERTIES  ReaderFailureIsLocal TerminalStays
CHECK_DEADLOCK FALSE
