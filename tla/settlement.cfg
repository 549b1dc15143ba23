SPECIFICATION FairSpec
CONSTANTS
  Agents = {a1}
  Writers = {}
  Dialogs = {}
  MaxGen = 2
  MaxRuns = 2
  MaxFrames = 1
  MaxResident = 1
  MaxScope = 2
  MaxQueue = 1
  Requests = {"spawn", "respawn", "send", "soft_interrupt"}
  Faults = {"exit", "ready", "timeout", "unowned"}
  None = None
PROPERTIES RunsSettle UnownedWorkStops 
CHECK_DEADLOCK FALSE
