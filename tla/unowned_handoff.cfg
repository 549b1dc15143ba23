SPECIFICATION Spec
CONSTANTS
  Agents = {a1}
  Writers = {}
  Dialogs = {}
  MaxGen = 2
  MaxRuns = 2
  MaxFrames = 1
  MaxResident = 1
  MaxScope = 2
  MaxQueue = 1
  Requests = {"spawn", "respawn"}
  Faults = {"unowned"}
  None = None
INVARIANTS ReplacedWorkerHasNoRun
CHECK_DEADLOCK FALSE
