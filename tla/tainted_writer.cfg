SPECIFICATION Spec
CONSTANTS
  Agents = {a1, a2}
  Writers = {a1, a2}
  Dialogs = {}
  MaxGen = 1
  MaxRuns = 2
  MaxFrames = 1
  MaxResident = 2
  MaxScope = 2
  MaxQueue = 1
  Requests = {"spawn", "send", "interrupt"}
  Faults = {"unowned", "exit"}
  None = None
SYMMETRY AgentSymmetry
INVARIANTS WriterExclusion
CHECK_DEADLOCK FALSE
