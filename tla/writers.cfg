SPECIFICATION Spec
CONSTANTS
  Agents = {a1, a2}
  Writers = {a1, a2}
  Dialogs = {}
  MaxGen = 2
  MaxRuns = 2
  MaxFrames = 1
  MaxResident = 2
  MaxScope = 2
  MaxQueue = 1
  Requests = {"spawn", "respawn", "send_interrupt", "confirm_cleanup"}
  Faults = {"exec", "unverified"}
  None = None
SYMMETRY AgentSymmetry
INVARIANTS WriterExclusion NoDeadlock
CHECK_DEADLOCK FALSE
