SPECIFICATION Spec
CONSTANTS
  Agents = {a1}
  Writers = {}
  Dialogs = {}
  MaxGen = 2
  MaxRuns = 3
  MaxFrames = 1
  MaxResident = 1
  MaxScope = 2
  MaxQueue = 2
  Requests = {"spawn", "send", "send_interrupt", "respawn_message", "confirm_cleanup"}
  Faults = {"exit", "silence", "reject", "timeout", "stray", "unverified"}
  None = None
INVARIANTS NoStrandedQueue VerifiedMeansDead
PROPERTIES ImplementsLedger
CHECK_DEADLOCK FALSE
