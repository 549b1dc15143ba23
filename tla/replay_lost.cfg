SPECIFICATION ExecSpec
CONSTANTS
  Polls = {p1, p2}
  MaxPieces = 1
  MaxDeaths = 1
PROPERTIES ReplayKept
CHECK_DEADLOCK FALSE
