SPECIFICATION AttentionDeliverySpec
CONSTANTS
  Notices = {n1}
  Questions = {}
  Calls = {c1, c2}
  MaxFrontends = 1
  MaxReceipts = 1
PROPERTIES ReleasedNotDelivered
CHECK_DEADLOCK FALSE
