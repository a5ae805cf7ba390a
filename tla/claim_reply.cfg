SPECIFICATION LedgerSpec
CONSTANTS
  Hosts = {h1}
  Home = h1
  MaxEvents = 2
  LaterBy = "worker"
  SameNames = TRUE
  MaxClears = 1
  LastSecond = 0
  MaxLedgerFaults = 0
INVARIANT
  ReplyNeverOverwrites
CHECK_DEADLOCK FALSE
