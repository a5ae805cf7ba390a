SPECIFICATION WorkersSpec
CONSTANTS
  Calls = {c1, c2}
  DestructiveCalls = {c1}
  MaxOperations = 1
  MaxCallFaults = 1
  Sources = {s1, s2}
  Nobody = Nobody
  Maintainers = {m1}
  LastEvent = 2
  MaxEvents = 2
  OutboxLimit = 1
  MaxSourceFaults = 1
  MaxTransit = 1
  MaxBeatFaults = 1
  Hosts = {h1, h2}
  Home = h1
  SameNames = FALSE
  LaterBy = "worker"
  MaxClears = 1
  LastSecond = 1
  MaxLedgerFaults = 1
  MaxBoxCalls = 4
  MaxBoxCuts = 2
  MaxServiceCalls = 4
  MaxServiceCuts = 2
  MaxJobCalls = 4
  MaxJobCuts = 2
  MaxPoolCalls = 5
  MaxPoolCuts = 2
  LastLogged = 6
  MaxLogFaults = 2
INVARIANTS
  CallsHold
  EventsAreKept
  InventoryIsTrue
  AuthorityHolds
  
  LogRunsAreRight
PROPERTIES
  
  EveryUnitKeepsTheContract EveryDiskKeepsItsData
CHECK_DEADLOCK FALSE
