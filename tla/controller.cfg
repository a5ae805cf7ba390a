SPECIFICATION ControlSpec
CONSTANTS
  Controllers = {p1, p2}
  LeaseTicks = 2
  Pieces = 2
  MaxLeaseFaults = 3
  Fleet = {r1, r2, r3}
  MaxTurnRequests = 2
  MaxTurnFaults = 1
  Requesters = {c1, c2}
  Keys = {k1, k2}
  MaxRowWrites = 3
  MaxLimitFaults = 1
  Requests = {q1, q2}
  MaxRunners = 2
  MaxPolicies = 1
  MaxLendingFaults = 1
  MaxSequence = 7
  MaxDeliveryFaults = 2
  AlarmRunners = {r1}
  Expected = {r1}
  Jobs = {j1}
  Takers = {r1}
  AlarmAfter = 2
  SweepAge = 1
  MAX_ATTEMPTS = 2
  MaxForgeChanges = 2
  MaxAlarmFaults = 1
  Placed = {r1, r2}
  Machines = {m1, m2}
  Large = {m1}
  LargeCores = 2
  SmallCores = 1
  MemoryBudget = 3
  MaxMemory = 2
  NoMachine = NoMachine
  MaxLimitChanges = 1
  MaxPlacingFaults = 1
  LastHappening = 4
  Leads = 1
  Lags = 1
  MaxBacklog = 1
  MaxHistoryFaults = 0
INVARIANTS
  OnePass OneAtATime RaisedOnce NeverOvercommitted 
PROPERTIES
  RetryIsSafe LoansAreKept BuiltAsRecorded ResultsFollowTheLease
CHECK_DEADLOCK FALSE
