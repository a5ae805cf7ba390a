SPECIFICATION ProgressSpec
CONSTANTS
  Controllers = {p1, p2}
  LeaseTicks = 2
  Pieces = 2
  MaxLeaseFaults = 3
  Fleet = {r1, r2}
  MaxTurnRequests = 3
  MaxTurnFaults = 2
  Requests = {q1}
  MaxRunners = 1
  MaxPolicies = 2
  MaxLendingFaults = 2
  MaxSequence = 7
  MaxDeliveryFaults = 2
PROPERTIES
  PassesGoOn TurnsComeRound LeasesEnd ResultArrives
CHECK_DEADLOCK FALSE
