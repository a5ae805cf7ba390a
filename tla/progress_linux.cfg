\* One request and two faults, under fairness, with a drain-first cache policy.
SPECIFICATION FairSpec
CONSTANTS
  Provider = "github"
  RegistersStopped = FALSE
  DrainFirst = TRUE
  Verbs <- AllButRestart
  MaxRequests = 1
  MaxFaults = 2
  MaxRegs = 5
PROPERTIES RemovalEnds RequestsEnd
CHECK_DEADLOCK FALSE
