\* Two requests and no fault.
SPECIFICATION Spec
CONSTANTS
  Provider = "github"
  RegistersStopped = FALSE
  DrainFirst = FALSE
  Verbs <- DrainOrRestart
  MaxRequests = 2
  MaxFaults = 0
  MaxRegs = 2
PROPERTIES AcceptedIsPickedUp
CHECK_DEADLOCK FALSE
