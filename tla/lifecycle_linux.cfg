\* A GitHub runner in a Linux container or a Windows service.
SPECIFICATION RunnerJobsSpec
CONSTANTS
  Provider = "github"
  RegistersStopped = FALSE
  DrainFirst = FALSE
  Verbs <- AllVerbs
  MaxRequests = 2
  MaxFaults = 3
  MaxRegs = 3
  Repos = {ra, rb}
  MaxHookFaults = 1
  GuardStale = 2
  ProofFresh = 1
  MaxHookChanges = 1
  BudgetFresh = 1
  StorageFresh = 1
  LastMoment = 3
INVARIANTS
  NothingLeftBehind
  HooksServeTheJob
  
PROPERTIES NeverAbortsAJob OnlyLegalMoves
CHECK_DEADLOCK FALSE
