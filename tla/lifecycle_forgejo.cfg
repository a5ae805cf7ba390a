\* A Forgejo runner in a macOS guest, drained on its worker, its cache cleared
\* drain-first.
SPECIFICATION Spec
CONSTANTS
  Provider = "forgejo"
  RegistersStopped = TRUE
  DrainFirst = TRUE
  Verbs <- AllVerbs
  MaxRequests = 2
  MaxFaults = 3
  MaxRegs = 2
INVARIANTS IInv ClearedAtRest RecordIsItsOwn
CHECK_DEADLOCK FALSE
