\* A request and its repeats from two clients, cut off and taken back.
SPECIFICATION Spec
CONSTANTS
  Runners = {r1, r2, r3}
  Clients = {c1, c2}
  Keys = {k1}
  Verbs = {"add", "drop", "retire", "adopt"}
  Capacity = 2
  MaxCapacity = 3
  Revives = TRUE
  Crashes = TRUE
SYMMETRY Alike
INVARIANTS AppliedOnce
PROPERTIES MeetsTheCapacity
CHECK_DEADLOCK FALSE
