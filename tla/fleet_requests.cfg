\* Two requests of any kind and their repeats, from one client.
SPECIFICATION Spec
CONSTANTS
  Runners = {r1, r2, r3}
  Clients = {c1}
  Keys = {k1, k2}
  Verbs = {"add", "drop", "retire", "adopt"}
  Capacity = 1
  MaxCapacity = 3
  Revives = FALSE
  Crashes = FALSE
SYMMETRY Alike
INVARIANT CapacityIsAsked
CHECK_DEADLOCK FALSE
