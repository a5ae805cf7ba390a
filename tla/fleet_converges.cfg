\* One request of any kind, under fairness.
SPECIFICATION FairSpec
CONSTANTS
  Runners = {r1, r2, r3, r4}
  Clients = {c1}
  Keys = {k1}
  Verbs = {"add", "drop", "retire", "adopt"}
  Capacity = 2
  MaxCapacity = 3
  Revives = FALSE
  Crashes = FALSE
PROPERTIES Converges
CHECK_DEADLOCK FALSE
