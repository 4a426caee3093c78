SPECIFICATION Spec
CONSTANTS
  Endpoints = {e1}
  e1 = e1
  Events = {v1,v2}
  v1 = v1
  v2 = v2
  MaxAttempts = 2
  MaxStalls = 1
  Threshold = 2
  SweepBatch = 1
  Faults = {"crash", "db", "redis", "lost", "evict"}
  MaxFaults = 1
  MaxReplays = 1
  Operators = {"enable", "delete"}
SYMMETRY Symmetry
INVARIANTS TypeOK DeliveredWasReceived FailuresAreDeliveries
CHECK_DEADLOCK FALSE
