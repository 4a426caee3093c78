SPECIFICATION ProgressSpec
CONSTANTS
  Candidates = {c1}
  c1 = c1
  Synthesis = synthesis
  MaxAttempts = 2
  MaxStalls = 1
  MaxFaults = 1
  Ceilings = {"halted", "budget"}
  Clients = {u1, u2}
  u1 = u1
  u2 = u2
  Odd = {u2}
  Attempts = 2
  Mishaps = {"refuse", "error", "crash", "record", "lost", "sweep"}
  MaxMishaps = 2
  MaxExpiries = 1
  Nobody = Nobody
  Publishers = {p1}
  p1 = p1
  Readers = {r1, r2}
  r1 = r1
  r2 = r2
  PageSize = 2
  StreamMaxLen = 9
  MaxEvents = 3
  MaxBusFaults = 0
  MaxDrops = 1
  Tenants = {t1, t2}
  t1 = t1
  t2 = t2
  Models = {m}
  m = m
  Sweepers = {w1, w2}
  w1 = w1
  w2 = w2
  DefaultDays = 1
  MaxDays = 2
  LastDay = 2
  MaxRecords = 2
  MaxSweepFaults = 1
  Panel = {"c1"}
  MaxTries = 2
  MaxBreaks = 1
  MaxUnlogged = 1
INVARIANT KeyHolds
PROPERTIES
  LifecycleConcludes
  ImplementsFeed
  StreamEnds
  ClaimsEnd
  RollupHolds
  ViewCatchesUp
CHECK_DEADLOCK FALSE
