SPECIFICATION MoneySpec
CONSTANTS
  Slots = {q1, q2}
  q1 = q1
  q2 = q2
  Replicas = {r1, r2}
  r1 = r1
  r2 = r2
  Operator = Operator
  Refresh = 2
  ConcurrentRuns = 1
  Workspaces = {w1, w2}
  w1 = w1
  w2 = w2
  Person = person
  Subs = {s1}
  s1 = s1
  Grace = 2
  MaxDay = 3
  MaxReports = 2
  MaxBillingFaults = 1
SYMMETRY Symmetry
INVARIANTS
  StopReachesApi
  CapReachesApi
  ReleaseReachesApi
  OvershootIsBounded
  DunningEnds
  StampFitsMonth
CHECK_DEADLOCK FALSE
