SPECIFICATION FleetSpec
CONSTANTS
  c1 = c1
  c2 = c2
  e = e
  p1 = p1
  p2 = p2
  r1 = r1
  q1 = q1
  q2 = q2
  o1 = o1
  o2 = o2
  h1 = h1
  Candidates = {c1, c2}
  Evaluators = {e}
  Runs = {"panel", "other"}
  RunOf <- MCRunOf
  Workers = {p1, p2}
  Refresh = 1
  Ceiling = 1
  Permits = 1
  Threshold = 1
  Cooldown = 1
  Replicas = {"p1", "p2"}
  Credentials = {"c1", "c2"}
  Addresses = {"a"}
  Window = 3
  TicksPerSecond = 2
  CredentialLimit = 1
  AddressLimit = 1
  MaxSkew = 1
  MaxLag = 1
  LastInstant = 3
  Fleet = {p1, p2}
  Jobs = {c1, c2}
  QUEUE_MAX_ATTEMPTS = 2
  QUEUE_KEEP_FAILED = 1
  Operators = {o1, o2}
  MaxReplays = 3
  Emitters = {q1}
  Watchers = {r1}
  BackfillPage = 2
  MaxEmitted = 3
  MaxMishaps = 2
  MaxHangups = 2
  Submitted = {q1, q2}
  Panellists = {c1, c2}
  Receiver = {h1}
  MaxOverlap = 2
  MaxStops = 2
SYMMETRY Symmetry
INVARIANTS
  StopReachesWorkers
  OvershootIsBounded
  PermitsAreConserved
  LimitsHold
  ReplaysAreSafe
  DrainFinishesRuns
PROPERTY
  LocalImplementsFeed
CHECK_DEADLOCK FALSE
