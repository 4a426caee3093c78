SPECIFICATION ClientsSpec
CONSTANTS
  a = a
  b = b
  r1 = r1
  c1 = c1
  d1 = d1
  l1 = l1
  v1 = v1
  Publishers = {a, b}
  Readers = {r1}
  PageSize = 2
  StreamMaxLen = 1
  MaxEvents = 3
  MaxBusFaults = 1
  MaxDrops = 1
  MaxRetries = 1
  MaxEphemeral = 1
  Processes = {a, b}
  Servers = {"s1", "s2"}
  MaxTokens = 2
  AskedRuns = {a, b}
  MAX_STREAM_RETRIES = 1
  MaxCalls = 2
  Owners = {"u1"}
  Tags = {"t"}
  MaxRuns = 3
  LastInstant = 2
  Limits = {1}
  Candidates = {c1}
  Synthesis = synthesis
  Deliveries = {d1}
  Links = {l1}
  Visitors = {v1}
  Never = 9
  LastTick = 1
  Endpoints = {"e1", "e2"}
  Runs = {r1}
  MaxCrashes = 1
  MaxPosts = 2
SYMMETRY Symmetry
INVARIANTS
  NothingTwice
  AskSettlesItsRun
  SessionSurvives
  ShownIsOneRun
  PagerSeesAll
  ArchiveHolds
  HandledOnce
CHECK_DEADLOCK FALSE
