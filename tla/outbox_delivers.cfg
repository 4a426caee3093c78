SPECIFICATION DeliveriesSpec
CONSTANTS
  Endpoints = {e1}
  e1 = e1
  Events = {v1}
  v1 = v1
  MaxAttempts = 2
  MaxStalls = 1
  Threshold = 1
  SweepBatch = 1
  Faults = {"crash", "db", "redis", "lost", "evict"}
  MaxFaults = 2
  MaxReplays = 0
  Operators = {"delete"}
  Orgs = {o1}
  o1 = o1
  People = {p1, p2}
  p1 = p1
  p2 = p2
  Founder = p1
  Keys = {k1}
  k1 = k1
  ClerkRoles = {"member"}
  MaxChanges = 2
  MaxSyncFaults = 1
  Nobody = Nobody
  Operations = {"post"}
  Parameters = {"p"}
  Codes = {"201"}
  Webhooks = {"ended"}
  Fields = {"f", "g"}
  Documented = {"f"}
  Enumerable = {"a", "b"}
  Other = "z"
  Edits = {"operation", "status", "parameter", "event", "payload", "field", "required", "type", "enum", "items"}
  MaxEdits = 3
INVARIANTS KeysFollowTheirMinter GateIsExact
PROPERTIES
  OutboxDelivers MirrorConverges
CHECK_DEADLOCK FALSE
