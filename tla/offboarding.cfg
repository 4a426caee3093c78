SPECIFICATION IdentitySpec
CONSTANTS
  Orgs = {o1}
  o1 = o1
  People = {p1, p2}
  p1 = p1
  p2 = p2
  Founder = p1
  Keys = {k1}
  k1 = k1
  ClerkRoles = {"member"}
  MaxChanges = 1
  MaxSyncFaults = 0
  Nobody = Nobody
INVARIANT KeysDieWithTheirMinter
CHECK_DEADLOCK FALSE
