SPECIFICATION ReceiversFairSpec
CONSTANTS
  Endpoints = {"e1"}
  Runs = {"r1"}
  MaxCrashes = 1
  MaxPosts = 2
PROPERTY EndsAreAnnounced
CHECK_DEADLOCK FALSE
