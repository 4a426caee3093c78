SPECIFICATION KeysSpec
CONSTANTS
  Clients = {c1, c2}
  c1 = c1
  c2 = c2
  Odd = {}
  Attempts = 2
  Mishaps = {"error"}
  MaxMishaps = 1
  MaxExpiries = 0
  Nobody = Nobody
INVARIANT OneWinner
CHECK_DEADLOCK FALSE
