SPECIFICATION Spec
CONSTANTS
  Candidates = {c1, c2}
  c1 = c1
  c2 = c2
  Synthesis = synthesis
  MaxAttempts = 2
  MaxStalls = 1
  MaxFaults = 0
  Ceilings = {}
PROPERTY FanOutIsStatusFiltered
CHECK_DEADLOCK FALSE
