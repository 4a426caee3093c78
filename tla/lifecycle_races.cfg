SPECIFICATION Spec
CONSTANTS
  Candidates = {c1, c2}
  c1 = c1
  c2 = c2
  Synthesis = synthesis
  MaxAttempts = 2
  MaxStalls = 1
  MaxFaults = 1
  Ceilings = {}
SYMMETRY Symmetry
INVARIANTS
  TypeOK
  CompleteMeansAnswered
  SnapshotCurrent
  LateDeliveryMakesNoCall
  CancelReachesCalls
PROPERTIES
  AnswerNotPaidTwice
CHECK_DEADLOCK FALSE
