SPECIFICATION Spec
CONSTANTS
  Callers = {c1, c2}
  Weights <- TwoToOne
  IntMax = 7
  MaxTally = 5
SYMMETRY CallersAlike
INVARIANTS
  PickWasHealthy
  FailureJustified
  FairShare
PROPERTIES
  WaitFree
