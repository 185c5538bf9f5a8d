SPECIFICATION CheckerFairSpec
CONSTANTS
  Endpoints = {e1, e2}
  MaxBlockLag = 1
  MaxHeight = 2
  MaxNegative = 1
INVARIANTS
  LagRespected
PROPERTIES
  Recovers
  Evicted
  StopReturns
