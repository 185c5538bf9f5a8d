SPECIFICATION MultiFairSpec
CONSTANTS
  Keys = {k1}
  Costs = {1, 2}
  Rate = 1
  Burst = 2
  IdleLimit = 1
  WindowKeys = {k1}
  Batches = {1, 2}
  WindowRate = 2
  WindowSize = 4
  WindowIdle = 7
  Requests = {q1, q2}
  One = 1
INVARIANTS
  RateBound
  SlidingBound
  BunchBound
PROPERTIES
  ImplementsMeter
  Reclaimed
  NotLockedOut
