SPECIFICATION FairSpec
CONSTANTS
  Requests = {r1, r2, r3, r4}
  FailureThreshold = 3
  SuccessThreshold = 2
  Timeout = 2
  HalfOpenMaxRequests = 2
INVARIANTS
  NoWedge
PROPERTIES
  ImplementsPolicy
  LeavesHalfOpen
