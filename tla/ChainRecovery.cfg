SPECIFICATION FairSpec
CONSTANTS
  Endpoints = {e1}
  Requests = {r1, r2}
  Methods = {"Forward", "ForwardWithRetry"}
  MaxRetries = 1
  FailureThreshold = 2
  SuccessThreshold = 2
  Timeout = 1
  HalfOpenMaxRequests = 2
PROPERTIES
  BreakersUsedProperly
  Terminates
  ServiceRecovers
