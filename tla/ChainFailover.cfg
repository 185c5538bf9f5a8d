SPECIFICATION Spec
CONSTANTS
  Endpoints = {e1, e2}
  Requests = {r1, r2}
  Methods = {"ForwardWithRetry"}
  MaxRetries = 1
  FailureThreshold = 1
  SuccessThreshold = 1
  Timeout = 0
  HalfOpenMaxRequests = 1
SYMMETRY Alike
PROPERTIES
  Failover
