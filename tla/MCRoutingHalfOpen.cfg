CONSTANTS
  m1 = m1
  m2 = m2
  NoRequest = NoRequest
  NoRouteSet = NoRouteSet
  Models <- MCModels
  Requests = {r1, r2}
  RouteSets <- MCRouteSets
  MaxRetries = 0
  FailureThreshold = 1
  ResetTimeout = 1
  FailureCap = 1
SPECIFICATION Spec
INVARIANTS
  HalfOpenSingleTrial
