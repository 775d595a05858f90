CONSTANTS
  m1 = m1
  m2 = m2
  NoRequest = NoRequest
  NoRouteSet = NoRouteSet
  Models <- MCModels
  Requests = {r1, r2}
  RouteSets <- MCRouteSets
  MaxRetries = 1
  FailureThreshold = 2
  ResetTimeout = 2
  FailureCap = 2
SPECIFICATION Spec
INVARIANTS
  TypeOK
  NoCandidateIgnored
  FallbackFlagTruthful
PROPERTIES
  ImplementsGate
  ConverseBounded
  EveryCallReturns
  NoPermanentLockout
