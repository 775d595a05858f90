CONSTANTS
  m1 = m1
  m2 = m2
  r1 = r1
  r2 = r2
  NoRequest = NoRequest
  NoRouteSet = NoRouteSet
  NoModel = NoModel
  NoToken = NoToken
  NoRecord = NoRecord
  NoId = NoId
  Tenants <- MCTenants
  InitialState <- MCInitialState
  PolicyTTL = 1
  MaxEpoch = 2
  AdminStates = {"THROTTLED", "EMERGENCY_BLOCK"}
  Minute = 1
  CacheTTL = 1
  MaxEntries = 1
  DebugTTL = 1
  RequestIds = {r1, r2, "id"}
  Models <- MCModels
  Requests <- MCRequests
  RouteSets <- MCRouteSets
  MaxRetries = 0
  FailureThreshold = 1
  ResetTimeout = 1
  FailureCap = 1
  Config <- MCConfig
  IamPrincipals <- MCIamPrincipals
  DefaultModel = m1
  ChatRole = "developer"
  Workloads <- MCWorkloads
  Completions <- MCCompletions
SPECIFICATION Spec
PROPERTIES
  KillSwitchStopsInFlight
