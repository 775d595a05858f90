CONSTANTS
  t1 = t1
  Tenants <- MCTenants
  InitialState <- MCInitialState
  TTL = 2
  MaxEpoch = 3
SPECIFICATION Spec
INVARIANTS
  RevocationBounded
