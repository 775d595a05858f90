CONSTANTS
  t1 = t1
  Tenants <- MCTenants
  InitialState <- MCInitialState
  TTL = 2
  MaxEpoch = 3
  IamPrincipals <- MCIamPrincipals
  NoToken = NoToken
  Changes = {c1, c2, c3}
  Credentials <- MCCredentials
  AdminRole = "platform_admin"
SPECIFICATION ASpec
INVARIANTS
  TypeOK
  EpochNamesPolicy
  StaleLessThanTTL
  AcknowledgedInForce
  OnlyAdministrators
