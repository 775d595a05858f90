CONSTANTS
  Kids = {k1, k2}
  Keys = {a, b}
  NoKey = NoKey
  TTL = 2
  MaxFetch = 1
SPECIFICATION Spec
INVARIANTS
  NeverBareException
