CONSTANTS
  Keys = {k1, k2, k3, k4}
  Values = {v1, v2}
  TTL = 2
  MaxEntries = 2
SPECIFICATION RSpec
INVARIANTS
  TypeOK
  HitIsLatest
  RecentlyUsedStay
