CONSTANTS
  Tenants = {t1}
  Limits = {0, 1, 2, 5, 10}
  RpmLimits = {0, 1, 5, 10}
  Minute = 4
  MaxElapsed = 9
SPECIFICATION TSpec
INVARIANTS
  TypeOK
  WithinBudget
  EarnedIsServed
  ThrottledNotBlocked
