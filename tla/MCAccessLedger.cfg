SPECIFICATION LedgerSpec
CONSTANTS
  Callers = {s1, s2}
  MaxCrashes = 1
INVARIANTS LedgerTypeOK NoDuplicatePush
PROPERTIES RevokeResolves
