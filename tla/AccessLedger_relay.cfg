SPECIFICATION LedgerSpec
CONSTANTS
  Callers = {s1, s2}
  MaxCrashes = 0
INVARIANTS AccessFollowsRelay
