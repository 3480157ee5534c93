SPECIFICATION Spec
CONSTANTS
  Addresses = {a, b}
  Names = {n, m}
  Requests = {q, r}
  MaxRetries = 2
  MaxRequests = 2
  MaxFaults = 2
INVARIANT TypeOK
PROPERTIES StatusFollowsChain LiveClaimKept EveryClaimEnds
CHECK_DEADLOCK FALSE
