SPECIFICATION Spec
CONSTANTS
  Replicas = {r1, r2}
  Announcements = {a1}
  Addresses = {x1}
  MaxAttempts = 2
  MaxReentries = 2
  MaxFaults = 3
INVARIANTS TypeOK CompletedOnce PushedOnce
PROPERTIES EveryDueProcessed
