\* A deleted room with nothing under way: there is nothing left to do.
CHECK_DEADLOCK FALSE
SPECIFICATION Spec
CONSTANTS
  Recomputes = {r1}
  Slots = {s1}
  MaxChanges = 2
  MaxJobs = 2
  MaxFaults = 1
INVARIANTS TypeOK PendingMatchesEligible
PROPERTIES RelayFollowsRow
