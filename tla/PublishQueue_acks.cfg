SPECIFICATION Spec
CONSTANTS
  Jobs = {add, remove}
  Removals = {remove}
  Slots = {s1, s2}
  MaxAttempts = 2
  MaxFaults = 1
INVARIANT AckedOnce
CHECK_DEADLOCK FALSE
