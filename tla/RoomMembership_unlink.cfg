\* A deleted room with nothing under way: there is nothing left to do.
CHECK_DEADLOCK FALSE
SPECIFICATION Spec
CONSTANTS
  Recomputes = {r1}
  Slots = {s1}
  MaxChanges = 1
  MaxJobs = 1
  MaxFaults = 0
PROPERTIES UnlinkedLeaves
