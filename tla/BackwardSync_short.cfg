SPECIFICATION Spec
CONSTANTS
  Loops = {l1}
  BulkThreshold = 3
  BulkBatch = 2
  Batch = 3
  FirstTips <- NearAndFar
  MaxTip = 5
  MaxFaults = 1
INVARIANTS CursorClaimsStored
