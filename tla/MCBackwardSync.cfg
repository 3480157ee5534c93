SPECIFICATION Spec
CONSTANTS
  Loops = {l1, l2}
  BulkThreshold = 3
  BulkBatch = 2
  Batch = 3
  FirstTips <- NearAndFar
  MaxTip = 5
  MaxFaults = 2
INVARIANTS TypeOK CursorCovers
PROPERTIES BackfillEnds
