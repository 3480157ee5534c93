SPECIFICATION Spec
CONSTANTS
  t1 = t1
  t2 = t2
  Txs = {t1, t2}
  ReorgDepth = 1
  DedupeLimit = 1
  MaxTip = 3
  Budgets <- OneFault
PROPERTIES CompleteKept
