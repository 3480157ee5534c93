\* Every transaction old and every batch ended: nothing is left to do.
CHECK_DEADLOCK FALSE
SPECIFICATION DispatchSpec
CONSTANTS
  PluginTxs = {t1}
  Batches = {live, val}
  Validator = val
  MaxVersion = 3
  MaxFailures = 3
INVARIANTS DispatchTypeOK BatchesLoseNothing
PROPERTIES RecentIsCurrent
