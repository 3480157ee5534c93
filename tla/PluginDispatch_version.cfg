\* Every transaction old and every batch ended: nothing is left to do.
CHECK_DEADLOCK FALSE
SPECIFICATION DispatchSpec
CONSTANTS
  PluginTxs = {t1}
  Batches = {live, val}
  Validator = val
  MaxVersion = 2
  MaxFailures = 0
PROPERTIES VersionBumpResyncs
