SPECIFICATION Spec
CONSTANTS
  Holders = {"a", "b"}
  Unreadable = {"a"}
  Txs = {"send", "buy"}
  Trades = {"buy"}
  Legs <- MCLegs
  OnChain <- MCOnChain
  Listed = {"b"}
  BatchSize = 1
  MaxDeliveries = 2
  MaxFaults = 0
CHECK_DEADLOCK FALSE
PROPERTY CountedOnce
