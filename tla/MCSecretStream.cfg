SPECIFICATION StreamSpec
CONSTANTS
  Ends = {"a", "b"}
  KeepAlive = {"a"}
  Timeouts = {"b"}
  MaxWrites = 2
  MaxWire = 2
  MaxPending = 1
  Nonces = 3
INVARIANTS InOrder NonceFresh
PROPERTIES CloseIsLast ConnectsAndCloses
CHECK_DEADLOCK FALSE
