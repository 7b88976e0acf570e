SPECIFICATION FairSpec
CONSTANTS
  TidMax = 2
  MaxWindow = 1
  MaxPending = 1
  MaxRetries = 1
  s1 = s1
  Sessions = {s1}
  Callers <- TwoCallers
  NoSession = NoSession
INVARIANTS WindowAccounting RequestInv
PROPERTIES KeepsPromise Resolves
CHECK_DEADLOCK FALSE
