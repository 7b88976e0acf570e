SPECIFICATION FairWalkSpec
CONSTANTS
  Peers = {1, 2, 3, 4}
  K = 2
  Concurrency = 2
  SlowConcurrency = 1
  FewSuccesses = 1
  MaxSeen = 4
  Table <- TableList
  SeedChoices <- SeedLists
  BootChoices <- BootLists
  MaxCloser = 1
  CommitChoices = {TRUE, FALSE}
  Refusals = TRUE
INVARIANTS WalkInv CommitsAwaited
PROPERTY QueryEnds
CHECK_DEADLOCK FALSE
