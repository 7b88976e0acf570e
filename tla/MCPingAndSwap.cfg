SPECIFICATION Spec
CONSTANTS
  Nodes = {1, 2}
  K = 1
  Placements <- ThreePlacements
  MaxRepinging = 2
  MaxChecks = 1
  RecentTicks = 2
  OldTicks = 0
  MaxTick = 2
INVARIANT TableInv
PROPERTY SwapSparesAnswering
CHECK_DEADLOCK FALSE
