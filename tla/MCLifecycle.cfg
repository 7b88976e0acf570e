SPECIFICATION Spec
CONSTANTS
  s1 = s1
  s2 = s2
  h1 = h1
  h2 = h2
  h3 = h3
  Servers = {s1, s2}
  Nodes = {n1, n2}
  MaxRelays = 1
  MinActive = 1
  WindowSize = 3
  IdleThreshold = 4
  RefreshTicks = 2
  StableTicks = 1
  ProbeMax = 3
  ProbeQuorum = 2
  Scenarios <- MCScenarios
INVARIANTS StoppedStaysStopped PersistentEvidence HealthExact
PROPERTY UpdateEnds
CHECK_DEADLOCK FALSE
