SPECIFICATION Spec
CONSTANTS
  n1 = n1
  n2 = n2
  c1 = c1
  c2 = c2
  k1 = k1
  k2 = k2
  v = v
  Nodes = {n1, n2}
  Clients = {c1, c2}
  Keys = {k1, k2, k3}
  Values = {v, w}
  CacheMax = 2
  PeersMax = 1
  RelaysMax = 1
  TargetsMax = 1
  DelayedMax = 2
  RateMax = 1
  Ttl = 2
  AnnTtl = 1
  GcEvery = 2
  MaxNet = 4
  Loads <- MCLoads
INVARIANTS TokenWindow Expires ReadsNewest
CHECK_DEADLOCK FALSE
