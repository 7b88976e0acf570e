SPECIFICATION Spec
CONSTANTS
  a = a
  b = b
  c = c
  t = t
  u = u
  Endpoints = {a, b, c}
  Initiators = {a}
  Tokens = {t, u}
  MaxPairings = 1
  MayFail = TRUE
  Loads <- MCLoads
INVARIANTS LinksLive StreamsOwned
PROPERTY PairsMeet
CHECK_DEADLOCK FALSE
