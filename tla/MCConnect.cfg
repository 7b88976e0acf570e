SPECIFICATION Spec
CONSTANTS
  Relays = {r1, r2, r3}
  Parallel = 2
  Pings = 3
  MinSamples = 4
  Attempts = 2
  Polls = 2
  Rounds = 1
  Probes = 1
INVARIANTS StreamDelivered FailsOnlyExhausted PunchSettles
PROPERTIES ConnectCompletes
CHECK_DEADLOCK FALSE
