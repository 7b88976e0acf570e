SPECIFICATION Spec
CONSTANTS
  Low = low
  High = high
  NoAddress = none
  r1 = r1
  r2 = r2
  Relays = {r1, r2}
  MaxConns = 3
  MaxUpsets = 1
SYMMETRY RelaySymmetry
INVARIANTS AnswersAsker OneStreamPerPeer PeersShareOne
CHECK_DEADLOCK FALSE
