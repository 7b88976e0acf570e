---------------------------- MODULE MCBlindRelay ----------------------------
(* Instances of BlindRelay for TLC. *)
EXTENDS BlindRelay

CONSTANTS a, b, c, t, u

MCLoads ==
  { \* one pair, and every way to end it
    [endpoints |-> {a, b}, tokens |-> {t}, upsets |-> 3],
    \* two pairs that compete for room
    [endpoints |-> {a, b}, tokens |-> {t, u}, upsets |-> 1],
    \* two endpoints that take the same side
    [endpoints |-> {a, b, c}, tokens |-> {t}, upsets |-> 1] }
=============================================================================
