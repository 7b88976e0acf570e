------------------------------ MODULE MCPeers -------------------------------
(***************************************************************************)
(* Two nodes and two relays for TLC.                                       *)
(***************************************************************************)
EXTENDS Peers, TLC

CONSTANTS r1, r2

RelaySymmetry == Permutations({r1, r2})
=============================================================================
