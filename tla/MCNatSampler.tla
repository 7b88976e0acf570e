----------------------------- MODULE MCNatSampler -----------------------------
(* Instances of NatSampler for TLC: two hosts with two ports, reporting nodes that
   are interchangeable, and a client that punches from an address of its own. *)
EXTENDS NatSampler, TLC

CONSTANT z   \* the client's host

OneClient == {<<z, 3>>}
SourceSymmetry == Permutations(Sources)
===============================================================================
