------------------------------ MODULE MCProtomux ------------------------------
(* Instances of Protomux for TLC: the ends and the keys are interchangeable. *)
EXTENDS Protomux, TLC

Interchangeable == Permutations(Ends) \cup Permutations(Keys)
===============================================================================
