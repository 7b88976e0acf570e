------------------------------ MODULE MCConnect ------------------------------
(* Instances of Connect for TLC. *)
EXTENDS Connect
==============================================================================
