---------------------------- MODULE MCSecretStream ----------------------------
(* Instances of SecretStream for TLC. *)
EXTENDS SecretStream
===============================================================================
