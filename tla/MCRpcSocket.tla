----------------------------- MODULE MCRpcSocket -----------------------------
(* Instances of RpcSocket for TLC: the socket's own requests are repeated once, a
   Session's are not. *)
EXTENDS RpcSocket

CONSTANT s1   \* the Session

TwoCallers == {<<NoSession, MaxRetries>>, <<s1, 0>>}
===============================================================================
