---------------------------- MODULE MCPingAndSwap ----------------------------
(* Instances of PingAndSwap for TLC. *)
EXTENDS PingAndSwap

\* Three own ids: all nodes share a bucket; every node has its own; node 1 is
\* the local node itself.  A rebuild may gather nodes that do not fit, spread
\* them, or discover itself in the table.
ThreePlacements == {[n \in Nodes |-> 1], [n \in Nodes |-> n],
                    [n \in Nodes |-> IF n = 1 THEN Self ELSE 1]}
==============================================================================
