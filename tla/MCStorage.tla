------------------------------ MODULE MCStorage ------------------------------
(***************************************************************************)
(* Scenarios for TLC: each behaviour lives in one of them, so that the     *)
(* tables, which do not interact, are not multiplied with each other.      *)
(***************************************************************************)
EXTENDS Storage

CONSTANTS n1, n2, c1, c2, k1, k2, v

Scenario == [nodes |-> {n1}, clients |-> {c1}, keys |-> {k1}, seqs |-> {1}, values |-> {v}, kinds |-> {},
             target |-> [c \in Clients |-> k1],
             rotations |-> 0, aging |-> FALSE, ephemeral |-> FALSE, stops |-> FALSE]

Announcers == {"announcer", "lookup", "find_peer"}

MCLoads ==
  { \* slow walks and late commits against rotating secrets
    [Scenario EXCEPT !.kinds = {"immutable_put"}, !.rotations = 4, !.clients = {c1, c2}, !.ephemeral = TRUE],
    \* two replicas, conflicting writers and a reader
    [Scenario EXCEPT !.kinds = {"mutable_put", "mutable_get"}, !.nodes = {n1, n2}, !.seqs = {1, 2}],
    \* the same version with two values, on a node that goes away
    [Scenario EXCEPT !.kinds = {"mutable_put", "mutable_get"}, !.values = Values, !.seqs = {1, 2}, !.stops = TRUE],
    \* a small cache under puts, gets and collection
    [Scenario EXCEPT !.kinds = {"mutable_put", "mutable_get"}, !.keys = {k1, k2}, !.aging = TRUE],
    [Scenario EXCEPT !.kinds = {"immutable_put", "immutable_get"}, !.keys = Keys, !.aging = TRUE],
    \* announcers of one target that expires, of two targets, and with rotating secrets
    [Scenario EXCEPT !.kinds = Announcers, !.clients = {c1, c2}, !.aging = TRUE],
    [Scenario EXCEPT !.kinds = {"announcer"}, !.clients = {c1, c2},
                     !.target = [c \in Clients |-> IF c = c1 THEN k1 ELSE k2]],
    [Scenario EXCEPT !.kinds = {"announcer"}, !.rotations = 3],
    \* the announce and unannounce of the public interface
    [Scenario EXCEPT !.kinds = {"announce", "unannounce"}, !.nodes = {n1, n2}],
    \* internal commands and the end of the handlers
    [Scenario EXCEPT !.kinds = {"ping"}, !.clients = {c1, c2}, !.stops = TRUE] }
==============================================================================
