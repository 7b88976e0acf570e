----------------------------- MODULE MCLifecycle -----------------------------
(***************************************************************************)
(* Scenarios for TLC: which calls and events a behaviour has, and how many. *)
(***************************************************************************)
EXTENDS Lifecycle

CONSTANTS s1, s2, h1, h2, h3

Sample(r, t) == [responses |-> r, timeouts |-> t]
Nat0 == [consistent |-> FALSE, nodes |-> 0]
Consistent(n) == [consistent |-> TRUE, nodes |-> n]

Scenario == [servers |-> {s1}, hosts |-> {h1}, calls |-> {}, events |-> 0, boot |-> "none", samples |-> {Sample(0, 0)}, nat |-> {Nat0}]

MCScenarios ==
  { \* one announcer: losses, refusals, timers, pings, network changes
    [Scenario EXCEPT !.calls = {"create", "listen", "timer", "refresh", "refuse"}, !.events = 5],
    [Scenario EXCEPT !.calls = {"create", "listen", "network_change", "refuse"}, !.events = 4],
    \* stopping and starting servers one by one
    [Scenario EXCEPT !.calls = {"create", "listen", "close", "suspend_server", "resume_server", "timer", "refuse"}, !.events = 5],
    \* stopping and starting the node
    [Scenario EXCEPT !.calls = {"create", "listen", "suspend", "resume", "destroy"}, !.events = 5, !.servers = {s1, s2}],
    [Scenario EXCEPT !.calls = {"bind", "connect", "on_bootstrapped", "create", "suspend", "resume", "destroy", "tick"},
                     !.events = 6, !.boot = "walking"],
    \* health, without servers and with one
    [Scenario EXCEPT !.calls = {"bind", "tick"}, !.events = 10,
                     !.samples = {Sample(0, 0), Sample(4, 0), Sample(0, 4), Sample(2, 3)}],
    [Scenario EXCEPT !.calls = {"create", "listen", "tick"}, !.events = 8, !.samples = {Sample(4, 0), Sample(0, 4)}],
    \* the firewall probe, with a node that is suspended or destroyed meanwhile
    [Scenario EXCEPT !.calls = {"bind", "tick", "packet", "suspend", "destroy"}, !.events = 7, !.hosts = {h1, h2, h3}, !.boot = "walking",
                     !.nat = {Nat0, Consistent(0), Consistent(1), Consistent(ProbeMax)}],
    [Scenario EXCEPT !.calls = {"create", "listen", "tick", "packet"}, !.events = 5, !.nat = {Consistent(1)}] }
==============================================================================
