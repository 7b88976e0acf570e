------------------------------ MODULE PingAndSwap ------------------------------
(***************************************************************************)
(* The routing table of one node and how rpc::RpcSocket maintains it:      *)
(* nodes are observed on every valid datagram (add_node_from_network), a   *)
(* full bucket triggers a ping of its oldest node that decides who stays   *)
(* (on_bucket_full, reping_and_swap), DOWN_HINT requests trigger a ping of *)
(* the hinted node (handle_down_hint, check_node), and the table is        *)
(* rebuilt under a new id when the node becomes persistent.                *)
(*                                                                         *)
(* A ping is a request of module RpcSocket: it may be refused (then no     *)
(* callback ever runs), answered - with or without the sender's id - or    *)
(* expire.  A node is a natural number, in the order of the ids; hosts,    *)
(* ports, the per-address rate limits and the node filter are left out     *)
(* (a filtered node is simply never heard of).                             *)
(***************************************************************************)
EXTENDS Integers, FiniteSets

CONSTANTS
  Nodes,         \* the remote nodes, ordered like their ids
  K,             \* capacity of a bucket (20)
  Placements,    \* bucket of every node, one function per possible own id
  MaxRepinging,  \* MAX_REPINGING
  MaxChecks,     \* MAX_CHECKS
  RecentTicks,   \* RECENT_NODE_TICKS
  OldTicks,      \* OLD_NODE_TICKS
  MaxTick        \* bound: background ticks explored

\* bucket_index of the node's own id (ID_BITS in the code).
Self == 0

ASSUME TableAssumption ==
  /\ Nodes \subseteq Nat /\ IsFiniteSet(Nodes)
  /\ K \in Nat \ {0}
  /\ Placements \subseteq [Nodes -> Nat]
  /\ MaxRepinging \in Nat \ {0} /\ MaxChecks \in Nat \ {0}
  /\ RecentTicks \in Nat /\ OldTicks \in Nat /\ MaxTick \in Nat

VARIABLES
  tick,          \* tick_
  bootstrapped,  \* bootstrapped_
  ephemeral,     \* ephemeral_
  place,         \* the bucket of every node under the current table id
  table,         \* the nodes of all buckets with their tick fields
  size,          \* RoutingTable::size_
  repinging,     \* repinging_
  checks,        \* checks_
  pings          \* the pings in flight

vars == <<tick, bootstrapped, ephemeral, place, table, size, repinging, checks, pings>>

\* Node's tick fields; of down_hints only `== 0` is ever asked.
Meta == [added : Nat, pinged : Nat, seen : Nat, hinted : BOOLEAN]
SwapPing == [tid : Nat, kind : {"swap"}, node : Nodes, seen : Nat, new : Nodes, meta : Meta]
CheckPing == [tid : Nat, kind : {"check"}, node : Nodes, seen : Nat]

\* The part of the state that one handler may change several times.
Now == [table |-> table, size |-> size, repinging |-> repinging, checks |-> checks,
        pings |-> pings]
Becomes(d) ==
  /\ table' = d.table /\ size' = d.size
  /\ repinging' = d.repinging /\ checks' = d.checks /\ pings' = d.pings

Bucket(d, b) == {n \in DOMAIN d.table : place[n] = b}

\* The smallest request id not in use.
FreshTid(d) == CHOOSE i \in 0 .. MaxRepinging + MaxChecks :
                 /\ \A p \in d.pings : p.tid # i
                 /\ \A j \in 0 .. i - 1 : \E p \in d.pings : p.tid = j

\* get_mut(n)->pinged = tick_.
MarkPinged(t, n) == IF n \in DOMAIN t THEN [t EXCEPT ![n].pinged = tick] ELSE t

--------------------------------------------------------------------------------
(* RoutingTable and its on_full hook *)

Without(t, n) == [m \in DOMAIN t \ {n} |-> t[m]]
With(t, n, meta) == [m \in DOMAIN t \cup {n} |-> IF m = n THEN meta ELSE t[m]]

Remove(d, n) ==
  IF n \in DOMAIN d.table
  THEN [d EXCEPT !.table = Without(@, n), !.size = @ - 1]
  ELSE d

\* reping_and_swap; `ok` says whether request() accepts the ping.
RepingAndSwap(d, n, meta, old, ok) ==
  [d EXCEPT
     !.table = MarkPinged(@, old),
     !.repinging = @ + 1,
     !.pings = IF ok THEN @ \cup {[tid |-> FreshTid(d), kind |-> "swap", node |-> old,
                                   seen |-> d.table[old].seen, new |-> n, meta |-> meta]}
               ELSE @]

\* The nodes of a bucket that were not pinged this tick; the oldest of them has
\* the smallest `pinged`, then the smallest `added`, then the smallest id.
Candidates(d, b) == {n \in Bucket(d, b) : d.table[n].pinged # tick}

Older(d, m, n) ==
  \/ d.table[m].pinged < d.table[n].pinged
  \/ /\ d.table[m].pinged = d.table[n].pinged
     /\ \/ d.table[m].added < d.table[n].added
        \/ d.table[m].added = d.table[n].added /\ m < n

Oldest(d, b) ==
  CHOOSE m \in Candidates(d, b) : \A n \in Candidates(d, b) \ {m} : Older(d, m, n)

\* The oldest node is left alone if it was pinged recently and is long known.
Settled(d, n) ==
  /\ tick - d.table[n].pinged < RecentTicks
  /\ tick - d.table[n].added > OldTicks

BelowRepingLimit(d) == d.repinging < MaxRepinging

OnBucketFull(d, n, meta, ok) ==
  IF /\ bootstrapped
     /\ BelowRepingLimit(d)
     /\ Candidates(d, place[n]) # {}
     /\ ~Settled(d, Oldest(d, place[n]))
  THEN RepingAndSwap(d, n, meta, Oldest(d, place[n]), ok)
  ELSE d

\* RoutingTable::add: on_full also runs when the node is already there.
Add(d, n, meta, ok) ==
  CASE place[n] = Self -> d
    [] place[n] # Self /\ n \notin DOMAIN d.table /\ Cardinality(Bucket(d, place[n])) < K ->
         [d EXCEPT !.table = With(@, n, meta), !.size = @ + 1]
    [] OTHER -> OnBucketFull(d, n, meta, ok)

--------------------------------------------------------------------------------
(* What the RPC layer does with the table *)

\* add_node_from_network.
Heard_NotRefreshed(d, n, ok) ==
  IF n \in DOMAIN d.table
  THEN [d EXCEPT !.table = MarkPinged(@, n)]
  ELSE Add(d, n, [added |-> tick, pinged |-> tick, seen |-> tick, hinted |-> FALSE], ok)
Heard(d, n, ok) ==
  IF n \in DOMAIN d.table
  THEN [d EXCEPT !.table[n].pinged = tick, !.table[n].seen = tick]
  ELSE Add(d, n, [added |-> tick, pinged |-> tick, seen |-> tick, hinted |-> FALSE], ok)

\* do_swap.
Swap(d, p, ok) == Add(Remove(d, p.node), p.new, p.meta, ok)

\* The ping of p ends: its counter goes down before anything else.
Done(d, p) ==
  LET e == [d EXCEPT !.pings = @ \ {p}]
  IN  IF p.kind = "swap" THEN [e EXCEPT !.repinging = @ - 1]
                         ELSE [e EXCEPT !.checks = @ - 1]

\* The node was not heard of since the ping was decided.
Unseen(d, p) == p.node \in DOMAIN d.table /\ d.table[p.node].seen <= p.seen

Decide(d, p, ok) == IF p.kind = "swap" THEN Swap(d, p, ok) ELSE Remove(d, p.node)

--------------------------------------------------------------------------------
(* Actions *)

\* handle_message: a datagram with a valid id of node n.
Hear(n, ok) ==
  /\ Becomes(Heard(Now, n, ok))
  /\ UNCHANGED <<tick, bootstrapped, ephemeral, place>>

\* HyperDHT::add_node: only `added` is stamped.
AddNode(n, ok) ==
  /\ Becomes(Add(Now, n, [added |-> tick, pinged |-> 0, seen |-> 0, hinted |-> FALSE], ok))
  /\ UNCHANGED <<tick, bootstrapped, ephemeral, place>>

\* handle_down_hint and check_node.
DownHint(n, ok) ==
  /\ checks < MaxChecks
  /\ n \in DOMAIN table
  /\ table[n].pinged < tick \/ ~table[n].hinted
  /\ table' = [table EXCEPT ![n].hinted = TRUE, ![n].pinged = tick]
  /\ checks' = checks + 1
  /\ pings' = IF ok THEN pings \cup {[tid |-> FreshTid(Now), kind |-> "check", node |-> n,
                                      seen |-> table[n].seen]}
              ELSE pings
  /\ UNCHANGED <<tick, bootstrapped, ephemeral, place, size, repinging>>

\* The pinged node answers; withId tells whether the answer carries its id,
\* which handle_message looks at before it runs the callback.
Answer(p, withId, ok) ==
  LET heard == IF withId THEN Heard(Now, p.node, ok) ELSE Now
      done  == Done(heard, p)
  IN  /\ Becomes(IF Unseen(done, p) THEN Decide(done, p, ok) ELSE done)
      /\ UNCHANGED <<tick, bootstrapped, ephemeral, place>>

\* The ping expires: the node leaves the table in any case.
Expire(p, ok) ==
  /\ Becomes(Decide(Done(Now, p), p, ok))
  /\ UNCHANGED <<tick, bootstrapped, ephemeral, place>>

BackgroundTick ==
  /\ tick < MaxTick
  /\ tick' = tick + 1
  /\ UNCHANGED <<bootstrapped, ephemeral, place, table, size, repinging, checks, pings>>

\* set_bootstrapped(true), at the end of the first bootstrap walk.
Bootstrapped ==
  /\ ~bootstrapped
  /\ bootstrapped' = TRUE
  /\ UNCHANGED <<tick, ephemeral, place, table, size, repinging, checks, pings>>

\* rebuild_with_id: the nodes are added again in the order of the old buckets;
\* on_full is off, so what does not fit is dropped.
Before(m, n) == place[m] < place[n] \/ (place[m] = place[n] /\ m < n)
Fitting(q) ==
  {n \in DOMAIN table :
     /\ q[n] # Self
     /\ Cardinality({m \in DOMAIN table : q[m] = q[n] /\ Before(m, n)}) < K}

RebuiltSize_Added(kept) == size + Cardinality(kept)
RebuiltSize(kept) == Cardinality(kept)

\* do_persistent_transition.
BecomePersistent(q) ==
  /\ ephemeral
  /\ ephemeral' = FALSE
  /\ place' = q
  /\ IF q = place THEN UNCHANGED <<table, size>>
     ELSE /\ table' = [n \in Fitting(q) |-> table[n]]
          /\ size' = RebuiltSize(Fitting(q))
  /\ UNCHANGED <<tick, bootstrapped, repinging, checks, pings>>

--------------------------------------------------------------------------------
Init ==
  /\ tick = 0
  /\ bootstrapped = FALSE
  /\ ephemeral = TRUE
  /\ place \in {q \in Placements : \A n \in Nodes : q[n] # Self}
  /\ table = [n \in {} |-> 0]
  /\ size = 0
  /\ repinging = 0
  /\ checks = 0
  /\ pings = {}

Next ==
  \/ \E n \in Nodes, ok \in BOOLEAN : Hear(n, ok) \/ AddNode(n, ok) \/ DownHint(n, ok)
  \/ \E p \in pings, ok \in BOOLEAN : Expire(p, ok) \/ \E withId \in BOOLEAN : Answer(p, withId, ok)
  \/ BackgroundTick
  \/ Bootstrapped
  \/ \E q \in Placements : BecomePersistent(q)

Spec == Init /\ [][Next]_vars

--------------------------------------------------------------------------------
(* Properties *)

InFlight(kind) == {p \in pings : p.kind = kind}

TypeOK ==
  /\ tick \in Nat /\ size \in Nat /\ repinging \in Nat /\ checks \in Nat
  /\ bootstrapped \in BOOLEAN /\ ephemeral \in BOOLEAN
  /\ place \in Placements
  /\ DOMAIN table \subseteq Nodes
  /\ table \in [DOMAIN table -> Meta]
  /\ pings \subseteq SwapPing \cup CheckPing

\* RoutingTable::size_ is the number of nodes in the buckets, no bucket exceeds
\* its capacity and the node never holds itself, also across a rebuild that
\* re-inserts under another id while pings decided before are in flight.
TableExact ==
  /\ size = Cardinality(DOMAIN table)
  /\ \A n \in DOMAIN table : place[n] # Self /\ Cardinality(Bucket(Now, place[n])) <= K

\* The counters never fall below the number of pings in flight (so they never
\* go negative) and never exceed their limits, although a swap that ends may
\* start the next one from inside its callback.
PingLimits ==
  /\ Cardinality(InFlight("swap")) <= repinging /\ repinging <= MaxRepinging
  /\ Cardinality(InFlight("check")) <= checks /\ checks <= MaxChecks

\* `seen` is never ahead of `pinged`, nor either of tick_: the unsigned
\* differences of on_bucket_full never wrap.  This also holds for the copy of
\* the new node that a swap carries.
TicksOrdered ==
  /\ \A n \in DOMAIN table : table[n].seen <= table[n].pinged /\ table[n].pinged <= tick
                             /\ table[n].added <= tick
  /\ \A p \in InFlight("swap") : p.meta.seen <= p.meta.pinged /\ p.meta.pinged <= tick
                                  /\ p.meta.added <= tick

\* A swap ping was decided in a later tick than the one its target was last
\* seen in: an answer with the target's id therefore always counts as news.
SwapPingIsNews == \A p \in InFlight("swap") : p.seen < tick

\* The table, the counters of pings, the ticks and the pings in flight fit
\* together through every interleaving of swaps, checks, answers and a rebuild.
TableInv == TypeOK /\ TableExact /\ PingLimits /\ TicksOrdered /\ SwapPingIsNews

\* Ping-and-swap never evicts a node that answered the ping with its id.
SwapSparesAnswering ==
  [][\A p \in InFlight("swap"), ok \in BOOLEAN :
       Answer(p, TRUE, ok) /\ p.node \in DOMAIN table => p.node \in DOMAIN table']_vars
================================================================================
