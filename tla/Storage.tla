------------------------------- MODULE Storage -------------------------------
(***************************************************************************)
(* Storing nodes (RpcHandlers, TokenStore, LruCache, AnnounceStore) and    *)
(* the operations clients run against them (dht_ops, HyperDHT::*_put,      *)
(* *_get, lookup, announce, and the announcements of an Announcer).        *)
(*                                                                         *)
(* An operation walks: it asks every node once and collects the tokens of  *)
(* the answers; then it commits: it sends its write with each node's token. *)
(* (An Announcer sends its ANNOUNCE at each answer and keeps the token for *)
(* its UNANNOUNCE.)  Commits stay in net, so they arrive late, in any order, *)
(* more than once (RpcSocket resends) or never.  Operations of one client  *)
(* follow each other without waiting for old commits.  The walk itself is  *)
(* module Query; here a question is answered, or is lost.                  *)
(*                                                                         *)
(* Clients are addresses.  They sign correctly and use what they were      *)
(* given, so the signature and hash checks of the handlers always pass.    *)
(***************************************************************************)
EXTENDS StorageTables, FiniteSets

CONSTANTS
  Nodes, Clients, Keys, Values,
  CacheMax,      \* entries of each LRU cache
  PeersMax,      \* MAX_PEERS_PER_TARGET
  RelaysMax,     \* relays an Announcer keeps
  TargetsMax,    \* MAX_TOTAL_TARGETS
  DelayedMax,    \* MAX_PENDING_DELAYED
  RateMax,       \* size at which find_node_rate_ is emptied
  Ttl,           \* storage_ttl_ms_, in clock units
  AnnTtl,        \* ann_ttl_ms_
  GcEvery,       \* GC_INTERVAL_MS
  MaxNet,        \* bound: commits under way
  Loads          \* the scenarios: which nodes, values, operations and events occur

ASSUME StorageAssumption ==
  /\ {CacheMax, PeersMax, RelaysMax, TargetsMax, GcEvery} \subseteq Nat \ {0}
  /\ {DelayedMax, RateMax, Ttl, AnnTtl, MaxNet} \subseteq Nat
  /\ Keys # {} /\ Values # {}
  /\ \A l \in Loads :
       /\ l.nodes \subseteq Nodes /\ l.clients \subseteq Clients /\ l.keys \subseteq Keys
       /\ l.seqs \subseteq Nat /\ l.values \subseteq Values
       /\ \A c \in Clients : l.target[c] \in Keys

VARIABLES
  load,       \* the scenario of this behaviour
  up,         \* the handlers exist
  ephemeral,  \* is_ephemeral()
  cur, prev,  \* current_ and previous_ secret
  rotations,  \* history: how often the secrets were rotated
  mutables, immutables,   \* the LRU caches
  store,      \* the announce store
  delayed,    \* pending_delayed_
  limited,    \* find_node_rate_: its hosts, and those of them answered within the last second
  clock,      \* time since the last gc tick
  op,         \* the operation each client runs
  net,        \* commits under way
  relays,     \* active_relays_ of the client's Announcer: the tokens it announced with
  acked       \* history: the highest seq acknowledged for a key still stored

nodeVars == <<up, ephemeral, cur, prev, rotations, mutables, immutables, store, delayed, limited, clock, acked>>
vars == <<load, op, net, relays, nodeVars>>

Idle == [kind |-> "none", phase |-> "idle", key |-> CHOOSE k \in Keys : TRUE, seq |-> 0,
         val |-> CHOOSE v \in Values : TRUE, latest |-> TRUE, asked |-> {}, lost |-> {}, tokens |-> {},
         result |-> 0, floor |-> 0]

-----------------------------------------------------------------------------
(* Tokens.  A secret is named by the random value it descends from and how *)
(* often it was hashed.  A token is a keyed hash of the client's host.     *)

Hash(secret) == [secret EXCEPT !.hashed = @ + 1]

\* A rotation that hashes the current secret and leaves the previous one.
Rotate_NoSwap(n) ==
  /\ cur' = [cur EXCEPT ![n] = Hash(@)]
  /\ prev' = prev

\* TokenStore::rotate: swap, then hash what was the previous secret.
Rotate(n) ==
  /\ cur' = [cur EXCEPT ![n] = Hash(prev[n])]
  /\ prev' = [prev EXCEPT ![n] = cur[n]]

Create(n) == [node |-> n, secret |-> cur[n], issued |-> rotations[n]]

Validate(n, token) == token.secret \in {cur[n], prev[n]}

\* Every tenth drain tick of the RPC socket.
RotateTokens(n) ==
  /\ up[n] /\ rotations[n] < load.rotations
  /\ Rotate(n)
  /\ rotations' = [rotations EXCEPT ![n] = @ + 1]
  /\ UNCHANGED <<load, up, ephemeral, mutables, immutables, store, delayed, limited, clock, op, net, relays, acked>>

-----------------------------------------------------------------------------
(* Operations of the clients.                                              *)

\* Which command the walk asks with; dht_ops::announce asks with ANNOUNCE.
WalkCommand(kind) ==
  CASE kind = "immutable_put" -> "IMMUTABLE_GET"
    [] kind = "immutable_get" -> "IMMUTABLE_GET"
    [] kind = "mutable_put"   -> "MUTABLE_GET"
    [] kind = "mutable_get"   -> "MUTABLE_GET"
    [] kind = "announce"      -> "ANNOUNCE"
    [] kind \in {"lookup", "unannounce"} -> "LOOKUP"
    [] OTHER                  -> "FIND_PEER"

\* The command of the commit; lookups, gets and HyperDHT::unannounce have none.
CommitCommand(kind) ==
  CASE kind = "immutable_put" -> "IMMUTABLE_PUT"
    [] kind = "mutable_put"   -> "MUTABLE_PUT"
    [] kind = "announce"      -> "ANNOUNCE"
    [] OTHER                  -> "none"

Begin(c, o) ==
  /\ op[c].phase = "idle" /\ o.kind \in load.kinds
  /\ op' = [op EXCEPT ![c] = o]
  /\ UNCHANGED <<load, net, relays, nodeVars>>

\* dht_ops: what each operation looks for and writes.  In a get, seq is min_seq.
Operation(kind, key) == [Idle EXCEPT !.kind = kind, !.phase = "walk", !.key = key]

ImmutablePutOp(key) == Operation("immutable_put", key)
ImmutableGetOp(key) == Operation("immutable_get", key)
MutablePutOp(key, seq, val) == [Operation("mutable_put", key) EXCEPT !.seq = seq, !.val = val]
MutableGetOp(key, seq, latest) == [Operation("mutable_get", key) EXCEPT !.seq = seq, !.latest = latest]
LookupOp(key) == Operation("lookup", key)
FindPeerOp(key) == Operation("find_peer", key)
AnnounceOp(key) == Operation("announce", key)

\* HyperDHT's operations start one of them.
ImmutablePut(c) == \E k \in load.keys : Begin(c, ImmutablePutOp(k))
ImmutableGet(c) == \E k \in load.keys : Begin(c, ImmutableGetOp(k))
MutablePut(c) == \E k \in load.keys, s \in load.seqs, v \in load.values : Begin(c, MutablePutOp(k, s, v))
MutableGet(c) == \E k \in load.keys, s \in load.seqs \cup {0}, l \in BOOLEAN : Begin(c, MutableGetOp(k, s, l))
Lookup(c) == \E k \in load.keys : Begin(c, LookupOp(k))
FindPeer(c) == \E k \in load.keys : Begin(c, FindPeerOp(k))
Announce(c) == \E k \in load.keys : Begin(c, AnnounceOp(k))

\* HyperDHT::unannounce is a lookup.
Unannounce(c) == \E k \in load.keys : Begin(c, Operation("unannounce", k))

\* Announcer::update: a find_peer walk for the announcer's own target.
AnnouncerUpdate(c) == Begin(c, Operation("announcer", load.target[c]))

Message(c, cmd, o, token) == [cmd |-> cmd, from |-> c, key |-> o.key, seq |-> o.seq, val |-> o.val, token |-> token]

\* stop: UNANNOUNCE to every relay, with the token of its ANNOUNCE.
AnnouncerStop(c) ==
  LET sent == {Message(c, "UNANNOUNCE", Operation("announcer", load.target[c]), t) : t \in relays[c]} IN
  /\ relays[c] # {} /\ op[c].phase = "idle"
  /\ Cardinality(net \cup sent) <= MaxNet
  /\ net' = net \cup sent
  /\ relays' = [relays EXCEPT ![c] = {}]
  /\ UNCHANGED <<load, op, nodeVars>>

-----------------------------------------------------------------------------
(* Questions of a walk.                                                    *)

\* make_query_response: every answer carries a token; a storage command is not
\* answered while the node is ephemeral, ANNOUNCE not without a token.
Answers(n, cmd) == up[n] /\ ~ephemeral[n] /\ cmd # "ANNOUNCE"

\* mutable_get on the answering node: the record, if it is new enough.
MutableReply(n, key, minSeq) ==
  IF Has(mutables[n], key) /\ Entry(mutables[n], key).seq >= minSeq THEN Entry(mutables[n], key).seq ELSE 0

\* HyperDHT::mutable_get: the first verified answer, then only newer ones.
Keep(o, seq) == IF seq > o.result /\ (o.latest \/ o.result = 0) THEN [o EXCEPT !.result = seq] ELSE o

\* on_reply of the operation; immutable_get and mutable_get without latest
\* destroy the query at the first good answer.
OnReply(o, n) ==
  LET asked == [o EXCEPT !.asked = @ \cup {n}, !.tokens = @ \cup {Create(n)}]
      seq   == MutableReply(n, o.key, o.seq)
      known == IF acked[n][o.key] >= o.seq THEN Max({o.floor, acked[n][o.key]}) ELSE o.floor
  IN  CASE o.kind = "mutable_get" ->
             [Keep([asked EXCEPT !.floor = known], seq) EXCEPT
                !.phase = IF seq > 0 /\ ~o.latest THEN "done" ELSE "walk"]
        [] o.kind = "immutable_get" /\ Has(immutables[n], o.key) -> [asked EXCEPT !.result = 1, !.phase = "done"]
        [] OTHER -> asked

\* Announcer::commit: ANNOUNCE goes to each node as it answers.
OnReplySends(c, n) ==
  IF op[c].kind = "announcer" THEN {Message(c, "ANNOUNCE", op[c], Create(n))} ELSE {}

\* The handler of the question: MUTABLE_GET and IMMUTABLE_GET promote.
Question(n, o) ==
  LET cmd == WalkCommand(o.kind) IN
  /\ mutables' = IF Answers(n, cmd) /\ cmd = "MUTABLE_GET"
                   THEN [mutables EXCEPT ![n] = LruGet(@, o.key)] ELSE mutables
  /\ immutables' = IF Answers(n, cmd) /\ cmd = "IMMUTABLE_GET"
                     THEN [immutables EXCEPT ![n] = LruGet(@, o.key)] ELSE immutables

\* A question without an answer; lost are the nodes that might have answered.
Unanswered(o, n, lost) == [o EXCEPT !.asked = @ \cup {n}, !.lost = @ \cup lost]

\* One node is asked; its answer arrives, or the question expires although the
\* node may have handled it.
Visit(c, n) ==
  /\ op[c].phase = "walk" /\ n \in load.nodes \ op[c].asked
  /\ Question(n, op[c])
  /\ \/ /\ Answers(n, WalkCommand(op[c].kind))
        /\ op' = [op EXCEPT ![c] = OnReply(@, n)]
        /\ net' = net \cup OnReplySends(c, n)
        /\ Cardinality(net') <= MaxNet
     \/ LET lost == IF Answers(n, WalkCommand(op[c].kind)) THEN {n} ELSE {}
        IN  /\ op' = [op EXCEPT ![c] = Unanswered(@, n, lost)]
            /\ UNCHANGED net
  /\ UNCHANGED <<load, relays, up, ephemeral, cur, prev, rotations, store, delayed, limited, clock, acked>>

\* The question itself is lost: the node never sees it.
LoseQuestion(c, n) ==
  /\ op[c].phase = "walk" /\ n \in load.nodes \ op[c].asked
  /\ op' = [op EXCEPT ![c] = Unanswered(@, n, {n})]
  /\ UNCHANGED <<load, net, relays, nodeVars>>

\* Query::do_commit with the commit handler of the operation.
Commits(c) ==
  IF CommitCommand(op[c].kind) = "none" THEN {}
  ELSE {Message(c, CommitCommand(op[c].kind), op[c], t) : t \in op[c].tokens}

Ended(o) == [o EXCEPT !.phase = "done"]

WalkEnds(c) ==
  /\ op[c].phase = "walk" /\ op[c].asked = load.nodes
  /\ Cardinality(net \cup Commits(c)) <= MaxNet
  /\ net' = net \cup Commits(c)
  /\ op' = [op EXCEPT ![c] = Ended(@)]
  /\ UNCHANGED <<load, relays, nodeVars>>

\* on_done: the caller has its result.
Done(c) ==
  /\ op[c].phase = "done"
  /\ op' = [op EXCEPT ![c] = Idle]
  /\ UNCHANGED <<load, net, relays, nodeVars>>

-----------------------------------------------------------------------------
(* Commits: the handlers of the storing node.  A message stays in net, it  *)
(* may come again.                                                         *)

Stored(n, cache) == [k \in Keys |-> IF Has(cache, k) THEN acked[n][k] ELSE 0]

SeqReused(e, m) == e.seq = m.seq /\ e.val # m.val
SeqTooLow(e, m) == m.seq < e.seq
Refused(e, m) == SeqReused(e, m) \/ SeqTooLow(e, m)

\* A node that lets a put replace whatever it has.
HandleMutablePut_AnySeq(n, m) ==
  LET put == LruPut(mutables[n], [key |-> m.key, seq |-> m.seq, val |-> m.val, age |-> 0], CacheMax) IN
  /\ mutables' = [mutables EXCEPT ![n] = put]
  /\ acked' = [acked EXCEPT ![n] = [Stored(n, put) EXCEPT ![m.key] = Max({@, m.seq})]]
  /\ UNCHANGED <<immutables, store>>

\* handle_mutable_put: looking the key up promotes it even if the put is then
\* refused.
HandleMutablePut(n, m) ==
  LET got == LruGet(mutables[n], m.key)
      put == LruPut(got, [key |-> m.key, seq |-> m.seq, val |-> m.val, age |-> 0], CacheMax)
      refused == Has(got, m.key) /\ Refused(Entry(got, m.key), m)
  IN
  /\ mutables' = [mutables EXCEPT ![n] = IF refused THEN got ELSE put]
  /\ acked' = IF refused THEN acked
              ELSE [acked EXCEPT ![n] = [Stored(n, put) EXCEPT ![m.key] = Max({@, m.seq})]]
  /\ UNCHANGED <<immutables, store>>

HandleImmutablePut(n, m) ==
  /\ immutables' = [immutables EXCEPT ![n] = LruPut(@, [key |-> m.key, age |-> 0], CacheMax)]
  /\ UNCHANGED <<mutables, acked, store>>

\* handle_announce: a new target is refused when there are too many.
HandleAnnounce(n, m) ==
  LET targets == {k \in Keys : store[n][k] # <<>>} IN
  /\ store' = IF Cardinality(targets) >= TargetsMax /\ m.key \notin targets THEN store
              ELSE [store EXCEPT ![n][m.key] = AnnPut(@, [from |-> m.from, age |-> 0], PeersMax)]
  /\ UNCHANGED <<mutables, immutables, acked>>

HandleUnannounce(n, m) ==
  /\ store' = [store EXCEPT ![n][m.key] = AnnRemove(@, m.from)]
  /\ UNCHANGED <<mutables, immutables, acked>>

\* The response to an Announcer's ANNOUNCE: the relay is kept with that token.
KeepRelay(c, token) ==
  LET others == {t \in relays[c] : t.node # token.node}
  IN  IF Cardinality(others) < RelaysMax THEN others \cup {token} ELSE relays[c]

\* RpcHandlers::handle for a command with a token; the response may be lost.
Receive(m) ==
  LET n == m.token.node IN
  /\ m \in net /\ up[n] /\ ~ephemeral[n] /\ Validate(n, m.token)
  /\ CASE m.cmd = "MUTABLE_PUT"   -> HandleMutablePut(n, m)
       [] m.cmd = "IMMUTABLE_PUT" -> HandleImmutablePut(n, m)
       [] m.cmd = "ANNOUNCE"      -> HandleAnnounce(n, m)
       [] OTHER                   -> HandleUnannounce(n, m)
  /\ \/ UNCHANGED relays
     \/ /\ m.cmd = "ANNOUNCE"
        /\ relays' = [relays EXCEPT ![m.from] = KeepRelay(m.from, m.token)]
  /\ UNCHANGED <<load, op, net, up, ephemeral, cur, prev, rotations, delayed, limited, clock>>

\* The last copy is gone: lost, refused for its token, or the retries are over.
Drop(m) ==
  /\ m \in net
  /\ net' = net \ {m}
  /\ UNCHANGED <<load, op, relays, nodeVars>>

-----------------------------------------------------------------------------
(* What a node does by itself, and the internal commands with state.       *)

\* Time passes; every GcEvery units on_gc_tick collects all three tables.
Tick ==
  LET gc == clock + 1 = GcEvery
      Mut(n) == IF gc THEN LruGc(Aged(mutables[n]), Ttl) ELSE Aged(mutables[n])
  IN
  /\ load.aging
  /\ clock' = IF gc THEN 0 ELSE clock + 1
  /\ mutables' = [n \in Nodes |-> Mut(n)]
  /\ immutables' = [n \in Nodes |-> IF gc THEN LruGc(Aged(immutables[n]), Ttl) ELSE Aged(immutables[n])]
  /\ store' = [n \in Nodes |-> [k \in Keys |-> IF gc THEN AnnGc(Aged(store[n][k]), AnnTtl)
                                               ELSE Aged(store[n][k])]]
  /\ acked' = [n \in Nodes |-> Stored(n, Mut(n))]
  /\ UNCHANGED <<load, op, net, relays, up, ephemeral, cur, prev, rotations, delayed, limited>>

\* do_persistent_transition: from now on storage commands are served.
Persist(n) ==
  /\ n \in load.nodes /\ up[n] /\ ephemeral[n]
  /\ ephemeral' = [ephemeral EXCEPT ![n] = FALSE]
  /\ UNCHANGED <<load, op, net, relays, up, cur, prev, rotations, mutables, immutables, store, delayed, limited, clock, acked>>

\* handle_find_node answers a host once a second; a map grown too large is
\* emptied.
Unlimited == [hosts |-> {}, fresh |-> {}]

FindNode(c, n) ==
  LET entered == [hosts |-> limited[n].hosts \cup {c}, fresh |-> limited[n].fresh \cup {c}] IN
  /\ "ping" \in load.kinds /\ up[n] /\ c \notin limited[n].fresh
  /\ limited' = [limited EXCEPT ![n] = IF Cardinality(entered.hosts) > RateMax THEN Unlimited ELSE entered]
  /\ UNCHANGED <<load, op, net, relays, up, ephemeral, cur, prev, rotations, mutables, immutables, store, delayed, clock, acked>>

\* The entry stays in the map.
SecondPasses(c, n) ==
  /\ c \in limited[n].fresh
  /\ limited' = [limited EXCEPT ![n].fresh = @ \ {c}]
  /\ UNCHANGED <<load, op, net, relays, up, ephemeral, cur, prev, rotations, mutables, immutables, store, delayed, clock, acked>>

DelayedPing(c, n) ==
  /\ "ping" \in load.kinds /\ up[n] /\ Len(delayed[n]) < DelayedMax
  /\ delayed' = [delayed EXCEPT ![n] = Append(@, c)]
  /\ UNCHANGED <<load, op, net, relays, up, ephemeral, cur, prev, rotations, mutables, immutables, store, limited, clock, acked>>

\* on_delayed_ping_fire: reply, then swap with the last and pop.
DelayedFires(n) ==
  /\ \E i \in DOMAIN delayed[n] :
       delayed' = [delayed EXCEPT ![n] = Front([delayed[n] EXCEPT ![i] = Last(delayed[n])])]
  /\ UNCHANGED <<load, op, net, relays, up, ephemeral, cur, prev, rotations, mutables, immutables, store, limited, clock, acked>>

\* ~RpcHandlers: timers are stopped, pending replies orphaned, tables freed.
Destroy(n) ==
  /\ n \in load.nodes /\ load.stops /\ up[n]
  /\ up' = [up EXCEPT ![n] = FALSE]
  /\ delayed' = [delayed EXCEPT ![n] = <<>>]
  /\ mutables' = [mutables EXCEPT ![n] = <<>>]
  /\ immutables' = [immutables EXCEPT ![n] = <<>>]
  /\ store' = [store EXCEPT ![n] = [k \in Keys |-> <<>>]]
  /\ limited' = [limited EXCEPT ![n] = Unlimited]
  /\ acked' = [acked EXCEPT ![n] = [k \in Keys |-> 0]]
  /\ UNCHANGED <<load, op, net, relays, ephemeral, cur, prev, rotations, clock>>

-----------------------------------------------------------------------------
Init ==
  /\ load \in Loads
  /\ up = [n \in Nodes |-> TRUE]
  /\ ephemeral = [n \in Nodes |-> load.ephemeral]
  /\ cur = [n \in Nodes |-> [root |-> 1, hashed |-> 0]]
  /\ prev = [n \in Nodes |-> [root |-> 2, hashed |-> 0]]
  /\ rotations = [n \in Nodes |-> 0]
  /\ mutables = [n \in Nodes |-> <<>>]
  /\ immutables = [n \in Nodes |-> <<>>]
  /\ store = [n \in Nodes |-> [k \in Keys |-> <<>>]]
  /\ delayed = [n \in Nodes |-> <<>>]
  /\ limited = [n \in Nodes |-> Unlimited]
  /\ clock = 0
  /\ op = [c \in Clients |-> Idle]
  /\ net = {}
  /\ relays = [c \in Clients |-> {}]
  /\ acked = [n \in Nodes |-> [k \in Keys |-> 0]]

Operate(c) ==
  \/ ImmutablePut(c) \/ ImmutableGet(c) \/ MutablePut(c) \/ MutableGet(c)
  \/ Lookup(c) \/ FindPeer(c) \/ Announce(c) \/ Unannounce(c)
  \/ AnnouncerUpdate(c) \/ AnnouncerStop(c)
  \/ WalkEnds(c) \/ Done(c)

Serve(n) ==
  \/ RotateTokens(n) \/ Persist(n) \/ DelayedFires(n) \/ Destroy(n)
  \/ \E c \in load.clients : \/ Visit(c, n) \/ LoseQuestion(c, n)
                             \/ FindNode(c, n) \/ SecondPasses(c, n) \/ DelayedPing(c, n)

Next ==
  \/ \E c \in load.clients : Operate(c)
  \/ \E n \in load.nodes : Serve(n)
  \/ \E m \in net : Receive(m) \/ Drop(m)
  \/ Tick

Spec == Init /\ [][Next]_vars

-----------------------------------------------------------------------------
\* A token is good for the rotation period in which it was issued and the next
\* one, however walk, rotations and late commits interleave: a commit under
\* way is accepted exactly if its node rotated at most once since it answered.
TokenWindow ==
  \A m \in net : Validate(m.token.node, m.token) <=> rotations[m.token.node] - m.token.issued <= 1

\* Nothing outlives its time to live by more than one collection interval,
\* however gets reorder the list between collections.
Expires ==
  \A n \in Nodes :
    /\ \A i \in DOMAIN mutables[n] : mutables[n][i].age < Ttl + GcEvery
    /\ \A i \in DOMAIN immutables[n] : immutables[n][i].age < Ttl + GcEvery
    /\ \A k \in Keys : \A i \in DOMAIN store[n][k] : store[n][k][i].age < AnnTtl + GcEvery

\* mutable_get with latest returns a record at least as new as any that an
\* answering node had acknowledged and still held, in spite of late, repeated
\* and refused puts.
ReadsNewest ==
  \A c \in Clients :
    op[c].kind = "mutable_get" /\ op[c].phase = "done" /\ op[c].latest => op[c].result >= op[c].floor
=============================================================================
