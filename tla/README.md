# A TLA+ verification of hyperdht-cpp

hyperdht-cpp is a C++ implementation of HyperDHT: a Kademlia node over UDP, and on top of
it connections to peers addressed by public key, made directly, by UDP holepunching or
through a relay. It is one process with one libuv loop. Nothing runs in parallel, and yet
almost everything is concurrent: every operation is a chain of callbacks (answers, timers,
stream events, decisions of the application) that interleave with all other chains, may
come late, twice or never, and may destroy the object whose callback is running. That is
what the models are about. Each TLA+ action is one callback, run to completion.

Paths are relative to the repository root (`src/...`, `include/hyperdht/...`); the exact
lines behind each definition are in `PROJECT.json` under `map`.

## 1. The system and its parts

| Part | State | Operations | Talks to | What is hard |
|---|---|---|---|---|
| RPC socket (`rpc.cpp`) | transaction ids, in-flight list, congestion window, queue, Sessions | request, response, retry, timeout, drain tick, cancel, close | used by everything | late and repeated answers, a full window and queue, cancellation of queued requests |
| Routing table, ping-and-swap, down hints (`routing_table.cpp`, `rpc.cpp`, `rpc_handlers.cpp`) | buckets with tick fields, counters of pings | add, remove, reping-and-swap, check_node, rebuild | RPC socket | decisions from a snapshot taken before a ping |
| Query engine (`query.cpp`) | stack of nodes, seen set, results, commit counter | start, visit, reply, timeout, commit, destroy | RPC socket, table | termination; destroy from inside a callback; one commit lost |
| DHT operations (`dht_ops.cpp`, `dht_storage.cpp`) | - | lookup, announce, put, get | queries | commit handlers without a timeout |
| Storage handlers, tokens, LRU (`rpc_handlers.cpp`, `tokens.cpp`, `announce.cpp`, `lru_cache.hpp`) | records with TTL, two secrets | the request handlers, rotation, collection | RPC socket | a token across a rotation; sequence numbers; eviction |
| Server (`server.cpp`, `server_connection.cpp`) | four session tables, timers, punchers, relay attempts | handshake, firewall decision, holepunch, hand-over, suspend, close | router, announcer, puncher, blind relay | eight ways to end a session, in any order |
| Announcer (`announcer.cpp`) | relays, timers, the running query | update, announce, unannounce, ping, stop, start | query, server | restart after stop; walks that outlive their cycle |
| NAT sampler (`nat_sampler.cpp`) | counts per host and address, class, offer | add, freeze, unfreeze | RPC socket, server, holepunch | order of samples; freezing while counts move |
| Health, persistence (`health.cpp`, `rpc.cpp`) | ring of ticks, stable ticks, probe | background tick, check_persistent, firewall probe | table, NAT sampler | hysteresis; a probe that overlaps a suspend |
| Router (`router.cpp`) | forward entries | accept a handshake or a holepunch message, route its answer | server, RPC socket | answers identified by address and tid only |
| Client connect (`connect.cpp`, `peer_connect.cpp`) | ConnState | lookup, handshakes, direct, LAN, holepunch, relay | query, holepunch, relay | a race of paths to one completion |
| Holepunch client (`holepunch.cpp`) | PunchState, pool socket, Holepuncher | sampling, rounds 1 and 2, probe strategies, abort | RPC socket, NAT sampler | timeouts, late samples, a strategy that cannot start |
| Connection pool (`connection_pool.cpp`) | connections by key | attach, mark opened, remove | application | two peers that dial each other |
| Secret stream (`secret_stream.cpp`) under the C API's wrapper (`ffi_stream.cpp`) | header exchange, queue, timers, nonce | start, read, write, end, destroy | UDX stream | messages before the connect event; destroy in a callback |
| Protomux (`protomux.cpp`) | channels and their ids, pending opens, batch | create, open, send, cork, close, destroy | secret stream | ids of the two ends; opening and closing from both ends |
| Blind relay (`blind_relay.cpp`) | pairings by token, sessions, streams | pair, unpair, close, evict | protomux; server and client | a half-made pairing; one side lost |
| HyperDHT (`dht.cpp`, `dht_network.cpp`) | the components it owns | bind, bootstrap, listen, suspend, resume, destroy | all | calls in any order against callbacks under way |

What makes each part correct:

* RPC socket: an accepted request ends exactly once; a refused one never calls back; the
  window's accounts stay right; no request starves.
* Table: sizes are exact, buckets bounded, limits on pings hold, a node that answers stays.
* Query: completes exactly once, misses no nearer node it learned of, reports after its commits.
* Storage: a token is good for one to two rotations; nothing outlives its TTL by more than a
  collection; a read returns the newest record an answering node holds.
* Server: tables agree, one session per handshake, one live stream handed over, bounded
  number of sessions, silence when stopped, every session ends.
* Announcer and lifecycle: what was stopped does not announce again; cycles end; a node
  becomes persistent on evidence only.
* NAT sampler: each source counts once, the class rests on evidence and on a
  majority if there is one, the offer fits the class.
* Connect: one completion, with the raw stream if and only if it succeeded; no relay given up
  untried; a punch that is over leaves nothing armed.
* Router and pool: an answer reaches who asked; two peers end up with one stream, the same.
* Secret stream: messages in order, close last, nonces fresh, connects and closes.
* Protomux: lookup tables exact, both ends agree when all is quiet.
* Blind relay: no pairing points at a closed session, every stream has an owner, halves meet.

## 2. Modules

| Module | Models |
|---|---|
| `RequestPromise` | abstract: what `RpcSocket::request` promises to its callers |
| `RpcSocket` | request side of `rpc::RpcSocket`, `CongestionWindow`, `rpc::Session`; implements `RequestPromise` |
| `PingAndSwap` | `RoutingTable` (add, remove, rebuild), `add_node_from_network`, `on_bucket_full`, `reping_and_swap`, `check_node`, `handle_down_hint` |
| `Query` | `query::Query` and the commit handlers of `dht_ops` |
| `ServerSessions` | the sessions of `server::Server` with firewall, puncher, first packet, blind relay, suspend and close |
| `NatSampler` | `nat::NatSampler` and its uses in `rpc.cpp`, `server.cpp`, `holepunch.cpp` |
| `Protomux` | `Mux` and `Channel` at both ends of a stream |
| `SecretStream` | `SecretStreamDuplex` at both ends, under the wrapper of the C API |
| `Holepunch`, `Connect` | `holepunch_connect` with `PoolSocket` and `Holepuncher`; `HyperDHT::connect`, which extends it |
| `StorageTables`, `Storage` | `LruCache` and `AnnounceStore`; the storage handlers, `TokenStore`, and the clients' operations against them |
| `Announcer`, `Health`, `Lifecycle` | the announcer and the health monitor as objects; `HyperDHT`, its servers, background tick and firewall probe, composed with both |
| `BlindRelay` | `BlindRelayClient`, `BlindRelaySession` and `BlindRelayServer` over their channels |
| `Router`, `ConnectionPool`, `Peers` | the router and the pool as objects; two nodes that dial each other directly and through relays, composed of both |
| `Lists` | loops that keep some elements of a list, in closed form; used by `Query`, `StorageTables` and `NatSampler` |
| `MC*` | constants and scenarios for TLC |
| `RpcSocketProofs`, `ServerSessionsProofs`, `PingAndSwapProofs`, `ConnectProofs`, `LifecycleProofs`, `BlindRelayProofs`, `PeersProofs`, `StorageProofs` | theorems about the module each is named after; `ConnectProofs` also has those about `SecretStream`, `BlindRelayProofs` those about `Protomux`, `StorageProofs` those about `Query` and `NatSampler` |

How the layers meet. A visit of `Query`, a ping of `PingAndSwap`, a handshake of `Connect`
and a commit of `Storage` are requests of `RpcSocket`; all use what `RequestPromise` grants:
a request is refused, answered or expires, once. `Query`'s fairness is `RpcSocket`'s property
`Resolves`. The walks of `Storage`, `Announcer` and `Connect` are `Query` seen from outside:
questions that are answered or lost, in any order, and a completion, which does not come if
`RpcSocket` refused a visit (the walks of `Announcer` and `Connect` have that case). `Connect` reads a
`NatSampler` through the classes it can report. `Peers` composes the router, the pool and
one attempt of `Connect` per connection; `Lifecycle` composes servers, announcers, health
and probe.

### RpcSocket

A request is its transaction id, because `find_inflight` looks at nothing else. `st` says
whether it is queued in `pending_`, in `inflight_`, or how it ended; `calls` is a history
of callbacks run. `Request` is `request()` with its three ends (sent, queued, refused: a
refused caller gets 0 and no callback); `Response` is the response branch of
`handle_message`; `Retry` and `Expire` are the two branches of `on_request_timeout`;
`DrainTick` rotates the window and empties the queue into it, in one step as in
`on_drain_tick`; `DestroySession` is `Session::destroy`, which cancels what is in flight;
`Close` drops everything. `Callers` says through which Session and with how many retries
requests are issued. The RTT estimate is left out: it only chooses timer lengths, and a timer
of the model fires whenever it likes.

### PingAndSwap

`table` holds the tick fields of `Node`. Handlers that change the table several times
(an answer observes its sender, then ends a ping, which swaps, which adds, which may start
the next ping) are compositions of functions on the record `Now`. `place` gives the bucket
of every node; the persistent transition picks another one. `ok` says whether
`request()` accepts a ping; a refused one leaves its counter raised, as in the code.

### Query

Nodes are numbered by distance to the target. `pending` is the stack `pending_`, `inflight`
the counter `inflight_`, `flight` the visits that will still call back; the two differ
when `request()` refuses. `Pump` is the loop of `read_more` in closed form. `accepted` is
the number of requests the socket accepts in a row during one callback. Seeds and bootstrap
addresses are lists, in which a node may come twice. An answer may
carry an id or not, an error, a token, closer nodes, and `on_reply_` may call `destroy()`.

### ServerSessions

A session is its number `next_hp_id_`; its handshake is `key`. The four tables and
the punchers are sets, `raw` says who owns the session's stream (the session, the
application, or nobody because `~ServerConnection` destroyed it), and `direct` and
`relayed` count calls of `on_connection_`. A UDX stream id is drawn at random from 32
bits; the model takes it to be unique.

### NatSampler

The two lists of samples are kept in the code's order, including the peculiarity of the
swap loop of `add_sample`, which goes on comparing through a reference to the slot it left.
`said` remembers what each source reported: the counts must be those of `said`. The list is not
always sorted, so the class depends on the order of the reports: A, B, C, D, D, D leave hits of
1, 3, 1, 1 and the class random. `MajorityWins` says what the order cannot hide.

### Protomux

`mux[e]` is the `Mux` of an end: its channels by local id with their state (created, OPEN
sent, open, closed) and the peer's id, `remote_to_channel_`, the remote OPENs that wait for a
local channel, and the corked batch. A packet is one frame or one batch; the stream is a
FIFO of packets. Data frames carry the receiver's id and are looked up as the sender's, as
the code does; `strayed` remembers those that missed their channel. Callbacks of the
application are steps of their own. A batch is handled frame by frame in one step, up to the
receiver's limit; the sender knows no limit, and `cut` remembers that a batch lost its end. `Tidy`
restricts the application to one channel per key and to closing what it opened.

### SecretStream

`dup[e]` is the duplex with its wrapper: header sent, acknowledged, received; the queue of
messages before the connect event; the parser's half-read frame; ended, destroyed, closed.
`OnUdxRead` takes up to two frames of one read and may end inside one. UDX is external: frames of a live
stream arrive in order and are acknowledged, and the close callback comes last. `nonces`
follows the counter of unordered messages modulo `Nonces`, from a random start.

### Holepunch and Connect

`conn` is `ConnState`, `hp` is `PunchState` with its pool socket and puncher. The relays that wait
for a handshake are counted (`pending`): nothing depends on which is next. `DoConnect` takes
the route shortcut or starts the query and the cached relays; `OnReply`, `OnQueryDone` and
`HandshakeDone` pump and exhaust the list of relays; `refused` counts the handshakes in flight
whose request `RpcSocket` refused, and `VisitRefused` does the same to the query; `OnFirewall` is the server's first packet,
before or after the handshake's answer; `LanPong`, `RelayPaired`, `OnPunchDone` are the other
ways to succeed. The punch samples its NAT by pings, waits for enough samples, asks twice
over the relay and probes. Timers count down in steps (`Attempts`, `Polls`, `Rounds`,
`Probes`). The client passes neither socket pool nor statistics to the puncher, so the
birthday strategy and the throttle are out of reach and not modelled.

### StorageTables and Storage

A node has its two secrets, the LRU caches as lists with ages, the announce store and the
limits of FIND_NODE and DELAYED_PING. Secrets are modelled by what `TokenStore::rotate` does
(swap, then hash), so that a token is valid exactly if it was made with one of two values.
A client's operation asks every node once, then commits with each token it got. Commits
under way stay in `net`, so they may arrive late, out of order and repeatedly. `Loads` are
scenarios: the tables do not interact, so each behaviour uses the ones its scenario names.

### Announcer, Health and Lifecycle

An announcer is a record of its flags, relays and sentinel; a walk, a request and a round of
pings carry the sentinel of the object that began them and outlive its cycles, as the lambdas
of the code do. `Lifecycle` has the calls on `HyperDHT` and `Server` in any order, the
background tick with the health monitor, and the firewall probe. `late` remembers servers
that were told to listen after a stop, `heard` the hosts that reached the server socket
since the probe began. A walk with a visit refused (`stuck`) never ends; a round of pings with
one refused decides nothing. That nobody binds a destroyed node is an assumption about callers
(`BindSockets`): neither `HyperDHT::bind` nor `RpcSocket::bind` checks it. `Scenarios` chooses the calls and counts the events of a behaviour.

### BlindRelay

Each endpoint has one connection to the relay, with a `BlindRelayClient` at one end and a
`BlindRelaySession` at the other. `pairings[t].links` are the sessions that wait for a token;
a match makes two streams, tracks each at its session and confirms to both, and may fail
between any two of these. `leaked` are the streams that a failed match abandons. An endpoint
presents each token once (`ClientPair`); the code only refuses a token whose request still waits
(`blind_relay.cpp:225`), and a token presented again later is outside the model.

### Router, ConnectionPool and Peers

A packet has sender, receiver, tid, mode and the client's address when a relay added it.
`Answer` is the reply function of the router: a RESPONSE to who asked directly, a REQUEST with
the same tid to a relay, which turns it into the RESPONSE. The pool's `AttachStream` returns
what it holds and what it destroys. In `Peers` each attempt gives each node at most one stream.
The pool belongs to the application: `HyperDHT::connect` only asks `has()`. The application of
`Peers` attaches its outbound stream, not yet open, where it calls connect
(`connection_pool.hpp:89`), and marks or removes an entry only while the entry is the stream in
question. `PeersShareOne` and `OneStreamPerPeer` are about such applications; one that attaches when
the connect completes, or removes by key after the loser of a tie has closed, would not have them.
Which relay carries an answer back when there are two (`router.cpp:134`, unfinished) is not claimed.

## 3. Runs

| Run | What it shows | Bounds |
|---|---|---|
| `rpc_requests` | accounts of the window, queue, one callback, retries, what a Session remembers; implements `RequestPromise`; every accepted request ends | 3 ids, window 1 (total budget 2), queue 1, 1 retry, 1 session without retries |
| `ping_and_swap` | sizes, limits, tick order, an answering node survives a swap | 2 nodes, bucket of 1, 2 swaps and 1 check at a time, 3 ticks, 3 placements |
| `query_walk` | one completion, no node lost or visited twice, frontier exhausted, commits awaited, end | 4 nodes, K = 2, concurrency 2, slow 1, three seed lists, 0 or 1 bootstrap address, refusals |
| `server_sessions` | tables, deduplication, silence, end of every session | 2 handshakes, 3 sessions, room for 2 |
| `nat_sampler` | counts, evidence, ladder, majority, offer | 2 hosts x 2 ports, 6 sources, 1 client, 6 samples |
| `mux_channels` | lookup exact, ends agree and strays only across ids until a batch is cut | 2 channels per end, 2 keys, 4 frames under way, corks one deep, batches cut after 3 entries |
| `secret_stream` | order, close last, nonces, connecting and closing | 2 messages per end, 2 frames under way, queue of 1, 3 nonces, one end with keepalive and one with a timeout |
| `connect` | stream with the success, exhaustion, punch settles, completion unless starved by refusals | 3 relays, 2 handshakes at a time, 3 pings, 2 sends, 2 polls, 1 round, 1 probe |
| `storage` | tokens, expiry, newest record | ten scenarios of 1 or 2 nodes and clients, up to 3 keys, 2 versions or values, 4 rotations, TTL 2, 4 commits under way |
| `lifecycle` | stopped stays stopped, evidence, health counts, cycles end unless their walk was refused a visit | nine scenarios of 4 to 10 events, 1 or 2 servers, 2 nodes, up to 3 hosts |
| `blind_relay` | links, streams, meeting of halves | three scenarios: 2 endpoints and 1 token with 3 upsets; 2 tokens with room for 1; 3 endpoints, two of them on one side |
| `peers` | answers, one stream per peer, the same at both ends | 2 nodes, 2 relays, 3 attempts, 1 upset |

`RequestInv`, `TableInv`, `WalkInv` and `SamplerInv` are conjunctions of named invariants (type,
and what each part adds); the parts are stated one by one, with their reasons, in the modules.

Why the bounds are enough for the cases that matter. With a window of 1 and a queue of 1,
three requests meet all three ends of `request()`, a retry can push `total_` over the
budget while another request waits, and the window can rotate fully. With two nodes in a
bucket of one, each may be the old and the new one of a swap, and a swap may start the next
from inside its callback; the three placements make a rebuild gather, spread or drop nodes
and find the node itself. Four peers, K = 2 and concurrency 2 let a result fill up and push
an entry out while a visit is in flight, let the walk slow down and fall back to the table.
Two handshakes and three sessions with room for two repeat a handshake during and after
its session and reach the limit. Six samples pass every rung of the ladder (3, 4, 5 and
more) and MAX_VISITED. Two channels per end, created in either order, make ids agree and
differ; a batch of three entries holds an OPEN, the marker and the data that depends on it, and a
longer one is cut, after which TLC reaches strays on channels with equal ids. Refusals hit none,
one or both handshakes of a step, the remembered route, and visits of walks that are then abandoned or not. A queue of one before
the connect event overflows with two messages, and three nonces wrap. Three relays with two
handshakes leave one waiting when the others fail. Four rotations are two more than a token
lives. Three attempts let two peers dial each other and a later one meet the winner. Two
upsets in `peers` were also tried (6.9 million states, no violation).

Each id, session number and source is used once per behaviour: the wrap-around of `next_tid_`
is modelled (0 is skipped on wrap, not at the start), the reuse of an id while it is
outstanding, which needs 65536 requests, is not. Scenarios split state that does not interact;
within one, everything interleaves.

Deadlock is not checked in most runs because the bounds use up ids, sessions, events and
ticks, and because a finished query, connect or stream does rest.

Fairness:

* `RpcSocket`: weak fairness of the drain tick and of every request's timer. Both are
  started libuv timers, which fire while the loop runs. Nothing is assumed of the network.
* `Query`: weak fairness of "an outstanding request ends", by an answer or by its timer;
  this is what `Resolves` of `RpcSocket` gives, and it is enough because a node is visited
  and committed to once. No answer is assumed.
* `ServerSessions`: weak fairness of the session timers. Clients, relays and the firewall
  of the application may never come back.
* `SecretStream`: UDX delivers, acknowledges and closes, and the wrapper starts the duplex where
  it creates it. Timers and applications may do nothing.
* `Connect`: requests that were accepted are answered or time out (`Resolves`), a query none of
  whose visits was refused ends (`QueryEnds`), timers fire. Nothing comes of a refused request.
  Probes, the server's packets and the relay may never come.
* `Lifecycle`: the same of walks, requests and pings, and the probe's timer; a walk with a visit
  refused never ends, nothing is assumed of the bootstrap walk and the refreshes, and calls may stop.
* `BlindRelay`: frames of a live connection are delivered.

## 4. Proofs

TLAPS checks these for every value of the constants, from the named assumptions of the modules
and from nothing else. They say that bounds and limits are natural numbers (positive where the
code's are), that the sets `Relays` of `Connect`, `Nodes` of `PingAndSwap` and `Peers` of `Query`
are finite (peers are numbers, and seeds, table and bootstrap are lists of them), that a stream
has two ends, that a port is not 0, that names which must differ do, that there are keys and
values, and that a scenario uses the nodes, clients, keys and values of its instance and health
samples that are counts. TLC evaluates each of them in the module's run.

| Module | Theorems about checked properties | Further theorems |
|---|---|---|
| `RpcSocketProofs` | `WindowAccountingTheorem`, `RequestInvTheorem`, `KeepsPromiseTheorem` | `QueueExactTheorem`, `CallbackOnceTheorem`, `RetryBudgetTheorem`, `SessionTracksTheorem` |
| `ServerSessionsProofs` | `TablesAgreeTheorem`, `DedupExactTheorem`, `OneSessionTheorem`, `QuietTheorem` | `DirectOnceTheorem`, `PendingBoundedTheorem` |
| `PingAndSwapProofs` | `TableInvTheorem`, `SwapSparesAnsweringTheorem` | `WholeTheorem` |
| `ConnectProofs` | `StreamDeliveredTheorem`, `FailsOnlyExhaustedTheorem`, `PunchSettlesTheorem`, `InOrderTheorem`, `NonceFreshTheorem`, `CloseIsLastTheorem` | `WholeTheorem`, `StreamTheorem` |
| `LifecycleProofs` | `HealthExactTheorem`, `PersistentEvidenceTheorem`, `StoppedTheorem` | `NodeTheorem`, `AnnounceTheorem` |
| `BlindRelayProofs` | `LinksLiveTheorem`, `StreamsOwnedTheorem`, `LookupExactTheorem`, `EndsAgreeTheorem`, `StraysTheorem` | `SoundTheorem`, `MuxTheorem` |
| `PeersProofs` | `AnswersAskerTheorem`, `OneStreamPerPeerTheorem`, `PeersShareOneTheorem` | `AskedTheorem`, `HeldTheorem` |
| `StorageProofs` | `TokenWindowTheorem`, `ExpiresTheorem`, `ReadsNewestTheorem`, `WalkTheorem`, `CommitsAwaitedTheorem`, `SamplerTheorem`, `OfferFitsTheorem` | `StorageTheorem`, `QueryTheorem` |

The arguments, and the inductive invariants behind them:

`RpcSocketProofs`. `Accounts` (type and the sum of the buckets) is inductive alone: a credit
never exceeds the current bucket, and `drain` forgets exactly what it subtracts, so the clamp at
0 is dead code. `QueueExact` needs the queue's entries to be distinct: `DrainTick` then moves
exactly the prefix it sends, and no queued request was sent. `Fate` lists the five things one
step can do to one request: only an in-flight request can run a callback, and it then ends for
good, so none runs twice; its sends grow by one and only below the retry bound. What a Session
remembers follows request by request: it enters with `request()` (unless its id is 0) and leaves
when it ends. The refinement follows step by step: every action changes the statuses of one
request or cancels a set of outstanding ones, or leaves all outcomes alone.

`ServerSessionsProofs`. `Sessions` is the conjunction of `TypeOK`, `TablesAgree`, `DedupExact`,
`DirectOnce`, `PendingBounded` and three strengthenings: `Fresh` (a number not yet given out has
no trace; a waiting decision's session is in no table), without which a new session could
inherit something; `DedupComplete` (with a synchronous firewall, every live session is the one
its handshake's entry names), from which `OneSessionTheorem` follows; `StoppedEmpty` (a stopped
server has no sessions), from which `QuietTheorem` follows. `NeverTrimmed` shows that the
emergency emptying of `handshake_dedup_` never happens: entries name distinct live sessions, so
there are never more than twice as many. `DirectOnce` and `PendingBounded` need no run.

`PingAndSwapProofs`. The invariant is stated of the value a handler computes, so that it can be
carried through the calls of one handler: an answer observes its sender, ends a ping, swaps, adds
and may start the next ping. It is `TableInv` in that form, with the order of ticks also in the
snapshots that pings carry. A swap ping is decided in a later tick than the one its target was last seen in
(`SwapPingIsNews`), so the observation of the answer always counts as news and the swap is
dropped: this is `SwapSparesAnswering`. That a full bucket has an oldest node to ping, and that
`rebuild_with_id` fills a bucket up to its capacity, needs a least element of a finite set,
proved by well-founded minimality.

`ConnectProofs`. `PunchInv` says that a punch is in one phase at a time (Round 1, the wait for
samples, a sleep, Round 2) and that its own class is known from the first sleep on; without this
a late sample could arm the poll of a finished punch. `ConnInv` counts relays: until a
handshake wins, those tried and those that wait are together the ones found and remembered, so
giving up with none waiting and none in flight means that each was tried. The refused are among
those in flight, which therefore never get to zero once one was refused.

For `SecretStream`, `StreamInv` says that, until an end is destroyed, the frames on the way to it
continue what it was given up to what the other end wrote, with the header first and once.
A closed end is destroyed, and its stream has been detached, so no event can follow the
close. The nonces used are the values of a counter that has not come round.

`LifecycleProofs`. For the health monitor, the marked ticks of a window lose the head's verdict
and gain the new one's; a tick is judged at most once, because only the last tick of a full
window is judged and it was recorded without a verdict in the same call. For the probe, the hosts
that count are among those heard since it began. For the announcers, `Sensible` says that one
which was made and does not run has lost its sentinel, and that walks are begun by announcers that
were made; hence no walk can touch a stopped announcer. A closed server does not listen, so
`resume()` has nothing to start, unless it was told to listen after the stop.

`BlindRelayProofs`. `Good` relates pairings, sessions and streams; `Fresh` says that a token of an
endpoint is presented once: it is in a frame, or waits, or has its stream, and never two of these.
Without `Fresh` a second match could fail over a stream that a session owns.

For `Protomux`, the invariant relates an end, the other end, and the frames on the way between
them (packets, then the batch). `General` holds for any application: the lookup is
exact, and an OPEN on the way is there once, belongs to an opened channel and is unknown to its
receiver. `Orderly` needs a tidy application: one live channel per key (`Alone`); the peer of a paired
channel is paired with it, or its OPEN is on the way, or an end is destroyed (`Answered`); a
close is on the way to a live peer (`Heard`); the frames of a channel, and of two channels of one key,
arrive in the order of sending (`InLine`). Both are stated of records and of a position in the first
packet, so that a batch is followed frame by frame. `General` also survives a batch that is cut: what
it says of the frames on the way holds of the rest (`LostRest`). `Orderly` is kept only until the
first cut (`Uncut`), as long as every batch is taken whole (`AllTaken`). That each frame of the loop
keeps the invariant gives the whole loop by the least position at which it fails, which
`FirstOf` finds by counting. With nothing on the way, `Answered`, `Heard` and `Announced` leave
only the pairings of `EndsAgree`.

`PeersProofs`. `Asked` traces every packet back to the request under which its client waits,
through relays that rewrite its sender; `Held` ties the entries of the pools
to the stages of the attempts and to the live streams. `PeersShareOne` needs two facts that hold
while nothing is upset: `Answered` (the server has a session for what it answered) and `Decided`
(an attempt of the lower key, or any attempt while the lower key makes none, is live at its maker
and refused nowhere).

`StorageProofs`. A secret names the one rotation period in which it is current (`Period`, which is
injective): a node holds the secrets of this period and the last, every token, in an operation,
in a commit under way or with an Announcer, was made from the secret of the period it was issued
in, and so it validates in two periods and no more. Between collections a record is at most as
old as its time to live and the clock since the last collection together. For reads, a node holds
what it acknowledged in that version or a newer one (`Holds`), which needs a cache to have one
entry of a key (`Single`): otherwise a lookup, which moves one entry to the front, could lose
another. The lists are handled through the set of their elements; that the positions a filter
keeps are numbered without gaps (`Ranks`) is the one fact that counts.

For `Query`, `QueryInv` is stated of the record a callback computes, for a walk that is live, over
or destroyed. Its core is `Covered`: unless a visit was lost to a refusal, every node that was
learned of and has not ended is on the stack, in flight, or farther than the last entry of a full
result. A walk ends with an empty stack and none in flight, which leaves the third case: the frontier
is exhausted. `FewAbove` bounds the visits that a full result still allows, and `CommitsFit`
ties the counter of commits to those sent and not yet ended.

For `NatSampler`, the counts of the two lists are those of `said`: a sample raises one entry, and
the loop that lifts it permutes the others (`SampleCounts`), whatever the peculiar comparison does. The
class follows from the counts (`LadderFits`), an entry below the head has at most half of the
samples, and fewer the lower it stands (`BelowHead`: the strengthening that is inductive), and the offer it leads to is one host without a port
or addresses of the list (`OfferMade`), which no later sample removes.

Only model-checked is liveness (`Resolves`, `QueryEnds`, `SessionEnds`, `ConnectsAndCloses`,
`ConnectCompletes`, `UpdateEnds`, `PairsMeet`), which is outside the prover's reach. Every
invariant and every safety property of a step that a run checks is also proved. Loops over
lists stand in the models in closed form, because what a recursive definition computes for
every input cannot be proved here; the one that remains, the batch loop of `Protomux`, is a
recursive function whose steps are used one by one.

## 5. Where the code differs from what it says

The models follow the code. In these places a comment, a header or the name of a function
says something else; the models contain the step, and the properties are stated so that they
hold of the code.

RPC and table

* `Session::destroy` cancels what is in flight and not what is queued (`rpc.cpp:1219`, `252`); a
  queued request later calls into the destroyed Session, against `rpc.cpp:1185`. A request
  with id 0 is not remembered by its Session.
* `check_node` evicts a node that answers within the tick in which it was last seen (`rpc.cpp:887`).
* After `do_swap` removed a node that had already left, the bucket may be full (`rpc.cpp:834`);
  a refused swap ping keeps its unit of `repinging_` for good (`rpc.cpp:826`).
* `RoutingTable::add` calls `on_full` for a node it holds (`routing_table.cpp:126`);
  `closest` cuts in bucket order before it sorts (`routing_table.cpp:171`).

Queries and storage

* Announce and the puts never complete if one commit expires, since their handlers pass no
  timeout callback (`dht_ops.cpp:129`); a refused visit leaves `inflight_` raised and the
  query without an end (`query.cpp:243`). A connect or an announcer that waits for such a query
  waits on: nobody looks at the 0 of a refused request (`rpc.cpp:399`), a refused handshake stays
  counted in `handshakes_in_flight` (`connect.cpp:183`), and `updating_` stays set until the
  network changes (`announcer.cpp:248`). These are the exceptions in `QueryEnds`,
  `ConnectCompletes` and `UpdateEnds`.
* A bootstrap node may enter the result (`query.cpp:315`); the slowdown is not lifted after
  the fall-back to the table (`query.cpp:341`).
* `announce` walks with ANNOUNCE itself, which no node answers without a token, so its commit
  phase has nobody to send to (`dht_ops.cpp:110`; the comment at line 87 has a LOOKUP walk).
* An UNANNOUNCE carries the token of the last ANNOUNCE, usually minutes old, and is dropped
  (`announcer.cpp:374`); a record then stays until its TTL. `AnnounceStore::get` does not
  check expiry, the collector does.

Server and NAT

* A relay pairing that completes after a direct connection reports the session a second time
  (`server.cpp:750`, against "first to complete wins" at line 611), and the relay path hands
  over the stream that `clear_session` has just destroyed (`server.cpp:774`).
* Copies of a handshake that arrive during an asynchronous firewall decision get a session each.
* A server samples the address of a punching client as its own and may offer it (`server.cpp:893`,
  against line 880 and `nat_sampler.hpp:47`). `samples_full_` is not always sorted, against
  "maintain descending sort by hits" (`nat_sampler.cpp:57`): the ladder takes its head for the entry
  with most hits and may miss one with half of all reports; nothing calls `unfreeze`.
* `stop()` clears the announcer's sentinel for good, so after `resume()` the one cycle that starts
  never ends and the server is not announced again (`announcer.cpp:103`, against "Resume restarts
  the announcer" at `server.cpp:285`). `listen()` on a closed server starts an announcer that
  no `close()` stops.

Connections

* `send()` puts the receiver's channel id on a data frame and `handle_data` looks it up as the
  sender's (`protomux.cpp:260`, `712`): frames of a channel whose two ids differ are dropped
  or reach another channel. A second OPEN overwrites one that waits; a CLOSE of a waiting
  OPEN has no effect. `uncork()` writes batches of any length and the receiver drops what comes
  after 1024 entries (`protomux.cpp:677`): a lost OPEN or CLOSE leaves the ends in disagreement.
* A client behind a random NAT whose peer is not sends Round 2 and then has no strategy it can
  run; nothing is armed and the connect never calls back (`holepunch.cpp:1750`, against the
  "overall 15s timeout timer" at line 1273). This is an exception in `ConnectCompletes`.
* A failed punch fails the connect while relay and LAN may still succeed (`connect.cpp:774`).
  The passive wait of an open NAT is unreachable: the sampler never reports that class.
* A blind-relay session closed with `close()` while its pairing is then evicted or fails never
  closes (`blind_relay.cpp:453`); `pair()` on a channel that is not open keeps the request and
  drops the frame (`blind_relay.cpp:243`).
* When the peer with the higher key ends a stream and dials again at once, the new stream may be
  destroyed as a duplicate of the dying one (`connection_pool.cpp:65`).

## 6. Not modelled

* Socket pool (`socket_pool.cpp`): nothing in the library acquires or releases one of its
  sockets. `HyperDHT` owns a pool and `Holepuncher` takes one that no caller passes; the flag that
  lets a socket linger is never set. Its table of routes is read by `Connect`.
* Noise, the cipher of the secret stream, signatures and hashes: the models take honest peers.
* Byte formats, the C interface except the stream's wrapper, the language bindings, the
  embedded port, examples and tests: they hold no protocol state.
* Object lifetimes below the level of "exists or not": timers that keep a ConnState, handles that
  libuv closes later, pointers captured without a sentinel (for example the relay timer of
  `connect.cpp:825`, the refused request of `rpc.cpp:401`).
* Within modelled parts: `closest()` and `random()` of the table; aliases and handshakes of
  Protomux channels; the holepunch payload and the throttle of the server; validation of
  local addresses; malformed input everywhere. `PROJECT.json` says so part by part.

## 7. Plan

Abstract specifications worth stating: a connect attempt as a request with one outcome; a
Protomux channel as a pair of FIFO queues; storage as a map with bounded, expiring entries.

Parts to model next: the socket pool, once something in the library acquires its sockets; the
applications that `Peers` leaves out, with what their pools then still agree on.
