------------------------------- MODULE Peers --------------------------------
(***************************************************************************)
(* Two nodes that connect to each other, possibly at the same time:        *)
(* HyperDHT::connect with a connection pool, peer_handshake, the relays in *)
(* between, the Router of the node that is asked, its server's sessions,   *)
(* and the pool of either end.                                             *)
(*                                                                         *)
(* Each node has one key and one server.  The relays are nodes of the      *)
(* JavaScript network (this library does not forward).  Racing of relays,  *)
(* LAN and blind relays is module Connect; the server's timers are module  *)
(* ServerSessions.                                                         *)
(*                                                                         *)
(* The pool is the application's: HyperDHT::connect only asks has().  The  *)
(* application here attaches an outbound stream, not yet open, where it    *)
(* calls connect (the contract of attach_stream), attaches every other     *)
(* stream when it gets it, marks as opened and removes an entry only while *)
(* the entry is that stream.  An application that attaches on completion,  *)
(* or removes by key whatever stream ended, is not covered.                *)
(***************************************************************************)
EXTENDS Router, ConnectionPool, FiniteSets

CONSTANTS
  Low, High,      \* the nodes, by the order of their public keys
  Relays,         \* relay nodes
  MaxConns,       \* bound: attempts to connect
  MaxUpsets       \* bound: timeouts, closed streams and closed servers

ASSUME PeersAssumption ==
  /\ MaxConns \in Nat /\ MaxUpsets \in Nat
  /\ Low # High /\ {Low, High} \cap Relays = {} /\ NoAddress \notin Relays \cup {Low, High}

Nodes == {Low, High}
Other(n) == IF n = Low THEN High ELSE Low
Conns == 1 .. MaxConns

VARIABLES
  forwards,  \* the router of each node
  sessions,  \* handshakes the server of each node has answered
  pool,      \* the connection pool of each node
  stream,    \* the stream of each attempt at each node: none, live, dead
  conn,      \* the attempts: who made it, through whom, and how far it is
  inflight,  \* requests of each node that wait for an answer
  nextTid,   \* next_tid_ of each node
  net,       \* packets under way
  upsets     \* history: how often something went wrong

vars == <<forwards, sessions, pool, stream, conn, inflight, nextTid, net, upsets>>

NewConn == [by |-> Low, via |-> Low, stage |-> "new"]

Init ==
  /\ forwards = [n \in Nodes |-> {}]
  /\ sessions = [n \in Nodes |-> {}]
  /\ pool = [n \in Nodes |-> EmptyPool]
  /\ stream = [n \in Nodes |-> [c \in Conns |-> "none"]]
  /\ conn = [c \in Conns |-> NewConn]
  /\ inflight = [n \in Nodes |-> {}]
  /\ nextTid = [n \in Nodes |-> 1]
  /\ net = {} /\ upsets = 0

Upset == upsets < MaxUpsets /\ upsets' = upsets + 1

-----------------------------------------------------------------------------
(* The client.                                                             *)

Request(n, tid, c, cmd, via) ==
  [kind |-> "request", cmd |-> cmd, mode |-> "from_client", from |-> n, to |-> via,
   tid |-> tid, target |-> Other(n), peer |-> NoAddress, conn |-> c]

Send(n, c, cmd, via) ==
  /\ nextTid' = [nextTid EXCEPT ![n] = @ + 1]
  /\ net' = net \cup {Request(n, nextTid[n], c, cmd, via)}

Waiting(n, c, cmd) == [tid |-> nextTid[n], conn |-> c, cmd |-> cmd]

\* A stream of the application ends: its entry, and only its entry, is removed.
Dropped(p, c) == IF Get(p) = c THEN RemoveRef(p) ELSE p

\* connect: refused while the pool has a connection; else the application attaches
\* its stream, not yet open, and the handshake is sent to a relay, or to the peer
\* itself (a cached route).
Connect(n, via) ==
  \E c \in Conns :
    LET attached == AttachStream(pool[n], c, FALSE, TRUE, n = High) IN
    /\ conn[c].stage = "new" /\ \A d \in Conns : d < c => conn[d].stage # "new"
    /\ ~HasRef(pool[n])
    /\ conn' = [conn EXCEPT ![c] = [by |-> n, via |-> via, stage |-> "handshake"]]
    /\ stream' = [stream EXCEPT ![n][c] = "live"]
    /\ pool' = [pool EXCEPT ![n] = attached.pool]
    /\ inflight' = [inflight EXCEPT ![n] = @ \cup {Waiting(n, c, "handshake")}]
    /\ Send(n, c, "handshake", via)
    /\ UNCHANGED <<forwards, sessions, upsets>>

\* The attempt is over: with an open stream, or without one.
Opened(n, c) ==
  /\ conn' = [conn EXCEPT ![c].stage = "open"]
  /\ pool' = [pool EXCEPT ![n] = IF Get(@) = c THEN MarkOpened(@) ELSE @]
  /\ UNCHANGED stream
Failed(n, c) ==
  /\ conn' = [conn EXCEPT ![c].stage = "failed"]
  /\ pool' = [pool EXCEPT ![n] = Dropped(@, c)]
  /\ stream' = [stream EXCEPT ![n][c] = "dead"]

\* The answer to a request, by its tid.  A handshake that went through a relay
\* goes on with the holepunch; Noise rejects what belongs to another handshake.
OnResponse(m) ==
  \E r \in inflight[m.to] :
    LET n == m.to
        c == r.conn
        punches == r.cmd = "handshake" /\ m.conn = c /\ conn[c].via \in Relays /\ stream[n][c] = "live"
        after == {q \in inflight[n] : q # r}
    IN  /\ m.kind = "response" /\ m.tid = r.tid
        /\ IF punches
           THEN /\ conn' = [conn EXCEPT ![c].stage = "punch"]
                /\ inflight' = [inflight EXCEPT ![n] = after \cup {Waiting(n, c, "punch")}]
                /\ nextTid' = [nextTid EXCEPT ![n] = @ + 1]
                /\ net' = (net \ {m}) \cup {Request(n, nextTid[n], c, "punch", conn[c].via)}
                /\ UNCHANGED <<pool, stream>>
           ELSE /\ IF m.conn = c /\ stream[n][c] = "live" THEN Opened(n, c) ELSE Failed(n, c)
                /\ inflight' = [inflight EXCEPT ![n] = after]
                /\ net' = net \ {m}
                /\ UNCHANGED nextTid
        /\ UNCHANGED <<forwards, sessions, upsets>>

\* No answer in time.
Timeout(n) ==
  \E r \in inflight[n] :
    /\ Upset
    /\ inflight' = [inflight EXCEPT ![n] = @ \ {r}]
    /\ Failed(n, r.conn)
    /\ UNCHANGED <<forwards, sessions, nextTid, net>>

\* Lost, or an answer that comes after the timeout.
Vanish(m) ==
  /\ m.kind = "response" => \A r \in inflight[m.to] : r.tid # m.tid
  /\ m.kind = "request" => upsets < MaxUpsets
  /\ net' = net \ {m}
  /\ UNCHANGED <<forwards, sessions, pool, stream, conn, inflight, nextTid, upsets>>

-----------------------------------------------------------------------------
(* Relays: forward to the server or to another relay, and answer the       *)
(* client when the server's message comes back.                            *)

Forward(m, r) ==
  /\ m.kind = "request" /\ m.to = r
  /\ net' = (net \ {m}) \cup
       CASE m.mode = "from_server" ->
              {[m EXCEPT !.kind = "response", !.mode = "reply", !.from = r, !.to = m.peer]}
         [] m.mode = "from_client" ->
              {[m EXCEPT !.mode = "from_relay", !.from = r, !.to = m.target, !.peer = m.from]}
  /\ UNCHANGED <<forwards, sessions, pool, stream, conn, inflight, nextTid, upsets>>

\* A relay that knows another relay of the server only.
ForwardAgain(m, r) ==
  /\ m.kind = "request" /\ m.to = r /\ m.mode = "from_client"
  /\ \E q \in Relays \ {r} :
       net' = (net \ {m}) \cup
         {[m EXCEPT !.mode = "from_second_relay", !.from = q, !.to = m.target, !.peer = m.from]}
  /\ UNCHANGED <<forwards, sessions, pool, stream, conn, inflight, nextTid, upsets>>

-----------------------------------------------------------------------------
(* The server.                                                             *)

Listen(n) ==
  /\ ~Has(forwards[n], n)
  /\ forwards' = [forwards EXCEPT ![n] = Set(@, n)]
  /\ UNCHANGED <<sessions, pool, stream, conn, inflight, nextTid, net, upsets>>

\* Server::close: the router entry and the sessions go.
CloseServer(n) ==
  /\ Upset /\ Has(forwards[n], n)
  /\ forwards' = [forwards EXCEPT ![n] = Remove(@, n)]
  /\ sessions' = [sessions EXCEPT ![n] = {}]
  /\ UNCHANGED <<pool, stream, conn, inflight, nextTid, net>>

\* PEER_HANDSHAKE and PEER_HOLEPUNCH: nobody answers for a target without an
\* entry, nor a holepunch message without a session.
OnRequest(m, n) ==
  LET answered == Accepts(forwards[n], m) /\ (m.cmd = "punch" => m.conn \in sessions[n]) IN
  /\ m.kind = "request" /\ m.to = n
  /\ net' = (net \ {m}) \cup (IF answered THEN {Answer(m, n)} ELSE {})
  /\ sessions' = IF answered THEN [sessions EXCEPT ![n] = @ \cup {m.conn}] ELSE sessions
  /\ UNCHANGED <<forwards, pool, stream, conn, inflight, nextTid, upsets>>

\* What the client sent once its stream was open reaches the server, which may be
\* after the client ended it: the application attaches the stream.
OnConnection(n, c) ==
  LET old == Get(pool[n])
      attached == AttachStream(pool[n], c, TRUE, old # NoRef /\ conn[old].by = conn[c].by, n = High) IN
  /\ c \in sessions[n] /\ stream[n][c] = "none"
  /\ conn[c].stage = "open"
  /\ pool' = [pool EXCEPT ![n] = attached.pool]
  /\ stream' = [stream EXCEPT ![n] =
       [d \in Conns |-> IF d = attached.destroyed THEN "dead" ELSE IF d = c THEN "live" ELSE @[d]]]
  /\ UNCHANGED <<forwards, sessions, conn, inflight, nextTid, net, upsets>>

-----------------------------------------------------------------------------
(* Streams.                                                                *)

EndStream(n, c) ==
  /\ stream[n][c] = "live"
  /\ stream' = [stream EXCEPT ![n][c] = "dead"]
  /\ pool' = [pool EXCEPT ![n] = Dropped(@, c)]
  /\ UNCHANGED <<forwards, sessions, conn, inflight, nextTid, net>>

\* The other end has ended the stream, and this end learns of it.
PeerGone(n, c) == stream[Other(n)][c] = "dead" /\ EndStream(n, c) /\ UNCHANGED upsets

\* The application ends it.
CloseStream(n, c) == Upset /\ EndStream(n, c)

Next ==
  \/ \E n \in Nodes : \/ \E via \in Relays \cup {Other(n)} : Connect(n, via)
                      \/ Timeout(n)
                      \/ Listen(n)
                      \/ CloseServer(n)
                      \/ \E c \in Conns : OnConnection(n, c) \/ PeerGone(n, c) \/ CloseStream(n, c)
  \/ \E m \in net : \/ Vanish(m)
                    \/ (m.to \in Nodes /\ OnResponse(m))
                    \/ \E n \in Nodes : OnRequest(m, n)
                    \/ \E r \in Relays : Forward(m, r) \/ ForwardAgain(m, r)

Spec == Init /\ [][Next]_vars

-----------------------------------------------------------------------------
(* Properties.                                                             *)

\* An answer goes to the node that asked, under the tid of its request, whatever
\* relays the request came through (Router::handle_peer_handshake and
\* handle_peer_holepunch): no client takes an answer meant for another.
AnswersAsker ==
  \A m \in net : m.kind = "response" =>
    /\ m.to = conn[m.conn].by
    /\ \A r \in inflight[m.to] : r.tid = m.tid => r.conn = m.conn /\ r.cmd = m.cmd

\* The pool is exact ("we open only one stream per peer"): the live streams of a
\* node are the ones in its pool, and a peer is never in both of its maps.
OneStreamPerPeer ==
  \A n \in Nodes :
    LET p == pool[n] IN
    /\ p.connecting = NoRef \/ p.connected = NoRef
    /\ {c \in Conns : stream[n][c] = "live"} = {p.connecting, p.connected} \ {NoRef}

Quiet ==
  /\ net = {} /\ \A n \in Nodes : inflight[n] = {}
  /\ \A n \in Nodes, c \in Conns :
       stream[n][c] = "live" => stream[Other(n)][c] # "dead" /\ (c \in sessions[Other(n)] => stream[Other(n)][c] # "none")

\* Deterministic tie-breaking: however two peers that dial each other interleave,
\* once all is quiet and nothing went wrong they hold one stream, the same one
\* (ConnectionPool::should_keep_new); they never destroy each other's choice.
\* It holds for applications that attach an outbound stream before it is open.
PeersShareOne ==
  (upsets = 0 /\ Quiet /\ \E c \in Conns : conn[c].stage # "new") =>
    pool[Low].connected # NoRef /\ pool[Low] = pool[High]
=============================================================================
