----------------------------- MODULE PeersProofs -----------------------------
(***************************************************************************)
(* Proofs about Peers, for every set of relays, every number of attempts   *)
(* and every number of failures: answers reach who asked, the pool is      *)
(* exact, and two peers that dial each other keep the same stream.         *)
(***************************************************************************)
EXTENDS Peers, TLAPS

(* The inductive invariant.                                                *)

Commands == {"handshake", "punch"}
Refs == Conns \cup {NoRef}
Packets ==
  [kind : {"request", "response"}, cmd : Commands,
   mode : {"from_client", "from_relay", "from_second_relay", "from_server", "reply"},
   from : Nodes \cup Relays, to : Nodes \cup Relays, tid : Nat, target : Nodes,
   peer : Nodes \cup Relays \cup {NoAddress}, conn : Conns]

Types ==
  /\ forwards \in [Nodes -> SUBSET Nodes]
  /\ sessions \in [Nodes -> SUBSET Conns]
  /\ pool \in [Nodes -> [connecting : Refs, connected : Refs]]
  /\ stream \in [Nodes -> [Conns -> {"none", "live", "dead"}]]
  /\ conn \in [Conns -> [by : Nodes, via : Relays \cup Nodes,
                         stage : {"new", "handshake", "punch", "open", "failed"}]]
  /\ inflight \in [Nodes -> SUBSET [tid : Nat, conn : Conns, cmd : Commands]]
  /\ nextTid \in [Nodes -> Nat]
  /\ net \in SUBSET Packets
  /\ upsets \in Nat

\* An attempt waits for one request, of its stage, and for none before or after.
Waits ==
  /\ \A n \in Nodes : \A r \in inflight[n] :
       r.tid < nextTid[n] /\ conn[r.conn].by = n /\ conn[r.conn].stage = r.cmd
  /\ \A n \in Nodes : \A r, q \in inflight[n] : r.conn = q.conn => r = q
  /\ \A c \in Conns : conn[c].stage \in Commands => \E r \in inflight[conn[c].by] : r.conn = c

\* Wherever a packet is, the client's address is on it, or a relay knows it; and
\* the tid on it is the one under which the client waits.
Traced(m) ==
  LET client == conn[m.conn].by IN
  /\ conn[m.conn].stage # "new"
  /\ m.tid < nextTid[client]
  /\ \A r \in inflight[client] : r.tid = m.tid => r.conn = m.conn /\ r.cmd = m.cmd
  /\ m.target = Other(client)
  /\ m.kind = "response" <=> m.mode = "reply"
  /\ m.mode = "reply" => m.to = client
  /\ m.mode = "from_client" => m.from = client /\ m.peer = NoAddress /\ m.to # client
  /\ m.mode \in {"from_relay", "from_second_relay"} =>
       m.peer = client /\ m.from \in Relays /\ m.to = m.target
  /\ m.mode = "from_server" => m.peer = client /\ m.to \in Relays

\* What waits in connecting_ is an own attempt under way, what is connected is open.
Pooled ==
  /\ \A n \in Nodes, c \in Conns : pool[n].connecting = c =>
       conn[c].by = n /\ conn[c].stage \in Commands
  /\ \A n \in Nodes, c \in Conns : pool[n].connected = c => conn[c].stage = "open"

\* An attempt that is not made has no stream, one that failed has none at its
\* maker any more.
Staged ==
  \A c \in Conns :
    /\ conn[c].stage = "new" => \A n \in Nodes : stream[n][c] = "none"
    /\ conn[c].stage # "new" => stream[conn[c].by][c] # "none"
    /\ conn[c].stage = "failed" => stream[conn[c].by][c] = "dead"

\* As long as nothing goes wrong, the server has a session for what it answered.
Answered ==
  upsets = 0 =>
    /\ \A m \in net : m.mode \in {"reply", "from_server"} => m.conn \in sessions[m.target]
    /\ \A c \in Conns : conn[c].stage \in {"punch", "open"} => c \in sessions[Other(conn[c].by)]

\* As long as nothing goes wrong, an attempt of the lower node is its only one, is
\* live there and not refused at the higher node; and an attempt of the higher node
\* is given up only for one of the lower node.
LowDials == \E l \in Conns : conn[l].stage # "new" /\ conn[l].by = Low
Decided ==
  upsets = 0 =>
    \A c \in Conns :
      conn[c].stage # "new" /\ (conn[c].by = Low \/ ~LowDials) =>
        stream[conn[c].by][c] = "live" /\ stream[Other(conn[c].by)][c] # "dead"

-----------------------------------------------------------------------------
(* Packets and answers.                                                    *)

Asked == Types /\ Waits /\ \A m \in net : Traced(m)

LEMMA TwoNodes ==
  /\ Low \in Nodes /\ High \in Nodes /\ Low # High
  /\ Nodes \cap Relays = {} /\ NoAddress \notin Nodes /\ NoAddress \notin Relays
  /\ NoRef \notin Conns /\ MaxConns \in Nat /\ MaxUpsets \in Nat
  /\ \A n \in Nodes : Other(n) \in Nodes /\ Other(n) # n /\ Other(Other(n)) = n
  /\ \A n, m \in Nodes : m # n => m = Other(n)
BY PeersAssumption DEF Nodes, Other, Conns, NoRef

\* The pool's operations keep its type.
LEMMA PoolTypes ==
  ASSUME NEW p \in [connecting : Refs, connected : Refs], NEW c \in Conns,
         NEW o \in BOOLEAN, NEW s \in BOOLEAN, NEW h \in BOOLEAN
  PROVE  /\ AttachStream(p, c, o, s, h).pool \in [connecting : Refs, connected : Refs]
         /\ AttachStream(p, c, o, s, h).destroyed \in Refs
         /\ MarkOpened(p) \in [connecting : Refs, connected : Refs]
         /\ Dropped(p, c) \in [connecting : Refs, connected : Refs]
         /\ Get(p) \in Refs
BY DEF AttachStream, MarkOpened, Dropped, RemoveRef, EmptyPool, Put, Get, HasRef, Refs, ShouldKeepNew

LEMMA TypesInit == Init => Types
<1> SUFFICES ASSUME Init PROVE Types OBVIOUS
<1>1. EmptyPool \in [connecting : Refs, connected : Refs] BY DEF EmptyPool, Refs
<1>2. NewConn \in [by : Nodes, via : Relays \cup Nodes,
                   stage : {"new", "handshake", "punch", "open", "failed"}]
  BY TwoNodes DEF NewConn
<1> QED BY <1>1, <1>2 DEF Init, Types

LEMMA AskedInit == Init => Asked
<1> SUFFICES ASSUME Init PROVE Waits /\ \A m \in net : Traced(m) BY TypesInit DEF Asked
<1> QED BY TwoNodes DEF Init, Waits, NewConn, Commands

\* A packet that replaces another one of the same request.
LEMMA Passed ==
  ASSUME Asked, NEW m \in net, NEW q \in Packets,
         q.conn = m.conn, q.tid = m.tid, q.cmd = m.cmd, q.target = m.target,
         q.kind = "response" <=> q.mode = "reply",
         q.mode = "reply" => q.to = conn[m.conn].by,
         q.mode # "from_client",
         q.mode \in {"from_relay", "from_second_relay"} =>
           q.peer = conn[m.conn].by /\ q.from \in Relays /\ q.to = m.target,
         q.mode = "from_server" => q.peer = conn[m.conn].by /\ q.to \in Relays
  PROVE  Traced(q)
BY DEF Asked, Traced

\* The answer of a server, directly or through the relay that asked it.
LEMMA AnswerTraced ==
  ASSUME Asked, NEW m \in net, NEW n \in Nodes, m.kind = "request", m.to = n
  PROVE  Answer(m, n) \in Packets /\ Traced(Answer(m, n))
         /\ Answer(m, n).conn = m.conn /\ n = m.target
<1>1. m \in Packets /\ Traced(m) /\ m.conn \in Conns /\ conn[m.conn].by \in Nodes
  BY DEF Asked, Types, Packets
<1>2. m.mode \in {"from_client", "from_relay", "from_second_relay"} /\ n = m.target
  BY <1>1, TwoNodes DEF Traced, Packets
<1>3. CASE m.mode = "from_client"
  <2>1. Answer(m, n) = Reply(m, n) BY <1>3 DEF Answer
  <2>2. Reply(m, n) \in Packets BY <1>1 DEF Reply, Packets
  <2>3. /\ Reply(m, n).conn = m.conn /\ Reply(m, n).tid = m.tid /\ Reply(m, n).cmd = m.cmd
        /\ Reply(m, n).target = m.target /\ Reply(m, n).kind = "response"
        /\ Reply(m, n).mode = "reply" /\ Reply(m, n).to = m.from
    BY <1>1 DEF Reply, Packets
  <2>4. m.from = conn[m.conn].by BY <1>1, <1>3 DEF Traced
  <2> QED BY <1>2, <2>1, <2>2, <2>3, <2>4, Passed
<1>4. CASE m.mode \in {"from_relay", "from_second_relay"}
  <2>1. Answer(m, n) = RelayBack(m, n) BY <1>4 DEF Answer
  <2>2. m.peer = conn[m.conn].by /\ m.from \in Relays /\ conn[m.conn].by \in Nodes
    BY <1>1, <1>4 DEF Traced, Asked, Types, Packets
  <2>3. ClientAddress(m) = m.peer BY <2>2, TwoNodes DEF ClientAddress
  <2>4. RelayBack(m, n) \in Packets BY <1>1, <2>3 DEF RelayBack, Packets
  <2>5. /\ RelayBack(m, n).conn = m.conn /\ RelayBack(m, n).tid = m.tid
        /\ RelayBack(m, n).cmd = m.cmd /\ RelayBack(m, n).target = m.target
        /\ RelayBack(m, n).kind = "request" /\ RelayBack(m, n).mode = "from_server"
        /\ RelayBack(m, n).to = m.from /\ RelayBack(m, n).peer = m.peer
    BY <1>1, <2>3 DEF RelayBack, Packets
  <2> QED BY <1>2, <2>1, <2>2, <2>4, <2>5, Passed
<1> QED BY <1>2, <1>3, <1>4

\* A step that only carries packets.
LEMMA Carried ==
  ASSUME Asked, UNCHANGED <<forwards, pool, stream, conn, inflight, nextTid>>,
         upsets' \in Nat, sessions' \in [Nodes -> SUBSET Conns],
         \A q \in net' : q \in net \/ (q \in Packets /\ Traced(q))
  PROVE  Asked'
<1>1. Types' BY DEF Asked, Types
<1>2. Waits' BY DEF Asked, Waits
<1>3. \A q \in net' : Traced(q)' BY DEF Asked, Traced
<1> QED BY <1>1, <1>2, <1>3 DEF Asked

\* A request is sent for an attempt c of n, which waits for nothing else.
Sends(n, c, cmd, via, old) ==
  /\ \A r \in old : r.conn # c
  /\ \A r \in inflight[n] : r \notin old => r.conn = c
  /\ \A k \in Nodes : \A r \in inflight[k] : k # n => r.conn # c
  /\ conn[c].stage # "new" => conn[c].by = n
  /\ conn[c].stage = "new" => \A m \in net : m.conn # c
  /\ conn' \in [Conns -> [by : Nodes, via : Relays \cup Nodes,
                          stage : {"new", "handshake", "punch", "open", "failed"}]]
  /\ conn'[c].by = n /\ conn'[c].stage = cmd
  /\ \A d \in Conns : d # c => conn'[d] = conn[d]
  /\ inflight' = [inflight EXCEPT ![n] = old \cup {Waiting(n, c, cmd)}]
  /\ nextTid' = [nextTid EXCEPT ![n] = @ + 1]
  /\ net' \subseteq net \cup {Request(n, nextTid[n], c, cmd, via)}
  /\ pool' \in [Nodes -> [connecting : Refs, connected : Refs]]
  /\ stream' \in [Nodes -> [Conns -> {"none", "live", "dead"}]]
  /\ UNCHANGED <<forwards, sessions, upsets>>

LEMMA Sent ==
  ASSUME Asked, NEW n \in Nodes, NEW c \in Conns, NEW cmd \in Commands,
         NEW via \in Relays \cup {Other(n)}, NEW old \in SUBSET inflight[n],
         Sends(n, c, cmd, via, old)
  PROVE  Asked'
<1> USE DEF Sends
<1> DEFINE w == Waiting(n, c, cmd)
           q == Request(n, nextTid[n], c, cmd, via)
<1>0. /\ inflight \in [Nodes -> SUBSET [tid : Nat, conn : Conns, cmd : Commands]]
      /\ nextTid \in [Nodes -> Nat] /\ conn \in [Conns -> [by : Nodes, via : Relays \cup Nodes,
                              stage : {"new", "handshake", "punch", "open", "failed"}]]
      /\ net \in SUBSET Packets /\ Waits
  BY DEF Asked, Types
<1>1. /\ w \in [tid : Nat, conn : Conns, cmd : Commands]
      /\ w.tid = nextTid[n] /\ w.conn = c /\ w.cmd = cmd
  BY <1>0 DEF Waiting
<1>2. /\ q \in Packets /\ q.conn = c /\ q.tid = nextTid[n] /\ q.cmd = cmd /\ q.mode = "from_client"
      /\ q.kind = "request" /\ q.target = Other(n) /\ q.from = n /\ q.peer = NoAddress /\ q.to = via
      /\ via # n
  BY <1>0, TwoNodes DEF Request, Packets
<1> HIDE DEF w, q
<1>3. inflight'[n] = old \cup {w} /\ \A k \in Nodes : k # n => inflight'[k] = inflight[k]
  BY <1>0 DEF w
<1>4. nextTid'[n] = nextTid[n] + 1 /\ nextTid[n] \in Nat
      /\ \A k \in Nodes : k # n => nextTid'[k] = nextTid[k]
  BY <1>0
<1>5. Types'
  <2>1. inflight' \in [Nodes -> SUBSET [tid : Nat, conn : Conns, cmd : Commands]]
    BY <1>0, <1>1 DEF w
  <2>2. nextTid' \in [Nodes -> Nat] BY <1>0
  <2>3. net' \in SUBSET Packets BY <1>0, <1>2 DEF q
  <2> QED BY <2>1, <2>2, <2>3 DEF Asked, Types
<1>6. Waits'
  <2>1. ASSUME NEW k \in Nodes, NEW r \in inflight'[k]
        PROVE  r.tid < nextTid'[k] /\ conn'[r.conn].by = k /\ conn'[r.conn].stage = r.cmd
    <3>1. CASE k = n /\ r = w BY <1>1, <1>4, <3>1
    <3>2. CASE r \in inflight[k] /\ r.conn # c
      <4>1. r.tid < nextTid[k] /\ conn[r.conn].by = k /\ conn[r.conn].stage = r.cmd
            /\ r.tid \in Nat /\ r.conn \in Conns
        BY <1>0, <3>2 DEF Waits
      <4> QED BY <1>4, <3>2, <4>1
    <3> QED BY <1>3, <3>1, <3>2
  <2>2. ASSUME NEW k \in Nodes, NEW r \in inflight'[k], NEW p \in inflight'[k], r.conn = p.conn
        PROVE  r = p
    <3>1. CASE k = n BY <1>0, <1>1, <1>3, <2>2, <3>1 DEF Waits
    <3>2. CASE k # n BY <1>0, <1>3, <2>2, <3>2 DEF Waits
    <3> QED BY <3>1, <3>2
  <2>3. ASSUME NEW d \in Conns, conn'[d].stage \in Commands
        PROVE  \E r \in inflight'[conn'[d].by] : r.conn = d
    <3>1. CASE d = c BY <1>1, <1>3, <3>1
    <3>2. CASE d # c
      <4>1. conn'[d] = conn[d] /\ conn[d].by \in Nodes BY <1>0, <3>2
      <4>2. PICK r \in inflight[conn[d].by] : r.conn = d BY <1>0, <2>3, <4>1 DEF Waits
      <4>3. r \in inflight'[conn[d].by]
        BY <1>3, <3>2, <4>1, <4>2
      <4> QED BY <4>1, <4>2, <4>3
    <3> QED BY <3>1, <3>2
  <2> QED BY <2>1, <2>2, <2>3 DEF Waits
<1>7. ASSUME NEW m \in net' PROVE Traced(m)'
  <2>1. CASE m = q
    <3>1. \A r \in inflight'[n] : r.tid = q.tid => r.conn = q.conn /\ r.cmd = q.cmd
      <4>1. \A r \in old : r.tid < nextTid[n] BY <1>0 DEF Waits
      <4> QED BY <1>0, <1>1, <1>2, <1>3, <1>4, <4>1
    <3> QED BY <1>2, <1>4, <2>1, <3>1 DEF Traced, Commands
  <2>2. CASE m \in net
    <3>1. Traced(m) /\ m \in Packets /\ m.conn \in Conns /\ m.tid \in Nat
      BY <1>0, <2>2 DEF Asked, Packets
    <3>2. conn[m.conn].stage # "new" /\ conn[m.conn].by \in Nodes BY <1>0, <3>1 DEF Traced
    <3>3. conn'[m.conn].by = conn[m.conn].by /\ conn'[m.conn].stage # "new"
      BY <2>2, <3>1, <3>2 DEF Commands
    <3>4. m.tid < nextTid'[conn[m.conn].by]
      BY <1>4, <3>1, <3>2 DEF Traced
    <3>5. \A r \in inflight'[conn[m.conn].by] : r.tid = m.tid => r.conn = m.conn /\ r.cmd = m.cmd
      <4>1. CASE conn[m.conn].by = n
        <5>1. m.tid < w.tid BY <1>1, <3>1, <4>1 DEF Traced
        <5> QED BY <1>1, <1>3, <1>4, <3>1, <4>1, <5>1 DEF Traced
      <4>2. CASE conn[m.conn].by # n BY <1>3, <3>1, <3>2, <4>2 DEF Traced
      <4> QED BY <4>1, <4>2
    <3> QED BY <3>1, <3>3, <3>4, <3>5 DEF Traced
  <2> QED BY <2>1, <2>2 DEF q
<1> QED BY <1>5, <1>6, <1>7 DEF Asked

\* The request r of an attempt is answered or given up, and the attempt is over.
LEMMA Over ==
  ASSUME Asked, NEW n \in Nodes, NEW r \in inflight[n], NEW stage \in {"open", "failed"},
         conn' = [conn EXCEPT ![r.conn].stage = stage],
         inflight' = [inflight EXCEPT ![n] = @ \ {r}],
         net' \subseteq net, upsets' \in Nat,
         pool' \in [Nodes -> [connecting : Refs, connected : Refs]],
         stream' \in [Nodes -> [Conns -> {"none", "live", "dead"}]],
         UNCHANGED <<forwards, sessions, nextTid>>
  PROVE  Asked'
<1>0. /\ inflight \in [Nodes -> SUBSET [tid : Nat, conn : Conns, cmd : Commands]]
      /\ conn \in [Conns -> [by : Nodes, via : Relays \cup Nodes,
                              stage : {"new", "handshake", "punch", "open", "failed"}]]
      /\ net \in SUBSET Packets /\ Waits /\ r.conn \in Conns /\ conn[r.conn].by = n
  BY DEF Asked, Types, Waits
<1>1. /\ conn' \in [Conns -> [by : Nodes, via : Relays \cup Nodes,
                              stage : {"new", "handshake", "punch", "open", "failed"}]]
      /\ conn'[r.conn].stage = stage /\ conn'[r.conn].by = n
      /\ \A d \in Conns : d # r.conn => conn'[d] = conn[d]
  BY <1>0
<1>2. inflight'[n] = inflight[n] \ {r} /\ \A k \in Nodes : k # n => inflight'[k] = inflight[k]
  BY <1>0
<1>3. Types'
  <2>1. inflight' \in [Nodes -> SUBSET [tid : Nat, conn : Conns, cmd : Commands]] BY <1>0
  <2> QED BY <1>1, <2>1 DEF Asked, Types
<1>4. Waits'
  <2>1. ASSUME NEW k \in Nodes, NEW p \in inflight'[k]
        PROVE  p.tid < nextTid[k] /\ conn'[p.conn].by = k /\ conn'[p.conn].stage = p.cmd
    <3>1. p \in inflight[k] /\ p.conn \in Conns BY <1>0, <1>2
    <3>2. p.conn # r.conn BY <1>0, <1>2, <3>1 DEF Waits
    <3> QED BY <1>0, <1>1, <3>1, <3>2 DEF Waits
  <2>2. ASSUME NEW d \in Conns, conn'[d].stage \in Commands
        PROVE  \E p \in inflight'[conn'[d].by] : p.conn = d
    <3>1. d # r.conn /\ conn'[d] = conn[d] /\ conn[d].by \in Nodes BY <1>0, <1>1, <2>2 DEF Commands
    <3>2. PICK p \in inflight[conn[d].by] : p.conn = d BY <1>0, <2>2, <3>1 DEF Waits
    <3> QED BY <1>2, <3>1, <3>2
  <2> QED BY <1>0, <1>2, <2>1, <2>2 DEF Waits
<1>5. ASSUME NEW m \in net' PROVE Traced(m)'
  <2>1. Traced(m) /\ m.conn \in Conns BY <1>0 DEF Asked, Packets
  <2>2. conn'[m.conn].by = conn[m.conn].by /\ conn'[m.conn].stage # "new" /\ conn[m.conn].by \in Nodes
    BY <1>0, <1>1, <2>1 DEF Traced
  <2>3. inflight'[conn[m.conn].by] \subseteq inflight[conn[m.conn].by] BY <1>2, <2>2
  <2> QED BY <2>1, <2>2, <2>3 DEF Traced
<1> QED BY <1>3, <1>4, <1>5 DEF Asked

-----------------------------------------------------------------------------
(* What a step does to attempts, streams and pools.                        *)

Dials(n, c) ==
  /\ conn[c].stage = "new" /\ ~HasRef(pool[n])
  /\ \E via \in Relays \cup Nodes :
       conn' = [conn EXCEPT ![c] = [by |-> n, via |-> via, stage |-> "handshake"]]
  /\ stream' = [stream EXCEPT ![n][c] = "live"]
  /\ pool' = [pool EXCEPT ![n] = AttachStream(@, c, FALSE, TRUE, n = High).pool]

Punches(n, c) ==
  /\ conn[c].by = n /\ conn[c].stage = "handshake" /\ stream[n][c] = "live"
  /\ conn' = [conn EXCEPT ![c].stage = "punch"]
  /\ UNCHANGED <<pool, stream>>

Succeeds(n, c) ==
  conn[c].by = n /\ conn[c].stage \in Commands /\ stream[n][c] = "live" /\ Opened(n, c)

\* Without a failure, only an attempt whose stream was replaced fails.
GivesUp(n, c) ==
  /\ conn[c].by = n /\ conn[c].stage \in Commands /\ Failed(n, c)
  /\ upsets' = upsets => stream[n][c] # "live"

Accepted(n, c) ==
  /\ OnConnection(n, c) /\ conn[c].stage = "open"

Move ==
  \/ UNCHANGED <<pool, stream, conn>>
  \/ \E n \in Nodes, c \in Conns :
       \/ Dials(n, c) \/ Punches(n, c) \/ Succeeds(n, c) \/ GivesUp(n, c)
       \/ Accepted(n, c) \/ PeerGone(n, c) \/ CloseStream(n, c)

\* The response that a client takes belongs to the request that it waits for.
LEMMA OwnResponse ==
  ASSUME Asked, NEW m \in net, m.kind = "response", m.to \in Nodes,
         NEW r \in inflight[m.to], m.tid = r.tid
  PROVE  /\ m.conn = r.conn /\ m.cmd = r.cmd /\ conn[r.conn].by = m.to
         /\ conn[r.conn].stage = r.cmd /\ r.conn \in Conns /\ r.cmd \in Commands
<1>1. /\ Traced(m) /\ m.mode = "reply" /\ m.to = conn[m.conn].by
      /\ inflight[m.to] \subseteq [tid : Nat, conn : Conns, cmd : Commands]
  BY DEF Asked, Traced, Types
<1>2. m.conn = r.conn /\ m.cmd = r.cmd BY <1>1 DEF Traced
<1> QED BY <1>1, <1>2 DEF Asked, Waits

LEMMA ConnectStep ==
  ASSUME Asked, NEW n \in Nodes, NEW via \in Relays \cup {Other(n)}, Connect(n, via)
  PROVE  Asked' /\ Move
<1>1. PICK c \in Conns :
        /\ conn[c].stage = "new" /\ ~HasRef(pool[n])
        /\ conn' = [conn EXCEPT ![c] = [by |-> n, via |-> via, stage |-> "handshake"]]
        /\ stream' = [stream EXCEPT ![n][c] = "live"]
        /\ pool' = [pool EXCEPT ![n] = AttachStream(pool[n], c, FALSE, TRUE, n = High).pool]
        /\ inflight' = [inflight EXCEPT ![n] = @ \cup {Waiting(n, c, "handshake")}]
        /\ Send(n, c, "handshake", via)
        /\ UNCHANGED <<forwards, sessions, upsets>>
  BY DEF Connect
<1>2. /\ conn \in [Conns -> [by : Nodes, via : Relays \cup Nodes,
                             stage : {"new", "handshake", "punch", "open", "failed"}]]
      /\ pool \in [Nodes -> [connecting : Refs, connected : Refs]]
      /\ stream \in [Nodes -> [Conns -> {"none", "live", "dead"}]]
      /\ inflight \in [Nodes -> SUBSET [tid : Nat, conn : Conns, cmd : Commands]]
  BY DEF Asked, Types
<1>3. via \in Relays \cup Nodes BY TwoNodes
<1>4. /\ conn' \in [Conns -> [by : Nodes, via : Relays \cup Nodes,
                              stage : {"new", "handshake", "punch", "open", "failed"}]]
      /\ conn'[c].by = n /\ conn'[c].stage = "handshake"
      /\ \A d \in Conns : d # c => conn'[d] = conn[d]
  BY <1>1, <1>2, <1>3
<1>5. stream' \in [Nodes -> [Conns -> {"none", "live", "dead"}]] BY <1>1, <1>2
<1>6. pool' \in [Nodes -> [connecting : Refs, connected : Refs]] BY <1>1, <1>2, PoolTypes
<1>7. \A k \in Nodes : \A r \in inflight[k] : r.conn # c
  BY <1>1, <1>2 DEF Asked, Waits, Commands
<1>8. \A m \in net : m.conn # c BY <1>1 DEF Asked, Traced
<1>9. /\ nextTid' = [nextTid EXCEPT ![n] = @ + 1]
      /\ net' \subseteq net \cup {Request(n, nextTid[n], c, "handshake", via)}
      /\ inflight' = [inflight EXCEPT ![n] = inflight[n] \cup {Waiting(n, c, "handshake")}]
  BY <1>1 DEF Send
<1>10. Asked'
  <2>1. Sends(n, c, "handshake", via, inflight[n])
    BY <1>1, <1>4, <1>5, <1>6, <1>7, <1>8, <1>9 DEF Sends
  <2> QED BY <2>1, Sent DEF Commands
<1>11. Dials(n, c) BY <1>1, <1>3 DEF Dials
<1>12. Move BY <1>11 DEF Move
<1> QED BY <1>10, <1>12

LEMMA ResponseStep ==
  ASSUME Asked, NEW m \in net, m.to \in Nodes, OnResponse(m)
  PROVE  Asked' /\ Move
<1> DEFINE n == m.to
           after(r) == {q \in inflight[n] : q # r}
<1>0. /\ conn \in [Conns -> [by : Nodes, via : Relays \cup Nodes,
                             stage : {"new", "handshake", "punch", "open", "failed"}]]
      /\ pool \in [Nodes -> [connecting : Refs, connected : Refs]]
      /\ stream \in [Nodes -> [Conns -> {"none", "live", "dead"}]]
      /\ inflight \in [Nodes -> SUBSET [tid : Nat, conn : Conns, cmd : Commands]]
      /\ Waits
  BY DEF Asked, Types
<1>1. PICK r \in inflight[n] :
        /\ m.kind = "response" /\ m.tid = r.tid
        /\ \/ /\ r.cmd = "handshake" /\ m.conn = r.conn /\ conn[r.conn].via \in Relays
              /\ stream[n][r.conn] = "live"
              /\ conn' = [conn EXCEPT ![r.conn].stage = "punch"]
              /\ inflight' = [inflight EXCEPT ![n] = after(r) \cup {Waiting(n, r.conn, "punch")}]
              /\ nextTid' = [nextTid EXCEPT ![n] = @ + 1]
              /\ net' = (net \ {m}) \cup {Request(n, nextTid[n], r.conn, "punch", conn[r.conn].via)}
              /\ UNCHANGED <<pool, stream>>
           \/ /\ IF m.conn = r.conn /\ stream[n][r.conn] = "live"
                 THEN Opened(n, r.conn) ELSE Failed(n, r.conn)
              /\ inflight' = [inflight EXCEPT ![n] = after(r)]
              /\ net' = net \ {m}
              /\ UNCHANGED nextTid
        /\ UNCHANGED <<forwards, sessions, upsets>>
  BY DEF OnResponse
<1>2. /\ m.conn = r.conn /\ conn[r.conn].by = n /\ conn[r.conn].stage = r.cmd
      /\ r.conn \in Conns /\ r.cmd \in Commands
  BY <1>1, OwnResponse
<1>3. after(r) = inflight[n] \ {r} BY <1>0
<1>4. CASE UNCHANGED <<pool, stream>> /\ nextTid' = [nextTid EXCEPT ![n] = @ + 1]
           /\ r.cmd = "handshake" /\ conn[r.conn].via \in Relays /\ stream[n][r.conn] = "live"
           /\ conn' = [conn EXCEPT ![r.conn].stage = "punch"]
           /\ inflight' = [inflight EXCEPT ![n] = after(r) \cup {Waiting(n, r.conn, "punch")}]
           /\ net' = (net \ {m}) \cup {Request(n, nextTid[n], r.conn, "punch", conn[r.conn].via)}
  <2>1. /\ conn' \in [Conns -> [by : Nodes, via : Relays \cup Nodes,
                                stage : {"new", "handshake", "punch", "open", "failed"}]]
        /\ conn'[r.conn].by = n /\ conn'[r.conn].stage = "punch"
        /\ \A d \in Conns : d # r.conn => conn'[d] = conn[d]
    BY <1>0, <1>2, <1>4
  <2>2. /\ after(r) \in SUBSET inflight[n]
        /\ \A q \in after(r) : q.conn # r.conn
        /\ \A q \in inflight[n] : q \notin after(r) => q.conn = r.conn
    BY <1>0, <1>3 DEF Waits
  <2>3. \A k \in Nodes : \A q \in inflight[k] : k # n => q.conn # r.conn
    BY <1>0, <1>2 DEF Waits
  <2>4. /\ pool' \in [Nodes -> [connecting : Refs, connected : Refs]]
        /\ stream' \in [Nodes -> [Conns -> {"none", "live", "dead"}]]
    BY <1>0, <1>4
  <2>5. conn[r.conn].stage # "new" BY <1>2 DEF Commands
  <2> HIDE DEF after
  <2>6. Asked'
    <3>1. Sends(n, r.conn, "punch", conn[r.conn].via, after(r))
      BY <1>1, <1>2, <1>4, <2>1, <2>2, <2>3, <2>4, <2>5 DEF Sends
    <3> QED BY <1>2, <1>4, <2>2, <3>1, Sent DEF Commands
  <2>7. Punches(n, r.conn) BY <1>2, <1>4 DEF Punches
  <2> QED BY <1>2, <2>6, <2>7 DEF Move
<1>5. CASE /\ IF stream[n][r.conn] = "live" THEN Opened(n, r.conn) ELSE Failed(n, r.conn)
           /\ inflight' = [inflight EXCEPT ![n] = after(r)]
           /\ net' = net \ {m}
           /\ UNCHANGED nextTid
  <2>1. inflight' = [inflight EXCEPT ![n] = @ \ {r}] BY <1>3, <1>5
  <2>2. upsets \in Nat BY DEF Asked, Types
  <2>3. CASE stream[n][r.conn] = "live"
    <3>1. Opened(n, r.conn) BY <1>5, <2>3
    <3>2. /\ pool' \in [Nodes -> [connecting : Refs, connected : Refs]]
          /\ stream' \in [Nodes -> [Conns -> {"none", "live", "dead"}]]
      BY <1>0, <1>2, <3>1, PoolTypes DEF Opened
    <3>3. Asked' BY <1>1, <1>5, <2>1, <2>2, <3>1, <3>2, Over DEF Opened
    <3>4. Succeeds(n, r.conn) BY <1>2, <2>3, <3>1 DEF Succeeds
    <3> QED BY <1>2, <3>3, <3>4 DEF Move
  <2>4. CASE stream[n][r.conn] # "live"
    <3>1. Failed(n, r.conn) BY <1>5, <2>4
    <3>2. /\ pool' \in [Nodes -> [connecting : Refs, connected : Refs]]
          /\ stream' \in [Nodes -> [Conns -> {"none", "live", "dead"}]]
      BY <1>0, <1>2, <3>1, PoolTypes DEF Failed
    <3>3. Asked' BY <1>1, <1>5, <2>1, <2>2, <3>1, <3>2, Over DEF Failed
    <3>4. GivesUp(n, r.conn) BY <1>2, <2>4, <3>1 DEF GivesUp
    <3> QED BY <1>2, <3>3, <3>4 DEF Move
  <2> QED BY <2>3, <2>4
<1> QED BY <1>1, <1>2, <1>4, <1>5

LEMMA ForwardTraced ==
  ASSUME Asked, NEW m \in net, NEW r \in Relays, NEW f \in Relays,
         m.kind = "request", m.to = r, m.mode = "from_client",
         NEW mode \in {"from_relay", "from_second_relay"}
  PROVE  LET q == [m EXCEPT !.mode = mode, !.from = f, !.to = m.target, !.peer = m.from]
         IN  q \in Packets /\ Traced(q) /\ q.mode = mode /\ q.conn = m.conn /\ q.target = m.target
<1> DEFINE q == [m EXCEPT !.mode = mode, !.from = f, !.to = m.target, !.peer = m.from]
<1>1. m \in Packets /\ Traced(m) BY DEF Asked, Types
<1>2. q \in Packets BY <1>1 DEF Packets
<1>3. /\ q.conn = m.conn /\ q.tid = m.tid /\ q.cmd = m.cmd /\ q.target = m.target
      /\ q.kind = "request" /\ q.mode = mode /\ q.from = f /\ q.to = m.target /\ q.peer = m.from
  BY <1>1 DEF Packets
<1>4. m.from = conn[m.conn].by BY <1>1 DEF Traced
<1> HIDE DEF q
<1>5. Traced(q) BY <1>2, <1>3, <1>4, Passed
<1>6. q \in Packets /\ Traced(q) /\ q.mode = mode /\ q.conn = m.conn /\ q.target = m.target
  BY <1>2, <1>3, <1>5
<1> QED BY <1>6 DEF q

LEMMA ReturnTraced ==
  ASSUME Asked, NEW m \in net, NEW r \in Relays, m.mode = "from_server", m.to = r
  PROVE  LET q == [m EXCEPT !.kind = "response", !.mode = "reply", !.from = r, !.to = m.peer]
         IN  q \in Packets /\ Traced(q) /\ q.mode = "reply" /\ q.conn = m.conn /\ q.target = m.target
<1> DEFINE q == [m EXCEPT !.kind = "response", !.mode = "reply", !.from = r, !.to = m.peer]
<1>1. m \in Packets /\ Traced(m) /\ m.conn \in Conns /\ conn[m.conn].by \in Nodes
  BY DEF Asked, Types, Packets
<1>2. m.peer = conn[m.conn].by BY <1>1 DEF Traced
<1>3. q \in Packets BY <1>1, <1>2 DEF Packets
<1>4. /\ q.conn = m.conn /\ q.tid = m.tid /\ q.cmd = m.cmd /\ q.target = m.target
      /\ q.kind = "response" /\ q.mode = "reply" /\ q.from = r /\ q.to = m.peer
  BY <1>1 DEF Packets
<1> HIDE DEF q
<1>5. Traced(q) BY <1>2, <1>3, <1>4, Passed
<1>6. q \in Packets /\ Traced(q) /\ q.mode = "reply" /\ q.conn = m.conn /\ q.target = m.target
  BY <1>3, <1>4, <1>5
<1> QED BY <1>6 DEF q

LEMMA AskedStep == Asked /\ [Next]_vars => Asked' /\ Move
<1> SUFFICES ASSUME Asked, [Next]_vars PROVE Asked' /\ Move
  OBVIOUS
<1>0. /\ conn \in [Conns -> [by : Nodes, via : Relays \cup Nodes,
                             stage : {"new", "handshake", "punch", "open", "failed"}]]
      /\ pool \in [Nodes -> [connecting : Refs, connected : Refs]]
      /\ stream \in [Nodes -> [Conns -> {"none", "live", "dead"}]]
      /\ inflight \in [Nodes -> SUBSET [tid : Nat, conn : Conns, cmd : Commands]]
      /\ sessions \in [Nodes -> SUBSET Conns] /\ forwards \in [Nodes -> SUBSET Nodes]
      /\ net \in SUBSET Packets /\ upsets \in Nat /\ Waits
      /\ \A m \in net : Traced(m)
  BY DEF Asked, Types
<1>1. ASSUME NEW n \in Nodes, NEW via \in Relays \cup {Other(n)}, Connect(n, via)
      PROVE  Asked' /\ Move
  BY <1>1, ConnectStep
<1>2. ASSUME NEW n \in Nodes, Timeout(n) PROVE Asked' /\ Move
  <2>1. PICK r \in inflight[n] :
          /\ upsets' = upsets + 1 /\ inflight' = [inflight EXCEPT ![n] = @ \ {r}]
          /\ Failed(n, r.conn) /\ UNCHANGED <<forwards, sessions, nextTid, net>>
    BY <1>2 DEF Timeout, Upset
  <2>2. r.conn \in Conns /\ conn[r.conn].by = n /\ conn[r.conn].stage \in Commands
    BY <1>0 DEF Waits
  <2>3. /\ pool' \in [Nodes -> [connecting : Refs, connected : Refs]]
        /\ stream' \in [Nodes -> [Conns -> {"none", "live", "dead"}]]
    BY <1>0, <2>1, <2>2, PoolTypes DEF Failed
  <2>4. upsets' \in Nat /\ upsets' # upsets BY <1>0, <2>1
  <2>5. Asked' BY <2>1, <2>3, <2>4, Over DEF Failed
  <2>6. GivesUp(n, r.conn) BY <2>1, <2>2, <2>4 DEF GivesUp
  <2> QED BY <2>2, <2>5, <2>6 DEF Move
<1>3. ASSUME NEW n \in Nodes, Listen(n) PROVE Asked' /\ Move
  <2>1. forwards' \in [Nodes -> SUBSET Nodes] BY <1>0, <1>3 DEF Listen, Set
  <2>2. Types' BY <1>3, <2>1 DEF Listen, Asked, Types
  <2>3. Waits' /\ \A m \in net' : Traced(m)' BY <1>0, <1>3 DEF Listen, Waits, Traced
  <2> QED BY <1>3, <2>2, <2>3 DEF Asked, Move, Listen
<1>4. ASSUME NEW n \in Nodes, CloseServer(n) PROVE Asked' /\ Move
  <2>1. /\ forwards' \in [Nodes -> SUBSET Nodes] /\ sessions' \in [Nodes -> SUBSET Conns]
        /\ upsets' \in Nat
    BY <1>0, <1>4 DEF CloseServer, Remove, Upset
  <2>2. Types' BY <1>4, <2>1 DEF CloseServer, Asked, Types
  <2>3. Waits' /\ \A m \in net' : Traced(m)' BY <1>0, <1>4 DEF CloseServer, Waits, Traced
  <2> QED BY <1>4, <2>2, <2>3 DEF Asked, Move, CloseServer
<1>5. ASSUME NEW n \in Nodes, NEW c \in Conns, OnConnection(n, c) PROVE Asked' /\ Move
  <2> DEFINE old == Get(pool[n])
             a == AttachStream(pool[n], c, TRUE, old # NoRef /\ conn[old].by = conn[c].by, n = High)
  <2>1. /\ pool' = [pool EXCEPT ![n] = a.pool]
        /\ stream' = [stream EXCEPT ![n] =
             [d \in Conns |-> IF d = a.destroyed THEN "dead" ELSE IF d = c THEN "live" ELSE stream[n][d]]]
        /\ UNCHANGED <<forwards, sessions, conn, inflight, nextTid, net, upsets>>
    BY <1>5 DEF OnConnection
  <2>2. a.pool \in [connecting : Refs, connected : Refs] BY <1>0, PoolTypes
  <2> HIDE DEF a
  <2>3. /\ pool' \in [Nodes -> [connecting : Refs, connected : Refs]]
        /\ stream' \in [Nodes -> [Conns -> {"none", "live", "dead"}]]
    BY <1>0, <2>1, <2>2
  <2>4. Types' BY <2>1, <2>3 DEF Asked, Types
  <2>5. Waits' /\ \A m \in net' : Traced(m)' BY <1>0, <2>1 DEF Waits, Traced
  <2>6. Accepted(n, c) BY <1>5 DEF Accepted, OnConnection
  <2> QED BY <2>4, <2>5, <2>6 DEF Asked, Move
<1>6. ASSUME NEW n \in Nodes, NEW c \in Conns, PeerGone(n, c) \/ CloseStream(n, c)
      PROVE  Asked' /\ Move
  <2>1. EndStream(n, c) /\ upsets' \in Nat
    BY <1>0, <1>6 DEF PeerGone, CloseStream, Upset
  <2>2. /\ pool' \in [Nodes -> [connecting : Refs, connected : Refs]]
        /\ stream' \in [Nodes -> [Conns -> {"none", "live", "dead"}]]
    BY <1>0, <2>1, PoolTypes DEF EndStream
  <2>3. Types' BY <2>1, <2>2 DEF Asked, Types, EndStream
  <2>4. Waits' /\ \A m \in net' : Traced(m)' BY <1>0, <2>1 DEF Waits, Traced, EndStream
  <2> QED BY <1>6, <2>3, <2>4 DEF Asked, Move
<1>7. ASSUME NEW m \in net, Vanish(m) PROVE Asked' /\ Move
  BY <1>0, <1>7, Carried DEF Vanish, Move
<1>8. ASSUME NEW m \in net, m.to \in Nodes, OnResponse(m) PROVE Asked' /\ Move
  BY <1>8, ResponseStep
<1>9. ASSUME NEW m \in net, NEW n \in Nodes, OnRequest(m, n) PROVE Asked' /\ Move
  <2>1. /\ m.kind = "request" /\ m.to = n
        /\ net' \subseteq net \cup {Answer(m, n)}
        /\ sessions' = [sessions EXCEPT ![n] = @ \cup {m.conn}] \/ sessions' = sessions
        /\ UNCHANGED <<forwards, pool, stream, conn, inflight, nextTid, upsets>>
    BY <1>9 DEF OnRequest
  <2>2. m.conn \in Conns BY <1>0 DEF Packets
  <2>3. Answer(m, n) \in Packets /\ Traced(Answer(m, n)) BY <2>1, AnswerTraced
  <2>4. sessions' \in [Nodes -> SUBSET Conns]
    <3>1. sessions[n] \cup {m.conn} \in SUBSET Conns BY <1>0, <2>2
    <3> QED BY <1>0, <2>1, <3>1
  <2> QED BY <1>0, <2>1, <2>3, <2>4, Carried DEF Move
<1>10. ASSUME NEW m \in net, NEW r \in Relays, Forward(m, r) PROVE Asked' /\ Move
  <2>1. m.kind = "request" /\ m.to = r /\ m \in Packets /\ Traced(m) /\ conn[m.conn].by \in Nodes
    BY <1>0, <1>10 DEF Forward, Packets
  <2>2. m.mode \in {"from_client", "from_server"} BY <2>1, TwoNodes DEF Traced, Packets
  <2>3. CASE m.mode = "from_client"
    <3> DEFINE q == [m EXCEPT !.mode = "from_relay", !.from = r, !.to = m.target, !.peer = m.from]
    <3>1. q \in Packets /\ Traced(q) BY <2>1, <2>3, ForwardTraced
    <3>2. net' \subseteq net \cup {q} /\ UNCHANGED <<forwards, sessions, pool, stream, conn, inflight, nextTid, upsets>>
      BY <1>10, <2>3 DEF Forward
    <3> HIDE DEF q
    <3> QED BY <1>0, <3>1, <3>2, Carried DEF Move
  <2>4. CASE m.mode = "from_server"
    <3> DEFINE q == [m EXCEPT !.kind = "response", !.mode = "reply", !.from = r, !.to = m.peer]
    <3>1. q \in Packets /\ Traced(q) BY <2>1, <2>4, ReturnTraced
    <3>2. net' \subseteq net \cup {q} /\ UNCHANGED <<forwards, sessions, pool, stream, conn, inflight, nextTid, upsets>>
      BY <1>10, <2>4 DEF Forward
    <3> HIDE DEF q
    <3> QED BY <1>0, <3>1, <3>2, Carried DEF Move
  <2> QED BY <2>2, <2>3, <2>4
<1>11. ASSUME NEW m \in net, NEW r \in Relays, ForwardAgain(m, r) PROVE Asked' /\ Move
  <2>1. PICK f \in Relays :
          net' = (net \ {m}) \cup
            {[m EXCEPT !.mode = "from_second_relay", !.from = f, !.to = m.target, !.peer = m.from]}
    BY <1>11 DEF ForwardAgain
  <2> DEFINE q == [m EXCEPT !.mode = "from_second_relay", !.from = f, !.to = m.target, !.peer = m.from]
  <2>2. /\ m.kind = "request" /\ m.to = r /\ m.mode = "from_client"
        /\ UNCHANGED <<forwards, sessions, pool, stream, conn, inflight, nextTid, upsets>>
    BY <1>11 DEF ForwardAgain
  <2>3. q \in Packets /\ Traced(q) BY <2>2, ForwardTraced
  <2>4. net' \subseteq net \cup {q} BY <2>1
  <2> HIDE DEF q
  <2> QED BY <1>0, <2>2, <2>3, <2>4, Carried DEF Move
<1>12. CASE UNCHANGED vars
  BY <1>0, <1>12, Carried DEF vars, Move
<1> QED BY <1>1, <1>2, <1>3, <1>4, <1>5, <1>6, <1>7, <1>8, <1>9, <1>10, <1>11, <1>12 DEF Next

\* Packets are of their types and carry the way back to who asked.
THEOREM AskedTheorem == Spec => []Asked
BY AskedInit, AskedStep, PTL DEF Spec

\* An answer reaches the node that asked, under the tid of the request it answers,
\* through whatever relays the request and the answer went.
THEOREM AnswersAskerTheorem == Spec => []AnswersAsker
<1>1. Asked => AnswersAsker BY DEF Asked, AnswersAsker, Traced
<1> QED BY <1>1, AskedTheorem, PTL

-----------------------------------------------------------------------------
(* Pools.                                                                  *)

\* OneStreamPerPeer, stream by stream.
Exact ==
  \A n \in Nodes :
    /\ pool[n].connecting = NoRef \/ pool[n].connected = NoRef
    /\ \A c \in Conns : stream[n][c] = "live" <=> (pool[n].connecting = c \/ pool[n].connected = c)

LEMMA ExactIsOneStream ==
  ASSUME Types
  PROVE  Exact <=> OneStreamPerPeer
<1>1. \A n \in Nodes : pool[n].connecting \in Refs /\ pool[n].connected \in Refs BY DEF Types
<1>2. NoRef \notin Conns BY TwoNodes
<1>3. Exact => OneStreamPerPeer BY <1>1, <1>2 DEF Exact, OneStreamPerPeer, Refs
<1>4. OneStreamPerPeer => Exact BY <1>2 DEF Exact, OneStreamPerPeer, Refs
<1> QED BY <1>3, <1>4

Held == Pooled /\ Staged /\ Exact

LEMMA HeldInit == Init => Held
<1> SUFFICES ASSUME Init PROVE Held OBVIOUS
<1>1. Pooled BY TwoNodes DEF Init, Pooled, EmptyPool
<1>2. Staged BY DEF Init, Staged, NewConn
<1>3. Exact BY TwoNodes DEF Init, Exact, EmptyPool
<1> QED BY <1>1, <1>2, <1>3 DEF Held

\* The stream of c at n ends, and its entry with it.
LEMMA Ending ==
  ASSUME Types, Held, NEW n \in Nodes, NEW c \in Conns,
         stream' = [stream EXCEPT ![n][c] = "dead"],
         pool' = [pool EXCEPT ![n] = Dropped(@, c)],
         conn[c].stage # "new",
         conn' = conn \/ (conn[c].by = n /\ conn[c].stage \in Commands
                          /\ conn' = [conn EXCEPT ![c].stage = "failed"])
  PROVE  Held'
<1>0. /\ conn \in [Conns -> [by : Nodes, via : Relays \cup Nodes,
                             stage : {"new", "handshake", "punch", "open", "failed"}]]
      /\ pool \in [Nodes -> [connecting : Refs, connected : Refs]]
      /\ stream \in [Nodes -> [Conns -> {"none", "live", "dead"}]]
  BY DEF Types
<1>1. /\ \A k \in Nodes : k # n => pool'[k] = pool[k] /\ stream'[k] = stream[k]
      /\ pool'[n] = Dropped(pool[n], c) /\ stream'[n][c] = "dead"
      /\ \A d \in Conns : d # c => stream'[n][d] = stream[n][d]
  BY <1>0
<1>2. \/ Get(pool[n]) = c /\ pool'[n].connecting = NoRef /\ pool'[n].connected = NoRef
      \/ pool'[n] = pool[n] /\ pool[n].connecting # c /\ pool[n].connected # c
  <2>1. CASE Get(pool[n]) = c BY <1>1, <2>1 DEF Dropped, RemoveRef, EmptyPool
  <2>2. CASE Get(pool[n]) # c
    <3>1. pool'[n] = pool[n] BY <1>1, <2>2 DEF Dropped
    <3>2. pool[n].connecting # c /\ pool[n].connected # c
      BY <2>2, TwoNodes DEF Get, Held, Exact
    <3> QED BY <3>1, <3>2
  <2> QED BY <2>1, <2>2
<1>3. /\ \A d \in Conns : d # c => conn'[d] = conn[d]
      /\ conn'[c].by = conn[c].by /\ conn'[c].stage \in {conn[c].stage, "failed"}
      /\ conn'[c].stage # conn[c].stage => conn[c].by = n /\ conn[c].stage \in Commands
  BY <1>0 DEF Commands
<1>4. Pooled'
  <2>1. ASSUME NEW k \in Nodes, NEW d \in Conns, pool'[k].connecting = d
        PROVE  conn'[d].by = k /\ conn'[d].stage \in Commands
    <3>1. pool[k].connecting = d BY <1>1, <1>2, <2>1, TwoNodes
    <3>2. conn[d].by = k /\ conn[d].stage \in Commands BY <3>1 DEF Held, Pooled
    <3>3. CASE d # c BY <1>3, <3>2, <3>3
    <3>4. CASE d = c /\ k = n BY <1>1, <1>2, <2>1, <3>4, TwoNodes
    <3>5. CASE d = c /\ k # n BY <1>3, <3>2, <3>5
    <3> QED BY <3>3, <3>4, <3>5
  <2>2. ASSUME NEW k \in Nodes, NEW d \in Conns, pool'[k].connected = d
        PROVE  conn'[d].stage = "open"
    <3>1. pool[k].connected = d BY <1>1, <1>2, <2>2, TwoNodes
    <3>2. conn[d].stage = "open" BY <3>1 DEF Held, Pooled
    <3> QED BY <1>3, <3>2 DEF Commands
  <2> QED BY <2>1, <2>2 DEF Pooled
<1>5. Staged' BY <1>0, <1>1, <1>3 DEF Held, Staged
<1>6. Exact'
  <2>1. ASSUME NEW k \in Nodes
        PROVE  /\ pool'[k].connecting = NoRef \/ pool'[k].connected = NoRef
               /\ \A d \in Conns : stream'[k][d] = "live" <=> (pool'[k].connecting = d \/ pool'[k].connected = d)
    <3>1. CASE k # n BY <1>1, <3>1 DEF Held, Exact
    <3>2. CASE k = n BY <1>1, <1>2, <3>2, TwoNodes DEF Held, Exact, Get
    <3> QED BY <3>1, <3>2
  <2> QED BY <2>1 DEF Exact
<1> QED BY <1>4, <1>5, <1>6 DEF Held

LEMMA HeldStep ==
  ASSUME Types, Held, Move
  PROVE  Held'
<1>0. /\ conn \in [Conns -> [by : Nodes, via : Relays \cup Nodes,
                             stage : {"new", "handshake", "punch", "open", "failed"}]]
      /\ pool \in [Nodes -> [connecting : Refs, connected : Refs]]
      /\ stream \in [Nodes -> [Conns -> {"none", "live", "dead"}]]
  BY DEF Types
<1> USE DEF Held
<1>1. CASE UNCHANGED <<pool, stream, conn>> BY <1>1 DEF Pooled, Staged, Exact
<1>2. ASSUME NEW n \in Nodes, NEW c \in Conns, Dials(n, c) PROVE Held'
  <2>1. pool[n].connecting = NoRef /\ pool[n].connected = NoRef
    BY <1>2, TwoNodes DEF Dials, HasRef, Get, Exact
  <2>2. pool'[n].connecting = c /\ pool'[n].connected = NoRef /\ \A k \in Nodes : k # n => pool'[k] = pool[k]
    BY <1>0, <1>2, <2>1 DEF Dials, AttachStream, Put, HasRef, Get
  <2>3. /\ conn[c].stage = "new" /\ conn'[c].by = n /\ conn'[c].stage = "handshake"
        /\ \A d \in Conns : d # c => conn'[d] = conn[d]
    BY <1>0, <1>2 DEF Dials
  <2>4. /\ stream'[n][c] = "live" /\ \A d \in Conns : d # c => stream'[n][d] = stream[n][d]
        /\ \A k \in Nodes : k # n => stream'[k] = stream[k]
    BY <1>0, <1>2 DEF Dials
  <2>5. Pooled' BY <2>1, <2>2, <2>3, TwoNodes DEF Pooled, Commands
  <2>6. Staged'
    <3>1. ASSUME NEW d \in Conns, d # c
          PROVE  /\ conn'[d] = conn[d] /\ conn[d].by \in Nodes
                 /\ \A k \in Nodes : stream'[k][d] = stream[k][d]
      BY <1>0, <2>3, <2>4, <3>1
    <3>2. ASSUME NEW d \in Conns
          PROVE  /\ conn'[d].stage = "new" => \A k \in Nodes : stream'[k][d] = "none"
                 /\ conn'[d].stage # "new" => stream'[conn'[d].by][d] # "none"
                 /\ conn'[d].stage = "failed" => stream'[conn'[d].by][d] = "dead"
      <4>1. CASE d = c BY <2>3, <2>4, <4>1
      <4>2. CASE d # c BY <3>1, <4>2 DEF Staged
      <4> QED BY <4>1, <4>2
    <3> QED BY <3>2 DEF Staged
  <2>7. Exact'
    <3>1. ASSUME NEW k \in Nodes
          PROVE  /\ pool'[k].connecting = NoRef \/ pool'[k].connected = NoRef
                 /\ \A d \in Conns : stream'[k][d] = "live" <=> (pool'[k].connecting = d \/ pool'[k].connected = d)
      <4>1. CASE k # n BY <2>2, <2>4, <4>1 DEF Exact
      <4>2. CASE k = n BY <2>1, <2>2, <2>4, <4>2, TwoNodes DEF Exact
      <4> QED BY <4>1, <4>2
    <3> QED BY <3>1 DEF Exact
  <2> QED BY <2>5, <2>6, <2>7
<1>3. ASSUME NEW n \in Nodes, NEW c \in Conns, Punches(n, c) PROVE Held'
  <2>1. /\ conn'[c].by = conn[c].by /\ conn[c].stage = "handshake" /\ conn'[c].stage = "punch"
        /\ \A d \in Conns : d # c => conn'[d] = conn[d]
        /\ UNCHANGED <<pool, stream>>
    BY <1>0, <1>3 DEF Punches
  <2>2. Pooled' BY <2>1 DEF Pooled, Commands
  <2>3. Staged' BY <2>1 DEF Staged
  <2> QED BY <2>1, <2>2, <2>3 DEF Exact
<1>4. ASSUME NEW n \in Nodes, NEW c \in Conns, Succeeds(n, c) PROVE Held'
  <2>1. /\ conn'[c].by = conn[c].by /\ conn'[c].stage = "open" /\ conn[c].by = n
        /\ \A d \in Conns : d # c => conn'[d] = conn[d]
        /\ stream' = stream /\ stream[n][c] = "live" /\ conn[c].stage \in Commands
    BY <1>0, <1>4 DEF Succeeds, Opened
  <2>2. pool[n].connecting = c /\ pool[n].connected = NoRef
    BY <2>1, TwoNodes DEF Exact, Pooled, Commands
  <2>3. /\ pool'[n].connecting = NoRef /\ pool'[n].connected = c
        /\ \A k \in Nodes : k # n => pool'[k] = pool[k]
    BY <1>0, <1>4, <2>2, TwoNodes DEF Succeeds, Opened, MarkOpened, Get
  <2>4. Pooled'
    <3>1. ASSUME NEW k \in Nodes, NEW d \in Conns, pool'[k].connecting = d
          PROVE  conn'[d].by = k /\ conn'[d].stage \in Commands
      <4>1. k # n BY <2>3, <3>1, TwoNodes
      <4>2. conn[d].by = k /\ conn[d].stage \in Commands BY <2>3, <3>1, <4>1 DEF Pooled
      <4> QED BY <2>1, <4>1, <4>2
    <3>2. ASSUME NEW k \in Nodes, NEW d \in Conns, pool'[k].connected = d
          PROVE  conn'[d].stage = "open"
      <4>1. CASE k = n BY <2>1, <2>3, <3>2, <4>1
      <4>2. CASE k # n BY <2>1, <2>3, <3>2, <4>2 DEF Pooled
      <4> QED BY <4>1, <4>2
    <3> QED BY <3>1, <3>2 DEF Pooled
  <2>5. Staged' BY <2>1 DEF Staged, Commands
  <2>6. Exact'
    <3>1. ASSUME NEW k \in Nodes
          PROVE  /\ pool'[k].connecting = NoRef \/ pool'[k].connected = NoRef
                 /\ \A d \in Conns : stream'[k][d] = "live" <=> (pool'[k].connecting = d \/ pool'[k].connected = d)
      <4>1. CASE k # n BY <2>1, <2>3, <4>1 DEF Exact
      <4>2. CASE k = n BY <2>1, <2>2, <2>3, <4>2, TwoNodes DEF Exact
      <4> QED BY <4>1, <4>2
    <3> QED BY <3>1 DEF Exact
  <2> QED BY <2>4, <2>5, <2>6
<1>5. ASSUME NEW n \in Nodes, NEW c \in Conns, GivesUp(n, c) PROVE Held'
  BY <1>5, Ending DEF GivesUp, Failed, Commands
<1>6. ASSUME NEW n \in Nodes, NEW c \in Conns, Accepted(n, c) PROVE Held'
  <2> DEFINE old == Get(pool[n])
             a == AttachStream(pool[n], c, TRUE, old # NoRef /\ conn[old].by = conn[c].by, n = High)
  <2>1. /\ pool' = [pool EXCEPT ![n] = a.pool]
        /\ stream' = [stream EXCEPT ![n] =
             [d \in Conns |-> IF d = a.destroyed THEN "dead" ELSE IF d = c THEN "live" ELSE stream[n][d]]]
        /\ conn' = conn /\ stream[n][c] = "none" /\ conn[c].stage = "open"
    BY <1>6 DEF Accepted, OnConnection
  <2>2. \/ a.destroyed = old /\ a.pool.connecting = NoRef /\ a.pool.connected = c
        \/ a.destroyed = c /\ a.pool = pool[n]
    <3>1. pool[n].connecting \in Refs /\ pool[n].connected \in Refs
          /\ pool[n] = [connecting |-> pool[n].connecting, connected |-> pool[n].connected]
      BY <1>0
    <3> QED BY <3>1, TwoNodes DEF AttachStream, Put, RemoveRef, EmptyPool, HasRef, Get, Refs
  <2>3. old \in Refs /\ old # c /\ (old = pool[n].connecting \/ old = pool[n].connected)
        /\ (old = NoRef => pool[n].connecting = NoRef /\ pool[n].connected = NoRef)
    BY <1>0, <2>1, TwoNodes DEF Get, Refs, Exact
  <2> HIDE DEF a, old
  <2>4. /\ pool'[n] = a.pool /\ \A k \in Nodes : k # n => pool'[k] = pool[k] /\ stream'[k] = stream[k]
        /\ \A d \in Conns : stream'[n][d] = IF d = a.destroyed THEN "dead" ELSE IF d = c THEN "live" ELSE stream[n][d]
    BY <1>0, <2>1
  <2>5. Pooled' BY <2>1, <2>2, <2>4, TwoNodes DEF Pooled
  <2>6. Staged'
    <3>1. ASSUME NEW d \in Conns, NEW k \in Nodes
          PROVE  /\ stream'[k][d] = "none" => stream[k][d] = "none"
                 /\ stream[k][d] # stream'[k][d] => conn[d].stage \in Commands \cup {"open"}
      <4>1. CASE k # n BY <2>4, <4>1
      <4>2. CASE k = n
        <5>1. d = old => stream[n][d] = "live"
          BY <2>3, TwoNodes DEF Exact
        <5>2. CASE d = c BY <2>1, <2>4, <4>2, <5>2
        <5>3. CASE d # c /\ d # a.destroyed BY <2>4, <4>2, <5>3
        <5>4. CASE d # c /\ d = a.destroyed
          <6>1. d = old /\ stream'[n][d] = "dead" BY <2>2, <2>4, <5>4
          <6>2. conn[d].stage \in Commands \/ conn[d].stage = "open"
            BY <2>3, <6>1 DEF Pooled
          <6> QED BY <4>2, <5>1, <6>1, <6>2
        <5> QED BY <5>2, <5>3, <5>4
      <4> QED BY <4>1, <4>2
    <3>2. ASSUME NEW d \in Conns
          PROVE  /\ conn'[d].stage = "new" => \A k \in Nodes : stream'[k][d] = "none"
                 /\ conn'[d].stage # "new" => stream'[conn'[d].by][d] # "none"
                 /\ conn'[d].stage = "failed" => stream'[conn'[d].by][d] = "dead"
      <4>1. conn' = conn /\ conn[d].by \in Nodes BY <1>0, <2>1
      <4>2. conn[d].stage = "new" => \A k \in Nodes : stream'[k][d] = "none"
        BY <3>1 DEF Staged, Commands
      <4>3. conn[d].stage # "new" => stream'[conn[d].by][d] # "none"
        BY <3>1, <4>1 DEF Staged
      <4>4. conn[d].stage = "failed" => stream'[conn[d].by][d] = "dead"
        BY <3>1, <4>1 DEF Staged, Commands
      <4> QED BY <4>1, <4>2, <4>3, <4>4
    <3> QED BY <3>2 DEF Staged
  <2>7. Exact' BY <2>1, <2>2, <2>3, <2>4, TwoNodes DEF Exact
  <2> QED BY <2>5, <2>6, <2>7
<1>7. ASSUME NEW n \in Nodes, NEW c \in Conns, PeerGone(n, c) \/ CloseStream(n, c) PROVE Held'
  <2>1. EndStream(n, c) BY <1>7 DEF PeerGone, CloseStream
  <2>2. conn[c].stage # "new" BY <2>1 DEF EndStream, Staged
  <2> QED BY <2>1, <2>2, Ending DEF EndStream
<1> QED BY <1>1, <1>2, <1>3, <1>4, <1>5, <1>6, <1>7 DEF Move

\* The inductive invariant of the connection pools: who asked whom and what each end
\* holds of every stream, over all dials, answers and closings (ConnectionPool).
THEOREM HeldTheorem == Spec => [](Asked /\ Held)
<1>1. Asked => Types BY DEF Asked
<1> QED BY <1>1, AskedInit, AskedStep, HeldInit, HeldStep, PTL DEF Spec

\* A node's live streams are the entries of its pool and there is at most one, after
\* any sequence of dials, arrivals, failures and closed streams.
THEOREM OneStreamPerPeerTheorem == Spec => []OneStreamPerPeer
<1>1. Asked /\ Held => OneStreamPerPeer BY ExactIsOneStream DEF Asked, Held
<1> QED BY <1>1, HeldTheorem, PTL
-----------------------------------------------------------------------------
(* Sessions of what was answered.                                          *)

Settled == {"punch", "open"}
Answers == {"reply", "from_server"}

\* As long as nothing goes wrong, sessions stay, an answer leaves with its session,
\* and an attempt goes on only after an answer.
Growing ==
  upsets' = 0 =>
    /\ upsets = 0
    /\ \A n \in Nodes : sessions[n] \subseteq sessions'[n]
    /\ \A m \in net' : m.mode \in Answers => m \in net \/ m.conn \in sessions'[m.target]
    /\ \A c \in Conns : conn'[c].stage \in Settled =>
         /\ conn'[c].by = conn[c].by
         /\ conn[c].stage \in Settled \/ c \in sessions[Other(conn[c].by)]

LEMMA GrowingKeeps ==
  ASSUME Types, Answered, Growing
  PROVE  Answered'
<1> SUFFICES ASSUME upsets' = 0
             PROVE  /\ \A m \in net' : m.mode \in Answers => m.conn \in sessions'[m.target]
                    /\ \A c \in Conns : conn'[c].stage \in Settled => c \in sessions'[Other(conn'[c].by)]
  BY DEF Answered, Answers, Settled
<1>1. /\ net \in SUBSET Packets
      /\ \A c \in Conns : conn[c].by \in Nodes /\ Other(conn[c].by) \in Nodes
  BY TwoNodes DEF Types
<1>2. ASSUME NEW m \in net', m.mode \in Answers, m \in net PROVE m.conn \in sessions'[m.target]
  <2>1. m.target \in Nodes BY <1>1, <1>2 DEF Packets
  <2> QED BY <1>2, <2>1 DEF Answered, Answers, Growing
<1>3. ASSUME NEW c \in Conns, conn'[c].stage \in Settled PROVE c \in sessions'[Other(conn'[c].by)]
  <2>1. c \in sessions[Other(conn[c].by)] /\ conn'[c].by = conn[c].by
    BY <1>3 DEF Answered, Settled, Growing
  <2> QED BY <1>1, <2>1 DEF Growing
<1> QED BY <1>2, <1>3 DEF Growing

LEMMA AnsweredStep == Asked /\ Answered /\ [Next]_vars => Answered' /\ (upsets' = 0 => upsets = 0)
<1> SUFFICES ASSUME Asked, Answered, [Next]_vars PROVE Growing
  BY GrowingKeeps DEF Asked, Growing
<1> SUFFICES ASSUME upsets' = 0 PROVE Growing BY DEF Growing
<1>0. /\ conn \in [Conns -> [by : Nodes, via : Relays \cup Nodes,
                             stage : {"new", "handshake", "punch", "open", "failed"}]]
      /\ sessions \in [Nodes -> SUBSET Conns] /\ net \in SUBSET Packets /\ upsets \in Nat
      /\ inflight \in [Nodes -> SUBSET [tid : Nat, conn : Conns, cmd : Commands]]
      /\ \A m \in net : Traced(m)
  BY DEF Asked, Types
<1>1. ASSUME NEW n \in Nodes, NEW via \in Relays \cup {Other(n)}, Connect(n, via) PROVE Growing
  <2>1. PICK c \in Conns :
          /\ conn' = [conn EXCEPT ![c] = [by |-> n, via |-> via, stage |-> "handshake"]]
          /\ Send(n, c, "handshake", via) /\ UNCHANGED <<sessions, upsets>>
    BY <1>1 DEF Connect
  <2>2. \A d \in Conns : conn'[d].stage \in Settled => conn'[d] = conn[d]
    BY <1>0, <2>1 DEF Settled
  <2>3. \A m \in net' : m.mode \in Answers => m \in net
    BY <2>1 DEF Send, Request, Answers
  <2> QED BY <2>1, <2>2, <2>3 DEF Growing
<1>2. ASSUME NEW n \in Nodes, Timeout(n) \/ CloseServer(n) PROVE FALSE
  BY <1>0, <1>2 DEF Timeout, CloseServer, Upset
<1>3. ASSUME UNCHANGED <<sessions, conn, net, upsets>> PROVE Growing
  BY <1>3 DEF Growing
<1>4. ASSUME NEW n \in Nodes, NEW c \in Conns, CloseStream(n, c) PROVE FALSE
  BY <1>0, <1>4 DEF CloseStream, Upset
<1>5. ASSUME NEW m \in net, Vanish(m) PROVE Growing BY <1>5 DEF Vanish, Growing
<1>6. ASSUME NEW m \in net, m.to \in Nodes, OnResponse(m) PROVE Growing
  <2>0. PICK r \in inflight[m.to] :
          /\ m.kind = "response" /\ m.tid = r.tid
          /\ \/ /\ conn' = [conn EXCEPT ![r.conn].stage = "punch"]
                /\ net' = (net \ {m}) \cup {Request(m.to, nextTid[m.to], r.conn, "punch", conn[r.conn].via)}
             \/ (Opened(m.to, r.conn) \/ Failed(m.to, r.conn)) /\ net' = net \ {m}
          /\ UNCHANGED <<sessions, upsets>>
    BY <1>6 DEF OnResponse
  <2>1. /\ m.kind = "response" /\ m.tid = r.tid
        /\ \E stage \in {"punch", "open", "failed"} : conn' = [conn EXCEPT ![r.conn].stage = stage]
        /\ \A q \in net' : q \in net \/ q.mode = "from_client"
        /\ UNCHANGED <<sessions, upsets>>
    BY <2>0 DEF Opened, Failed, Request
  <2>2. /\ m.conn = r.conn /\ conn[r.conn].by = m.to /\ r.conn \in Conns
    BY <1>6, <2>1, OwnResponse
  <2>3. m.mode = "reply" /\ m.target = Other(m.to)
    BY <1>0, <2>1, <2>2 DEF Traced
  <2>4. r.conn \in sessions[Other(conn[r.conn].by)]
    BY <2>1, <2>2, <2>3 DEF Answered
  <2>5. \A c \in Conns : conn'[c].by = conn[c].by /\ (c # r.conn => conn'[c] = conn[c])
    BY <1>0, <2>1, <2>2
  <2>6. \A q \in net' : q.mode \in Answers => q \in net BY <2>1 DEF Answers
  <2> QED BY <2>1, <2>4, <2>5, <2>6 DEF Growing
<1>7. ASSUME NEW m \in net, NEW n \in Nodes, OnRequest(m, n) PROVE Growing
  <2>1. /\ m.kind = "request" /\ m.to = n
        /\ UNCHANGED <<conn, upsets>>
        /\ \/ /\ net' = (net \ {m}) \cup {Answer(m, n)}
              /\ sessions' = [sessions EXCEPT ![n] = @ \cup {m.conn}]
           \/ net' = net \ {m} /\ sessions' = sessions
    BY <1>7 DEF OnRequest
  <2>2. Answer(m, n).conn = m.conn /\ n = m.target BY <2>1, AnswerTraced
  <2>3. Answer(m, n).target = m.target BY <1>0 DEF Answer, Reply, RelayBack, Packets
  <2>4. CASE net' = net \ {m} /\ sessions' = sessions BY <2>1, <2>4 DEF Growing
  <2>5. CASE net' = (net \ {m}) \cup {Answer(m, n)} /\ sessions' = [sessions EXCEPT ![n] = @ \cup {m.conn}]
    <3>1. m.conn \in sessions'[n] /\ \A k \in Nodes : sessions[k] \subseteq sessions'[k] BY <1>0, <2>5
    <3>2. \A q \in net' : q \in net \/ q.conn \in sessions'[q.target]
      BY <2>2, <2>3, <2>5, <3>1
    <3> QED BY <2>1, <3>1, <3>2 DEF Growing
  <2> QED BY <2>1, <2>4, <2>5
<1>8. ASSUME NEW m \in net, NEW r \in Relays, Forward(m, r) PROVE Growing
  <2>1. m \in Packets /\ Traced(m) /\ m.to = r /\ m.kind = "request"
        /\ UNCHANGED <<sessions, conn, upsets>>
    BY <1>0, <1>8 DEF Forward
  <2>2. m.mode \in {"from_client", "from_server"}
    BY <1>0, <2>1, TwoNodes DEF Traced, Packets
  <2>3. CASE m.mode = "from_client"
    <3>1. net' = (net \ {m}) \cup
            {[m EXCEPT !.mode = "from_relay", !.from = r, !.to = m.target, !.peer = m.from]}
      BY <1>8, <2>3 DEF Forward
    <3>2. \A q \in net' : q.mode \in Answers => q \in net BY <2>1, <3>1 DEF Answers, Packets
    <3> QED BY <2>1, <3>2 DEF Growing
  <2>4. CASE m.mode = "from_server"
    <3>1. net' = (net \ {m}) \cup
            {[m EXCEPT !.kind = "response", !.mode = "reply", !.from = r, !.to = m.peer]}
      BY <1>8, <2>4 DEF Forward
    <3>2. m.conn \in sessions[m.target] BY <2>1, <2>4 DEF Answered
    <3>3. \A q \in net' : q \in net \/ q.conn \in sessions[q.target]
      BY <2>1, <3>1, <3>2 DEF Packets
    <3> QED BY <2>1, <3>3 DEF Growing
  <2> QED BY <2>2, <2>3, <2>4
<1>9. ASSUME NEW m \in net, NEW r \in Relays, ForwardAgain(m, r) PROVE Growing
  <2>1. PICK f \in Relays :
          net' = (net \ {m}) \cup
            {[m EXCEPT !.mode = "from_second_relay", !.from = f, !.to = m.target, !.peer = m.from]}
    BY <1>9 DEF ForwardAgain
  <2>2. \A q \in net' : q.mode \in Answers => q \in net BY <1>0, <2>1 DEF Answers, Packets
  <2>3. UNCHANGED <<sessions, conn, upsets>> BY <1>9 DEF ForwardAgain
  <2> QED BY <2>2, <2>3 DEF Growing
<1>10. ASSUME NEW n \in Nodes, NEW c \in Conns, OnConnection(n, c) \/ PeerGone(n, c) PROVE Growing
  BY <1>3, <1>10 DEF OnConnection, PeerGone, EndStream
<1>11. ASSUME NEW n \in Nodes, Listen(n) PROVE Growing BY <1>3, <1>11 DEF Listen
<1>12. CASE UNCHANGED vars BY <1>3, <1>12 DEF vars
<1> QED BY <1>1, <1>2, <1>4, <1>5, <1>6, <1>7, <1>8, <1>9, <1>10, <1>11, <1>12 DEF Next
-----------------------------------------------------------------------------
(* Both ends decide alike.                                                 *)

\* A node has at most one live stream.
LEMMA OnlyOne ==
  ASSUME Types, Exact, NEW n \in Nodes, NEW c \in Conns, NEW d \in Conns,
         stream[n][c] = "live", stream[n][d] = "live"
  PROVE  c = d
<1>1. pool[n].connecting = c \/ pool[n].connected = c BY DEF Exact
<1>2. pool[n].connecting = d \/ pool[n].connected = d BY DEF Exact
<1> QED BY <1>1, <1>2, TwoNodes DEF Exact

\* Attempt c counts: nothing of the lower node stands against it.
Counts(c) == conn[c].stage # "new" /\ (conn[c].by = Low \/ ~LowDials)

\* Of the attempts that count there is one.
LEMMA OneCounts ==
  ASSUME Types, Exact, Decided, upsets = 0, NEW c \in Conns, NEW d \in Conns, Counts(c), Counts(d)
  PROVE  c = d
<1>1. conn[c].by = conn[d].by /\ conn[c].by \in Nodes
  BY TwoNodes DEF Types, Counts, LowDials, Nodes
<1>2. stream[conn[c].by][c] = "live" /\ stream[conn[d].by][d] = "live" BY DEF Decided, Counts
<1> QED BY <1>1, <1>2, OnlyOne

\* An arriving stream does not end one that counts, nor is it refused if it counts.
LEMMA AcceptedDecided ==
  ASSUME Types, Held, Decided, upsets = 0, NEW n \in Nodes, NEW d \in Conns, Accepted(n, d),
         NEW c \in Conns, Counts(c)
  PROVE  stream'[conn[c].by][c] = "live" /\ stream'[Other(conn[c].by)][c] # "dead"
<1> DEFINE old == Get(pool[n])
           same == old # NoRef /\ conn[old].by = conn[d].by
           a == AttachStream(pool[n], d, TRUE, same, n = High)
<1>0. /\ conn \in [Conns -> [by : Nodes, via : Relays \cup Nodes,
                             stage : {"new", "handshake", "punch", "open", "failed"}]]
      /\ pool \in [Nodes -> [connecting : Refs, connected : Refs]]
      /\ stream \in [Nodes -> [Conns -> {"none", "live", "dead"}]]
  BY DEF Types
<1>1. /\ stream' = [stream EXCEPT ![n] =
           [e \in Conns |-> IF e = a.destroyed THEN "dead" ELSE IF e = d THEN "live" ELSE stream[n][e]]]
      /\ stream[n][d] = "none" /\ conn[d].stage = "open"
  BY DEF Accepted, OnConnection
<1>2. a.destroyed = IF old = NoRef \/ same \/ n = High THEN old ELSE d
  BY DEF AttachStream, ShouldKeepNew, HasRef
<1>3. old \in Refs /\ (old \in Conns => stream[n][old] = "live")
  BY <1>0, TwoNodes DEF Get, Refs, Held, Exact
<1>4. n = Other(conn[d].by) /\ conn[d].by = Other(n) /\ conn[d].by \in Nodes
  BY <1>0, <1>1, TwoNodes DEF Held, Staged
<1>5. old \in Conns => conn[old].stage # "new"
  BY <1>3, TwoNodes DEF Held, Staged
<1>6. stream[conn[c].by][c] = "live" /\ stream[Other(conn[c].by)][c] # "dead"
  BY DEF Decided, Counts
<1> HIDE DEF old, a
<1>7. /\ \A k \in Nodes : k # n => stream'[k] = stream[k]
      /\ \A e \in Conns : stream'[n][e] = IF e = a.destroyed THEN "dead" ELSE IF e = d THEN "live" ELSE stream[n][e]
  BY <1>0, <1>1
<1>8. CASE c = d
  <2>1. old # d BY <1>1, <1>3
  <2>2. a.destroyed # d
    <3>1. CASE old = NoRef BY <1>2, <2>1, <3>1
    <3>2. CASE old \in Conns /\ n = High BY <1>2, <2>1, <3>2
    <3>3. CASE old \in Conns /\ n = Low
      <4>1. conn[d].by = High /\ ~LowDials BY <1>4, <1>8, <3>3, TwoNodes DEF Counts, Nodes
      <4>2. Counts(old) BY <1>5, <3>3, <4>1 DEF Counts
      <4> QED BY <1>8, <2>1, <3>3, <4>2, OneCounts DEF Held
    <3> QED BY <1>3, <3>1, <3>2, <3>3 DEF Refs, Nodes
  <2> QED BY <1>4, <1>6, <1>7, <1>8, <2>2, TwoNodes
<1>9. CASE c # d
  <2>1. a.destroyed # c
    <3>1. SUFFICES ASSUME old = c, old = NoRef \/ same \/ n = High PROVE FALSE BY <1>2, <1>9
    <3>2. ~Counts(d) BY <1>9, OneCounts DEF Held
    <3>3. LowDials /\ conn[d].by = High /\ conn[c].by = Low
      BY <1>1, <1>4, <3>2 DEF Counts, Nodes
    <3>4. n = Low BY <1>4, <3>3 DEF Other
    <3> QED BY <3>1, <3>3, <3>4, TwoNodes
  <2> QED BY <1>0, <1>6, <1>7, <1>9, <2>1, TwoNodes
<1> QED BY <1>8, <1>9

LEMMA DecidedStep ==
  ASSUME Types, Held, Decided, Move, upsets' = 0 => upsets = 0
  PROVE  Decided'
<1> SUFFICES ASSUME upsets' = 0, upsets = 0, NEW c \in Conns, Counts(c)'
             PROVE  stream'[conn'[c].by][c] = "live" /\ stream'[Other(conn'[c].by)][c] # "dead"
  BY DEF Decided, Counts
<1>0. /\ conn \in [Conns -> [by : Nodes, via : Relays \cup Nodes,
                             stage : {"new", "handshake", "punch", "open", "failed"}]]
      /\ stream \in [Nodes -> [Conns -> {"none", "live", "dead"}]]
  BY DEF Types
<1>1. ASSUME \A d \in Conns : conn'[d].by = conn[d].by /\ (conn'[d].stage = "new" <=> conn[d].stage = "new")
      PROVE  /\ Counts(c) /\ conn'[c].by = conn[c].by
             /\ stream[conn[c].by][c] = "live" /\ stream[Other(conn[c].by)][c] # "dead"
  BY <1>1 DEF Counts, LowDials, Decided
<1>2. CASE UNCHANGED <<pool, stream, conn>> BY <1>1, <1>2
<1>3. ASSUME NEW n \in Nodes, NEW d \in Conns, Dials(n, d)
      PROVE  stream'[conn'[c].by][c] = "live" /\ stream'[Other(conn'[c].by)][c] # "dead"
  <2>1. /\ conn[d].stage = "new" /\ conn'[d].by = n /\ conn'[d].stage = "handshake"
        /\ \A e \in Conns : e # d => conn'[e] = conn[e]
    BY <1>0, <1>3 DEF Dials
  <2>2. /\ stream'[n][d] = "live" /\ \A e \in Conns : e # d => stream'[n][e] = stream[n][e]
        /\ \A k \in Nodes : k # n => stream'[k] = stream[k]
    BY <1>0, <1>3 DEF Dials
  <2>3. CASE c = d
    <3>1. stream[Other(n)][d] = "none" BY <2>1, TwoNodes DEF Held, Staged
    <3> QED BY <2>1, <2>2, <2>3, <3>1, TwoNodes
  <2>4. CASE c # d
    <3>1. LowDials => LowDials' BY <2>1 DEF LowDials
    <3>2. Counts(c) BY <2>1, <2>4, <3>1 DEF Counts
    <3>3. stream[conn[c].by][c] = "live" /\ stream[Other(conn[c].by)][c] # "dead"
      BY <3>2 DEF Decided, Counts
    <3>4. conn[c].by \in Nodes /\ \A k \in Nodes : stream'[k][c] = stream[k][c]
      BY <1>0, <2>2, <2>4
    <3> QED BY <2>1, <2>4, <3>3, <3>4, TwoNodes
  <2> QED BY <2>3, <2>4
<1>4. ASSUME NEW n \in Nodes, NEW d \in Conns, Punches(n, d) \/ Succeeds(n, d)
      PROVE  stream'[conn'[c].by][c] = "live" /\ stream'[Other(conn'[c].by)][c] # "dead"
  <2>1. stream' = stream BY <1>4 DEF Punches, Succeeds, Opened
  <2>2. /\ conn[d].stage # "new" /\ conn'[d].stage # "new" /\ conn'[d].by = conn[d].by
        /\ \A e \in Conns : e # d => conn'[e] = conn[e]
    BY <1>0, <1>4 DEF Punches, Succeeds, Opened, Commands
  <2> QED BY <1>1, <2>1, <2>2
<1>5. ASSUME NEW n \in Nodes, NEW d \in Conns, GivesUp(n, d)
      PROVE  stream'[conn'[c].by][c] = "live" /\ stream'[Other(conn'[c].by)][c] # "dead"
  <2>1. /\ conn[d].stage # "new" /\ conn'[d].stage # "new" /\ conn'[d].by = conn[d].by
        /\ \A e \in Conns : e # d => conn'[e] = conn[e]
    BY <1>0, <1>5 DEF GivesUp, Failed, Commands
  <2>2. \A k \in Nodes, e \in Conns : e # d => stream'[k][e] = stream[k][e]
    BY <1>0, <1>5 DEF GivesUp, Failed
  <2>3. conn[d].by = n /\ stream[n][d] # "live" BY <1>5 DEF GivesUp
  <2>4. c # d /\ conn[c].by \in Nodes BY <1>0, <1>1, <2>1, <2>3
  <2> QED BY <1>1, <2>1, <2>2, <2>4, TwoNodes
<1>6. ASSUME NEW n \in Nodes, NEW d \in Conns, Accepted(n, d)
      PROVE  stream'[conn'[c].by][c] = "live" /\ stream'[Other(conn'[c].by)][c] # "dead"
  <2>1. conn' = conn BY <1>6 DEF Accepted, OnConnection
  <2> QED BY <1>1, <1>6, <2>1, AcceptedDecided
<1>7. ASSUME NEW n \in Nodes, NEW d \in Conns, PeerGone(n, d)
      PROVE  stream'[conn'[c].by][c] = "live" /\ stream'[Other(conn'[c].by)][c] # "dead"
  <2>1. conn' = conn /\ stream[n][d] = "live" /\ stream[Other(n)][d] = "dead"
    BY <1>7 DEF PeerGone, EndStream
  <2>2. \A k \in Nodes, e \in Conns : e # d => stream'[k][e] = stream[k][e]
    BY <1>0, <1>7 DEF PeerGone, EndStream
  <2>3. conn[c].by \in Nodes /\ c # d BY <1>0, <1>1, <2>1, TwoNodes
  <2> QED BY <1>1, <2>1, <2>2, <2>3, TwoNodes
<1>8. ASSUME NEW n \in Nodes, NEW d \in Conns, CloseStream(n, d) PROVE FALSE
  BY <1>8 DEF CloseStream, Upset
<1> QED BY <1>2, <1>3, <1>4, <1>5, <1>6, <1>7, <1>8 DEF Move

\* Everything together: packets, pools, sessions and decisions.
Agreement == Asked /\ Held /\ Answered /\ Decided

LEMMA AgreementStep == Agreement /\ [Next]_vars => Agreement'
<1> SUFFICES ASSUME Agreement, [Next]_vars PROVE Agreement' OBVIOUS
<1>1. Asked' /\ Move BY AskedStep DEF Agreement
<1>2. Held' BY <1>1, HeldStep DEF Agreement, Asked
<1>3. Answered' /\ (upsets' = 0 => upsets = 0) BY AnsweredStep DEF Agreement
<1>4. Decided' BY <1>1, <1>3, DecidedStep DEF Agreement, Asked
<1> QED BY <1>1, <1>2, <1>3, <1>4 DEF Agreement

LEMMA AgreementInit == Init => Agreement
<1> SUFFICES ASSUME Init PROVE Agreement OBVIOUS
<1>1. Answered BY DEF Init, Answered, NewConn
<1>2. Decided BY DEF Init, Decided, NewConn
<1> QED BY <1>1, <1>2, AskedInit, HeldInit DEF Agreement

LEMMA QuietAgreement == Agreement => PeersShareOne
<1> SUFFICES ASSUME Agreement, upsets = 0, Quiet, NEW s \in Conns, conn[s].stage # "new"
             PROVE  pool[Low].connected # NoRef /\ pool[Low] = pool[High]
  BY DEF PeersShareOne
<1>0. /\ conn \in [Conns -> [by : Nodes, via : Relays \cup Nodes,
                             stage : {"new", "handshake", "punch", "open", "failed"}]]
      /\ pool \in [Nodes -> [connecting : Refs, connected : Refs]]
      /\ stream \in [Nodes -> [Conns -> {"none", "live", "dead"}]]
  BY DEF Agreement, Asked, Types
<1>1. PICK c \in Conns : Counts(c) BY DEF Counts, LowDials
<1>2. conn[c].by \in Nodes /\ conn[c].stage # "new" BY <1>0, <1>1 DEF Counts
<1>3. stream[conn[c].by][c] = "live" /\ stream[Other(conn[c].by)][c] # "dead"
  BY <1>1 DEF Agreement, Decided, Counts
<1>4. conn[c].stage = "open"
  <2>1. conn[c].stage \notin Commands BY <1>2 DEF Quiet, Agreement, Asked, Waits
  <2>2. conn[c].stage # "failed" BY <1>3 DEF Agreement, Held, Staged
  <2>3. conn[c].stage \in {"new", "handshake", "punch", "open", "failed"} BY <1>0
  <2> QED BY <1>2, <2>1, <2>2, <2>3 DEF Commands
<1>5. c \in sessions[Other(conn[c].by)] BY <1>4 DEF Agreement, Answered
<1>6. stream[Other(conn[c].by)][c] = "live"
  <2>1. stream[Other(conn[c].by)][c] # "none" BY <1>2, <1>3, <1>5 DEF Quiet
  <2>2. stream[Other(conn[c].by)][c] \in {"none", "live", "dead"} BY <1>0, <1>2, TwoNodes
  <2> QED BY <1>3, <2>1, <2>2
<1>7. \A n \in Nodes : stream[n][c] = "live" BY <1>2, <1>3, <1>6, TwoNodes
<1>8. \A n \in Nodes : pool[n].connected = c /\ pool[n].connecting = NoRef
  BY <1>4, <1>7, TwoNodes DEF Agreement, Held, Exact, Pooled, Commands
<1>9. \A n \in Nodes : pool[n] = [connecting |-> NoRef, connected |-> c] BY <1>0, <1>8
<1> QED BY <1>8, <1>9, TwoNodes

\* The tie-breaking of should_keep_new is consistent at both ends: however two peers
\* that dial each other interleave, and through whatever relays, once all is quiet and
\* nothing went wrong both pools hold the same open stream.
THEOREM PeersShareOneTheorem == Spec => []PeersShareOne
<1>1. Spec => []Agreement BY AgreementInit, AgreementStep, PTL DEF Spec
<1> QED BY <1>1, QuietAgreement, PTL
=============================================================================
