---------------------------- MODULE ServerSessions ----------------------------
(***************************************************************************)
(* server::Server: the sessions between an accepted PEER_HANDSHAKE and the *)
(* connection handed to the application.  A session lives in four tables   *)
(* (connections_, handshake_dedup_, pending_punch_streams_ and             *)
(* session_timers_) and ends by its timer, by the closing of its stream,   *)
(* by the puncher, by the client's first packet, by a veto, by the blind   *)
(* relay, by suspend() or by close(), in any order.                        *)
(*                                                                         *)
(* A handshake is named by its Noise bytes.  The UDX id of a session's     *)
(* stream is drawn at random; it is taken to be unique and the session's   *)
(* number stands for it.  Noise, the reply's content, the NAT sampling and *)
(* the probes themselves are left out.                                     *)
(***************************************************************************)
EXTENDS Integers, FiniteSets

CONSTANTS
  Handshakes,    \* Noise messages of clients; each may arrive several times
  MaxSessions,   \* bound: sessions ever numbered (next_hp_id_ is 32 bit wide)
  MaxPending,    \* MAX_PENDING_HANDSHAKES
  MaxDedup,      \* 512: size of handshake_dedup_ beyond which it may be dropped
  NoSession      \* no entry

ASSUME ServerAssumption ==
  /\ MaxSessions \in Nat \ {0}
  /\ MaxPending \in Nat
  /\ MaxDedup \in Nat
  /\ NoSession \notin Nat /\ NoSession \notin Handshakes

Ids == 0 .. MaxSessions - 1

VARIABLES
  status,       \* "open", "suspended" or "closed": suspended_ and closed_
  async,        \* is the firewall an AsyncFirewallCb
  nextId,       \* next_hp_id_
  key,          \* the handshake a session was created for
  waiting,      \* sessions whose firewall decision is outstanding
  connections,  \* keys of connections_
  dedup,        \* handshake_dedup_
  streams,      \* pending_punch_streams_
  timers,       \* session_timers_
  punchers,     \* sessions with a Holepuncher
  raw,          \* who owns the session's stream
  relay,        \* progress of the blind relay attempt
  direct,       \* on_connection_ calls through on_socket
  relayed       \* on_connection_ calls after a relay pairing

tables == <<connections, dedup, streams, timers, punchers>>
vars == <<status, async, nextId, key, waiting, tables, raw, relay, direct, relayed>>

--------------------------------------------------------------------------------
(* Ending sessions *)

\* The first dedup entry that names the session is erased; there is only one.
Forget_Kept(S) == dedup' = dedup
Forget(S) == dedup' = [h \in Handshakes |-> IF dedup[h] \in S THEN NoSession ELSE dedup[h]]

EndSessions_PunchEntryStays(S, owner) ==
  /\ connections' = connections \ S
  /\ Forget(S)
  /\ streams' = streams
  /\ timers' = timers \ S
  /\ punchers' = punchers \ S
  /\ raw' = [i \in Ids |-> IF i \in S THEN owner ELSE raw[i]]

\* The sessions S leave all tables.  Their streams go to `owner`: destroyed by
\* ~ServerConnection, or handed over.
EndSessions(S, owner) ==
  /\ connections' = connections \ S
  /\ Forget(S)
  /\ streams' = streams \ S
  /\ timers' = timers \ S
  /\ punchers' = punchers \ S
  /\ raw' = [i \in Ids |-> IF i \in S THEN owner ELSE raw[i]]

\* clear_session, a no-op for a session that is already gone.
ClearSession(i) == EndSessions({i} \cap connections, "destroyed")

\* The session is taken out of the tables, then on_socket hands its stream to
\* the application.
HandOver(i) ==
  /\ EndSessions({i}, "application")
  /\ direct' = [direct EXCEPT ![i] = @ + 1]

--------------------------------------------------------------------------------
(* Handshakes *)

\* on_peer_handshake empties an oversized handshake_dedup_ first.  A repeated
\* handshake of a live session is then answered with the cached reply; otherwise
\* a dead entry is dropped and a number taken.
Entries == {h \in Handshakes : dedup[h] # NoSession}

Trimmed ==
  IF Cardinality(Entries) > MaxDedup /\ Cardinality(Entries) > 2 * Cardinality(connections)
  THEN [h \in Handshakes |-> NoSession]
  ELSE dedup

Repeated_Ignored(h) == FALSE
Repeated(h) == Trimmed[h] \in connections

KeptDedup(h) == [Trimmed EXCEPT ![h] = NoSession]

\* on_handshake_result stores the session; d is handshake_dedup_ so far.
Store(i, d) ==
  /\ connections' = connections \cup {i}
  /\ dedup' = [d EXCEPT ![key'[i]] = i]
  /\ streams' = streams \cup {i}
  /\ timers' = timers \cup {i}
  /\ raw' = [raw EXCEPT ![i] = "session"]
  /\ UNCHANGED <<punchers, direct>>

\* The client reported an open firewall: its connection is made at once and the
\* session is never stored.
ConnectOpen(i, d) ==
  /\ raw' = [raw EXCEPT ![i] = "application"]
  /\ direct' = [direct EXCEPT ![i] = @ + 1]
  /\ dedup' = d
  /\ UNCHANGED <<connections, streams, timers, punchers>>

HasRoom == Cardinality(connections) < MaxPending

\* on_handshake_result.  `ok`: not rejected and the payload was valid; `open`:
\* the client's firewall is OPEN; `viaRelay`: either side has relay_through.
HandshakeResult(i, d, ok, open, viaRelay) ==
  IF HasRoom /\ ok
  THEN /\ relay' = [relay EXCEPT ![i] = IF viaRelay THEN "connecting" ELSE "none"]
       /\ IF open THEN ConnectOpen(i, d) ELSE Store(i, d)
  ELSE /\ dedup' = d
       /\ UNCHANGED <<connections, streams, timers, punchers, raw, relay, direct>>

\* A new handshake with a synchronous firewall, or with none.
Handshake(h, ok, open, viaRelay) ==
  /\ status = "open" /\ ~async
  /\ nextId < MaxSessions
  /\ ~Repeated(h)
  /\ nextId' = nextId + 1
  /\ key' = [key EXCEPT ![nextId] = h]
  /\ HandshakeResult(nextId, KeptDedup(h), ok, open, viaRelay)
  /\ UNCHANGED <<status, async, waiting, relayed>>

\* A new handshake with an asynchronous firewall: the decision is awaited, and
\* nothing but the continuation remembers the handshake.
AskFirewall(h) ==
  /\ status = "open" /\ async
  /\ nextId < MaxSessions
  /\ ~Repeated(h)
  /\ nextId' = nextId + 1
  /\ key' = [key EXCEPT ![nextId] = h]
  /\ waiting' = waiting \cup {nextId}
  /\ dedup' = KeptDedup(h)
  /\ UNCHANGED <<status, async, connections, streams, timers, punchers, raw, relay, direct, relayed>>

\* The continuation runs; when the server is stopped it does nothing.
FirewallMayRun_Always == TRUE
FirewallMayRun == status = "open"

FirewallDone(i, ok, open, viaRelay) ==
  /\ i \in waiting
  /\ waiting' = waiting \ {i}
  /\ key' = key
  /\ IF FirewallMayRun THEN HandshakeResult(i, dedup, ok, open, viaRelay)
     ELSE UNCHANGED <<tables, raw, relay, direct>>
  /\ UNCHANGED <<status, async, nextId, relayed>>

--------------------------------------------------------------------------------
(* Direct paths *)

\* on_peer_holepunch: the client is punching, so a puncher is started...
Punch(i) ==
  /\ status # "closed"
  /\ i \in connections
  /\ punchers' = punchers \cup {i}
  /\ UNCHANGED <<status, async, nextId, key, waiting, connections, dedup, streams, timers,
                 raw, relay, direct, relayed>>

\* ...unless the application's holepunch callback vetoes it.
Veto(i) ==
  /\ status # "closed"
  /\ i \in connections
  /\ ClearSession(i)
  /\ UNCHANGED <<status, async, nextId, key, waiting, relay, direct, relayed>>

\* The puncher's on_connect callback.
PuncherConnected(i) ==
  /\ status # "closed"
  /\ i \in punchers /\ i \in connections
  /\ HandOver(i)
  /\ UNCHANGED <<status, async, nextId, key, waiting, relay, relayed>>

\* on_raw_stream_firewall: the client's first packet reached the stream.
FirstPacket(i) ==
  /\ status # "closed"
  /\ i \in streams /\ i \in connections
  /\ HandOver(i)
  /\ UNCHANGED <<status, async, nextId, key, waiting, relay, relayed>>

\* on_raw_stream_close: the stream of a session closed by itself.
StreamClosed(i) ==
  /\ status # "closed"
  /\ raw[i] = "session" /\ i \in streams
  /\ ClearSession(i)
  /\ UNCHANGED <<status, async, nextId, key, waiting, relay, direct, relayed>>

SessionTimeout_Inverted(i) ==
  /\ status = "closed"
  /\ i \in timers
  /\ ClearSession(i)
  /\ UNCHANGED <<status, async, nextId, key, waiting, relay, direct, relayed>>

\* The session's timer.
SessionTimeout(i) ==
  /\ status # "closed"
  /\ i \in timers
  /\ ClearSession(i)
  /\ UNCHANGED <<status, async, nextId, key, waiting, relay, direct, relayed>>

--------------------------------------------------------------------------------
(* Blind relay.  The callbacks check that the server is alive and not closed,
   not that the session still exists or that the server is not suspended. *)

RelayMayRun == status # "closed"

RelayConnected(i) ==
  /\ relay[i] = "connecting" /\ status # "closed"
  /\ relay' = [relay EXCEPT ![i] = "pairing"]
  /\ UNCHANGED <<status, async, nextId, key, waiting, tables, raw, direct, relayed>>

\* The connection to the relay, or the pairing, failed.
RelayFailed(i) ==
  /\ relay[i] \in {"connecting", "pairing"} /\ status # "closed"
  /\ relay' = [relay EXCEPT ![i] = "over"]
  /\ ClearSession(i)
  /\ UNCHANGED <<status, async, nextId, key, waiting, direct, relayed>>

\* No channel to the relay, or its transport is gone at the pairing: the session
\* is left to its timer.
RelayDropped(i) ==
  /\ relay[i] \in {"connecting", "pairing"} /\ status # "closed"
  /\ relay' = [relay EXCEPT ![i] = "over"]
  /\ UNCHANGED <<status, async, nextId, key, waiting, tables, raw, direct, relayed>>

\* Paired: the session is cleared, then its stream is given to the application.
RelayPaired(i) ==
  /\ relay[i] = "pairing" /\ RelayMayRun
  /\ relay' = [relay EXCEPT ![i] = "over"]
  /\ ClearSession(i)
  /\ relayed' = [relayed EXCEPT ![i] = @ + 1]
  /\ UNCHANGED <<status, async, nextId, key, waiting, direct>>

--------------------------------------------------------------------------------
(* The server as a whole *)

\* suspend() and close() empty all tables.
Stopped(s) ==
  /\ status' = s
  /\ EndSessions(connections, "destroyed")

Suspend ==
  /\ status = "open"
  /\ Stopped("suspended")
  /\ UNCHANGED <<async, nextId, key, waiting, relay, direct, relayed>>

Resume ==
  /\ status = "suspended"
  /\ status' = "open"
  /\ UNCHANGED <<async, nextId, key, waiting, tables, raw, relay, direct, relayed>>

Close ==
  /\ status # "closed"
  /\ Stopped("closed")
  /\ UNCHANGED <<async, nextId, key, waiting, relay, direct, relayed>>

--------------------------------------------------------------------------------
Init ==
  /\ status = "open"
  /\ async \in BOOLEAN
  /\ nextId = 0
  /\ key = [i \in Ids |-> NoSession]
  /\ waiting = {}
  /\ connections = {} /\ streams = {} /\ timers = {} /\ punchers = {}
  /\ dedup = [h \in Handshakes |-> NoSession]
  /\ raw = [i \in Ids |-> "none"]
  /\ relay = [i \in Ids |-> "none"]
  /\ direct = [i \in Ids |-> 0]
  /\ relayed = [i \in Ids |-> 0]

Next ==
  \/ \E h \in Handshakes :
       \/ AskFirewall(h)
       \/ \E ok, open, viaRelay \in BOOLEAN : Handshake(h, ok, open, viaRelay)
  \/ \E i \in Ids :
       \/ \E ok, open, viaRelay \in BOOLEAN : FirewallDone(i, ok, open, viaRelay)
       \/ Punch(i) \/ Veto(i) \/ PuncherConnected(i) \/ FirstPacket(i)
       \/ StreamClosed(i) \/ SessionTimeout(i)
       \/ RelayConnected(i) \/ RelayFailed(i) \/ RelayDropped(i) \/ RelayPaired(i)
  \/ Suspend \/ Resume \/ Close

Spec == Init /\ [][Next]_vars

\* A started libuv timer fires.  Nothing else is fair: clients, relays and the
\* application's firewall may never come back.
Fairness == \A i \in Ids : WF_vars(SessionTimeout(i))

FairSpec == Spec /\ Fairness

--------------------------------------------------------------------------------
(* Properties *)

TypeOK ==
  /\ status \in {"open", "suspended", "closed"}
  /\ async \in BOOLEAN
  /\ nextId \in 0 .. MaxSessions
  /\ key \in [Ids -> Handshakes \cup {NoSession}]
  /\ waiting \subseteq Ids
  /\ connections \subseteq Ids /\ streams \subseteq Ids
  /\ timers \subseteq Ids /\ punchers \subseteq Ids
  /\ dedup \in [Handshakes -> Ids \cup {NoSession}]
  /\ raw \in [Ids -> {"none", "session", "application", "destroyed"}]
  /\ relay \in [Ids -> {"none", "connecting", "pairing", "over"}]
  /\ direct \in [Ids -> Nat] /\ relayed \in [Ids -> Nat]

\* Whichever of the eight endings comes first, a session leaves all tables
\* together: it has a timer, a punch entry and a stream of its own as long as it
\* is in connections_, and none of them outlives it.
TablesAgree ==
  /\ timers = connections
  /\ streams = connections
  /\ punchers \subseteq connections
  /\ \A i \in Ids : raw[i] = "session" <=> i \in connections

\* Every entry of handshake_dedup_ names a live session of that very handshake,
\* so a repeated handshake is never answered with another client's reply, and
\* the branches that drop stale entries are not reached.
DedupExact ==
  \A h \in Handshakes : dedup[h] # NoSession => dedup[h] \in connections /\ key[dedup[h]] = h

\* With a synchronous firewall a handshake that arrives over several relays has
\* one session at a time.
OneSessionPerHandshake ==
  ~async => \A i, j \in connections : key[i] = key[j] => i = j

\* The puncher, the client's first packet and the OPEN shortcut hand a session
\* over at most once between them, and each hands over a stream that is alive:
\* the application's stream is destroyed by no later ending of the session.
DirectOnce ==
  \A i \in Ids : /\ direct[i] <= 1
                 /\ direct[i] = 1 <=> raw[i] = "application"

\* MAX_PENDING_HANDSHAKES bounds the stored sessions, also when many decisions
\* of an asynchronous firewall come back at once.
PendingBounded == Cardinality(connections) <= MaxPending

\* A stopped server creates no session, and a closed one reports no connection,
\* whatever firewall decision, puncher or relay pairing comes back late.
QuietWhenStopped ==
  [][/\ status # "open" => connections' \subseteq connections /\ direct' = direct
     /\ status = "closed" => relayed' = relayed]_vars

\* Every stored session ends, at the latest by its timer.
SessionEnds == \A i \in Ids : i \in connections ~> i \notin connections
===============================================================================
