------------------------------- MODULE Connect -------------------------------
(***************************************************************************)
(* HyperDHT::connect: findPeer and at most two handshakes at a time, then  *)
(* the ways to a connection that race: the server's first packet, a blind  *)
(* relay, a direct address, a LAN ping and the holepunch (module           *)
(* Holepunch, whose completion is a step of this module too).              *)
(*                                                                         *)
(* The branch that waits passively when our own NAT is open is left out:   *)
(* NatSampler has no such class.  The connection to the relay node is a    *)
(* connect of its own and is external here.  Relays that wait for a free   *)
(* place are counted, not named: they are tried in turn and alike.         *)
(*                                                                         *)
(* A request that finds the congestion window and its queue full is        *)
(* refused: RpcSocket::request returns 0, drops both callbacks, and nobody *)
(* here looks at the 0.  A handshake refused so stays counted in flight, a *)
(* remembered route refused so is never given up, and findPeer with a      *)
(* visit refused never ends (module Query).  The pool socket of the        *)
(* holepunch has no window and refuses nothing.                            *)
(***************************************************************************)
EXTENDS Holepunch

CONSTANTS
  Relays,    \* nodes that know the peer
  Parallel   \* handshakes under way at a time (2)

ASSUME ConnectAssumption == Parallel \in Nat \ {0} /\ IsFiniteSet(Relays)

VARIABLES
  conn,  \* ConnState
  alive  \* the HyperDHT object exists

vars == <<conn, alive, hp>>

NewConn ==
  [begun |-> FALSE, found |-> FALSE, route |-> "off", query |-> "off",
   in_flight |-> 0, refused |-> 0, started |-> 0, pending |-> 0, relays |-> {}, cached |-> {},
   hs |-> FALSE, cached_fw |-> FALSE,
   relay |-> "off", lan |-> FALSE, punch |-> FALSE,
   completed |-> FALSE, result |-> "none", raw |-> "none"]

Init ==
  /\ conn = NewConn
  /\ alive = TRUE
  /\ hp = NoPunch

\* ConnState::complete, with the error of a connect that failed.
Fail(c, err) == IF c.completed THEN c ELSE [c EXCEPT !.completed = TRUE, !.result = err]

\* take_raw_stream, then complete(0).
Succeed(c) ==
  LET t == [c EXCEPT !.raw = "handed"]
  IN  IF c.completed THEN t ELSE [t EXCEPT !.completed = TRUE, !.result = "ok"]

--------------------------------------------------------------------------------
(* Finding relays and shaking hands *)

\* fire_handshake, for n relays in turn, when RpcSocket takes free requests more.
FireHandshake(c, n, free) ==
  IF c.completed \/ ~alive THEN c
  ELSE [c EXCEPT !.in_flight = @ + n, !.started = @ + n,
                 !.refused = @ + (IF free < n THEN n - free ELSE 0)]

\* Of n relays, how many there is room for.
Room(c, n) == IF n < Parallel - c.in_flight THEN n ELSE Parallel - c.in_flight

\* check_exhaustion.
CheckExhaustion_QueryRuns(c) ==
  IF c.completed \/ c.in_flight > 0 \/ c.pending > 0 \/ c.hs THEN c
  ELSE Fail(c, "failed")
CheckExhaustion(c) ==
  IF c.completed \/ c.in_flight > 0 \/ c.pending > 0 \/ c.query # "done" \/ c.hs
  THEN c
  ELSE Fail(c, "failed")

\* try_next_relay: as many of the queue as there is room for.
TryNextRelay(c, free) ==
  IF c.completed \/ c.hs THEN c
  ELSE LET n == Room(c, c.pending)
       IN  CheckExhaustion(FireHandshake([c EXCEPT !.pending = @ - n], n, free))

\* Each of n relays is tried at once or waits for a free place.
Offer(c, n, free) ==
  FireHandshake([c EXCEPT !.pending = @ + (n - Room(c, n))], Room(c, n), free)

\* start_find_peer.
StartFindPeer(c) == IF c.completed \/ ~alive THEN c ELSE [c EXCEPT !.query = "running"]

\* do_connect: a route that worked before is tried alone; else the relays
\* remembered from the last connect, with findPeer next to them.
DoConnect ==
  /\ ~conn.begun
  /\ LET c == [conn EXCEPT !.begun = TRUE, !.raw = "own"]
     IN  \/ \E route \in {"asked", "refused"} :
              conn' = [c EXCEPT !.found = TRUE, !.route = route]
         \/ \E cached \in SUBSET Relays, free \in 0 .. Parallel :
              LET f == [c EXCEPT !.found = cached # {}, !.cached = cached]
              IN  conn' = StartFindPeer(Offer(f, Cardinality(cached), free))
  /\ UNCHANGED <<alive, hp>>

\* on_reply with a value; nothing comes of it once a handshake has won.
OnReply(r) ==
  /\ alive /\ conn.query \in {"running", "stuck"} /\ r \notin conn.relays
  /\ ~conn.completed /\ ~conn.hs
  /\ \E free \in 0 .. 1 :
       conn' = Offer([conn EXCEPT !.found = TRUE, !.relays = @ \cup {r}], 1, free)
  /\ UNCHANGED <<alive, hp>>

\* on_done.  The query runs on after query.reset(): its requests hold it.
OnQueryDone(c) ==
  IF c.completed THEN c
  ELSE IF ~c.found /\ c.started = 0 THEN Fail(c, "not_found")
  ELSE CheckExhaustion(c)
QueryDone ==
  /\ alive /\ conn.query = "running"
  /\ conn' = OnQueryDone([conn EXCEPT !.query = "done"])
  /\ UNCHANGED <<alive, hp>>

\* One of findPeer's visits is refused: the others still answer, but the query
\* counts this one in flight for ever and never calls on_done.
VisitRefused ==
  /\ alive /\ conn.query = "running"
  /\ conn' = [conn EXCEPT !.query = "stuck"]
  /\ UNCHANGED <<alive, hp>>

--------------------------------------------------------------------------------
(* After the handshake *)

\* on_handshake_success: the server says whether it is open, whether it gives
\* addresses and relays for a holepunch; either side may want a blind relay.
OnHandshakeSuccess(c, open, addrs, holepunch, relay, lan) ==
  IF c.cached_fw /\ ~c.completed THEN Succeed(c)
  ELSE LET d == IF relay THEN [c EXCEPT !.relay = "connecting"] ELSE c
       IN  IF addrs /\ (open \/ ~holepunch) THEN Succeed(d)
           ELSE IF ~holepunch THEN Fail(d, "no_addresses")
           ELSE [d EXCEPT !.lan = lan /\ addrs, !.punch = TRUE]

MaybePunch == hp' = IF conn'.punch /\ ~conn.punch THEN HolepunchConnect ELSE hp

\* The first handshake that succeeds wins; the queue is cleared, and the relays
\* and counts of findPeer are read no more (they are forgotten here).
Won(c) ==
  LET w == [c EXCEPT !.hs = TRUE, !.pending = 0, !.found = TRUE, !.started = 0,
                     !.relays = {}, !.cached = {}]
  IN  {OnHandshakeSuccess(w, o, a, h, r, l) : o, a, h, r, l \in BOOLEAN}

\* The answer to a handshake that was not refused, or its timeout.
HandshakeDone ==
  LET c == [conn EXCEPT !.in_flight = @ - 1]
  IN  /\ alive /\ conn.in_flight > conn.refused
      /\ \/ \E free \in 0 .. Parallel : conn' = TryNextRelay(c, free)
         \/ ~c.completed /\ ~c.hs /\ conn' \in Won(c)
      /\ MaybePunch
      /\ UNCHANGED alive

\* The handshake over the remembered route; a failure starts findPeer.
RouteDone ==
  LET c == [conn EXCEPT !.route = "off"]
  IN  /\ alive /\ conn.route = "asked"
      /\ \/ conn' = StartFindPeer(c)
         \/ conn' \in (IF c.completed THEN {c} ELSE Won(c))
      /\ MaybePunch
      /\ UNCHANGED alive

\* The raw stream's firewall callback: a packet of the server.  Before the
\* handshake is done it is remembered.
OnFirewall ==
  /\ alive /\ conn.begun /\ ~conn.completed
  /\ conn' = IF conn.hs THEN Succeed(conn) ELSE [conn EXCEPT !.cached_fw = TRUE]
  /\ UNCHANGED <<alive, hp>>

\* The LAN ping that runs next to the holepunch.
LanPong_NoGuard ==
  /\ alive /\ conn.lan
  /\ \E ok \in BOOLEAN :
       conn' = LET c == [conn EXCEPT !.lan = FALSE]
               IN  IF ~ok THEN c ELSE Succeed(c)
  /\ UNCHANGED <<alive, hp>>
LanPong ==
  /\ alive /\ conn.lan
  /\ \E ok \in BOOLEAN :
       conn' = LET c == [conn EXCEPT !.lan = FALSE]
               IN  IF c.completed \/ ~ok THEN c ELSE Succeed(c)
  /\ UNCHANGED <<alive, hp>>

\* start_relay_path: the connect to the relay node, then the pairing.  What
\* fails, and the timer of 15 seconds, only counts an abort.
RelayConnected ==
  /\ conn.relay = "connecting"
  /\ \E ok \in BOOLEAN :
       conn' = [conn EXCEPT !.relay = IF conn.completed \/ ~alive \/ ~ok
                                      THEN "off" ELSE "pairing"]
  /\ UNCHANGED <<alive, hp>>
RelayPaired ==
  /\ conn.relay = "pairing"
  /\ conn' = LET c == [conn EXCEPT !.relay = "off"]
             IN  IF c.completed \/ ~alive THEN c
                 ELSE Succeed(c)
  /\ UNCHANGED <<alive, hp>>
RelayPairFailed ==
  /\ conn.relay = "pairing"
  /\ conn' = [conn EXCEPT !.relay = "off"]
  /\ UNCHANGED <<alive, hp>>

\* holepunch_connect's callback.
OnPunchDone(c, r) ==
  IF c.completed THEN c
  ELSE IF ~alive \/ r = "fail" THEN Fail(c, "punch_failed") ELSE Succeed(c)

Punching ==
  /\ PunchStep
  /\ conn' = IF hp'.completed /\ ~hp.completed THEN OnPunchDone(conn, hp'.result)
             ELSE conn
  /\ UNCHANGED alive

\* ~HyperDHT: requests are dropped with their callbacks; timers stay.
DestroyDht ==
  /\ alive /\ conn.begun
  /\ alive' = FALSE
  /\ UNCHANGED <<conn, hp>>

--------------------------------------------------------------------------------

Next ==
  \/ DoConnect
  \/ \E r \in Relays : OnReply(r)
  \/ QueryDone \/ VisitRefused \/ HandshakeDone \/ RouteDone
  \/ OnFirewall \/ LanPong
  \/ RelayConnected \/ RelayPaired \/ RelayPairFailed
  \/ Punching
  \/ DestroyDht

\* What happens by itself: a request that was accepted is answered or times out
\* (module RpcSocket), a query none of whose visits was refused ends (module
\* Query), timers fire.  Nothing comes of what was refused; probes, packets of
\* the server and the relay may never come.
OnItsOwn ==
  \/ QueryDone \/ HandshakeDone \/ RouteDone
  \/ Punching /\ (PingAnswered \/ PingLost \/ OnRound1Response \/ OnRound1Timeout
                  \/ PollSampler \/ SleeperFires \/ OnPunchTimer)

Spec == Init /\ [][Next]_vars /\ WF_vars(OnItsOwn)

--------------------------------------------------------------------------------
(* Properties *)

\* The raw stream goes to the caller exactly when the connect reports success,
\* whatever other path ends later.
StreamDelivered == conn.raw = "handed" <=> conn.result = "ok"

\* A connect gives up on its relays only when each one that was found or
\* remembered has been tried and has answered or timed out: never with a
\* handshake that was refused.
FailsOnlyExhausted ==
  conn.result \in {"not_found", "failed"} =>
    /\ conn.started = Cardinality(conn.cached) + Cardinality(conn.relays)
    /\ conn.in_flight = 0 /\ conn.refused = 0 /\ conn.query = "done" /\ ~conn.hs

\* A punch that is over leaves no timer, sleeper or poll behind, and its pool
\* socket is open exactly if it won; Round 2 never says "unknown", nor asks
\* two random sides to punch.
PunchSettles ==
  /\ hp.completed =>
       /\ ~hp.puncher.timer /\ ~hp.puncher.punching
       /\ hp.wait = 0 /\ hp.sleeper = "none"
       /\ hp.pool = IF hp.result = "ok" THEN "kept" ELSE "closed"
  /\ hp.told # "unknown"
  /\ hp.puncher.punching => ~Unstable(hp.puncher)

\* RpcSocket refused a request that the connect waits for.
Starved(c) == c.refused > 0 \/ c.query = "stuck" \/ c.route = "refused"

\* While the DHT lives, every connect fails or gets through a handshake unless one
\* of its requests was refused; and one that got through a handshake ends, whatever
\* was refused before, except in a punch from a random NAT.
ConnectCompletes ==
  /\ conn.begun ~> conn.completed \/ conn.hs \/ Starved(conn) \/ ~alive
  /\ conn.hs ~> conn.completed \/ NoStrategy(hp) \/ ~alive
==============================================================================
