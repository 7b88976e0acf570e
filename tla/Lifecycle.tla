----------------------------- MODULE Lifecycle -----------------------------
(***************************************************************************)
(* HyperDHT and what it owns: binding and bootstrapping, the servers and   *)
(* their announcers, the router's entries, suspend, resume and destroy,    *)
(* the background tick with the health monitor, the network events, and    *)
(* the firewall probe that makes the node persistent.                      *)
(*                                                                         *)
(* Callers may use the interface in any order: listen on a closed or a     *)
(* suspended server, create servers on a suspended or destroyed node.      *)
(* The sessions of a server are module ServerSessions.                     *)
(***************************************************************************)
EXTENDS Announcer, Health

CONSTANTS
  RefreshTicks,    \* REFRESH_TICKS
  StableTicks,     \* STABLE_TICKS_INIT and STABLE_TICKS_MORE
  ProbeMax,        \* nodes asked by a full firewall probe
  ProbeQuorum,     \* hosts that must answer a full probe
  Scenarios        \* which calls and events occur, and how many

ASSUME LifecycleAssumption ==
  /\ {RefreshTicks, StableTicks, ProbeMax, ProbeQuorum} \subseteq Nat \ {0}
  /\ ProbeQuorum <= ProbeMax
  /\ \A sc \in Scenarios : \A x \in sc.samples : x.responses \in Nat /\ x.timeouts \in Nat

VARIABLES
  scenario, left,  \* the scenario, and how many more calls and events it has
  dht,             \* the flags of HyperDHT
  sock,            \* the RpcSocket's timers, counters and persistence
  health,          \* its HealthMonitor
  probe,           \* its firewall probe
  srv,             \* the flags of each Server
  forwards,        \* servers with an entry in the router
  late,            \* history: servers told to listen after a stop
  heard            \* history: hosts that reached the server socket since the last probe began

lifeVars == <<dht, sock, health, probe, srv, forwards, late, heard>>
vars == <<scenario, left, lifeVars, announcerVars>>

Call(name) == name \in scenario.calls /\ left > 0 /\ left' = left - 1 /\ UNCHANGED scenario

Init ==
  /\ AnnouncerInit
  /\ scenario \in Scenarios
  /\ left = scenario.events
  /\ dht = [bound |-> FALSE, suspended |-> FALSE, destroyed |-> FALSE, watching |-> FALSE,
            boot |-> "none", bootstrapped |-> FALSE, hook |-> FALSE, refreshes |-> 0]
  /\ sock = [ticking |-> FALSE, closing |-> FALSE, ephemeral |-> TRUE, firewalled |-> TRUE,
             refresh |-> RefreshTicks, stable |-> StableTicks]
  /\ health = NewMonitor
  /\ probe = [running |-> FALSE, expected |-> 0, replied |-> {}]
  /\ srv = [s \in Servers |-> [created |-> FALSE, listening |-> FALSE, closed |-> FALSE, suspended |-> FALSE]]
  /\ forwards = {} /\ late = {} /\ heard = {}

\* Walks begin on an open socket only: a closed one refuses their requests.
Announcers(after) == ann' = after /\ walks' = walks \cup (IF sock.closing THEN {} ELSE Begun(after))

-----------------------------------------------------------------------------
(* Bind, bootstrap and refresh.                                            *)

\* HyperDHT::refresh; a query that finds nobody ends at once.
Refreshed(d) == IF d.destroyed \/ ~d.bound THEN d ELSE [d EXCEPT !.refreshes = @ + 1]

\* The interface watcher may fail to start; stopping it silences it for good.
WatcherStarted(d) == {[d EXCEPT !.watching = TRUE], d}
WatcherStopped(d) == [d EXCEPT !.watching = FALSE]

\* bind: the sockets may be taken.  That nobody binds a destroyed node is the
\* callers' part: neither HyperDHT::bind nor RpcSocket::bind asks for it.
BindSockets ==
  \/ UNCHANGED <<dht, sock>>
  \/ /\ ~sock.closing
     /\ dht' \in WatcherStarted([dht EXCEPT !.bound = TRUE, !.boot = scenario.boot])
     /\ sock' = [sock EXCEPT !.ticking = TRUE]

EnsureBound == IF dht.bound THEN UNCHANGED <<dht, sock>> ELSE BindSockets

Bind ==
  /\ Call("bind") /\ EnsureBound
  /\ UNCHANGED <<health, probe, srv, forwards, late, heard, announcerVars>>

\* HyperDHT::connect: refused when destroyed or suspended; the rest is module Connect.
ConnectEntry ==
  /\ Call("connect")
  /\ IF dht.destroyed \/ dht.suspended THEN UNCHANGED <<dht, sock>> ELSE EnsureBound
  /\ UNCHANGED <<health, probe, srv, forwards, late, heard, announcerVars>>

OnBootstrapped ==
  /\ Call("on_bootstrapped")
  /\ dht' = [dht EXCEPT !.hook = ~dht.bootstrapped]
  /\ UNCHANGED <<sock, health, probe, srv, forwards, late, heard, announcerVars>>

\* The walk ends; the caller's hook runs once.
BootstrapDone ==
  /\ dht.boot = "walking" /\ ~sock.closing
  /\ dht' = [dht EXCEPT !.boot = "none", !.bootstrapped = TRUE, !.hook = FALSE]
  /\ UNCHANGED <<scenario, left, sock, health, probe, srv, forwards, late, heard, announcerVars>>

RefreshDone ==
  /\ dht.refreshes > 0 /\ ~sock.closing
  /\ dht' = [dht EXCEPT !.refreshes = @ - 1]
  /\ UNCHANGED <<scenario, left, sock, health, probe, srv, forwards, late, heard, announcerVars>>

-----------------------------------------------------------------------------
(* Servers.                                                                *)

CreateServer(s) ==
  /\ Call("create") /\ s \in scenario.servers /\ ~srv[s].created
  /\ EnsureBound
  /\ srv' = [srv EXCEPT ![s].created = TRUE]
  /\ UNCHANGED <<health, probe, forwards, late, heard, announcerVars>>

\* listen makes a new announcer and starts it; it does not ask whether the server was closed.
Listen(s) ==
  /\ Call("listen") /\ srv[s].created /\ ~srv[s].listening
  /\ srv' = [srv EXCEPT ![s].listening = TRUE]
  /\ Announcers([ann EXCEPT ![s] = Start(Created(@.object + 1))])
  /\ forwards' = forwards \cup {s}
  /\ late' = IF srv[s].closed \/ srv[s].suspended \/ dht.destroyed THEN late \cup {s} ELSE late
  /\ UNCHANGED <<dht, sock, health, probe, heard, requests, pings>>

\* close, with or without UNANNOUNCE: a second close returns at once.
Closes(s) == srv[s].created /\ ~srv[s].closed

ClosedServers(S) == [s \in Servers |-> IF s \in S THEN [srv[s] EXCEPT !.closed = TRUE, !.listening = FALSE] ELSE srv[s]]

\* announcer_.reset(): the object is gone, and its callbacks with it.
ClosedAnnouncers(S) == [s \in Servers |-> IF s \in S THEN [Created(ann[s].object) EXCEPT !.alive = FALSE] ELSE ann[s]]

Close(s) ==
  /\ Call("close") /\ Closes(s)
  /\ srv' = ClosedServers({s})
  /\ Announcers(ClosedAnnouncers({s}))
  /\ forwards' = forwards \ {s}
  /\ UNCHANGED <<dht, sock, health, probe, late, heard, requests, pings>>

RefreshServer(s) ==
  /\ Call("refresh") /\ ~srv[s].suspended
  /\ Announcers([ann EXCEPT ![s] = Refresh(@)])
  /\ UNCHANGED <<lifeVars, requests, pings>>

SuspendedServers(S) == [s \in Servers |-> IF s \in S THEN [srv[s] EXCEPT !.suspended = TRUE] ELSE srv[s]]

\* Server::suspend stops the announcer it has.
SuspendServers(S) ==
  LET active == {s \in S : srv[s].created /\ ~srv[s].suspended} IN
  /\ srv' = SuspendedServers(active)
  /\ Announcers([s \in Servers |-> IF s \in active THEN StopImpl(ann[s]) ELSE ann[s]])

\* Server::resume starts the same object again, unless close() has dropped it.
ResumeServers(S) ==
  LET paused == {s \in S : srv[s].suspended} IN
  /\ srv' = [s \in Servers |-> IF s \in paused THEN [srv[s] EXCEPT !.suspended = FALSE] ELSE srv[s]]
  /\ Announcers([s \in Servers |-> IF s \in paused /\ srv[s].listening THEN Start(ann[s]) ELSE ann[s]])

SuspendServer(s) ==
  /\ Call("suspend_server") /\ SuspendServers({s})
  /\ UNCHANGED <<dht, sock, health, probe, forwards, late, heard, requests, pings>>

ResumeServer(s) ==
  /\ Call("resume_server") /\ ResumeServers({s})
  /\ UNCHANGED <<dht, sock, health, probe, forwards, late, heard, requests, pings>>

-----------------------------------------------------------------------------
(* The whole node.                                                         *)

Suspend ==
  /\ Call("suspend") /\ ~dht.suspended
  /\ dht' = [dht EXCEPT !.suspended = TRUE]
  /\ SuspendServers(Servers)
  /\ sock' = [sock EXCEPT !.ticking = FALSE]
  /\ UNCHANGED <<health, probe, forwards, late, heard, requests, pings>>

Resume ==
  /\ Call("resume") /\ dht.suspended
  /\ dht' = [dht EXCEPT !.suspended = FALSE]
  /\ ResumeServers(Servers)
  /\ sock' = [sock EXCEPT !.ticking = ~sock.closing]
  /\ UNCHANGED <<health, probe, forwards, late, heard, requests, pings>>

\* destroy closes every server, the router and the socket; no callback runs after it.
Destroy ==
  LET open == {s \in Servers : Closes(s)} IN
  /\ Call("destroy") /\ ~dht.destroyed
  /\ dht' = WatcherStopped([dht EXCEPT !.destroyed = TRUE, !.refreshes = 0])
  /\ srv' = ClosedServers(open)
  /\ ann' = ClosedAnnouncers(open)
  /\ forwards' = {}
  /\ sock' = [sock EXCEPT !.ticking = FALSE, !.closing = TRUE]
  /\ probe' = [probe EXCEPT !.running = FALSE]
  /\ walks' = {} /\ requests' = {} /\ pings' = {}
  /\ UNCHANGED <<health, late, heard>>

-----------------------------------------------------------------------------
(* Network events and the background tick.                                 *)

NotifiesOnline(s) == ~srv[s].closed /\ srv[s].listening

\* fire_network_update: listening servers announce again while we are online.
NetworkUpdate(as, h) ==
  [s \in Servers |-> IF IsOnline(h) /\ NotifiesOnline(s) THEN NotifyOnline(as[s]) ELSE as[s]]

\* fire_network_change: every server is refreshed, then notified.
NetworkChange ==
  LET refreshed == [s \in Servers |-> IF srv[s].suspended THEN ann[s] ELSE Refresh(ann[s])] IN
  /\ Call("network_change") /\ dht.watching
  /\ Announcers(NetworkUpdate(refreshed, health))
  /\ UNCHANGED <<lifeVars, requests, pings>>

\* check_persistent: is there a public address, and is the NAT consistent?
ChecksPersistent(nat) ==
  sock.ephemeral /\ sock.stable <= 1 /\ ~probe.running /\ nat.consistent

\* start_firewall_probe asks up to ProbeMax nodes of the table.
ProbeStarted(nat) ==
  IF ChecksPersistent(nat)
  THEN [running |-> nat.nodes > 0, expected |-> nat.nodes, replied |-> {}]
  ELSE probe

Countdown(ticks, reload) == IF ticks <= 1 THEN reload ELSE ticks - 1

\* background_tick: health, routing table refresh, persistence, in this order.
BackgroundTick ==
  \E sample \in scenario.samples, nat \in scenario.nat :
    LET h == MonitorUpdate(health, sample.responses, sample.timeouts)
        refreshes == sock.refresh <= 1 IN
    /\ Call("tick") /\ sock.ticking
    /\ health' = h
    /\ Announcers(IF h.state # health.state THEN NetworkUpdate(ann, h) ELSE ann)
    /\ dht' = IF refreshes THEN Refreshed(dht) ELSE dht
    /\ probe' = ProbeStarted(nat)
    /\ sock' = [sock EXCEPT !.refresh = Countdown(@, RefreshTicks),
                            !.stable = IF ~sock.ephemeral THEN @
                                       ELSE IF probe.running /\ @ <= 1 THEN 0 ELSE Countdown(@, StableTicks)]
    /\ heard' = IF probe'.running /\ ~probe.running THEN {} ELSE heard
    /\ UNCHANGED <<srv, forwards, late, requests, pings>>

-----------------------------------------------------------------------------
(* The firewall probe.                                                     *)

\* A probe that a single host settles, however many were asked.
ProbeThreshold_One(p) == 1

ProbeThreshold(p) == IF p.expected >= ProbeMax THEN ProbeQuorum ELSE 1

\* do_persistent_transition and fire_persistent: a new cycle for every listening server.
BecomePersistent ==
  /\ sock' = [sock EXCEPT !.ephemeral = FALSE, !.firewalled = FALSE]
  /\ dht' = IF dht.bootstrapped THEN Refreshed(dht) ELSE dht
  /\ Announcers([s \in Servers |-> IF NotifiesOnline(s) THEN NotifyOnline(ann[s]) ELSE ann[s]])

StaysEphemeral ==
  /\ sock' = [sock EXCEPT !.firewalled = TRUE]
  /\ UNCHANGED <<dht, ann, walks>>

\* finish_firewall_probe: enough hosts, and the NAT keeps our port.
FinishProbe(p) ==
  /\ probe' = [p EXCEPT !.running = FALSE]
  /\ IF Cardinality(p.replied) < ProbeThreshold(p)
     THEN StaysEphemeral
     ELSE \E remapped \in BOOLEAN : IF remapped THEN StaysEphemeral ELSE BecomePersistent

\* on_recv_server: any packet on the server socket counts while a probe runs.
ServerSocketPacket(h) ==
  LET p == [probe EXCEPT !.replied = @ \cup {h}] IN
  /\ Call("packet") /\ dht.bound /\ ~sock.closing
  /\ heard' = heard \cup {h}
  /\ CASE ~probe.running -> UNCHANGED <<probe, dht, sock, ann, walks>>
       [] probe.running /\ Cardinality(p.replied) >= ProbeThreshold(p) -> FinishProbe(p)
       [] OTHER -> probe' = p /\ UNCHANGED <<dht, sock, ann, walks>>
  /\ UNCHANGED <<health, srv, forwards, late, requests, pings>>

ProbeTimeout ==
  /\ probe.running
  /\ FinishProbe(probe)
  /\ UNCHANGED <<scenario, left, health, srv, forwards, late, heard, requests, pings>>

-----------------------------------------------------------------------------

Port == IF sock.firewalled THEN "client" ELSE "server"

\* What a walk, a request or a ping round does by itself.
Progress ==
  /\ ~sock.closing
  /\ \/ \E w \in walks : (\E n \in Nodes : WalkReply(w, n, Port)) \/ WalkDone(w)
     \/ \E r \in requests : AnnounceAcked(r) \/ AnnounceTimeout(r)
     \/ \E p \in pings : PingResult(p)
  /\ UNCHANGED <<scenario, left, lifeVars>>

\* RpcSocket is at its limit and refuses a walk's visit.
VisitRefused ==
  /\ Call("refuse") /\ ~sock.closing
  /\ \E w \in walks, n \in Nodes : WalkRefused(w, n)
  /\ UNCHANGED lifeVars

\* The timers of a running announcer.
Timer(s) ==
  /\ Call("timer")
  /\ BgTimer(s) \/ PingRelays(s)
  /\ UNCHANGED lifeVars

Next ==
  \/ Bind \/ ConnectEntry \/ OnBootstrapped \/ BootstrapDone \/ RefreshDone
  \/ \E s \in Servers : \/ CreateServer(s) \/ Listen(s) \/ Close(s) \/ RefreshServer(s)
                        \/ SuspendServer(s) \/ ResumeServer(s) \/ Timer(s)
  \/ Suspend \/ Resume \/ Destroy
  \/ NetworkChange \/ BackgroundTick
  \/ \E h \in scenario.hosts : ServerSocketPacket(h)
  \/ ProbeTimeout
  \/ Progress \/ VisitRefused

\* libuv delivers what is due: visits, requests and pings that were accepted are
\* answered or time out (module RpcSocket), a walk none of whose visits was
\* refused ends (module Query), and the probe's timer fires.  The bootstrap walk
\* and the refreshes may be kept from their end by a refusal: nothing is assumed.
Fairness == WF_vars(Progress \/ ProbeTimeout)

Spec == Init /\ [][Next]_vars /\ Fairness

-----------------------------------------------------------------------------
(* Properties.                                                             *)

\* What was stopped stays stopped: on a suspended, closed or destroyed server no
\* announcer runs, and no walk that was under way can still announce it, unless
\* the server was told to listen afterwards (Server::close, suspend, listen).
\* A destroyed node has no timer, no watcher and no probe left.
StoppedStaysStopped ==
  /\ \A s \in Servers \ late : srv[s].suspended \/ srv[s].closed =>
       ~ann[s].running /\ \A w \in walks : w.server = s => ~MayTouch(w)
  /\ dht.destroyed => ~sock.ticking /\ ~dht.watching /\ ~probe.running /\ forwards \subseteq late

\* A node becomes persistent only when enough hosts have reached its server
\* socket since the probe began (finish_firewall_probe), whatever hosts had
\* reached it during an earlier probe.
PersistentEvidence ==
  ~sock.ephemeral => Cardinality(heard) >= (IF probe.expected >= ProbeMax THEN ProbeQuorum ELSE 1)

\* The health counts stay those of the window.
HealthExact == CountsExact(health)

\* RpcSocket refused a visit of the announcer's latest walk.
Starved(s) == \E w \in walks : w.server = s /\ MayTouch(w) /\ w.cycle = ann[s].cycle /\ w.stuck

\* A cycle of an announcer that was not stopped comes to its end, and does not
\* start the next one for ever (build_relays): updating_, which keeps every later
\* cycle out, is cleared.  Only a visit refused in the latest walk itself may keep
\* it set: one refused in an earlier walk, which NotifyOnline abandoned, does not.
UpdateEnds ==
  \A s \in Servers :
    (ann[s].updating /\ ann[s].alive) ~> (~ann[s].updating \/ ~ann[s].alive \/ dht.destroyed \/ Starved(s))
=============================================================================
