----------------------------- MODULE Announcer -----------------------------
(***************************************************************************)
(* The announcer of a server: it walks to the nodes near the server's key, *)
(* announces itself to each node that answers with a token, keeps up to    *)
(* MaxRelays of those that acknowledge as relays, pings them, and walks    *)
(* again on its timers or when the network comes back.                     *)
(*                                                                         *)
(* Announcer objects are values here: the operators below are the          *)
(* object's methods.  A walk and a request outlive the cycle that started  *)
(* them (Query keeps itself alive, so current_query_.reset() ends          *)
(* nothing); their callbacks first ask for the sentinel alive_ of the      *)
(* object they were made by.  The walk itself is module Query, the nodes'  *)
(* side of ANNOUNCE is module Storage, and here a question or a request is *)
(* answered or is lost.  RpcSocket may also refuse it, and drops both      *)
(* callbacks: a walk with a visit refused never ends, a round with a ping  *)
(* refused decides nothing, and an ANNOUNCE refused is one not sent.       *)
(***************************************************************************)
EXTENDS Naturals, FiniteSets

CONSTANTS
  Servers,     \* each has at most one announcer at a time
  Nodes,       \* nodes near the servers' keys
  MaxRelays,   \* active_relays_ holds at most so many
  MinActive    \* MIN_ACTIVE

ASSUME AnnouncerAssumption == {MaxRelays, MinActive} \subseteq Nat \ {0}

VARIABLES
  ann,         \* the announcer of each server
  walks,       \* find_peer walks under way
  requests,    \* ANNOUNCE requests under way
  pings        \* rounds of relay pings under way

announcerVars == <<ann, walks, requests, pings>>

-----------------------------------------------------------------------------
(* The object. cycle counts its walks; object 0 is no announcer.           *)

Created(object) == [object |-> object, running |-> FALSE, alive |-> TRUE, updating |-> FALSE,
                    reannounced |-> FALSE, active |-> {}, relays |-> {}, cycle |-> 0]

\* update: one cycle at a time, as far as updating_ says.
Update(a) ==
  IF a.updating \/ ~a.running THEN a ELSE [a EXCEPT !.updating = TRUE, !.cycle = @ + 1]

Start(a) == IF a.running THEN a ELSE Update([a EXCEPT !.running = TRUE])

\* A stop that leaves the sentinel.
StopImpl_KeepsSentinel(a) ==
  IF a.running THEN [a EXCEPT !.running = FALSE, !.updating = FALSE, !.active = {}, !.relays = {}] ELSE a

\* stop_impl; the sentinel is never set again.
StopImpl(a) ==
  IF a.running
  THEN [a EXCEPT !.running = FALSE, !.alive = FALSE, !.updating = FALSE, !.active = {}, !.relays = {}]
  ELSE a

Refresh(a) == IF a.running THEN Update(a) ELSE a

NotifyOnline(a) ==
  IF a.running
  THEN Update([a EXCEPT !.reannounced = FALSE, !.active = {}, !.relays = {}, !.updating = FALSE])
  ELSE a

\* build_relays: announce once more when there are relays to name.
BuildRelays(a) ==
  LET built == [a EXCEPT !.relays = a.active] IN
  IF built.relays # {} /\ built.running /\ ~built.reannounced
  THEN Update([built EXCEPT !.reannounced = TRUE])
  ELSE built

\* A done callback that returns early when nobody acknowledged.
CycleDone_NeedsRelays(a) ==
  IF a.active = {} THEN a ELSE LET done == [a EXCEPT !.updating = FALSE] IN IF done.running THEN BuildRelays(done) ELSE done

\* The done callback of the walk.
CycleDone(a) ==
  LET done == [a EXCEPT !.updating = FALSE] IN IF done.running THEN BuildRelays(done) ELSE done

\* The acknowledgement of an ANNOUNCE.
KeepRelay(a, relay) ==
  LET known == {r \in a.active : r.node = relay.node} IN
  CASE known # {} -> [a EXCEPT !.active = (@ \ known) \cup {relay}]
    [] known = {} /\ Cardinality(a.active) < MaxRelays -> [a EXCEPT !.active = @ \cup {relay}]
    [] OTHER -> a

\* The walks that a change of announcers has started.
Begun(after) ==
  UNION {{[server |-> s, object |-> after[s].object, cycle |-> c, unasked |-> Nodes, stuck |-> FALSE] :
           c \in (IF after[s].object = ann[s].object THEN ann[s].cycle + 1 ELSE 1) .. after[s].cycle} : s \in Servers}

\* Whether a callback made by an announcer may still touch it.
MayTouch(x) == ann[x.server].object = x.object /\ ann[x.server].alive

-----------------------------------------------------------------------------
(* Walks and requests.  port is the socket our packets leave from.         *)

AnnouncerInit ==
  /\ ann = [s \in Servers |-> Created(0)]
  /\ walks = {} /\ requests = {} /\ pings = {}

Asked(w, n) == (walks \ {w}) \cup {[w EXCEPT !.unasked = @ \ {n}]}

\* A node answers the walk, or its visit times out; commit signs and sends an
\* ANNOUNCE if there is a token and RpcSocket takes the request.
WalkReply(w, n, port) ==
  /\ n \in w.unasked
  /\ walks' = Asked(w, n)
  /\ \E sent \in BOOLEAN :
       requests' = IF sent /\ MayTouch(w)
                   THEN requests \cup {[server |-> w.server, object |-> w.object, node |-> n, port |-> port]}
                   ELSE requests
  /\ UNCHANGED <<ann, pings>>

\* The visit is refused: the walk counts it in flight for ever.
WalkRefused(w, n) ==
  /\ n \in w.unasked
  /\ walks' = (walks \ {w}) \cup {[w EXCEPT !.unasked = @ \ {n}, !.stuck = TRUE]}
  /\ UNCHANGED <<ann, requests, pings>>

WalkDone(w) ==
  /\ w.unasked = {} /\ ~w.stuck
  /\ ann' = IF MayTouch(w) THEN [ann EXCEPT ![w.server] = CycleDone(@)] ELSE ann
  /\ walks' = (walks \ {w}) \cup Begun(ann')
  /\ UNCHANGED <<requests, pings>>

AnnounceAcked(r) ==
  /\ requests' = requests \ {r}
  /\ ann' = IF MayTouch(r) THEN [ann EXCEPT ![r.server] = KeepRelay(@, [node |-> r.node, port |-> r.port])] ELSE ann
  /\ UNCHANGED <<walks, pings>>

AnnounceTimeout(r) ==
  /\ requests' = requests \ {r}
  /\ UNCHANGED <<ann, walks, pings>>

-----------------------------------------------------------------------------
(* Timers.                                                                 *)

BgTimer(s) ==
  /\ ann[s].running
  /\ ann' = [ann EXCEPT ![s] = Update(@)]
  /\ walks' = walks \cup Begun(ann')
  /\ UNCHANGED <<requests, pings>>

\* on_ping_timer; one round at a time here.  A round that RpcSocket refuses a
\* ping of never comes to the last answer, and is not kept.
PingRelays(s) ==
  LET total == Cardinality(ann[s].active) IN
  /\ ann[s].running /\ total > 0
  /\ ~\E p \in pings : p.server = s
  /\ \/ pings' = pings \cup {[server |-> s, object |-> ann[s].object, total |-> total, pending |-> total, answered |-> 0]}
     \/ pings' = pings
  /\ UNCHANGED <<ann, walks, requests>>

TooFew(p) == p.pending = 0 /\ p.answered < (IF p.total < MinActive THEN p.total ELSE MinActive)

\* One relay answers or times out; the last one decides.
PingResult(p) ==
  \E answers \in {0, 1} :
    LET q == [p EXCEPT !.pending = @ - 1, !.answered = @ + answers] IN
    /\ pings' = (pings \ {p}) \cup (IF q.pending > 0 /\ MayTouch(p) THEN {q} ELSE {})
    /\ ann' = IF MayTouch(p) /\ TooFew(q) THEN [ann EXCEPT ![p.server] = Refresh(@)] ELSE ann
    /\ walks' = walks \cup Begun(ann')
    /\ UNCHANGED requests
=============================================================================
