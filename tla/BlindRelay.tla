----------------------------- MODULE BlindRelay -----------------------------
(***************************************************************************)
(* Blind relaying: a relay node (BlindRelayServer with one                 *)
(* BlindRelaySession per connection) and the endpoints that ask it to pair *)
(* their streams (BlindRelayClient), over protomux channels.               *)
(*                                                                         *)
(* Each endpoint has one connection; its frames arrive in order until the  *)
(* connection is lost.  The two endpoints of a relayed connection present  *)
(* the same random token, one of them as the initiator, and an endpoint    *)
(* presents a token once.  Frames written to a channel that is not open    *)
(* are dropped (Channel::send).                                            *)
(***************************************************************************)
EXTENDS Naturals, Sequences, FiniteSets

CONSTANTS
  Endpoints, Initiators,   \* the endpoints, and those that present tokens as initiators
  Tokens,
  MaxPairings,             \* MAX_PAIRINGS
  MayFail,                 \* whether making or wiring relay streams may fail
  Loads                    \* the scenarios: who asks for what, and how often things end or go wrong

ASSUME RelayAssumption == Initiators \subseteq Endpoints /\ MaxPairings \in Nat \ {0} /\ MayFail \in BOOLEAN

VARIABLES
  load,      \* the scenario
  upsets,    \* how many more things end or go wrong
  client,    \* BlindRelayClient and its channel
  session,   \* BlindRelaySession and its channel
  up, down,  \* frames to the relay and to the endpoint
  pairings,  \* pairings_: the sessions that wait for each token, and whether they wait too long
  streams,   \* relay streams that exist, by the token and the endpoint they were made for
  spoiled,   \* history: tokens whose pairing was refused, evicted, erased or failed
  leaked     \* history: streams abandoned when making their pair failed

vars == <<load, upsets, client, session, up, down, pairings, streams, spoiled, leaked>>

Role(e) == e \in Initiators
Frame(type, token) == [type |-> type, token |-> token]
Control(type) == Frame(type, CHOOSE t \in Tokens : TRUE)
NoPairing == [links |-> {}, old |-> FALSE]
Stream(token, e) == [token |-> token, owner |-> e]

Init ==
  /\ load \in Loads /\ upsets = load.upsets
  /\ client = [e \in Endpoints |-> [local |-> FALSE, remote |-> FALSE, closed |-> FALSE, requests |-> {}, sent |-> {}, used |-> {}]]
  /\ session = [e \in Endpoints |-> [opened |-> FALSE, closed |-> FALSE, ending |-> FALSE, tokens |-> {}, streams |-> {}]]
  /\ up = [e \in Endpoints |-> <<>>]
  /\ down = [e \in Endpoints |-> <<Control("open")>>]   \* accept
  /\ pairings = [t \in Tokens |-> NoPairing]
  /\ streams = {} /\ spoiled = {} /\ leaked = {}

relayVars == <<session, pairings, streams, leaked>>

Calm(e) == e \in load.endpoints /\ UNCHANGED <<load, upsets>>
Count == upsets > 0 /\ upsets' = upsets - 1 /\ UNCHANGED load
Upset(e) == e \in load.endpoints /\ Count

-----------------------------------------------------------------------------
(* Endpoints.                                                              *)

ChannelOpen(c) == c.local /\ c.remote /\ ~c.closed

ClientOpen(e) ==
  /\ Calm(e)
  /\ ~client[e].local /\ ~client[e].closed
  /\ client' = [client EXCEPT ![e].local = TRUE]
  /\ up' = [up EXCEPT ![e] = Append(@, Control("open"))]
  /\ UNCHANGED <<down, spoiled, relayVars>>

\* pair: the request is kept even if the channel could not send it.
ClientPair(e, t) ==
  /\ Calm(e) /\ t \in load.tokens
  /\ ~client[e].closed /\ t \notin client[e].used
  /\ client' = [client EXCEPT ![e].requests = @ \cup {t}, ![e].used = @ \cup {t},
                              ![e].sent = IF ChannelOpen(client[e]) THEN @ \cup {t} ELSE @]
  /\ up' = IF ChannelOpen(client[e]) THEN [up EXCEPT ![e] = Append(@, Frame("pair", t))] ELSE up
  /\ UNCHANGED <<down, spoiled, relayVars>>

\* unpair: cancels the request, or ends the relaying.
ClientUnpair(e, t) ==
  /\ Upset(e)
  /\ ~client[e].closed /\ t \in client[e].used
  /\ client' = [client EXCEPT ![e].requests = @ \ {t}, ![e].sent = @ \ {t}]
  /\ up' = IF ChannelOpen(client[e]) THEN [up EXCEPT ![e] = Append(@, Frame("unpair", t))] ELSE up
  /\ UNCHANGED <<down, spoiled, relayVars>>

ClosedClient(e) == [client EXCEPT ![e].closed = TRUE, ![e].requests = {}]

\* close and destroy: every request fails.
ClientClose(e) ==
  /\ Upset(e)
  /\ ~client[e].closed
  /\ client' = ClosedClient(e)
  /\ up' = [up EXCEPT ![e] = Append(@, Control("close"))]
  /\ UNCHANGED <<down, spoiled, relayVars>>

\* on_pair_response, the remote OPEN and the remote CLOSE.
ClientReceive(e) ==
  LET m == Head(down[e]) IN
  /\ Calm(e) /\ down[e] # <<>>
  /\ down' = [down EXCEPT ![e] = Tail(@)]
  /\ client' = CASE client[e].closed -> client
                 [] ~client[e].closed /\ m.type = "open"  -> [client EXCEPT ![e].remote = TRUE]
                 [] ~client[e].closed /\ m.type = "pair"  -> [client EXCEPT ![e].requests = @ \ {m.token}]
                 [] OTHER -> ClosedClient(e)
  /\ UNCHANGED <<up, spoiled, relayVars>>

-----------------------------------------------------------------------------
(* The relay.  Its state is handled as a value r, because one frame may    *)
(* change several sessions.                                                *)

Relay == [session |-> session, pairings |-> pairings, streams |-> streams, down |-> down, spoiled |-> spoiled, leaked |-> leaked]

Becomes(r) ==
  /\ session' = r.session /\ pairings' = r.pairings /\ streams' = r.streams
  /\ down' = r.down /\ spoiled' = r.spoiled /\ leaked' = r.leaked

Without(r, tokens) ==
  [r EXCEPT !.pairings = [t \in Tokens |-> IF t \in tokens THEN NoPairing ELSE @[t]], !.spoiled = @ \cup tokens]

\* A close that leaves the session's half in the pairings.
OnClose_KeepsPairings(r, e) ==
  [r EXCEPT !.streams = @ \ r.session[e].streams, !.spoiled = @ \cup r.session[e].tokens,
            !.session[e] = [@ EXCEPT !.closed = TRUE, !.tokens = {}, !.streams = {}]]

\* A close that forgets the streams and does not destroy them.
OnClose_KeepsStreams(r, e) ==
  [Without(r, r.session[e].tokens) EXCEPT !.session[e] = [@ EXCEPT !.closed = TRUE, !.tokens = {}, !.streams = {}]]

\* The session's on_close: erase its pairings, whoever else is in them, and destroy its streams.
OnClose(r, e) ==
  [Without(r, r.session[e].tokens) EXCEPT
     !.streams = @ \ r.session[e].streams,
     !.session[e] = [@ EXCEPT !.closed = TRUE, !.tokens = {}, !.streams = {}]]

\* Channel::close sends CLOSE, then runs on_close.
CloseChannel(r, e) == OnClose([r EXCEPT !.down[e] = Append(@, Control("close"))], e)

\* A deferred close is done when the last pairing is.
EndMaybe(r, e) ==
  IF r.session[e].ending /\ r.session[e].tokens = {} /\ ~r.session[e].closed THEN CloseChannel(r, e) ELSE r

Tracked(s, stream) == [s EXCEPT !.tokens = @ \ {stream.token}, !.streams = @ \cup {stream}]

\* Track the stream in its session, which may end the session and the stream with it.
Track(r, t, e) == EndMaybe([r EXCEPT !.session[e] = Tracked(@, Stream(t, e))], e)

\* Only the endpoint that came last is told.
Confirm_LastOnly(r, t, e, other) == [r EXCEPT !.down[e] = Append(@, Frame("pair", t))]

\* The confirmations.  The channel of a session that has just been ended is freed:
\* what is written to it goes nowhere.
Confirm(r, t, e, other) ==
  LET told == {x \in {e, other} : ~r.session[x].closed} IN
  [r EXCEPT !.down = [x \in Endpoints |-> IF x \in told THEN Append(@[x], Frame("pair", t)) ELSE @[x]]]

\* Both sides have come: the non-initiator's stream is made and tracked first.
Match(r, t, e, other) ==
  LET made == [r EXCEPT !.streams = @ \cup {Stream(t, e), Stream(t, other)}]
      first == CHOOSE x \in {e, other} : ~Role(x)
      second == CHOOSE x \in {e, other} : Role(x)
  IN  Confirm(Track(Track(made, t, first), t, second), t, e, other)

\* No stream, only the first stream, or no wiring: the tokens stay with the sessions.
MatchFails(r, t, e, other) ==
  LET first == Stream(t, CHOOSE x \in {e, other} : ~Role(x))
      failed == [r EXCEPT !.spoiled = @ \cup {t}]
  IN  {failed, [failed EXCEPT !.streams = @ \cup {first}, !.leaked = @ \cup {first}]}

\* get_or_create_pair evicts what has waited too long, also for the same token.
Evicted(r) == Without(r, {t \in Tokens : r.pairings[t].links # {} /\ r.pairings[t].old})

\* on_pair, once there is room for the token.
Join(r, t, e) ==
  LET links == r.pairings[t].links
      joined == [r EXCEPT !.pairings[t].links = @ \cup {e}, !.session[e].tokens = @ \cup {t}]
      matched == [joined EXCEPT !.pairings[t] = NoPairing]
  IN  CASE \E x \in links : Role(x) = Role(e) -> {[r EXCEPT !.spoiled = @ \cup {t}]}
        [] links = {} -> {joined}
        [] OTHER -> LET other == CHOOSE x \in links : TRUE IN
                    {Match(matched, t, e, other)} \cup (IF MayFail THEN MatchFails(matched, t, e, other) ELSE {})

Waiting == {t \in Tokens : pairings[t].links # {}}

\* on_pair: refused without an answer when there are too many pairings.
OnPair(e, t) ==
  IF Cardinality(Waiting) >= MaxPairings /\ t \notin Waiting
  THEN {[Relay EXCEPT !.spoiled = @ \cup {t}]}
  ELSE Join(Evicted(Relay), t, e)

OnUnpair(e, t) ==
  LET left == IF t \in session[e].tokens
              THEN EndMaybe([Without(Relay, {t}) EXCEPT !.session[e].tokens = @ \ {t}], e)
              ELSE Relay
      mine == {s \in left.session[e].streams : s.token = t}
  IN  [left EXCEPT !.session[e].streams = @ \ mine, !.streams = @ \ mine, !.spoiled = @ \cup {t}]

RelayReceive(e) ==
  LET m == Head(up[e]) IN
  /\ Calm(e) /\ up[e] # <<>>
  /\ up' = [up EXCEPT ![e] = Tail(@)]
  /\ \E r \in CASE session[e].closed -> {[Relay EXCEPT !.spoiled = IF m.type = "pair" THEN @ \cup {m.token} ELSE @]}
                [] ~session[e].closed /\ m.type = "open" -> {[Relay EXCEPT !.session[e].opened = TRUE]}
                [] ~session[e].closed /\ m.type = "pair" -> OnPair(e, m.token)
                [] ~session[e].closed /\ m.type = "unpair" -> {OnUnpair(e, m.token)}
                [] OTHER -> {OnClose(Relay, e)} :
       Becomes(r)
  /\ UNCHANGED client

\* The session's close waits for its pairings.
SessionClose(e) ==
  /\ Upset(e)
  /\ ~session[e].closed /\ ~session[e].ending
  /\ Becomes(IF session[e].tokens = {} THEN CloseChannel(Relay, e) ELSE [Relay EXCEPT !.session[e].ending = TRUE])
  /\ UNCHANGED <<client, up>>

\* The session's destroy does not.
SessionDestroy(e) ==
  /\ Upset(e)
  /\ ~session[e].closed
  /\ Becomes(CloseChannel(Relay, e))
  /\ UNCHANGED <<client, up>>

\* BlindRelayServer::close: sessions are closed, then freed with their streams;
\* one whose close was deferred never says so to its endpoint.
ServerClose ==
  LET quiet == {e \in Endpoints : ~session[e].closed /\ session[e].tokens = {}} IN
  /\ Count /\ \E e \in Endpoints : ~session[e].closed
  /\ session' = [e \in Endpoints |-> [session[e] EXCEPT !.closed = TRUE, !.tokens = {}, !.streams = {}]]
  /\ streams' = streams \ UNION {session[e].streams : e \in Endpoints}
  /\ down' = [e \in Endpoints |-> IF e \in quiet THEN Append(down[e], Control("close")) ELSE down[e]]
  /\ pairings' = [t \in Tokens |-> NoPairing]
  /\ spoiled' = Tokens
  /\ UNCHANGED <<client, up, leaked>>

\* The connection is lost: both muxes close their channels.
Disconnect(e) ==
  /\ Upset(e)
  /\ ~client[e].closed \/ ~session[e].closed
  /\ client' = ClosedClient(e)
  /\ LET r == IF session[e].closed THEN Relay ELSE OnClose(Relay, e)
     IN  Becomes([r EXCEPT !.down[e] = <<>>, !.spoiled = @ \cup client[e].used])
  /\ up' = [up EXCEPT ![e] = <<>>]

\* A pairing has waited for more than PAIRING_TTL.
Age(t) ==
  /\ Count
  /\ pairings[t].links # {} /\ ~pairings[t].old
  /\ pairings' = [pairings EXCEPT ![t].old = TRUE]
  /\ UNCHANGED <<client, session, up, down, streams, spoiled, leaked>>

-----------------------------------------------------------------------------

Next ==
  \/ \E e \in Endpoints : \/ ClientOpen(e) \/ ClientClose(e) \/ ClientReceive(e)
                          \/ \E t \in Tokens : ClientPair(e, t) \/ ClientUnpair(e, t)
                          \/ RelayReceive(e) \/ SessionClose(e) \/ SessionDestroy(e) \/ Disconnect(e)
  \/ ServerClose
  \/ \E t \in Tokens : Age(t)

\* Frames of a live connection are delivered.
Fairness == WF_vars(\E e \in Endpoints : ClientReceive(e) \/ RelayReceive(e))

Spec == Init /\ [][Next]_vars /\ Fairness

-----------------------------------------------------------------------------
(* Properties.                                                             *)

\* Every session in a pairing is open and knows that it waits, so on_pair never
\* follows the pointer of a session that has gone, whichever of close, destroy,
\* unpair, eviction and disconnection came before (links, pairing_tokens_).
LinksLive ==
  \A t \in Tokens : \A e \in pairings[t].links : ~session[e].closed /\ t \in session[e].tokens

\* Every relay stream belongs to one open session, which will destroy it; what a
\* failed match left behind is the only exception (streams_, on_close, on_unpair).
StreamsOwned ==
  /\ streams \ leaked = UNION {session[e].streams : e \in Endpoints}
  /\ \A e \in Endpoints : session[e].closed => session[e].streams = {}

Asks(e, t) == t \in client[e].requests /\ t \in client[e].sent

Contested(t) == \E e, x \in Endpoints : e # x /\ Role(e) = Role(x) /\ t \in client[e].used \cap client[x].used

\* Two endpoints that have both sent their halves of a token are both answered,
\* unless the relay refused, evicted or lost the pairing, or another endpoint took
\* the place of one of them (on_pair, on_pair_response).
PairsMeet ==
  \A a \in Initiators, b \in Endpoints \ Initiators, t \in Tokens :
    (Asks(a, t) /\ Asks(b, t)) ~> ((~Asks(a, t) /\ ~Asks(b, t)) \/ t \in spoiled \/ Contested(t))
=============================================================================
