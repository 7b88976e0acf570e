-------------------------- MODULE BlindRelayProofs --------------------------
(***************************************************************************)
(* Proofs about BlindRelay, for every set of endpoints, tokens and loads:  *)
(* the relay never holds a link to a session that has gone, and every      *)
(* relay stream has one open session that will destroy it.                 *)
(*                                                                         *)
(* Both need to know that a token is presented once.  Were a frame of an   *)
(* endpoint paired twice, the second match could fail over a stream that a *)
(* session already owns.  The history is in Fresh, the rest in Good.       *)
(*                                                                         *)
(* And about Protomux, for every pair of ends, set of keys and bounds: the *)
(* lookup by remote id is exact, the ends agree once nothing is under way, *)
(* and data goes astray only across different ids.  The induction relates  *)
(* one end, the other, and the frames on the way between them: General for *)
(* any application, Orderly for a tidy one.  It is stated of the records a *)
(* handler computes, so that it also holds between two frames of a packet. *)
(***************************************************************************)
EXTENDS BlindRelay, Protomux, FiniteSetTheorems, TLAPS

SessionType == [opened : BOOLEAN, closed : BOOLEAN, ending : BOOLEAN,
                tokens : SUBSET Tokens, streams : SUBSET [token : Tokens, owner : Endpoints]]
PairingType == [links : SUBSET Endpoints, old : BOOLEAN]
ClientType == [local : BOOLEAN, remote : BOOLEAN, closed : BOOLEAN,
               requests : SUBSET Tokens, sent : SUBSET Tokens, used : SUBSET Tokens]
AnyToken == CHOOSE t \in Tokens : TRUE
FrameType == [type : {"open", "close"}, token : {AnyToken}] \cup [type : {"pair", "unpair"}, token : Tokens]

\* r has the fields of the relay's state, of these types.
Typed(r) ==
  /\ r = [session |-> r.session, pairings |-> r.pairings, streams |-> r.streams,
          down |-> r.down, spoiled |-> r.spoiled, leaked |-> r.leaked]
  /\ r.session \in [Endpoints -> SessionType]
  /\ r.pairings \in [Tokens -> PairingType]

\* Whoever waits for a token is open and knows that it waits.
Linked(r) ==
  \A t \in Tokens : \A e \in r.pairings[t].links : ~r.session[e].closed /\ t \in r.session[e].tokens

\* A session owns streams that were made for its endpoint, and none once closed.
Mine(r) ==
  \A e \in Endpoints :
    /\ \A s \in r.session[e].streams : s.owner = e
    /\ r.session[e].closed => r.session[e].streams = {}

\* Every stream but the leaked ones and those in x is owned by its endpoint's session.
Owned(r, x) ==
  \A e \in Endpoints, t \in Tokens :
    (Stream(t, e) \in r.streams /\ Stream(t, e) \notin r.leaked)
      <=> (Stream(t, e) \in r.session[e].streams \/ Stream(t, e) \in x)

\* Who waits for a token has no stream for it yet.
Unmet(r) ==
  \A t \in Tokens : \A e \in r.pairings[t].links : Stream(t, e) \notin r.streams \cup r.leaked

Known(r) == r.streams \cup r.leaked \subseteq [token : Tokens, owner : Endpoints]

Good(r, x) == Typed(r) /\ Linked(r) /\ Mine(r) /\ Owned(r, x) /\ Unmet(r) /\ Known(r)

\* From r to o nothing new waits and no stream is made.
Shrinks(r, o) ==
  /\ \A t \in Tokens : o.pairings[t].links \subseteq r.pairings[t].links
  /\ o.streams \subseteq r.streams
  /\ o.leaked = r.leaked

-----------------------------------------------------------------------------
(* The operations on the relay's state.                                    *)

LEMMA WithoutFields ==
  ASSUME NEW r, Typed(r), NEW tokens
  PROVE  LET o == Without(r, tokens) IN
         /\ Typed(o) /\ o.session = r.session /\ o.streams = r.streams /\ o.leaked = r.leaked
         /\ o.pairings = [t \in Tokens |-> IF t \in tokens THEN NoPairing ELSE r.pairings[t]]
         /\ o.down = r.down
<1> DEFINE o == Without(r, tokens)
           p == [t \in Tokens |-> IF t \in tokens THEN NoPairing ELSE r.pairings[t]]
           q == r.spoiled \cup tokens
<1>1. o = [r EXCEPT !.pairings = p, !.spoiled = q] BY DEF Without
<1>2. p \in [Tokens -> PairingType] BY DEF Typed, NoPairing, PairingType
<1> HIDE DEF o, p, q
<1>3. o = [session |-> r.session, pairings |-> p,
           streams |-> r.streams, down |-> r.down, spoiled |-> q, leaked |-> r.leaked]
  BY <1>1 DEF Typed
<1>4. Typed(o) BY <1>2, <1>3 DEF Typed
<1> QED BY <1>3, <1>4 DEF o, p

LEMMA WithoutLinks ==
  ASSUME NEW r, Typed(r), NEW tokens, NEW t \in Tokens \cap tokens
  PROVE  Without(r, tokens).pairings[t].links = {}
<1> DEFINE o == Without(r, tokens)
<1>1. /\ Typed(o) /\ o.session = r.session /\ o.streams = r.streams /\ o.leaked = r.leaked
      /\ o.pairings = [u \in Tokens |-> IF u \in tokens THEN NoPairing ELSE r.pairings[u]]
      /\ o.down = r.down
  BY WithoutFields
<1> HIDE DEF o
<1>2. o.pairings[t].links = {} BY <1>1 DEF NoPairing
<1> QED BY <1>2 DEF o

LEMMA WithoutGood ==
  ASSUME NEW r, NEW x, Good(r, x), NEW tokens
  PROVE  Good(Without(r, tokens), x) /\ Shrinks(r, Without(r, tokens))
<1> DEFINE o == Without(r, tokens)
<1>1. /\ Typed(o) /\ o.session = r.session /\ o.streams = r.streams /\ o.leaked = r.leaked
      /\ o.pairings = [t \in Tokens |-> IF t \in tokens THEN NoPairing ELSE r.pairings[t]]
  BY WithoutFields DEF Good
<1> HIDE DEF o
<1>2. \A t \in Tokens : o.pairings[t].links \subseteq r.pairings[t].links BY <1>1 DEF NoPairing
<1>3. Linked(o) BY <1>1, <1>2 DEF Good, Linked
<1>4. Mine(o) /\ Owned(o, x) /\ Known(o) BY <1>1 DEF Good, Mine, Owned, Known
<1>5. Unmet(o) BY <1>1, <1>2 DEF Good, Unmet
<1> QED BY <1>1, <1>2, <1>3, <1>4, <1>5 DEF Good, Shrinks, o

LEMMA OnCloseFields ==
  ASSUME NEW r, Typed(r), NEW e \in Endpoints
  PROVE  LET o == OnClose(r, e) IN
         /\ Typed(o) /\ o.leaked = r.leaked
         /\ o.streams = r.streams \ r.session[e].streams
         /\ o.session[e].closed /\ o.session[e].tokens = {} /\ o.session[e].streams = {}
         /\ \A y \in Endpoints \ {e} : o.session[y] = r.session[y]
         /\ o.pairings = [t \in Tokens |-> IF t \in r.session[e].tokens THEN NoPairing ELSE r.pairings[t]]
<1> DEFINE w == Without(r, r.session[e].tokens)
           o == OnClose(r, e)
           c == [r.session[e] EXCEPT !.closed = TRUE, !.tokens = {}, !.streams = {}]
<1>1. /\ Typed(w) /\ w.session = r.session /\ w.streams = r.streams /\ w.leaked = r.leaked
      /\ w.pairings = [t \in Tokens |-> IF t \in r.session[e].tokens THEN NoPairing ELSE r.pairings[t]]
  BY WithoutFields
<1>2. o = [w EXCEPT !.streams = @ \ r.session[e].streams, !.session[e] = [@ EXCEPT !.closed = TRUE, !.tokens = {}, !.streams = {}]]
  BY DEF OnClose
<1> HIDE DEF o, w
<1>3. o = [session |-> [r.session EXCEPT ![e] = c], pairings |-> w.pairings, streams |-> w.streams \ r.session[e].streams,
           down |-> w.down, spoiled |-> w.spoiled, leaked |-> w.leaked]
  BY <1>1, <1>2 DEF Typed
<1>4. c \in SessionType /\ c.closed /\ c.tokens = {} /\ c.streams = {} BY DEF Typed, SessionType
<1> HIDE DEF c
<1>5. Typed(o) BY <1>1, <1>3, <1>4 DEF Typed
<1>6. o.session[e] = c /\ \A y \in Endpoints \ {e} : o.session[y] = r.session[y] BY <1>3 DEF Typed
<1> QED BY <1>1, <1>3, <1>4, <1>5, <1>6 DEF o

LEMMA OnCloseOthers ==
  ASSUME NEW r, Typed(r), NEW e \in Endpoints, NEW y \in Endpoints \ {e}
  PROVE  OnClose(r, e).session[y] = r.session[y]
<1> DEFINE o == OnClose(r, e)
<1>1. /\ Typed(o) /\ o.leaked = r.leaked
      /\ o.streams = r.streams \ r.session[e].streams
      /\ o.session[e].closed /\ o.session[e].tokens = {} /\ o.session[e].streams = {}
      /\ \A z \in Endpoints \ {e} : o.session[z] = r.session[z]
      /\ o.pairings = [t \in Tokens |-> IF t \in r.session[e].tokens THEN NoPairing ELSE r.pairings[t]]
  BY OnCloseFields
<1> HIDE DEF o
<1> QED BY <1>1 DEF o

\* on_close takes the session out of every pairing and its streams out of the relay.
LEMMA OnCloseGood ==
  ASSUME NEW r, NEW x, Good(r, x), NEW e \in Endpoints, \A t \in Tokens : Stream(t, e) \notin x
  PROVE  Good(OnClose(r, e), x) /\ Shrinks(r, OnClose(r, e))
<1> DEFINE o == OnClose(r, e)
<1>1. /\ Typed(o) /\ o.leaked = r.leaked
      /\ o.streams = r.streams \ r.session[e].streams
      /\ o.session[e].closed /\ o.session[e].tokens = {} /\ o.session[e].streams = {}
      /\ \A y \in Endpoints \ {e} : o.session[y] = r.session[y]
      /\ o.pairings = [t \in Tokens |-> IF t \in r.session[e].tokens THEN NoPairing ELSE r.pairings[t]]
  BY OnCloseFields DEF Good
<1> HIDE DEF o
<1>2. \A t \in Tokens : o.pairings[t].links \subseteq r.pairings[t].links BY <1>1 DEF NoPairing
<1>3. \A t \in Tokens : e \notin o.pairings[t].links BY <1>1 DEF NoPairing, Good, Linked
<1>4. Linked(o)
  <2> SUFFICES ASSUME NEW t \in Tokens, NEW y \in o.pairings[t].links PROVE ~o.session[y].closed /\ t \in o.session[y].tokens
    BY DEF Linked
  <2>1. y \in r.pairings[t].links /\ y # e BY <1>2, <1>3
  <2>2. y \in Endpoints BY <2>1 DEF Good, Typed, PairingType
  <2> QED BY <1>1, <2>1, <2>2 DEF Good, Linked
<1>5. Mine(o) BY <1>1 DEF Good, Mine
<1>6. Owned(o, x)
  <2> SUFFICES ASSUME NEW y \in Endpoints, NEW t \in Tokens
               PROVE  (Stream(t, y) \in o.streams /\ Stream(t, y) \notin o.leaked)
                        <=> (Stream(t, y) \in o.session[y].streams \/ Stream(t, y) \in x)
    BY DEF Owned
  <2>0. (Stream(t, y) \in r.streams /\ Stream(t, y) \notin r.leaked)
                        <=> (Stream(t, y) \in r.session[y].streams \/ Stream(t, y) \in x)
    BY DEF Good, Owned
  <2>1. CASE y = e BY <1>1, <2>0, <2>1
  <2>2. CASE y # e
    <3>1. Stream(t, y).owner = y BY DEF Stream
    <3>2. Stream(t, y) \notin r.session[e].streams BY <2>2, <3>1 DEF Good, Mine
    <3> QED BY <1>1, <2>0, <2>2, <3>2
  <2> QED BY <2>1, <2>2
<1>7. Unmet(o) /\ Known(o) BY <1>1, <1>2 DEF Good, Unmet, Known
<1> QED BY <1>1, <1>2, <1>4, <1>5, <1>6, <1>7 DEF Good, Shrinks, o

LEMMA ToldFields ==
  ASSUME NEW r, Typed(r), NEW d, NEW o, o = [r EXCEPT !.down = d]
  PROVE  Typed(o) /\ o.session = r.session /\ o.pairings = r.pairings /\ o.streams = r.streams /\ o.leaked = r.leaked
<1>1. o = [session |-> r.session, pairings |-> r.pairings, streams |-> r.streams,
           down |-> d, spoiled |-> r.spoiled, leaked |-> r.leaked]
  BY DEF Typed
<1> QED BY <1>1 DEF Typed

LEMMA SpoiledFields ==
  ASSUME NEW r, Typed(r), NEW d, NEW o, o = [r EXCEPT !.spoiled = d]
  PROVE  Typed(o) /\ o.session = r.session /\ o.pairings = r.pairings /\ o.streams = r.streams /\ o.leaked = r.leaked
<1>1. o = [session |-> r.session, pairings |-> r.pairings, streams |-> r.streams,
           down |-> r.down, spoiled |-> d, leaked |-> r.leaked]
  BY DEF Typed
<1> QED BY <1>1 DEF Typed

\* What is said to an endpoint, and the history of spoiled tokens, matter to neither.
LEMMA SameGood ==
  ASSUME NEW r, NEW x, Good(r, x), NEW o, Typed(o),
         o.session = r.session, o.pairings = r.pairings, o.streams = r.streams, o.leaked = r.leaked
  PROVE  Good(o, x) /\ Shrinks(r, o)
BY DEF Good, Linked, Mine, Owned, Unmet, Known, Shrinks

LEMMA ShrinksTrans ==
  ASSUME NEW r, NEW o, NEW p, Shrinks(r, o), Shrinks(o, p)
  PROVE  Shrinks(r, p)
BY DEF Shrinks

LEMMA CloseChannelGood ==
  ASSUME NEW r, NEW x, Good(r, x), NEW e \in Endpoints, \A t \in Tokens : Stream(t, e) \notin x
  PROVE  /\ Good(CloseChannel(r, e), x) /\ Shrinks(r, CloseChannel(r, e))
         /\ \A y \in Endpoints \ {e} : CloseChannel(r, e).session[y] = r.session[y]
<1> DEFINE o == [r EXCEPT !.down[e] = Append(@, Control("close"))]
           d == [r.down EXCEPT ![e] = Append(@, Control("close"))]
<1>1. o = [r EXCEPT !.down = d] OBVIOUS
<1>2. CloseChannel(r, e) = OnClose(o, e) BY DEF CloseChannel
<1> HIDE DEF o, d
<1>3. Typed(o) /\ o.session = r.session /\ o.pairings = r.pairings /\ o.streams = r.streams /\ o.leaked = r.leaked
  BY <1>1, ToldFields DEF Good
<1>4. Good(o, x) /\ Shrinks(r, o) BY <1>3, SameGood
<1>5. Good(OnClose(o, e), x) /\ Shrinks(o, OnClose(o, e)) BY <1>4, OnCloseGood
<1>6. Shrinks(r, OnClose(o, e)) BY <1>4, <1>5, ShrinksTrans
<1>7. \A y \in Endpoints \ {e} : OnClose(o, e).session[y] = o.session[y] BY <1>3, OnCloseOthers
<1> QED BY <1>2, <1>3, <1>5, <1>6, <1>7

LEMMA EndMaybeGood ==
  ASSUME NEW r, NEW x, Good(r, x), NEW e \in Endpoints, \A t \in Tokens : Stream(t, e) \notin x
  PROVE  /\ Good(EndMaybe(r, e), x) /\ Shrinks(r, EndMaybe(r, e))
         /\ \A y \in Endpoints \ {e} : EndMaybe(r, e).session[y] = r.session[y]
<1>1. CASE r.session[e].ending /\ r.session[e].tokens = {} /\ ~r.session[e].closed
  <2>1. EndMaybe(r, e) = CloseChannel(r, e) BY <1>1 DEF EndMaybe
  <2> QED BY <2>1, CloseChannelGood
<1>2. CASE ~(r.session[e].ending /\ r.session[e].tokens = {} /\ ~r.session[e].closed)
  <2>1. EndMaybe(r, e) = r BY <1>2 DEF EndMaybe
  <2> QED BY <2>1 DEF Shrinks
<1> QED BY <1>1, <1>2

\* r with another record of e's session.
WithSession(r, e, c) ==
  [session |-> [r.session EXCEPT ![e] = c], pairings |-> r.pairings, streams |-> r.streams,
   down |-> r.down, spoiled |-> r.spoiled, leaked |-> r.leaked]

LEMMA SessionFields ==
  ASSUME NEW r, Typed(r), NEW e \in Endpoints, NEW c \in SessionType, NEW o, o = WithSession(r, e, c)
  PROVE  /\ Typed(o) /\ o.pairings = r.pairings /\ o.streams = r.streams /\ o.leaked = r.leaked
         /\ o.session[e] = c /\ \A y \in Endpoints \ {e} : o.session[y] = r.session[y]
BY DEF Typed, WithSession

\* Tracking a stream gives it its owner, which may end at once and take it away.
LEMMA TrackGood ==
  ASSUME NEW r, NEW x, Good(r, x), NEW t \in Tokens, NEW e \in Endpoints,
         ~r.session[e].closed, e \notin r.pairings[t].links, Stream(t, e) \in x,
         NEW y, y = x \ {Stream(t, e)}, \A u \in Tokens : Stream(u, e) \notin y
  PROVE  /\ Good(Track(r, t, e), y) /\ Shrinks(r, Track(r, t, e))
         /\ \A z \in Endpoints \ {e} : Track(r, t, e).session[z] = r.session[z]
<1> DEFINE c == Tracked(r.session[e], Stream(t, e))
           o == [r EXCEPT !.session[e] = Tracked(@, Stream(t, e))]
<1>0. Stream(t, e) \in [token : Tokens, owner : Endpoints] /\ Stream(t, e).owner = e BY DEF Stream
<1>1. Typed(r) /\ o = WithSession(r, e, c) BY DEF Good, Typed, WithSession
<1>2. /\ c \in SessionType /\ c.tokens = r.session[e].tokens \ {t} /\ ~c.closed
      /\ c.streams = r.session[e].streams \cup {Stream(t, e)}
  BY <1>0 DEF Good, Typed, SessionType, Tracked, Stream
<1>3. Track(r, t, e) = EndMaybe(o, e) BY DEF Track
<1> HIDE DEF o, c
<1>4. /\ Typed(o) /\ o.pairings = r.pairings /\ o.streams = r.streams /\ o.leaked = r.leaked
      /\ o.session[e] = c /\ \A z \in Endpoints \ {e} : o.session[z] = r.session[z]
  BY <1>1, <1>2, SessionFields
<1>5. Linked(o)
  <2> SUFFICES ASSUME NEW u \in Tokens, NEW z \in o.pairings[u].links PROVE ~o.session[z].closed /\ u \in o.session[z].tokens
    BY DEF Linked
  <2>1. z \in r.pairings[u].links /\ z \in Endpoints /\ ~r.session[z].closed /\ u \in r.session[z].tokens
    BY <1>4 DEF Good, Typed, PairingType, Linked
  <2> QED BY <1>2, <1>4, <2>1
<1>6. Mine(o)
  <2>1. \A s \in c.streams : s.owner = e BY <1>0, <1>2 DEF Good, Mine
  <2> QED BY <1>2, <1>4, <2>1 DEF Good, Mine
<1>7. Owned(o, y)
  <2> SUFFICES ASSUME NEW z \in Endpoints, NEW u \in Tokens
               PROVE  (Stream(u, z) \in o.streams /\ Stream(u, z) \notin o.leaked)
                        <=> (Stream(u, z) \in o.session[z].streams \/ Stream(u, z) \in y)
    BY DEF Owned
  <2>0. (Stream(u, z) \in r.streams /\ Stream(u, z) \notin r.leaked)
                        <=> (Stream(u, z) \in r.session[z].streams \/ Stream(u, z) \in x)
    BY DEF Good, Owned
  <2>1. CASE z = e BY <1>2, <1>4, <2>0, <2>1
  <2>2. CASE z # e
    <3>1. Stream(u, z) # Stream(t, e) BY <2>2 DEF Stream
    <3> QED BY <1>4, <2>0, <2>2, <3>1
  <2> QED BY <2>1, <2>2
<1>8. Unmet(o) /\ Known(o) BY <1>4 DEF Good, Unmet, Known
<1>9. Good(o, y) BY <1>4, <1>5, <1>6, <1>7, <1>8 DEF Good
<1>10. Shrinks(r, o) BY <1>4 DEF Shrinks
<1>11. /\ Good(EndMaybe(o, e), y) /\ Shrinks(o, EndMaybe(o, e))
       /\ \A z \in Endpoints \ {e} : EndMaybe(o, e).session[z] = o.session[z]
  BY <1>9, EndMaybeGood
<1>12. Shrinks(r, EndMaybe(o, e)) BY <1>10, <1>11, ShrinksTrans
<1> QED BY <1>3, <1>4, <1>11, <1>12

LEMMA ConfirmGood ==
  ASSUME NEW r, NEW x, Good(r, x), NEW t, NEW e, NEW other
  PROVE  Good(Confirm(r, t, e, other), x) /\ Shrinks(r, Confirm(r, t, e, other))
<1> DEFINE d == [z \in Endpoints |-> IF z \in {w \in {e, other} : ~r.session[w].closed}
                                     THEN Append(r.down[z], Frame("pair", t)) ELSE r.down[z]]
           o == Confirm(r, t, e, other)
<1>1. o = [r EXCEPT !.down = d] BY DEF Confirm
<1> HIDE DEF o, d
<1>2. Typed(o) /\ o.session = r.session /\ o.pairings = r.pairings /\ o.streams = r.streams /\ o.leaked = r.leaked
  BY <1>1, ToldFields DEF Good
<1>3. Good(o, x) /\ Shrinks(r, o) BY <1>2, SameGood
<1> QED BY <1>3 DEF o

\* e waits for t in r, or has a stream for it.
HadIn(r, e, t) == e \in r.pairings[t].links \/ Stream(t, e) \in r.streams \cup r.leaked

\* From r to o only endpoint e may have come to wait for t or to have a stream for it.
Adds(r, o, t, e) ==
  \A z \in Endpoints, u \in Tokens : HadIn(o, z, u) => HadIn(r, z, u) \/ (z = e /\ u = t)

LEMMA ShrinksAdds ==
  ASSUME NEW r, NEW o, Shrinks(r, o), NEW t, NEW e
  PROVE  Adds(r, o, t, e)
BY DEF Shrinks, Adds, HadIn

\* r with other streams.
WithStreams(r, a, b) ==
  [session |-> r.session, pairings |-> r.pairings, streams |-> a,
   down |-> r.down, spoiled |-> r.spoiled, leaked |-> b]

LEMMA MadeFields ==
  ASSUME NEW r, Typed(r), NEW a, NEW b, NEW o, o = WithStreams(r, a, b)
  PROVE  Typed(o) /\ o.session = r.session /\ o.pairings = r.pairings /\ o.streams = a /\ o.leaked = b
BY DEF Typed, WithStreams

\* The state of the relay when two halves of a token have just met.
Meets(r, t, e, other) ==
  /\ Good(r, {}) /\ t \in Tokens /\ e \in Endpoints /\ other \in Endpoints
  /\ Role(e) # Role(other)
  /\ ~r.session[e].closed /\ ~r.session[other].closed
  /\ r.pairings[t].links = {}
  /\ Stream(t, e) \notin r.streams \cup r.leaked
  /\ Stream(t, other) \notin r.streams \cup r.leaked

LEMMA MatchGood ==
  ASSUME NEW r, NEW t, NEW e, NEW other, Meets(r, t, e, other)
  PROVE  /\ Good(Match(r, t, e, other), {})
         /\ \A z \in Endpoints, u \in Tokens :
              HadIn(Match(r, t, e, other), z, u) => HadIn(r, z, u) \/ (u = t /\ z \in {e, other})
<1> DEFINE made == [r EXCEPT !.streams = @ \cup {Stream(t, e), Stream(t, other)}]
           first == CHOOSE z \in {e, other} : ~Role(z)
           second == CHOOSE z \in {e, other} : Role(z)
           one == Track(made, t, first)
           two == Track(one, t, second)
           o == Confirm(two, t, e, other)
<1>0. Match(r, t, e, other) = o BY DEF Match
<1>1. first \in {e, other} /\ ~Role(first) /\ second \in {e, other} /\ Role(second)
  <2>1. \E z \in {e, other} : ~Role(z) BY DEF Meets, Role
  <2>2. \E z \in {e, other} : Role(z) BY DEF Meets, Role
  <2> QED BY <2>1, <2>2
<1> HIDE DEF first, second
<1>2. first # second /\ first \in Endpoints /\ second \in Endpoints /\ {first, second} = {e, other}
  BY <1>1 DEF Meets
<1>3. made = WithStreams(r, r.streams \cup {Stream(t, first), Stream(t, second)}, r.leaked)
  <2>1. {Stream(t, e), Stream(t, other)} = {Stream(t, first), Stream(t, second)} BY <1>2
  <2> QED BY <2>1 DEF Meets, Good, Typed, WithStreams
<1> HIDE DEF made
<1>4. /\ Typed(made) /\ made.session = r.session /\ made.pairings = r.pairings /\ made.leaked = r.leaked
      /\ made.streams = r.streams \cup {Stream(t, first), Stream(t, second)}
  <2>1. Typed(r) BY DEF Meets, Good
  <2> QED BY <1>3, <2>1, MadeFields
<1>5. Good(made, {Stream(t, first), Stream(t, second)})
  <2>1. Linked(made) /\ Mine(made) BY <1>4 DEF Meets, Good, Linked, Mine
  <2>2. Owned(made, {Stream(t, first), Stream(t, second)})
    <3>1. Stream(t, first) \notin r.leaked /\ Stream(t, second) \notin r.leaked BY <1>2 DEF Meets
    <3> QED BY <1>4, <3>1 DEF Meets, Good, Owned
  <2>3. Unmet(made)
    <3>1. \A u \in Tokens, z \in Endpoints : u # t => Stream(u, z) \notin {Stream(t, first), Stream(t, second)}
      BY DEF Stream
    <3>2. \A u \in Tokens : \A z \in r.pairings[u].links : u # t /\ z \in Endpoints
      BY DEF Meets, Good, Typed, PairingType
    <3> QED BY <1>4, <3>1, <3>2 DEF Meets, Good, Unmet
  <2>4. Known(made) BY <1>2, <1>4 DEF Meets, Good, Known, Stream
  <2> QED BY <1>4, <2>1, <2>2, <2>3, <2>4 DEF Good
<1>6. \A u \in Tokens : Stream(u, first) # Stream(t, second) /\ Stream(u, second) # Stream(t, first)
  BY <1>2 DEF Stream
<1>7. t \in Tokens /\ made.pairings[t].links = {} /\ ~made.session[first].closed /\ ~made.session[second].closed
  BY <1>1, <1>4 DEF Meets
<1>8. /\ Good(one, {Stream(t, second)}) /\ Shrinks(made, one)
      /\ \A z \in Endpoints \ {first} : one.session[z] = made.session[z]
  <2>1. {Stream(t, second)} = {Stream(t, first), Stream(t, second)} \ {Stream(t, first)} BY <1>6, <1>7
  <2>2. \A u \in Tokens : Stream(u, first) \notin {Stream(t, second)} BY <1>6
  <2> QED BY <1>2, <1>5, <1>7, <2>1, <2>2, TrackGood
<1> HIDE DEF one
<1>9. one.pairings[t].links = {} /\ ~one.session[second].closed BY <1>2, <1>7, <1>8 DEF Shrinks
<1>10. Good(two, {}) /\ Shrinks(one, two)
  <2>1. {} = {Stream(t, second)} \ {Stream(t, second)} OBVIOUS
  <2> QED BY <1>2, <1>7, <1>8, <1>9, <2>1, TrackGood
<1> HIDE DEF two
<1>11. Good(o, {}) /\ Shrinks(two, o) BY <1>10, ConfirmGood
<1> HIDE DEF o
<1>12. Shrinks(made, o) BY <1>8, <1>10, <1>11, ShrinksTrans
<1>13. ASSUME NEW z \in Endpoints, NEW u \in Tokens, HadIn(o, z, u)
       PROVE  HadIn(r, z, u) \/ (u = t /\ z \in {e, other})
  <2>1. HadIn(made, z, u) BY <1>12, <1>13 DEF Shrinks, HadIn
  <2>2. Stream(u, z) \in {Stream(t, first), Stream(t, second)} => u = t /\ z \in {e, other} BY <1>1 DEF Stream
  <2> QED BY <1>4, <2>1, <2>2 DEF HadIn
<1> QED BY <1>0, <1>11, <1>13

\* A failed match leaves at most a stream that nobody owns.
LEMMA MatchFailsGood ==
  ASSUME NEW r, NEW t, NEW e, NEW other, Meets(r, t, e, other), NEW o \in MatchFails(r, t, e, other)
  PROVE  /\ Good(o, {})
         /\ \A z \in Endpoints, u \in Tokens : HadIn(o, z, u) => HadIn(r, z, u) \/ (u = t /\ z \in {e, other})
<1> DEFINE f == CHOOSE z \in {e, other} : ~Role(z)
           first == Stream(t, f)
           failed == [r EXCEPT !.spoiled = @ \cup {t}]
           lost == [failed EXCEPT !.streams = @ \cup {first}, !.leaked = @ \cup {first}]
<1>1. o \in {failed, lost} BY DEF MatchFails
<1>2. f \in {e, other}
  <2>1. \E z \in {e, other} : ~Role(z) BY DEF Meets, Role
  <2> QED BY <2>1
<1> HIDE DEF f
<1>3. f \in Endpoints /\ Good(r, {}) /\ Typed(r) /\ t \in Tokens BY <1>2 DEF Meets, Good
<1>4. /\ Typed(failed) /\ failed.session = r.session /\ failed.pairings = r.pairings
      /\ failed.streams = r.streams /\ failed.leaked = r.leaked
  <2> DEFINE d == r.spoiled \cup {t}
  <2>1. failed = [r EXCEPT !.spoiled = d] OBVIOUS
  <2> HIDE DEF d, failed
  <2> QED BY <1>3, <2>1, SpoiledFields
<1> HIDE DEF failed
<1>5. Good(failed, {}) /\ Shrinks(r, failed) BY <1>3, <1>4, SameGood
<1>6. CASE o = failed BY <1>5, <1>6, ShrinksAdds DEF Shrinks, HadIn
<1>7. CASE o = lost
  <2>1. lost = WithStreams(failed, r.streams \cup {first}, r.leaked \cup {first})
    <3> DEFINE a == failed.streams \cup {first}
               b == failed.leaked \cup {first}
    <3>1. lost = [failed EXCEPT !.streams = a, !.leaked = b] OBVIOUS
    <3>2. a = r.streams \cup {first} /\ b = r.leaked \cup {first} BY <1>4
    <3> HIDE DEF a, b, lost
    <3>3. lost = WithStreams(failed, a, b) BY <1>4, <3>1 DEF Typed, WithStreams
    <3> QED BY <3>2, <3>3
  <2> HIDE DEF lost
  <2>2. /\ Typed(o) /\ o.session = r.session /\ o.pairings = r.pairings
        /\ o.streams = r.streams \cup {first} /\ o.leaked = r.leaked \cup {first}
    BY <1>4, <1>7, <2>1, MadeFields
  <2>3. first \notin r.streams \cup r.leaked BY <1>2 DEF Meets
  <2>4. first \in [token : Tokens, owner : Endpoints] BY <1>3 DEF Stream
  <2>5. \A u \in Tokens, z \in Endpoints : Stream(u, z) = first => u = t /\ z = f BY DEF Stream
  <2> HIDE DEF first
  <2>6. Linked(o) /\ Mine(o) BY <1>3, <2>2 DEF Good, Linked, Mine
  <2>7. Owned(o, {}) BY <1>3, <2>2, <2>3 DEF Good, Owned
  <2>8. Unmet(o)
    <3>1. \A u \in Tokens : \A z \in r.pairings[u].links : u # t /\ z \in Endpoints
      BY DEF Meets, Good, Typed, PairingType
    <3> QED BY <1>3, <2>2, <2>5, <3>1 DEF Good, Unmet
  <2>9. Known(o) BY <1>3, <2>2, <2>4 DEF Good, Known
  <2>10. Good(o, {}) BY <2>2, <2>6, <2>7, <2>8, <2>9 DEF Good
  <2>11. ASSUME NEW z \in Endpoints, NEW u \in Tokens, HadIn(o, z, u)
         PROVE  HadIn(r, z, u) \/ (u = t /\ z \in {e, other})
    BY <1>2, <2>2, <2>5, <2>11 DEF HadIn
  <2> QED BY <2>10, <2>11
<1> QED BY <1>1, <1>6, <1>7

LEMMA EvictedGood ==
  ASSUME NEW r, Good(r, {})
  PROVE  /\ Good(Evicted(r), {}) /\ Shrinks(r, Evicted(r)) /\ Evicted(r).session = r.session
<1> DEFINE old == {t \in Tokens : r.pairings[t].links # {} /\ r.pairings[t].old}
<1>1. Evicted(r) = Without(r, old) BY DEF Evicted
<1> HIDE DEF old
<1>2. Without(r, old).session = r.session BY WithoutFields DEF Good
<1> QED BY <1>1, <1>2, WithoutGood

\* on_pair with room for the token: only the endpoint itself comes to wait, or it and
\* whoever waited have their streams.
LEMMA JoinGood ==
  ASSUME NEW r, Good(r, {}), NEW t \in Tokens, NEW e \in Endpoints, ~r.session[e].closed, ~HadIn(r, e, t),
         NEW o \in Join(r, t, e)
  PROVE  Good(o, {}) /\ Adds(r, o, t, e)
<1> DEFINE links == r.pairings[t].links
           pairing == [r.pairings[t] EXCEPT !.links = @ \cup {e}]
           asked == [r.session[e] EXCEPT !.tokens = @ \cup {t}]
           joined == [r EXCEPT !.pairings[t].links = @ \cup {e}, !.session[e].tokens = @ \cup {t}]
           matched == [joined EXCEPT !.pairings[t] = NoPairing]
           other == CHOOSE x \in links : TRUE
<1>0. Typed(r) BY DEF Good
<1>1. /\ pairing \in PairingType /\ pairing.links = links \cup {e}
      /\ asked \in SessionType /\ asked.tokens = r.session[e].tokens \cup {t}
      /\ ~asked.closed /\ asked.streams = r.session[e].streams
  BY <1>0 DEF Typed, SessionType, PairingType
<1>2. joined = [session |-> [r.session EXCEPT ![e] = asked], pairings |-> [r.pairings EXCEPT ![t] = pairing],
                streams |-> r.streams, down |-> r.down, spoiled |-> r.spoiled, leaked |-> r.leaked]
  <2> DEFINE p == [r.pairings EXCEPT ![t].links = @ \cup {e}]
             s == [r.session EXCEPT ![e].tokens = @ \cup {t}]
  <2>1. joined = [r EXCEPT !.pairings = p, !.session = s] OBVIOUS
  <2>2. p = [r.pairings EXCEPT ![t] = pairing] OBVIOUS
  <2>3. s = [r.session EXCEPT ![e] = asked] OBVIOUS
  <2> HIDE DEF p, s, joined, pairing, asked
  <2>4. joined = [session |-> s, pairings |-> p, streams |-> r.streams,
                  down |-> r.down, spoiled |-> r.spoiled, leaked |-> r.leaked]
    BY <1>0, <2>1 DEF Typed
  <2> QED BY <2>2, <2>3, <2>4
<1> HIDE DEF joined, asked, pairing
<1>3. matched = [session |-> joined.session, pairings |-> [joined.pairings EXCEPT ![t] = NoPairing],
                streams |-> joined.streams, down |-> joined.down, spoiled |-> joined.spoiled, leaked |-> joined.leaked]
  BY <1>2
<1> HIDE DEF matched
<1>4. /\ Typed(joined) /\ joined.streams = r.streams /\ joined.leaked = r.leaked
      /\ joined.session[e] = asked /\ \A z \in Endpoints \ {e} : joined.session[z] = r.session[z]
      /\ joined.pairings[t] = pairing /\ \A u \in Tokens \ {t} : joined.pairings[u] = r.pairings[u]
  BY <1>0, <1>1, <1>2 DEF Typed
<1>5. Good(joined, {})
  <2>1. Linked(joined)
    <3> SUFFICES ASSUME NEW u \in Tokens, NEW z \in joined.pairings[u].links
                 PROVE  ~joined.session[z].closed /\ u \in joined.session[z].tokens
      BY DEF Linked
    <3>1. (u = t /\ z = e) \/ z \in r.pairings[u].links BY <1>1, <1>4
    <3>2. z \in r.pairings[u].links => z \in Endpoints /\ ~r.session[z].closed /\ u \in r.session[z].tokens
      BY DEF Good, Typed, PairingType, Linked
    <3> QED BY <1>1, <1>4, <3>1, <3>2
  <2>2. Mine(joined) BY <1>1, <1>4 DEF Good, Mine
  <2>3. Owned(joined, {}) BY <1>1, <1>4 DEF Good, Owned
  <2>4. Unmet(joined)
    <3>1. \A u \in Tokens : \A z \in joined.pairings[u].links : (u = t /\ z = e) \/ z \in r.pairings[u].links
      BY <1>1, <1>4
    <3> QED BY <1>4, <3>1 DEF Good, Unmet, HadIn
  <2> QED BY <1>4, <2>1, <2>2, <2>3, <2>4 DEF Good, Known
<1>6. Adds(r, joined, t, e)
  <2>1. \A u \in Tokens : \A z \in joined.pairings[u].links : (u = t /\ z = e) \/ z \in r.pairings[u].links
    BY <1>1, <1>4
  <2> QED BY <1>4, <2>1 DEF Adds, HadIn
<1>7. /\ Typed(matched) /\ matched.session = joined.session /\ matched.streams = r.streams /\ matched.leaked = r.leaked
      /\ matched.pairings[t].links = {} /\ \A u \in Tokens \ {t} : matched.pairings[u] = r.pairings[u]
  <2>1. NoPairing \in PairingType /\ NoPairing.links = {} BY DEF NoPairing, PairingType
  <2> QED BY <1>3, <1>4, <2>1 DEF Typed
<1>8. Good(matched, {})
  <2>1. \A u \in Tokens : matched.pairings[u].links \subseteq joined.pairings[u].links BY <1>4, <1>7
  <2>2. Linked(matched) BY <1>5, <1>7, <2>1 DEF Good, Linked
  <2>3. Unmet(matched) BY <1>4, <1>5, <1>7, <2>1 DEF Good, Unmet
  <2>4. Mine(matched) /\ Owned(matched, {}) /\ Known(matched) BY <1>4, <1>5, <1>7 DEF Good, Mine, Owned, Known
  <2> QED BY <1>7, <2>2, <2>3, <2>4 DEF Good
<1>9. CASE \E x \in links : Role(x) = Role(e)
  <2> DEFINE d == r.spoiled \cup {t}
  <2>1. o = [r EXCEPT !.spoiled = d] BY <1>9 DEF Join
  <2> HIDE DEF d
  <2>2. Typed(o) /\ o.session = r.session /\ o.pairings = r.pairings /\ o.streams = r.streams /\ o.leaked = r.leaked
    BY <1>0, <2>1, SpoiledFields
  <2> QED BY <2>2, SameGood, ShrinksAdds
<1>10. CASE ~(\E x \in links : Role(x) = Role(e)) /\ links = {}
  <2>1. o = joined BY <1>10 DEF Join, joined
  <2> QED BY <1>5, <1>6, <2>1
<1>11. CASE ~(\E x \in links : Role(x) = Role(e)) /\ links # {}
  <2>1. other \in links BY <1>11
  <2>2. o = Match(matched, t, e, other) \/ o \in MatchFails(matched, t, e, other)
    BY <1>11 DEF Join, matched, joined
  <2> HIDE DEF other
  <2>3. Meets(matched, t, e, other)
    <3>1. Role(e) # Role(other) /\ other # e BY <1>11, <2>1
    <3>2. other \in Endpoints /\ ~r.session[other].closed BY <2>1 DEF Good, Typed, PairingType, Linked
    <3>3. Stream(t, other) \notin r.streams \cup r.leaked BY <2>1 DEF Good, Unmet
    <3> QED BY <1>1, <1>4, <1>7, <1>8, <3>1, <3>2, <3>3 DEF Meets, HadIn
  <2>4. /\ Good(o, {})
        /\ \A z \in Endpoints, u \in Tokens : HadIn(o, z, u) => HadIn(matched, z, u) \/ (u = t /\ z \in {e, other})
    BY <2>2, <2>3, MatchGood, MatchFailsGood
  <2>5. \A z \in Endpoints, u \in Tokens : HadIn(matched, z, u) => HadIn(r, z, u) BY <1>7 DEF HadIn
  <2>6. HadIn(r, other, t) BY <2>1 DEF HadIn
  <2> QED BY <2>4, <2>5, <2>6 DEF Adds
<1> QED BY <1>9, <1>10, <1>11

-----------------------------------------------------------------------------
(* A token is presented once.                                              *)

\* Frame i on its way from z presents token t.
PairAt(u, z, t, i) == i \in 1 .. Len(u[z]) /\ u[z][i] = Frame("pair", t)

\* What waits, was matched or is on its way was presented, and in one of these places.
Fresh(r, c, u) ==
  /\ \A z \in Endpoints, t \in Tokens : HadIn(r, z, t) => t \in c[z].used
  /\ \A z \in Endpoints, t \in Tokens, i \in Nat : PairAt(u, z, t, i) => t \in c[z].used /\ ~HadIn(r, z, t)
  /\ \A z \in Endpoints, t \in Tokens, i \in Nat, j \in Nat : PairAt(u, z, t, i) /\ PairAt(u, z, t, j) => i = j

Accounts(r, c, u) ==
  /\ Good(r, {}) /\ Fresh(r, c, u)
  /\ c \in [Endpoints -> ClientType] /\ u \in [Endpoints -> Seq(FrameType)]

Sound == Accounts(Relay, client, up)

\* The first k[z] frames of z are received and others may be dropped; only a token so
\* presented comes to wait or is matched.
Receives(r, c, u, o, d, v, k) ==
  /\ k \in [Endpoints -> Nat]
  /\ \A z \in Endpoints : c[z].used = d[z].used
  /\ \A z \in Endpoints, t \in Tokens, i \in Nat : PairAt(v, z, t, i) => PairAt(u, z, t, i + k[z])
  /\ \A z \in Endpoints, t \in Tokens : HadIn(o, z, t) => HadIn(r, z, t) \/ (PairAt(u, z, t, 1) /\ k[z] = 1)

LEMMA FreshStep ==
  ASSUME NEW r, NEW c, NEW u, Fresh(r, c, u), NEW o, NEW d, NEW v, NEW k, Receives(r, c, u, o, d, v, k)
  PROVE  Fresh(o, d, v)
<1> USE DEF Receives
<1>0. \A z \in Endpoints, i \in Nat : k[z] \in Nat /\ i + k[z] \in Nat OBVIOUS
<1>1. \A z \in Endpoints, t \in Tokens : HadIn(o, z, t) => t \in d[z].used BY <1>0 DEF Fresh
<1>2. ASSUME NEW z \in Endpoints, NEW t \in Tokens, NEW i \in Nat, PairAt(v, z, t, i)
      PROVE  t \in d[z].used /\ ~HadIn(o, z, t)
  <2>1. PairAt(u, z, t, i + k[z]) /\ i > 0 BY <1>2 DEF PairAt
  <2>2. t \in c[z].used /\ ~HadIn(r, z, t) BY <1>0, <2>1 DEF Fresh
  <2>3. ~(PairAt(u, z, t, 1) /\ k[z] = 1)
    <3> SUFFICES ASSUME PairAt(u, z, t, 1), k[z] = 1 PROVE FALSE OBVIOUS
    <3>1. i + 1 = 1 BY <1>0, <2>1 DEF Fresh
    <3> QED BY <2>1, <3>1
  <2> QED BY <2>2, <2>3
<1>3. ASSUME NEW z \in Endpoints, NEW t \in Tokens, NEW i \in Nat, NEW j \in Nat, PairAt(v, z, t, i), PairAt(v, z, t, j)
      PROVE  i = j
  <2>1. PairAt(u, z, t, i + k[z]) /\ PairAt(u, z, t, j + k[z]) BY <1>3
  <2>2. i + k[z] = j + k[z] BY <1>0, <2>1 DEF Fresh
  <2> QED BY <1>0, <2>2
<1> QED BY <1>1, <1>2, <1>3 DEF Fresh

\* The same when no frame moves, or all of z's are lost.
LEMMA FreshStays ==
  ASSUME NEW r, NEW c, NEW u, Fresh(r, c, u), NEW o, NEW d, NEW v, Shrinks(r, o),
         \A z \in Endpoints : c[z].used = d[z].used,
         \A z \in Endpoints : v[z] = u[z] \/ v[z] = << >>
  PROVE  Fresh(o, d, v)
<1> DEFINE k == [z \in Endpoints |-> 0]
<1>1. k \in [Endpoints -> Nat] /\ \A z \in Endpoints : k[z] = 0 OBVIOUS
<1> HIDE DEF k
<1>2. ASSUME NEW z \in Endpoints, NEW t \in Tokens, NEW i \in Nat, PairAt(v, z, t, i) PROVE PairAt(u, z, t, i + k[z])
  <2>1. v[z] = u[z] BY <1>2 DEF PairAt
  <2>2. i + k[z] = i BY <1>1
  <2> QED BY <1>2, <2>1, <2>2 DEF PairAt
<1>3. \A z \in Endpoints, t \in Tokens : HadIn(o, z, t) => HadIn(r, z, t) BY DEF Shrinks, HadIn
<1>4. Receives(r, c, u, o, d, v, k) BY <1>1, <1>2, <1>3 DEF Receives
<1> QED BY <1>4, FreshStep

LEMMA FreshReceive ==
  ASSUME NEW r, NEW c, NEW u \in [Endpoints -> Seq(FrameType)], Fresh(r, c, u), NEW o, NEW v,
         NEW e \in Endpoints, u[e] # << >>, v = [u EXCEPT ![e] = Tail(@)],
         \/ Shrinks(r, o)
         \/ \E t \in Tokens : Head(u[e]) = Frame("pair", t) /\ Adds(r, o, t, e)
  PROVE  Fresh(o, c, v)
<1> DEFINE k == [z \in Endpoints |-> IF z = e THEN 1 ELSE 0]
<1>1. k \in [Endpoints -> Nat] /\ k[e] = 1 /\ \A z \in Endpoints \ {e} : k[z] = 0 OBVIOUS
<1> HIDE DEF k
<1>2. ASSUME NEW z \in Endpoints, NEW t \in Tokens, NEW i \in Nat, PairAt(v, z, t, i) PROVE PairAt(u, z, t, i + k[z])
  <2>1. CASE z = e
    <3>1. v[e] = Tail(u[e]) /\ u[e] \in Seq(FrameType) OBVIOUS
    <3>2. i \in 1 .. Len(Tail(u[e])) /\ Tail(u[e])[i] = Frame("pair", t) BY <1>2, <2>1, <3>1 DEF PairAt
    <3>3. Len(Tail(u[e])) = Len(u[e]) - 1 /\ Tail(u[e])[i] = u[e][i + 1] BY <3>1, <3>2
    <3> QED BY <1>1, <2>1, <3>1, <3>2, <3>3 DEF PairAt
  <2>2. CASE z # e
    <3>1. v[z] = u[z] /\ i + k[z] = i BY <1>1, <2>2
    <3> QED BY <1>2, <3>1 DEF PairAt
  <2> QED BY <2>1, <2>2
<1>3. ASSUME NEW z \in Endpoints, NEW t \in Tokens, HadIn(o, z, t)
      PROVE  HadIn(r, z, t) \/ (PairAt(u, z, t, 1) /\ k[z] = 1)
  <2>1. CASE Shrinks(r, o) BY <1>3, <2>1 DEF Shrinks, HadIn
  <2>2. ASSUME NEW w \in Tokens, Head(u[e]) = Frame("pair", w), Adds(r, o, w, e)
        PROVE  HadIn(r, z, t) \/ (PairAt(u, z, t, 1) /\ k[z] = 1)
    <3>1. HadIn(r, z, t) \/ (z = e /\ t = w) BY <1>3, <2>2 DEF Adds
    <3>2. u[e] \in Seq(FrameType) OBVIOUS
    <3>3. 1 \in 1 .. Len(u[e]) /\ u[e][1] = Frame("pair", w) BY <2>2, <3>2
    <3> QED BY <1>1, <3>1, <3>3 DEF PairAt
  <2> QED BY <2>1, <2>2
<1>4. Receives(r, c, u, o, c, v, k) BY <1>1, <1>2, <1>3 DEF Receives
<1> QED BY <1>4, FreshStep

\* An endpoint says something: a token only if it has not presented it before.
LEMMA FreshSend ==
  ASSUME NEW r, NEW c, NEW u \in [Endpoints -> Seq(FrameType)], Fresh(r, c, u), NEW d, NEW v,
         NEW e \in Endpoints, NEW f \in FrameType, v = [u EXCEPT ![e] = Append(@, f)],
         \A z \in Endpoints : c[z].used \subseteq d[z].used,
         \A t \in Tokens : f = Frame("pair", t) => t \in d[e].used /\ t \notin c[e].used
  PROVE  Fresh(r, d, v)
<1>1. ASSUME NEW z \in Endpoints, NEW t \in Tokens, NEW i \in Nat, PairAt(v, z, t, i)
      PROVE  \/ PairAt(u, z, t, i)
             \/ z = e /\ f = Frame("pair", t) /\ i = Len(u[e]) + 1
  <2>1. CASE z = e
    <3>1. v[e] = Append(u[e], f) /\ u[e] \in Seq(FrameType) OBVIOUS
    <3>2. Len(v[e]) = Len(u[e]) + 1 BY <3>1
    <3>3. i \in 1 .. Len(u[e]) + 1 /\ v[e][i] = Frame("pair", t) BY <1>1, <2>1, <3>2 DEF PairAt
    <3>4. CASE i = Len(u[e]) + 1 BY <2>1, <3>1, <3>3, <3>4
    <3>5. CASE i # Len(u[e]) + 1
      <4>1. i \in 1 .. Len(u[e]) BY <3>1, <3>3, <3>5
      <4>2. v[e][i] = u[e][i] BY <3>1, <4>1
      <4> QED BY <2>1, <3>3, <4>1, <4>2 DEF PairAt
    <3> QED BY <3>4, <3>5
  <2>2. CASE z # e
    <3>1. v[z] = u[z] BY <2>2
    <3> QED BY <1>1, <3>1 DEF PairAt
  <2> QED BY <2>1, <2>2
<1>2. ASSUME NEW t \in Tokens, f = Frame("pair", t)
      PROVE  t \in d[e].used /\ ~HadIn(r, e, t) /\ \A i \in Nat : ~PairAt(u, e, t, i)
  BY <1>2 DEF Fresh
<1>3. \A z \in Endpoints, t \in Tokens : HadIn(r, z, t) => t \in d[z].used BY DEF Fresh
<1>4. \A z \in Endpoints, t \in Tokens, i \in Nat : PairAt(v, z, t, i) => t \in d[z].used /\ ~HadIn(r, z, t)
  BY <1>1, <1>2 DEF Fresh
<1>5. \A z \in Endpoints, t \in Tokens, i \in Nat, j \in Nat : PairAt(v, z, t, i) /\ PairAt(v, z, t, j) => i = j
  BY <1>1, <1>2 DEF Fresh
<1> QED BY <1>3, <1>4, <1>5 DEF Fresh

LEMMA FreshSay ==
  ASSUME NEW r, NEW c, NEW u \in [Endpoints -> Seq(FrameType)], Fresh(r, c, u), NEW d, NEW v,
         NEW e \in Endpoints, NEW f \in FrameType, v = [u EXCEPT ![e] = Append(@, f)],
         \A z \in Endpoints : c[z].used = d[z].used,
         \A t \in Tokens : f # Frame("pair", t)
  PROVE  Fresh(r, d, v)
<1>1. \A z \in Endpoints : c[z].used \subseteq d[z].used OBVIOUS
<1>2. \A t \in Tokens : f = Frame("pair", t) => t \in d[e].used /\ t \notin c[e].used OBVIOUS
<1> QED BY <1>1, <1>2, FreshSend

-----------------------------------------------------------------------------
(* The steps.                                                              *)

LEMMA FrameTypes ==
  /\ \A k \in {"open", "close"} : Control(k) \in FrameType /\ \A t : Control(k) # Frame("pair", t)
  /\ \A k \in {"pair", "unpair"}, t \in Tokens : Frame(k, t) \in FrameType
  /\ \A t, w : Frame("unpair", t) # Frame("pair", w)
  /\ \A t, w : Frame("pair", t) = Frame("pair", w) => t = w
BY DEF Control, Frame, FrameType, AnyToken

LEMMA RelayNext ==
  ASSUME NEW r, Typed(r), Becomes(r)
  PROVE  Relay' = r
BY DEF Typed, Becomes, Relay

LEMMA RelayTyped ==
  /\ Relay.session = session /\ Relay.pairings = pairings /\ Relay.streams = streams /\ Relay.leaked = leaked
  /\ Relay.down = down /\ Relay.spoiled = spoiled
BY DEF Relay

LEMMA InitSound == Init => Sound
<1> SUFFICES ASSUME Init PROVE Sound OBVIOUS
<1>1. client \in [Endpoints -> ClientType] BY DEF Init, ClientType
<1>2. up \in [Endpoints -> Seq(FrameType)] /\ \A z \in Endpoints : up[z] = << >> BY DEF Init
<1>3. Typed(Relay)
  <2>1. session \in [Endpoints -> SessionType] BY DEF Init, SessionType
  <2>2. pairings \in [Tokens -> PairingType] BY DEF Init, NoPairing, PairingType
  <2> QED BY <2>1, <2>2 DEF Typed, Relay
<1>4. /\ \A t \in Tokens : Relay.pairings[t].links = {}
      /\ \A e \in Endpoints : Relay.session[e].streams = {}
      /\ Relay.streams = {} /\ Relay.leaked = {}
  BY RelayTyped DEF Init, NoPairing
<1>5. Good(Relay, {}) BY <1>3, <1>4 DEF Good, Linked, Mine, Owned, Unmet, Known
<1>6. Fresh(Relay, client, up)
  <2>1. \A z \in Endpoints, t \in Tokens, i \in Nat : ~PairAt(up, z, t, i) BY <1>2 DEF PairAt
  <2>2. \A z \in Endpoints, t \in Tokens : ~HadIn(Relay, z, t) BY <1>4 DEF HadIn
  <2> QED BY <2>1, <2>2 DEF Fresh
<1> QED BY <1>1, <1>2, <1>5, <1>6 DEF Sound, Accounts

\* An endpoint's own steps leave the relay alone, but for what is on its way to endpoints.
LEMMA ClientKeeps ==
  ASSUME Sound, UNCHANGED relayVars
  PROVE  /\ Good(Relay, {})' /\ Shrinks(Relay, Relay')
         /\ \A d, v : Fresh(Relay, d, v) => Fresh(Relay', d, v)
<1> DEFINE o == Relay'
<1>1. o = [session |-> session, pairings |-> pairings, streams |-> streams,
           down |-> down', spoiled |-> spoiled', leaked |-> leaked]
  BY DEF relayVars, Relay
<1>2. Typed(Relay) /\ Good(Relay, {}) BY DEF Sound, Accounts, Good
<1> HIDE DEF o
<1>3. Typed(o) /\ o.session = Relay.session /\ o.pairings = Relay.pairings /\ o.streams = Relay.streams /\ o.leaked = Relay.leaked
  BY <1>1, <1>2, RelayTyped DEF Typed
<1>4. Good(o, {}) /\ Shrinks(Relay, o) BY <1>2, <1>3, SameGood
<1>5. \A d, v : Fresh(Relay, d, v) => Fresh(o, d, v) BY <1>3 DEF Fresh, HadIn
<1> QED BY <1>4, <1>5 DEF o

\* Sound follows from its parts after a step.
LEMMA SoundNext ==
  ASSUME Good(Relay', {}), Fresh(Relay', client', up'),
         client' \in [Endpoints -> ClientType], up' \in [Endpoints -> Seq(FrameType)]
  PROVE  Sound'
BY DEF Sound, Accounts

\* A closed client keeps the tokens that it used.
LEMMA ClosedClientUses ==
  ASSUME client \in [Endpoints -> ClientType], NEW e \in Endpoints
  PROVE  /\ ClosedClient(e) \in [Endpoints -> ClientType]
         /\ \A z \in Endpoints : client[z].used = ClosedClient(e)[z].used
<1> DEFINE c == [client[e] EXCEPT !.closed = TRUE, !.requests = {}]
<1>1. ClosedClient(e) = [client EXCEPT ![e] = c] BY DEF ClosedClient, ClientType
<1>2. c \in ClientType /\ c.used = client[e].used BY DEF ClientType
<1> HIDE DEF c
<1> QED BY <1>1, <1>2

LEMMA ClientOpenSound ==
  ASSUME Sound, NEW e \in Endpoints, ClientOpen(e)
  PROVE  Sound'
<1>0. Fresh(Relay, client, up) /\ client \in [Endpoints -> ClientType] /\ up \in [Endpoints -> Seq(FrameType)]
  BY DEF Sound, Accounts
<1>1. client' \in [Endpoints -> ClientType] /\ \A z \in Endpoints : client[z].used = client'[z].used
  BY <1>0 DEF ClientOpen, ClientType
<1>2. up' = [up EXCEPT ![e] = Append(@, Control("open"))] BY DEF ClientOpen
<1>3. Control("open") \in FrameType /\ \A t \in Tokens : Control("open") # Frame("pair", t) BY FrameTypes
<1>4. up' \in [Endpoints -> Seq(FrameType)] BY <1>0, <1>2, <1>3
<1>5. Fresh(Relay, client', up') BY <1>0, <1>1, <1>2, <1>3, FreshSay
<1>6. UNCHANGED relayVars BY DEF ClientOpen
<1> QED BY <1>1, <1>4, <1>5, <1>6, ClientKeeps, SoundNext

LEMMA ClientPairSound ==
  ASSUME Sound, NEW e \in Endpoints, NEW t \in Tokens, ClientPair(e, t)
  PROVE  Sound'
<1>0. Fresh(Relay, client, up) /\ client \in [Endpoints -> ClientType] /\ up \in [Endpoints -> Seq(FrameType)]
  BY DEF Sound, Accounts
<1>1. /\ client' \in [Endpoints -> ClientType]
      /\ client'[e].used = client[e].used \cup {t}
      /\ \A z \in Endpoints \ {e} : client'[z].used = client[z].used
  <2> DEFINE s == IF ChannelOpen(client[e]) THEN client[e].sent \cup {t} ELSE client[e].sent
             c == [client[e] EXCEPT !.requests = @ \cup {t}, !.used = @ \cup {t}, !.sent = s]
  <2>1. s \in SUBSET Tokens BY <1>0 DEF ClientType
  <2>2. client' = [client EXCEPT ![e] = c] BY <1>0 DEF ClientPair, ClientType
  <2> HIDE DEF s
  <2>3. c \in ClientType /\ c.used = client[e].used \cup {t} BY <1>0, <2>1 DEF ClientType
  <2> HIDE DEF c
  <2> QED BY <1>0, <2>2, <2>3
<1>2. t \notin client[e].used /\ UNCHANGED relayVars BY DEF ClientPair
<1>3. \A z \in Endpoints : client[z].used \subseteq client'[z].used BY <1>1
<1>4. CASE ChannelOpen(client[e])
  <2>1. up' = [up EXCEPT ![e] = Append(@, Frame("pair", t))] BY <1>4 DEF ClientPair
  <2>2. Frame("pair", t) \in FrameType /\ \A w \in Tokens : Frame("pair", t) = Frame("pair", w) => w = t
    BY FrameTypes
  <2>3. up' \in [Endpoints -> Seq(FrameType)] BY <1>0, <2>1, <2>2
  <2>4. \A w \in Tokens : Frame("pair", t) = Frame("pair", w) => w \in client'[e].used /\ w \notin client[e].used
    BY <1>1, <1>2, <2>2
  <2>5. Fresh(Relay, client', up') BY <1>0, <1>3, <2>1, <2>2, <2>4, FreshSend
  <2> QED BY <1>1, <1>2, <2>3, <2>5, ClientKeeps, SoundNext
<1>5. CASE ~ChannelOpen(client[e])
  <2>1. up' = up BY <1>5 DEF ClientPair
  <2>2. Fresh(Relay, client', up) BY <1>0, <1>3 DEF Fresh
  <2> QED BY <1>0, <1>1, <1>2, <2>1, <2>2, ClientKeeps, SoundNext
<1> QED BY <1>4, <1>5

LEMMA ClientUnpairSound ==
  ASSUME Sound, NEW e \in Endpoints, NEW t \in Tokens, ClientUnpair(e, t)
  PROVE  Sound'
<1>0. Fresh(Relay, client, up) /\ client \in [Endpoints -> ClientType] /\ up \in [Endpoints -> Seq(FrameType)]
  BY DEF Sound, Accounts
<1>1. client' \in [Endpoints -> ClientType] /\ \A z \in Endpoints : client[z].used = client'[z].used
  <2> DEFINE c == [client[e] EXCEPT !.requests = @ \ {t}, !.sent = @ \ {t}]
  <2>1. client' = [client EXCEPT ![e] = c] BY <1>0 DEF ClientUnpair, ClientType
  <2>2. c \in ClientType /\ c.used = client[e].used BY <1>0 DEF ClientType
  <2> HIDE DEF c
  <2> QED BY <1>0, <2>1, <2>2
<1>2. UNCHANGED relayVars BY DEF ClientUnpair
<1>3. CASE ChannelOpen(client[e])
  <2>1. up' = [up EXCEPT ![e] = Append(@, Frame("unpair", t))] BY <1>3 DEF ClientUnpair
  <2>2. Frame("unpair", t) \in FrameType /\ \A w \in Tokens : Frame("unpair", t) # Frame("pair", w)
    BY FrameTypes
  <2>3. up' \in [Endpoints -> Seq(FrameType)] BY <1>0, <2>1, <2>2
  <2>4. Fresh(Relay, client', up') BY <1>0, <1>1, <2>1, <2>2, FreshSay
  <2> QED BY <1>1, <1>2, <2>3, <2>4, ClientKeeps, SoundNext
<1>4. CASE ~ChannelOpen(client[e])
  <2>1. up' = up BY <1>4 DEF ClientUnpair
  <2>2. Fresh(Relay, client', up) BY <1>0, <1>1 DEF Fresh
  <2> QED BY <1>0, <1>1, <1>2, <2>1, <2>2, ClientKeeps, SoundNext
<1> QED BY <1>3, <1>4

LEMMA ClientCloseSound ==
  ASSUME Sound, NEW e \in Endpoints, ClientClose(e)
  PROVE  Sound'
<1>0. Fresh(Relay, client, up) /\ client \in [Endpoints -> ClientType] /\ up \in [Endpoints -> Seq(FrameType)]
  BY DEF Sound, Accounts
<1>1. client' \in [Endpoints -> ClientType] /\ \A z \in Endpoints : client[z].used = client'[z].used
  BY <1>0, ClosedClientUses DEF ClientClose
<1>2. up' = [up EXCEPT ![e] = Append(@, Control("close"))] /\ UNCHANGED relayVars BY DEF ClientClose
<1>3. Control("close") \in FrameType /\ \A t \in Tokens : Control("close") # Frame("pair", t) BY FrameTypes
<1>4. up' \in [Endpoints -> Seq(FrameType)] BY <1>0, <1>2, <1>3
<1>5. Fresh(Relay, client', up') BY <1>0, <1>1, <1>2, <1>3, FreshSay
<1> QED BY <1>1, <1>2, <1>4, <1>5, ClientKeeps, SoundNext

LEMMA ClientReceiveSound ==
  ASSUME Sound, NEW e \in Endpoints, ClientReceive(e)
  PROVE  Sound'
<1>0. Fresh(Relay, client, up) /\ client \in [Endpoints -> ClientType] /\ up \in [Endpoints -> Seq(FrameType)]
  BY DEF Sound, Accounts
<1>1. client' \in [Endpoints -> ClientType] /\ \A z \in Endpoints : client[z].used = client'[z].used
  <2> DEFINE m == Head(down[e])
  <2>1. \/ client' = client
        \/ client' = [client EXCEPT ![e].remote = TRUE]
        \/ client' = [client EXCEPT ![e].requests = @ \ {m.token}]
        \/ client' = ClosedClient(e)
    BY DEF ClientReceive
  <2> HIDE DEF m
  <2>2. CASE client' = client BY <1>0, <2>2
  <2>3. CASE client' = [client EXCEPT ![e].remote = TRUE] BY <1>0, <2>3 DEF ClientType
  <2>4. CASE client' = [client EXCEPT ![e].requests = @ \ {m.token}] BY <1>0, <2>4 DEF ClientType
  <2>5. CASE client' = ClosedClient(e) BY <1>0, <2>5, ClosedClientUses
  <2> QED BY <2>1, <2>2, <2>3, <2>4, <2>5
<1>2. up' = up /\ UNCHANGED relayVars BY DEF ClientReceive
<1>3. Fresh(Relay, client', up) BY <1>0, <1>1 DEF Fresh
<1> QED BY <1>0, <1>1, <1>2, <1>3, ClientKeeps, SoundNext

\* on_unpair forgets the pairing, or destroys the stream.
LEMMA OnUnpairGood ==
  ASSUME Good(Relay, {}), NEW e \in Endpoints, NEW t
  PROVE  Good(OnUnpair(e, t), {}) /\ Shrinks(Relay, OnUnpair(e, t))
<1> DEFINE w == Without(Relay, {t})
           c == [w.session[e] EXCEPT !.tokens = @ \ {t}]
           p == [w EXCEPT !.session[e].tokens = @ \ {t}]
           left == IF t \in session[e].tokens THEN EndMaybe(p, e) ELSE Relay
           mine == {s \in left.session[e].streams : s.token = t}
           o == OnUnpair(e, t)
<1>0. Typed(Relay) BY DEF Good
<1>1. o = [left EXCEPT !.session[e].streams = @ \ mine, !.streams = @ \ mine, !.spoiled = @ \cup {t}] BY DEF OnUnpair
<1>2. Good(left, {}) /\ Shrinks(Relay, left)
  <2>1. CASE t \in session[e].tokens
    <3>1. Good(w, {}) /\ Shrinks(Relay, w) BY WithoutGood
    <3>3. t \in Tokens => w.pairings[t].links = {} BY <1>0, WithoutLinks
    <3> HIDE DEF w
    <3>4. Typed(w) BY <3>1 DEF Good
    <3>5. c \in SessionType /\ c.closed = w.session[e].closed /\ c.streams = w.session[e].streams
          /\ c.tokens = w.session[e].tokens \ {t}
      BY <3>4 DEF Typed, SessionType
    <3>6. p = WithSession(w, e, c)
      <4> DEFINE q == [w.session EXCEPT ![e].tokens = @ \ {t}]
      <4>1. p = [w EXCEPT !.session = q] OBVIOUS
      <4>2. q = [w.session EXCEPT ![e] = c] OBVIOUS
      <4> HIDE DEF q, p, c
      <4>3. p = [session |-> q, pairings |-> w.pairings, streams |-> w.streams,
                 down |-> w.down, spoiled |-> w.spoiled, leaked |-> w.leaked]
        BY <3>4, <4>1 DEF Typed
      <4> QED BY <4>2, <4>3 DEF WithSession
    <3> HIDE DEF p, c
    <3>7. /\ Typed(p) /\ p.pairings = w.pairings /\ p.streams = w.streams /\ p.leaked = w.leaked
          /\ p.session[e] = c /\ \A y \in Endpoints \ {e} : p.session[y] = w.session[y]
      BY <3>4, <3>5, <3>6, SessionFields
    <3>8. Linked(p)
      <4> SUFFICES ASSUME NEW u \in Tokens, NEW z \in p.pairings[u].links PROVE ~p.session[z].closed /\ u \in p.session[z].tokens
        BY DEF Linked
      <4>1. z \in w.pairings[u].links /\ u # t BY <3>3, <3>7
      <4>2. z \in Endpoints /\ ~w.session[z].closed /\ u \in w.session[z].tokens
        BY <3>1, <4>1 DEF Good, Typed, PairingType, Linked
      <4> QED BY <3>5, <3>7, <4>1, <4>2
    <3>9. Mine(p) BY <3>1, <3>5, <3>7 DEF Good, Mine
    <3>10. Owned(p, {}) BY <3>1, <3>5, <3>7 DEF Good, Owned
    <3>11. Unmet(p) /\ Known(p) BY <3>1, <3>7 DEF Good, Unmet, Known
    <3>12. Good(p, {}) BY <3>7, <3>8, <3>9, <3>10, <3>11 DEF Good
    <3>13. Shrinks(Relay, p) BY <3>1, <3>7 DEF Shrinks
    <3>14. Good(EndMaybe(p, e), {}) /\ Shrinks(p, EndMaybe(p, e)) BY <3>12, EndMaybeGood
    <3>15. left = EndMaybe(p, e) BY <2>1
    <3> HIDE DEF left
    <3> QED BY <3>13, <3>14, <3>15, ShrinksTrans
  <2>2. CASE t \notin session[e].tokens
    <3>1. left = Relay BY <2>2
    <3> HIDE DEF left
    <3> QED BY <3>1 DEF Shrinks
  <2> QED BY <2>1, <2>2
<1> HIDE DEF left, o
<1>3. Typed(left) BY <1>2 DEF Good
<1> DEFINE k == [left.session[e] EXCEPT !.streams = @ \ mine]
<1>4. /\ k \in SessionType /\ k.streams = left.session[e].streams \ mine
      /\ k.closed = left.session[e].closed /\ k.tokens = left.session[e].tokens
  BY <1>3 DEF Typed, SessionType
<1>5. mine \subseteq left.session[e].streams OBVIOUS
<1> HIDE DEF mine
<1>6. /\ Typed(o) /\ o.pairings = left.pairings /\ o.leaked = left.leaked /\ o.streams = left.streams \ mine
      /\ o.session[e] = k /\ \A y \in Endpoints \ {e} : o.session[y] = left.session[y]
  <2> DEFINE q == [left.session EXCEPT ![e].streams = @ \ mine]
             a == left.streams \ mine
             b == left.spoiled \cup {t}
  <2>1. o = [left EXCEPT !.session = q, !.streams = a, !.spoiled = b] BY <1>1
  <2>2. q = [left.session EXCEPT ![e] = k] OBVIOUS
  <2> HIDE DEF q, k
  <2>3. q \in [Endpoints -> SessionType] /\ q[e] = k /\ \A y \in Endpoints \ {e} : q[y] = left.session[y]
    BY <1>3, <1>4, <2>2 DEF Typed
  <2> HIDE DEF a, b
  <2>4. o = [session |-> q, pairings |-> left.pairings, streams |-> a,
             down |-> left.down, spoiled |-> b, leaked |-> left.leaked]
    BY <1>3, <2>1 DEF Typed
  <2>5. Typed(o) BY <1>3, <2>3, <2>4 DEF Typed
  <2> QED BY <2>3, <2>4, <2>5 DEF a
<1> HIDE DEF k
<1>7. Linked(o)
  <2> SUFFICES ASSUME NEW u \in Tokens, NEW z \in o.pairings[u].links PROVE ~o.session[z].closed /\ u \in o.session[z].tokens
    BY DEF Linked
  <2>1. z \in left.pairings[u].links /\ z \in Endpoints /\ ~left.session[z].closed /\ u \in left.session[z].tokens
    BY <1>2, <1>6 DEF Good, Typed, PairingType, Linked
  <2> QED BY <1>4, <1>6, <2>1
<1>8. Mine(o) BY <1>2, <1>4, <1>6 DEF Good, Mine
<1>9. Owned(o, {})
  <2> SUFFICES ASSUME NEW z \in Endpoints, NEW u \in Tokens
               PROVE  (Stream(u, z) \in o.streams /\ Stream(u, z) \notin o.leaked) <=> Stream(u, z) \in o.session[z].streams
    BY DEF Owned
  <2>1. (Stream(u, z) \in left.streams /\ Stream(u, z) \notin left.leaked) <=> Stream(u, z) \in left.session[z].streams
    BY <1>2 DEF Good, Owned
  <2>2. CASE z = e BY <1>4, <1>6, <2>1, <2>2
  <2>3. CASE z # e
    <3>1. Stream(u, z).owner = z BY DEF Stream
    <3>2. Stream(u, z) \notin mine BY <1>2, <1>5, <2>3, <3>1 DEF Good, Mine
    <3> QED BY <1>6, <2>1, <2>3, <3>2
  <2> QED BY <2>2, <2>3
<1>10. Unmet(o) /\ Known(o) BY <1>2, <1>6 DEF Good, Unmet, Known
<1>11. Good(o, {}) BY <1>6, <1>7, <1>8, <1>9, <1>10 DEF Good
<1>12. Shrinks(Relay, o) BY <1>2, <1>6 DEF Shrinks
<1> QED BY <1>11, <1>12 DEF o

\* on_pair: refused, or joined once what is old is gone.
LEMMA OnPairGood ==
  ASSUME Good(Relay, {}), NEW t \in Tokens, NEW e \in Endpoints, ~session[e].closed, ~HadIn(Relay, e, t),
         NEW o \in OnPair(e, t)
  PROVE  Good(o, {}) /\ Adds(Relay, o, t, e)
<1>0. Typed(Relay) BY DEF Good
<1>1. CASE Cardinality(Waiting) >= MaxPairings /\ t \notin Waiting
  <2> DEFINE d == Relay.spoiled \cup {t}
  <2>1. o = [Relay EXCEPT !.spoiled = d] BY <1>1 DEF OnPair
  <2> HIDE DEF d
  <2>2. /\ Typed(o) /\ o.session = Relay.session /\ o.pairings = Relay.pairings
        /\ o.streams = Relay.streams /\ o.leaked = Relay.leaked
    BY <1>0, <2>1, SpoiledFields
  <2> QED BY <2>2, SameGood, ShrinksAdds
<1>2. CASE ~(Cardinality(Waiting) >= MaxPairings /\ t \notin Waiting)
  <2>1. o \in Join(Evicted(Relay), t, e) BY <1>2 DEF OnPair
  <2>2. Good(Evicted(Relay), {}) /\ Shrinks(Relay, Evicted(Relay)) /\ Evicted(Relay).session = session
    BY EvictedGood, RelayTyped
  <2>3. \A z \in Endpoints, u \in Tokens : HadIn(Evicted(Relay), z, u) => HadIn(Relay, z, u)
    BY <2>2 DEF Shrinks, HadIn
  <2>4. Good(o, {}) /\ Adds(Evicted(Relay), o, t, e) BY <2>1, <2>2, <2>3, JoinGood
  <2> QED BY <2>3, <2>4 DEF Adds
<1> QED BY <1>1, <1>2

\* A session that only notes that it is open or ending.
LEMMA AlteredGood ==
  ASSUME NEW q, Good(q, {}), NEW r, Typed(r), NEW e \in Endpoints, NEW c,
         r.pairings = q.pairings, r.streams = q.streams, r.leaked = q.leaked,
         r.session[e] = c, \A y \in Endpoints \ {e} : r.session[y] = q.session[y],
         c.closed = q.session[e].closed, c.streams = q.session[e].streams, c.tokens = q.session[e].tokens
  PROVE  Good(r, {}) /\ Shrinks(q, r)
<1>1. \A y \in Endpoints : /\ r.session[y].closed = q.session[y].closed
                           /\ r.session[y].streams = q.session[y].streams
                           /\ r.session[y].tokens = q.session[y].tokens
  OBVIOUS
<1>2. \A u \in Tokens : \A z \in q.pairings[u].links : z \in Endpoints BY DEF Good, Typed, PairingType
<1>3. Linked(r) BY <1>1, <1>2 DEF Good, Linked
<1>4. Mine(r) /\ Owned(r, {}) BY <1>1 DEF Good, Mine, Owned
<1>5. Unmet(r) /\ Known(r) BY DEF Good, Unmet, Known
<1> QED BY <1>3, <1>4, <1>5 DEF Good, Shrinks

LEMMA RelayReceiveSound ==
  ASSUME Sound, NEW e \in Endpoints, RelayReceive(e)
  PROVE  Sound'
<1> DEFINE m == Head(up[e])
<1>0. /\ Good(Relay, {}) /\ Typed(Relay) /\ Fresh(Relay, client, up)
      /\ client \in [Endpoints -> ClientType] /\ up \in [Endpoints -> Seq(FrameType)]
  BY DEF Sound, Accounts, Good
<1>1. up[e] # << >> /\ up' = [up EXCEPT ![e] = Tail(@)] /\ client' = client BY DEF RelayReceive
<1>2. up' \in [Endpoints -> Seq(FrameType)] BY <1>0, <1>1
<1>3. m \in FrameType /\ up[e] \in Seq(FrameType) /\ m = up[e][1] /\ 1 \in 1 .. Len(up[e]) BY <1>0, <1>1
<1>4. PICK r \in CASE session[e].closed -> {[Relay EXCEPT !.spoiled = IF m.type = "pair" THEN @ \cup {m.token} ELSE @]}
                [] ~session[e].closed /\ m.type = "open" -> {[Relay EXCEPT !.session[e].opened = TRUE]}
                [] ~session[e].closed /\ m.type = "pair" -> OnPair(e, m.token)
                [] ~session[e].closed /\ m.type = "unpair" -> {OnUnpair(e, m.token)}
                [] OTHER -> {OnClose(Relay, e)} :
       Becomes(r)
  BY DEF RelayReceive
<1>5. \/ r = [Relay EXCEPT !.spoiled = IF m.type = "pair" THEN @ \cup {m.token} ELSE @]
      \/ r = [Relay EXCEPT !.session[e].opened = TRUE]
      \/ ~session[e].closed /\ m.type = "pair" /\ r \in OnPair(e, m.token)
      \/ r = OnUnpair(e, m.token)
      \/ r = OnClose(Relay, e)
  BY <1>4
<1>6. Good(r, {}) /\ (Shrinks(Relay, r) \/ \E t \in Tokens : m = Frame("pair", t) /\ Adds(Relay, r, t, e))
  <2>1. CASE r = [Relay EXCEPT !.spoiled = IF m.type = "pair" THEN @ \cup {m.token} ELSE @]
    <3> DEFINE d == IF m.type = "pair" THEN Relay.spoiled \cup {m.token} ELSE Relay.spoiled
    <3>1. r = [Relay EXCEPT !.spoiled = d] BY <2>1
    <3> HIDE DEF d
    <3>2. /\ Typed(r) /\ r.session = Relay.session /\ r.pairings = Relay.pairings
          /\ r.streams = Relay.streams /\ r.leaked = Relay.leaked
      BY <1>0, <3>1, SpoiledFields
    <3> QED BY <1>0, <3>2, SameGood
  <2>2. CASE r = [Relay EXCEPT !.session[e].opened = TRUE]
    <3> DEFINE c == [Relay.session[e] EXCEPT !.opened = TRUE]
    <3>1. /\ c \in SessionType /\ c.closed = Relay.session[e].closed
          /\ c.streams = Relay.session[e].streams /\ c.tokens = Relay.session[e].tokens
      BY <1>0 DEF Typed, SessionType
    <3>2. r = WithSession(Relay, e, c)
      <4> DEFINE q == [Relay.session EXCEPT ![e].opened = TRUE]
      <4>1. r = [Relay EXCEPT !.session = q] BY <2>2
      <4>2. q = [Relay.session EXCEPT ![e] = c] OBVIOUS
      <4> HIDE DEF q, c
      <4>3. r = [session |-> q, pairings |-> Relay.pairings, streams |-> Relay.streams,
                 down |-> Relay.down, spoiled |-> Relay.spoiled, leaked |-> Relay.leaked]
        BY <1>0, <4>1 DEF Typed
      <4> QED BY <4>2, <4>3 DEF WithSession
    <3> HIDE DEF c
    <3>3. /\ Typed(r) /\ r.pairings = Relay.pairings /\ r.streams = Relay.streams /\ r.leaked = Relay.leaked
          /\ r.session[e] = c /\ \A y \in Endpoints \ {e} : r.session[y] = Relay.session[y]
      BY <1>0, <3>1, <3>2, SessionFields
    <3> QED BY <1>0, <3>1, <3>3, AlteredGood
  <2>3. CASE ~session[e].closed /\ m.type = "pair" /\ r \in OnPair(e, m.token)
    <3>1. m.token \in Tokens /\ m = Frame("pair", m.token) BY <1>3, <2>3 DEF FrameType, Frame
    <3>2. PairAt(up, e, m.token, 1) BY <1>3, <3>1 DEF PairAt
    <3>3. ~HadIn(Relay, e, m.token) BY <1>0, <3>1, <3>2 DEF Fresh
    <3> HIDE DEF m
    <3> QED BY <1>0, <2>3, <3>1, <3>3, OnPairGood
  <2>4. CASE r = OnUnpair(e, m.token) BY <1>0, <2>4, OnUnpairGood
  <2>5. CASE r = OnClose(Relay, e) BY <1>0, <2>5, OnCloseGood
  <2> QED BY <1>5, <2>1, <2>2, <2>3, <2>4, <2>5
<1>7. Relay' = r BY <1>4, <1>6, RelayNext DEF Good
<1>8. Fresh(r, client, up') BY <1>0, <1>1, <1>6, FreshReceive
<1> QED BY <1>0, <1>1, <1>2, <1>6, <1>7, <1>8, SoundNext

LEMMA SessionCloseSound ==
  ASSUME Sound, NEW e \in Endpoints, SessionClose(e) \/ SessionDestroy(e)
  PROVE  Sound'
<1>0. /\ Good(Relay, {}) /\ Typed(Relay) /\ Fresh(Relay, client, up)
      /\ client \in [Endpoints -> ClientType] /\ up \in [Endpoints -> Seq(FrameType)]
  BY DEF Sound, Accounts, Good
<1>1. client' = client /\ up' = up BY DEF SessionClose, SessionDestroy
<1>2. PICK r : Becomes(r) /\ r \in {CloseChannel(Relay, e), [Relay EXCEPT !.session[e].ending = TRUE]}
  <2>1. CASE SessionDestroy(e) BY <2>1 DEF SessionDestroy
  <2>2. CASE SessionClose(e) /\ session[e].tokens = {} BY <2>2 DEF SessionClose
  <2>3. CASE SessionClose(e) /\ session[e].tokens # {} BY <2>3 DEF SessionClose
  <2> QED BY <2>1, <2>2, <2>3
<1>3. Good(r, {}) /\ Shrinks(Relay, r)
  <2>1. CASE r = CloseChannel(Relay, e) BY <1>0, <2>1, CloseChannelGood
  <2>2. CASE r = [Relay EXCEPT !.session[e].ending = TRUE]
    <3> DEFINE c == [Relay.session[e] EXCEPT !.ending = TRUE]
    <3>1. /\ c \in SessionType /\ c.closed = Relay.session[e].closed
          /\ c.streams = Relay.session[e].streams /\ c.tokens = Relay.session[e].tokens
      BY <1>0 DEF Typed, SessionType
    <3>2. r = WithSession(Relay, e, c)
      <4> DEFINE q == [Relay.session EXCEPT ![e].ending = TRUE]
      <4>1. r = [Relay EXCEPT !.session = q] BY <2>2
      <4>2. q = [Relay.session EXCEPT ![e] = c] OBVIOUS
      <4> HIDE DEF q, c
      <4>3. r = [session |-> q, pairings |-> Relay.pairings, streams |-> Relay.streams,
                 down |-> Relay.down, spoiled |-> Relay.spoiled, leaked |-> Relay.leaked]
        BY <1>0, <4>1 DEF Typed
      <4> QED BY <4>2, <4>3 DEF WithSession
    <3> HIDE DEF c
    <3>3. /\ Typed(r) /\ r.pairings = Relay.pairings /\ r.streams = Relay.streams /\ r.leaked = Relay.leaked
          /\ r.session[e] = c /\ \A y \in Endpoints \ {e} : r.session[y] = Relay.session[y]
      BY <1>0, <3>1, <3>2, SessionFields
    <3> QED BY <1>0, <3>1, <3>3, AlteredGood
  <2> QED BY <1>2, <2>1, <2>2
<1>4. Relay' = r BY <1>2, <1>3, RelayNext DEF Good
<1>5. Fresh(r, client, up) BY <1>0, <1>3, FreshStays
<1> QED BY <1>0, <1>1, <1>3, <1>4, <1>5, SoundNext

LEMMA ServerCloseSound ==
  ASSUME Sound, ServerClose
  PROVE  Sound'
<1>0. /\ Good(Relay, {}) /\ Typed(Relay) /\ Fresh(Relay, client, up)
      /\ client \in [Endpoints -> ClientType] /\ up \in [Endpoints -> Seq(FrameType)]
  BY DEF Sound, Accounts, Good
<1>1. client' = client /\ up' = up /\ leaked' = leaked BY DEF ServerClose
<1>2. session \in [Endpoints -> SessionType] BY <1>0, RelayTyped DEF Typed
<1>3. session' \in [Endpoints -> SessionType] /\ \A z \in Endpoints : session'[z].streams = {}
  BY <1>2 DEF ServerClose, SessionType
<1>4. pairings' \in [Tokens -> PairingType] /\ \A t \in Tokens : pairings'[t].links = {}
  BY DEF ServerClose, NoPairing, PairingType
<1>5. streams' \subseteq streams /\ \A z \in Endpoints : \A s \in session[z].streams : s \notin streams'
  BY DEF ServerClose
<1> DEFINE o == Relay'
<1>6. o = [session |-> session', pairings |-> pairings', streams |-> streams',
           down |-> down', spoiled |-> spoiled', leaked |-> leaked']
  BY DEF Relay
<1> HIDE DEF o
<1>7. Typed(o) BY <1>3, <1>4, <1>6 DEF Typed
<1>8. Linked(o) /\ Mine(o) /\ Unmet(o) BY <1>3, <1>4, <1>6 DEF Linked, Mine, Unmet
<1>9. Owned(o, {})
  <2>1. \A z \in Endpoints, t \in Tokens : Stream(t, z) \in streams /\ Stream(t, z) \notin leaked => Stream(t, z) \in session[z].streams
    BY <1>0, RelayTyped DEF Good, Owned
  <2> QED BY <1>1, <1>3, <1>5, <1>6, <2>1 DEF Owned
<1>10. Known(o) BY <1>0, <1>1, <1>5, <1>6, RelayTyped DEF Good, Known
<1>11. Good(o, {}) BY <1>7, <1>8, <1>9, <1>10 DEF Good
<1>12. Shrinks(Relay, o) BY <1>1, <1>4, <1>5, <1>6, RelayTyped DEF Shrinks
<1>13. Fresh(o, client, up) BY <1>0, <1>12, FreshStays
<1> QED BY <1>0, <1>1, <1>11, <1>13, SoundNext DEF o

LEMMA DisconnectSound ==
  ASSUME Sound, NEW e \in Endpoints, Disconnect(e)
  PROVE  Sound'
<1> DEFINE q == IF session[e].closed THEN Relay ELSE OnClose(Relay, e)
           r == [q EXCEPT !.down[e] = << >>, !.spoiled = @ \cup client[e].used]
<1>0. /\ Good(Relay, {}) /\ Typed(Relay) /\ Fresh(Relay, client, up)
      /\ client \in [Endpoints -> ClientType] /\ up \in [Endpoints -> Seq(FrameType)]
  BY DEF Sound, Accounts, Good
<1>1. Becomes(r) /\ client' = ClosedClient(e) /\ up' = [up EXCEPT ![e] = << >>] BY DEF Disconnect
<1>2. Good(q, {}) /\ Shrinks(Relay, q)
  <2>1. CASE session[e].closed
    <3>1. q = Relay BY <2>1
    <3> HIDE DEF q
    <3> QED BY <1>0, <3>1 DEF Shrinks
  <2>2. CASE ~session[e].closed
    <3>1. q = OnClose(Relay, e) BY <2>2
    <3> HIDE DEF q
    <3> QED BY <1>0, <3>1, OnCloseGood
  <2> QED BY <2>1, <2>2
<1> HIDE DEF q
<1>3. Typed(r) /\ r.session = q.session /\ r.pairings = q.pairings /\ r.streams = q.streams /\ r.leaked = q.leaked
  <2> DEFINE a == [q.down EXCEPT ![e] = << >>]
             b == q.spoiled \cup client[e].used
  <2>1. r = [q EXCEPT !.down = a, !.spoiled = b] OBVIOUS
  <2> HIDE DEF a, b, r
  <2>2. r = [session |-> q.session, pairings |-> q.pairings, streams |-> q.streams,
             down |-> a, spoiled |-> b, leaked |-> q.leaked]
    BY <1>2, <2>1 DEF Good, Typed
  <2> QED BY <1>2, <2>2 DEF Good, Typed
<1> HIDE DEF r
<1>4. Good(r, {}) /\ Shrinks(q, r) BY <1>2, <1>3, SameGood
<1>5. Shrinks(Relay, r) BY <1>2, <1>4, ShrinksTrans
<1>6. Relay' = r BY <1>1, <1>3, RelayNext
<1>7. client' \in [Endpoints -> ClientType] /\ \A z \in Endpoints : client[z].used = client'[z].used
  BY <1>0, <1>1, ClosedClientUses
<1>8. up' \in [Endpoints -> Seq(FrameType)] /\ \A z \in Endpoints : up'[z] = up[z] \/ up'[z] = << >>
  <2>1. << >> \in Seq(FrameType) OBVIOUS
  <2> QED BY <1>0, <1>1, <2>1
<1>9. Fresh(r, client', up') BY <1>0, <1>5, <1>7, <1>8, FreshStays
<1> QED BY <1>4, <1>6, <1>7, <1>8, <1>9, SoundNext

LEMMA AgeSound ==
  ASSUME Sound, NEW t \in Tokens, Age(t)
  PROVE  Sound'
<1>0. /\ Good(Relay, {}) /\ Typed(Relay) /\ Fresh(Relay, client, up)
      /\ client \in [Endpoints -> ClientType] /\ up \in [Endpoints -> Seq(FrameType)]
  BY DEF Sound, Accounts, Good
<1>1. pairings \in [Tokens -> PairingType] BY <1>0, RelayTyped DEF Typed
<1>2. pairings' \in [Tokens -> PairingType] /\ \A u \in Tokens : pairings'[u].links = pairings[u].links
  BY <1>1 DEF Age, PairingType
<1>3. UNCHANGED <<client, session, up, down, streams, spoiled, leaked>> BY DEF Age
<1> DEFINE o == Relay'
<1>4. o = [session |-> session, pairings |-> pairings', streams |-> streams,
           down |-> down, spoiled |-> spoiled, leaked |-> leaked]
  BY <1>3 DEF Relay
<1> HIDE DEF o
<1>5. Typed(o) BY <1>0, <1>2, <1>4, RelayTyped DEF Typed
<1>6. /\ o.session = Relay.session /\ o.streams = Relay.streams /\ o.leaked = Relay.leaked
      /\ \A u \in Tokens : o.pairings[u].links = Relay.pairings[u].links
  BY <1>2, <1>4, RelayTyped
<1>7. Linked(o) /\ Mine(o) BY <1>0, <1>6 DEF Good, Linked, Mine
<1>8. Owned(o, {}) /\ Unmet(o) /\ Known(o) BY <1>0, <1>6 DEF Good, Owned, Unmet, Known
<1>9. Good(o, {}) BY <1>5, <1>7, <1>8 DEF Good
<1>10. Shrinks(Relay, o) BY <1>6 DEF Shrinks
<1>11. Fresh(o, client, up) BY <1>0, <1>10, FreshStays
<1> QED BY <1>0, <1>3, <1>9, <1>11, SoundNext DEF o

LEMMA NextSound == Sound /\ [Next]_vars => Sound'
<1> SUFFICES ASSUME Sound, [Next]_vars PROVE Sound' OBVIOUS
<1>1. ASSUME NEW e \in Endpoints, ClientOpen(e) PROVE Sound' BY <1>1, ClientOpenSound
<1>2. ASSUME NEW e \in Endpoints, ClientClose(e) PROVE Sound' BY <1>2, ClientCloseSound
<1>3. ASSUME NEW e \in Endpoints, ClientReceive(e) PROVE Sound' BY <1>3, ClientReceiveSound
<1>4. ASSUME NEW e \in Endpoints, NEW t \in Tokens, ClientPair(e, t) PROVE Sound' BY <1>4, ClientPairSound
<1>5. ASSUME NEW e \in Endpoints, NEW t \in Tokens, ClientUnpair(e, t) PROVE Sound' BY <1>5, ClientUnpairSound
<1>6. ASSUME NEW e \in Endpoints, RelayReceive(e) PROVE Sound' BY <1>6, RelayReceiveSound
<1>7. ASSUME NEW e \in Endpoints, SessionClose(e) \/ SessionDestroy(e) PROVE Sound' BY <1>7, SessionCloseSound
<1>8. ASSUME NEW e \in Endpoints, Disconnect(e) PROVE Sound' BY <1>8, DisconnectSound
<1>9. CASE ServerClose BY <1>9, ServerCloseSound
<1>10. ASSUME NEW t \in Tokens, Age(t) PROVE Sound' BY <1>10, AgeSound
<1>11. CASE UNCHANGED vars
  <2>1. Relay' = Relay /\ client' = client /\ up' = up BY <1>11 DEF vars, Relay
  <2> QED BY <2>1, SoundNext DEF Sound, Accounts
<1> QED BY <1>1, <1>2, <1>3, <1>4, <1>5, <1>6, <1>7, <1>8, <1>9, <1>10, <1>11 DEF Next

LEMMA SoundIsSafe == Sound => LinksLive /\ StreamsOwned
<1> SUFFICES ASSUME Sound PROVE LinksLive /\ StreamsOwned OBVIOUS
<1>0. Good(Relay, {}) BY DEF Sound, Accounts
<1>1. LinksLive BY <1>0, RelayTyped DEF Good, Linked, LinksLive
<1>2. \A z \in Endpoints : session[z].closed => session[z].streams = {} BY <1>0, RelayTyped DEF Good, Mine
<1>3. \A z \in Endpoints : session[z].streams \subseteq [token : Tokens, owner : Endpoints]
  BY <1>0, RelayTyped DEF Good, Typed, SessionType
<1>4. \A s \in [token : Tokens, owner : Endpoints] : s = Stream(s.token, s.owner) /\ s.token \in Tokens /\ s.owner \in Endpoints
  BY DEF Stream
<1>5. \A s \in [token : Tokens, owner : Endpoints] : s \in streams \ leaked <=> s \in session[s.owner].streams
  BY <1>0, <1>4, RelayTyped DEF Good, Owned
<1>6. streams \subseteq [token : Tokens, owner : Endpoints] BY <1>0, RelayTyped DEF Good, Known
<1>7. \A z \in Endpoints : \A s \in session[z].streams : s.owner = z BY <1>0, RelayTyped DEF Good, Mine
<1>8. ASSUME NEW s PROVE s \in streams \ leaked <=> \E z \in Endpoints : s \in session[z].streams
  <2>1. ASSUME s \in streams \ leaked PROVE \E z \in Endpoints : s \in session[z].streams
    BY <1>4, <1>5, <1>6, <2>1
  <2>2. ASSUME NEW z \in Endpoints, s \in session[z].streams PROVE s \in streams \ leaked
    BY <1>3, <1>5, <1>7, <2>2
  <2> QED BY <2>1, <2>2
<1>9. streams \ leaked = UNION {session[z].streams : z \in Endpoints} BY <1>8
<1> QED BY <1>1, <1>2, <1>9 DEF StreamsOwned

\* The inductive invariant: pairings, sessions, streams and the tokens on their way
\* fit together after any sequence of frames, closes, evictions and lost connections.
THEOREM SoundTheorem == Spec => []Sound
BY InitSound, NextSound, PTL DEF Spec

\* on_pair never follows the pointer of a session that has gone, for any number of
\* endpoints, tokens and pairings.
THEOREM LinksLiveTheorem == Spec => []LinksLive
BY SoundTheorem, SoundIsSafe, PTL

\* Every relay stream but those that a failed match abandoned belongs to one open
\* session, which destroys it when it closes.
THEOREM StreamsOwnedTheorem == Spec => []StreamsOwned
BY SoundTheorem, SoundIsSafe, PTL

-----------------------------------------------------------------------------
(* Protomux: what holds of an end m, the other end q, and the frames v on   *)
(* the way from m to q.                                                     *)

\* The states of a channel whose OPEN was sent.
Opened == {"sent", "open", "gone"}

\* A packet list w of which the first n frames of the first packet are done with:
\* f is still on the way in it.
Left(w, n, a, b) == a \in DOMAIN w /\ b \in DOMAIN w[a] /\ (a > 1 \/ b > n)
OnWay(w, n, f) == \E a \in DOMAIN w : \E b \in DOMAIN w[a] : Left(w, n, a, b) /\ w[a][b] = f
Precedes(a, b, c, d) == a < c \/ (a = c /\ b < d)
\* Wherever f and g are on the way, f comes first.
Ordered(w, n, f, g) ==
  \A a, c \in DOMAIN w : \A b \in DOMAIN w[a], d \in DOMAIN w[c] :
    Left(w, n, a, b) /\ Left(w, n, c, d) /\ w[a][b] = f /\ w[c][d] = g => Precedes(a, b, c, d)
Once(w, n, f) ==
  \A a, c \in DOMAIN w : \A b \in DOMAIN w[a], d \in DOMAIN w[c] :
    Left(w, n, a, b) /\ Left(w, n, c, d) /\ w[a][b] = f /\ w[c][d] = f => a = c /\ b = d

Held(m) == {m.ch[i].rid : i \in Ids} \cup {m.pending[k] : k \in Keys}

WellKept(m) ==
  /\ \A i \in Ids : /\ m.ch[i].st \in {"none", "new", "sent"} => m.ch[i].rid = None
                    /\ m.ch[i].st = "open" => m.ch[i].rid \in Ids
                    /\ m.ch[i].st # "none" => m.ch[i].key \in Keys
                    /\ i >= m.next <=> m.ch[i].st = "none"
  /\ \A i, r \in Ids : m.remote[r] = i <=> m.ch[i].st = "open" /\ m.ch[i].rid = r
  /\ \A i, j \in Ids : m.ch[i].rid = m.ch[j].rid /\ m.ch[i].rid # None => i = j
  /\ \A i \in Ids, k \in Keys : m.pending[k] # None => m.ch[i].rid # m.pending[k]

\* What q has of m: q's traces, and the frames v on the way to q.
Traced(m, q, v, n) ==
  /\ \A i \in Ids, k \in Keys :
       /\ OnWay(v, n, OpenFrame(i, k)) =>
            m.ch[i].st \in Opened /\ m.ch[i].key = k /\ i \notin Held(q) /\ Once(v, n, OpenFrame(i, k))
       /\ q.pending[k] = i => m.ch[i].key = k
  /\ \A i \in Ids : i \in Held(q) => m.ch[i].st \in Opened

SameKey(m, i, j) == m.ch[i].key = m.ch[j].key
OpenOf(m, i) == OpenFrame(i, m.ch[i].key)

Alone(m) ==
  /\ \A i, j \in Ids : i < j /\ SameKey(m, i, j) /\ m.ch[j].st # "none" =>
       m.ch[i].st = "gone" /\ m.ch[i].rid # None
  /\ \A i \in Ids : Live(m, i) /\ m.pending[m.ch[i].key] # None => m.ch[i].st = "new"
  /\ \A i \in Ids : m.ch[i].st = "gone" /\ m.ch[i].rid = None => m.destroyed = TRUE
  /\ m.destroyed = TRUE => \A i \in Ids : ~Live(m, i)

\* Channel i of m was paired with channel r of q: q knows, or will know, or one of
\* them is destroyed.
Answered(m, q, v, n, i, r) ==
  \/ /\ q.ch[r].st = "sent"
     /\ \/ OnWay(v, n, OpenOf(m, i))
        \/ /\ m.destroyed = TRUE /\ ~OnWay(v, n, CloseFrame(i))
           /\ \A s \in Ids : ~OnWay(v, n, DataFrame(i, s))
  \/ q.ch[r].st \in {"open", "gone"} /\ q.ch[r].rid = i
  \/ q.ch[r].st = "gone" /\ q.ch[r].rid = None /\ q.destroyed = TRUE

\* The peer of a closed channel hears of it, unless the closed one's mux is
\* destroyed: then it hears of no later channel of the key either.
Heard(m, v, n, i) ==
  \/ OnWay(v, n, CloseFrame(i))
  \/ m.destroyed = TRUE /\ \A j \in Ids : SameKey(m, i, j) /\ OnWay(v, n, OpenOf(m, j)) => j <= i

MatchedAt(m, q, v, n, i, r) ==
  /\ q.ch[r].key = m.ch[i].key
  /\ Answered(m, q, v, n, i, r)
  /\ m.ch[i].st = "gone" /\ Live(q, r) => Heard(m, v, n, i)

Matched(m, q, v, n) == \A i, r \in Ids : m.ch[i].rid = r => MatchedAt(m, q, v, n, i, r)

\* The OPEN of channel i of m is on the way, or q has it.
AnnouncedAt(m, q, v, n, i) ==
  \/ OnWay(v, n, OpenOf(m, i))
  \/ q.pending[m.ch[i].key] = i
  \/ \E r \in Ids : q.ch[r].rid = i
  \/ q.destroyed = TRUE

Announced(m, q, v, n) == \A i \in Ids : m.ch[i].st = "sent" => AnnouncedAt(m, q, v, n, i)

InLine(m, q, v, n) ==
  /\ \A i \in Ids :
       /\ Ordered(v, n, OpenOf(m, i), CloseFrame(i))
       /\ OnWay(v, n, CloseFrame(i)) => m.ch[i].st = "gone"
       /\ \A r \in Ids : /\ Ordered(v, n, OpenOf(m, i), DataFrame(i, r))
                         /\ OnWay(v, n, DataFrame(i, r)) => m.ch[i].rid = r
  /\ \A i, j \in Ids : i < j /\ SameKey(m, i, j) =>
       /\ Ordered(v, n, OpenOf(m, i), OpenOf(m, j)) /\ Ordered(v, n, CloseFrame(i), OpenOf(m, j))
       /\ j \in Held(q) => ~OnWay(v, n, OpenOf(m, i)) /\ ~OnWay(v, n, CloseFrame(i))

General(m, q, v, n) == WellKept(m) /\ Traced(m, q, v, n)
Orderly(m, q, v, n) == Alone(m) /\ Matched(m, q, v, n) /\ Announced(m, q, v, n) /\ InLine(m, q, v, n)

\* A set of positions that is not empty has a first one: else each would have another before
\* it, and there are too few counts of those up to it to tell them apart.
LEMMA FirstOf ==
  ASSUME NEW n \in Nat, NEW I \in SUBSET (1 .. n), I # {}
  PROVE  \E m \in I : \A i \in I : m <= i
<1> SUFFICES ASSUME \A m \in I : \E i \in I : ~(m <= i) PROVE FALSE OBVIOUS
<1> DEFINE UpTo(x) == {j \in I : j <= x}
           c == Cardinality(I)
           count == [x \in I |-> Cardinality(UpTo(x))]
<1>1. IsFiniteSet(I) /\ I \subseteq Int
  <2>1. IsFiniteSet(1 .. n) BY FS_Interval
  <2>2. IsFiniteSet(I) BY <2>1, FS_Subset
  <2> QED BY <2>2
<1>2. c \in Nat \ {0} BY <1>1, FS_CardinalityType, FS_EmptySet
<1>3. ASSUME NEW x \in I PROVE IsFiniteSet(UpTo(x)) /\ Cardinality(UpTo(x)) \in 2 .. c
  <2>1. UpTo(x) \in SUBSET I OBVIOUS
  <2>2. IsFiniteSet(UpTo(x)) /\ Cardinality(UpTo(x)) <= c BY <2>1, <1>1, FS_Subset
  <2>3. Cardinality(UpTo(x)) \in Nat BY <2>2, FS_CardinalityType
  <2>4. PICK y \in I : ~(x <= y) OBVIOUS
  <2>5. x \in UpTo(x) /\ y \in UpTo(x) /\ x # y BY <2>4, <1>1
  <2> HIDE DEF UpTo
  <2>6. Cardinality(UpTo(x)) # 0 BY <2>2, <2>5, FS_EmptySet
  <2>7. Cardinality(UpTo(x)) # 1 BY <2>2, <2>5, FS_Singleton
  <2> HIDE DEF c
  <2> QED BY <2>2, <2>3, <2>6, <2>7, <1>2
<1>4. IsFiniteSet(2 .. c) /\ Cardinality(2 .. c) < c
  <2> HIDE DEF c
  <2>1. IsFiniteSet(2 .. c) /\ Cardinality(2 .. c) = IF 2 > c THEN 0 ELSE c - 2 + 1 BY <1>2, FS_Interval
  <2> QED BY <2>1, <1>2
<1>5. count \in [I -> 2 .. c] BY <1>3
<1>6. \E x, y \in I : x # y /\ count[x] = count[y]
  <2> HIDE DEF count
  <2> QED BY <1>1, <1>4, <1>5, FS_PigeonHole
<1>7. PICK x \in I, y \in I : x < y /\ count[x] = count[y]
  <2>1. PICK a \in I, b \in I : a # b /\ count[a] = count[b] BY <1>6
  <2>2. a \in Int /\ b \in Int BY <1>1
  <2>3. a < b \/ b < a BY <2>1, <2>2
  <2> HIDE DEF count
  <2> QED BY <2>1, <2>3
<1>8. UpTo(x) \in SUBSET UpTo(y) /\ y \in UpTo(y) /\ y \notin UpTo(x)
  <2>1. x \in Int /\ y \in Int /\ x < y BY <1>1, <1>7
  <2>2. \A j \in I : j \in Int /\ (j <= x => j <= y) BY <2>1, <1>1
  <2>3. ~(y <= x) /\ y <= y BY <2>1
  <2> QED BY <2>2, <2>3
<1>9. Cardinality(UpTo(x)) = Cardinality(UpTo(y)) BY <1>7
<1>10. IsFiniteSet(UpTo(y)) BY <1>3
<1> HIDE DEF UpTo
<1>11. UpTo(x) = UpTo(y) BY <1>8, <1>9, <1>10, FS_Subset
<1> QED BY <1>8, <1>11

ChanType == [st : ChannelStates, key : Keys \cup {None}, rid : Ids \cup {None}]
MuxFrames == [op : {"open"}, id : Ids, key : Keys] \cup [op : {"close"}, id : Ids]
               \cup [op : {"data"}, id : Ids, from : Ids]
MuxType == [next : Nat \ {0}, ch : [Ids -> ChanType], remote : [Ids -> Ids \cup {None}],
            pending : [Keys -> Ids \cup {None}], last : [Keys -> Ids \cup {None}],
            cork : Nat, batch : Seq(MuxFrames), destroyed : BOOLEAN]

\* The three kinds of frames.
LEMMA FrameKinds ==
  /\ \A i \in Ids, k \in Keys :
       /\ OpenFrame(i, k) \in MuxFrames /\ OpenFrame(i, k).op = "open"
       /\ OpenFrame(i, k).id = i /\ OpenFrame(i, k).key = k
  /\ \A i \in Ids : CloseFrame(i) \in MuxFrames /\ CloseFrame(i).op = "close" /\ CloseFrame(i).id = i
  /\ \A i, r \in Ids :
       /\ DataFrame(i, r) \in MuxFrames /\ DataFrame(i, r).op = "data"
       /\ DataFrame(i, r).id = r /\ DataFrame(i, r).from = i
  /\ \A f \in MuxFrames :
       \/ f.op = "open" /\ f.id \in Ids /\ f.key \in Keys /\ f = OpenFrame(f.id, f.key)
       \/ f.op = "close" /\ f.id \in Ids /\ f = CloseFrame(f.id)
       \/ f.op = "data" /\ f.id \in Ids /\ f.from \in Ids /\ f = DataFrame(f.from, f.id)
<1>1. \A i \in Ids, k \in Keys :
        /\ OpenFrame(i, k) \in MuxFrames /\ OpenFrame(i, k).op = "open"
        /\ OpenFrame(i, k).id = i /\ OpenFrame(i, k).key = k
  BY DEF OpenFrame, MuxFrames
<1>2. \A i \in Ids : CloseFrame(i) \in MuxFrames /\ CloseFrame(i).op = "close" /\ CloseFrame(i).id = i
  BY DEF CloseFrame, MuxFrames
<1>3. \A i, r \in Ids :
        /\ DataFrame(i, r) \in MuxFrames /\ DataFrame(i, r).op = "data"
        /\ DataFrame(i, r).id = r /\ DataFrame(i, r).from = i
  BY DEF DataFrame, MuxFrames
<1>4. ASSUME NEW f \in MuxFrames
      PROVE  \/ f.op = "open" /\ f.id \in Ids /\ f.key \in Keys /\ f = OpenFrame(f.id, f.key)
             \/ f.op = "close" /\ f.id \in Ids /\ f = CloseFrame(f.id)
             \/ f.op = "data" /\ f.id \in Ids /\ f.from \in Ids /\ f = DataFrame(f.from, f.id)
  <2>1. CASE f \in [op : {"open"}, id : Ids, key : Keys] BY <2>1 DEF OpenFrame
  <2>2. CASE f \in [op : {"close"}, id : Ids] BY <2>2 DEF CloseFrame
  <2>3. CASE f \in [op : {"data"}, id : Ids, from : Ids] BY <2>3 DEF DataFrame
  <2> QED BY <2>1, <2>2, <2>3 DEF MuxFrames
<1> QED BY <1>1, <1>2, <1>3, <1>4

\* Frames of one kind are equal if what they name is, and no two kinds are.
LEMMA FramesDiffer ==
  ASSUME NEW i \in Ids, NEW j \in Ids, NEW r \in Ids, NEW s \in Ids, NEW k, NEW l
  PROVE  /\ OpenFrame(i, k) = OpenFrame(j, l) <=> i = j /\ k = l
         /\ CloseFrame(i) = CloseFrame(j) <=> i = j
         /\ DataFrame(i, r) = DataFrame(j, s) <=> i = j /\ r = s
         /\ OpenFrame(i, k) # CloseFrame(j) /\ OpenFrame(i, k) # DataFrame(j, s) /\ CloseFrame(i) # DataFrame(j, s)
<1>1. /\ OpenFrame(i, k).op = "open" /\ OpenFrame(i, k).id = i /\ OpenFrame(i, k).key = k
      /\ OpenFrame(j, l).id = j /\ OpenFrame(j, l).key = l
  BY DEF OpenFrame
<1>2. CloseFrame(i).op = "close" /\ CloseFrame(i).id = i /\ CloseFrame(j).id = j /\ CloseFrame(j).op = "close"
  BY DEF CloseFrame
<1>3. /\ DataFrame(i, r).op = "data" /\ DataFrame(i, r).id = r /\ DataFrame(i, r).from = i
      /\ DataFrame(j, s).op = "data" /\ DataFrame(j, s).id = s /\ DataFrame(j, s).from = j
  BY DEF DataFrame
<1> QED BY <1>1, <1>2, <1>3

Packets == Seq(Seq(MuxFrames))

\* u is w with one frame f more, at the end of the line.
Extended(w, u, f) ==
  \E c \in DOMAIN u : \E d \in DOMAIN u[c] :
    /\ u[c][d] = f
    /\ \A a \in DOMAIN u : \A b \in DOMAIN u[a] :
         \/ a = c /\ b = d
         \/ a \in DOMAIN w /\ b \in DOMAIN w[a] /\ w[a][b] = u[a][b] /\ Precedes(a, b, c, d)
    /\ \A a \in DOMAIN w : \A b \in DOMAIN w[a] :
         a \in DOMAIN u /\ b \in DOMAIN u[a] /\ u[a][b] = w[a][b] /\ ~(a = c /\ b = d)

LEMMA LeftAtStart ==
  ASSUME NEW w \in Packets, NEW a \in DOMAIN w, NEW b \in DOMAIN w[a]
  PROVE  Left(w, 0, a, b) /\ a \in Nat \ {0} /\ b \in Nat \ {0}
<1>1. a \in Nat \ {0} BY DEF Packets
<1>2. w[a] \in Seq(MuxFrames) BY DEF Packets
<1>3. b \in Nat \ {0} BY <1>2
<1>4. b > 0 BY <1>3
<1> QED BY <1>1, <1>3, <1>4 DEF Left

LEMMA Sent ==
  ASSUME NEW w \in Packets, NEW u \in Packets, NEW f, Extended(w, u, f)
  PROVE  /\ \A g : OnWay(u, 0, g) <=> OnWay(w, 0, g) \/ g = f
         /\ \A g, h : g # f /\ Ordered(w, 0, g, h) => Ordered(u, 0, g, h)
         /\ \A h : h # f /\ ~OnWay(w, 0, h) => Ordered(u, 0, f, h)
         /\ \A g : g # f /\ Once(w, 0, g) => Once(u, 0, g)
         /\ ~OnWay(w, 0, f) => Once(u, 0, f)
<1>1. PICK c \in DOMAIN u : \E d \in DOMAIN u[c] :
        /\ u[c][d] = f
        /\ \A a \in DOMAIN u : \A b \in DOMAIN u[a] :
             \/ a = c /\ b = d
             \/ a \in DOMAIN w /\ b \in DOMAIN w[a] /\ w[a][b] = u[a][b] /\ Precedes(a, b, c, d)
        /\ \A a \in DOMAIN w : \A b \in DOMAIN w[a] :
             a \in DOMAIN u /\ b \in DOMAIN u[a] /\ u[a][b] = w[a][b] /\ ~(a = c /\ b = d)
  BY DEF Extended
<1>2. PICK d \in DOMAIN u[c] :
        /\ u[c][d] = f
        /\ \A a \in DOMAIN u : \A b \in DOMAIN u[a] :
             \/ a = c /\ b = d
             \/ a \in DOMAIN w /\ b \in DOMAIN w[a] /\ w[a][b] = u[a][b] /\ Precedes(a, b, c, d)
        /\ \A a \in DOMAIN w : \A b \in DOMAIN w[a] :
             a \in DOMAIN u /\ b \in DOMAIN u[a] /\ u[a][b] = w[a][b] /\ ~(a = c /\ b = d)
  BY <1>1
<1>3. \A a \in DOMAIN u : \A b \in DOMAIN u[a] : Left(u, 0, a, b) BY LeftAtStart
<1>4. \A a \in DOMAIN w : \A b \in DOMAIN w[a] : Left(w, 0, a, b) BY LeftAtStart
<1>5. ASSUME NEW g PROVE OnWay(u, 0, g) <=> OnWay(w, 0, g) \/ g = f
  <2>1. ASSUME OnWay(u, 0, g), g # f PROVE OnWay(w, 0, g)
    <3>1. PICK a \in DOMAIN u : \E b \in DOMAIN u[a] : u[a][b] = g BY <2>1 DEF OnWay
    <3>2. PICK b \in DOMAIN u[a] : u[a][b] = g BY <3>1
    <3>3. a \in DOMAIN w /\ b \in DOMAIN w[a] /\ w[a][b] = g BY <1>2, <2>1, <3>2
    <3> QED BY <3>3, <1>4 DEF OnWay
  <2>2. ASSUME OnWay(w, 0, g) PROVE OnWay(u, 0, g)
    <3>1. PICK a \in DOMAIN w : \E b \in DOMAIN w[a] : w[a][b] = g BY <2>2 DEF OnWay
    <3>2. PICK b \in DOMAIN w[a] : w[a][b] = g BY <3>1
    <3>3. a \in DOMAIN u /\ b \in DOMAIN u[a] /\ u[a][b] = g BY <1>2, <3>2
    <3> QED BY <3>3, <1>3 DEF OnWay
  <2>3. OnWay(u, 0, f) BY <1>2, <1>3 DEF OnWay
  <2> QED BY <2>1, <2>2, <2>3
<1>6. ASSUME NEW g, NEW h, g # f, Ordered(w, 0, g, h) PROVE Ordered(u, 0, g, h)
  <2> SUFFICES ASSUME NEW a \in DOMAIN u, NEW a2 \in DOMAIN u, NEW b \in DOMAIN u[a], NEW b2 \in DOMAIN u[a2],
                      u[a][b] = g, u[a2][b2] = h
               PROVE  Precedes(a, b, a2, b2)
    BY DEF Ordered
  <2>1. ~(a = c /\ b = d) BY <1>2, <1>6
  <2>2. a \in DOMAIN w /\ b \in DOMAIN w[a] /\ w[a][b] = g /\ Precedes(a, b, c, d) BY <1>2, <2>1
  <2>3. CASE a2 = c /\ b2 = d BY <2>2, <2>3
  <2>4. CASE ~(a2 = c /\ b2 = d)
    <3>1. a2 \in DOMAIN w /\ b2 \in DOMAIN w[a2] /\ w[a2][b2] = h BY <1>2, <2>4
    <3> QED BY <2>2, <3>1, <1>4, <1>6 DEF Ordered
  <2> QED BY <2>3, <2>4
<1>7. ASSUME NEW h, h # f, ~OnWay(w, 0, h) PROVE Ordered(u, 0, f, h)
  <2>1. ~OnWay(u, 0, h) BY <1>5, <1>7
  <2> QED BY <2>1 DEF Ordered, OnWay
<1>8. ASSUME NEW g, g # f, Once(w, 0, g) PROVE Once(u, 0, g)
  <2> SUFFICES ASSUME NEW a \in DOMAIN u, NEW a2 \in DOMAIN u, NEW b \in DOMAIN u[a], NEW b2 \in DOMAIN u[a2],
                      u[a][b] = g, u[a2][b2] = g
               PROVE  a = a2 /\ b = b2
    BY DEF Once
  <2>1. ~(a = c /\ b = d) /\ ~(a2 = c /\ b2 = d) BY <1>2, <1>8
  <2>2. a \in DOMAIN w /\ b \in DOMAIN w[a] /\ w[a][b] = g BY <1>2, <2>1
  <2>3. a2 \in DOMAIN w /\ b2 \in DOMAIN w[a2] /\ w[a2][b2] = g BY <1>2, <2>1
  <2> QED BY <2>2, <2>3, <1>4, <1>8 DEF Once
<1>9. ASSUME ~OnWay(w, 0, f) PROVE Once(u, 0, f)
  <2> SUFFICES ASSUME NEW a \in DOMAIN u, NEW b \in DOMAIN u[a], u[a][b] = f PROVE a = c /\ b = d
    BY DEF Once
  <2>1. ASSUME a \in DOMAIN w, b \in DOMAIN w[a], w[a][b] = f PROVE FALSE BY <2>1, <1>4, <1>9 DEF OnWay
  <2> QED BY <1>2, <2>1
<1> QED BY <1>5, <1>6, <1>7, <1>8, <1>9

\* Every frame left in u was left in w, and they are left in the same order.
Shorter(w, n, u, k) ==
  /\ \A g : OnWay(u, k, g) => OnWay(w, n, g)
  /\ \A g, h : Ordered(w, n, g, h) => Ordered(u, k, g, h)
  /\ \A g : Once(w, n, g) => Once(u, k, g)

\* The first frame of a packet is taken.
LEMMA Took ==
  ASSUME NEW w \in Packets, NEW n \in Nat, 1 \in DOMAIN w, n + 1 \in DOMAIN w[1], NEW f, f = w[1][n + 1]
  PROVE  /\ Shorter(w, n, w, n + 1)
         /\ OnWay(w, n, f)
         /\ \A g : g # f /\ OnWay(w, n, g) => OnWay(w, n + 1, g)
         /\ Once(w, n, f) => ~OnWay(w, n + 1, f)
         /\ \A g : Ordered(w, n, g, f) => ~OnWay(w, n, g)
<1>0. \A a \in DOMAIN w : \A b \in DOMAIN w[a] : a \in Nat \ {0} /\ b \in Nat \ {0} BY LeftAtStart
<1>1. ASSUME NEW a \in DOMAIN w, NEW b \in DOMAIN w[a]
      PROVE  /\ Left(w, n + 1, a, b) => Left(w, n, a, b)
             /\ Left(w, n, a, b) => Left(w, n + 1, a, b) \/ (a = 1 /\ b = n + 1)
             /\ Left(w, n, a, b) => ~Precedes(a, b, 1, n + 1)
             /\ ~Left(w, n + 1, 1, n + 1)
  <2>1. a \in Nat \ {0} /\ b \in Nat \ {0} BY <1>0
  <2> QED BY <2>1 DEF Left, Precedes
<1>2. Left(w, n, 1, n + 1) BY DEF Left
<1>3. OnWay(w, n, f) BY <1>2 DEF OnWay
<1>4. Shorter(w, n, w, n + 1)
  <2>1. \A g : OnWay(w, n + 1, g) => OnWay(w, n, g) BY <1>1 DEF OnWay
  <2>2. \A g, h : Ordered(w, n, g, h) => Ordered(w, n + 1, g, h) BY <1>1 DEF Ordered
  <2>3. \A g : Once(w, n, g) => Once(w, n + 1, g) BY <1>1 DEF Once
  <2> QED BY <2>1, <2>2, <2>3 DEF Shorter
<1>5. ASSUME NEW g, g # f, OnWay(w, n, g) PROVE OnWay(w, n + 1, g)
  <2>1. PICK a \in DOMAIN w : \E b \in DOMAIN w[a] : Left(w, n, a, b) /\ w[a][b] = g BY <1>5 DEF OnWay
  <2>2. PICK b \in DOMAIN w[a] : Left(w, n, a, b) /\ w[a][b] = g BY <2>1
  <2>3. ~(a = 1 /\ b = n + 1) BY <2>2, <1>5
  <2> QED BY <2>2, <2>3, <1>1 DEF OnWay
<1>6. ASSUME Once(w, n, f), OnWay(w, n + 1, f) PROVE FALSE
  <2>1. PICK a \in DOMAIN w : \E b \in DOMAIN w[a] : Left(w, n + 1, a, b) /\ w[a][b] = f BY <1>6 DEF OnWay
  <2>2. PICK b \in DOMAIN w[a] : Left(w, n + 1, a, b) /\ w[a][b] = f BY <2>1
  <2>3. a = 1 /\ b = n + 1 BY <2>2, <1>1, <1>2, <1>6 DEF Once
  <2> QED BY <2>2, <2>3, <1>1
<1>7. ASSUME NEW g, Ordered(w, n, g, f), OnWay(w, n, g) PROVE FALSE
  <2>1. PICK a \in DOMAIN w : \E b \in DOMAIN w[a] : Left(w, n, a, b) /\ w[a][b] = g BY <1>7 DEF OnWay
  <2>2. PICK b \in DOMAIN w[a] : Left(w, n, a, b) /\ w[a][b] = g BY <2>1
  <2>3. Precedes(a, b, 1, n + 1) BY <2>2, <1>2, <1>7 DEF Ordered
  <2> QED BY <2>2, <2>3, <1>1
<1> QED BY <1>3, <1>4, <1>5, <1>6, <1>7

\* A packet that is done with leaves the line.
LEMMA Emptied ==
  ASSUME NEW w \in Packets, w # <<>>
  PROVE  /\ Tail(w) \in Packets
         /\ \A g : OnWay(Tail(w), 0, g) <=> OnWay(w, Len(w[1]), g)
         /\ \A g, h : Ordered(w, Len(w[1]), g, h) => Ordered(Tail(w), 0, g, h)
         /\ \A g : Once(w, Len(w[1]), g) => Once(Tail(w), 0, g)
<1> DEFINE u == Tail(w)
           n == Len(w[1])
<1>1. /\ u \in Packets /\ Len(w) \in Nat \ {0} /\ DOMAIN w = 1 .. Len(w)
      /\ DOMAIN u = 1 .. Len(w) - 1 /\ \A a \in DOMAIN u : u[a] = w[a + 1]
  BY DEF Packets
<1>2. w[1] \in Seq(MuxFrames) BY <1>1 DEF Packets
<1>3. n \in Nat /\ DOMAIN w[1] = 1 .. n BY <1>2
<1>0. \A a \in DOMAIN w : \A b \in DOMAIN w[a] : a \in Nat \ {0} /\ b \in Nat \ {0} BY LeftAtStart
<1>4. \A a \in DOMAIN u : \A b \in DOMAIN u[a] : Left(u, 0, a, b) /\ b \in Nat BY <1>1, LeftAtStart
<1> HIDE DEF u, n
<1>5. ASSUME NEW a \in DOMAIN u
      PROVE  /\ a \in Nat \ {0} /\ a + 1 \in DOMAIN w /\ u[a] = w[a + 1]
             /\ \A b \in DOMAIN u[a] : Left(w, n, a + 1, b)
  <2>1. a \in Nat \ {0} /\ a + 1 \in DOMAIN w /\ u[a] = w[a + 1] BY <1>1
  <2>2. a + 1 > 1 BY <2>1
  <2> QED BY <2>1, <2>2 DEF Left
<1>6. ASSUME NEW a \in DOMAIN w, NEW b \in DOMAIN w[a], Left(w, n, a, b)
      PROVE  a - 1 \in DOMAIN u /\ (a - 1) + 1 = a /\ u[a - 1] = w[a]
  <2>1. a # 1
    <3> SUFFICES ASSUME a = 1 PROVE FALSE OBVIOUS
    <3>1. b \in 1 .. n /\ b > n BY <1>3, <1>6 DEF Left
    <3> QED BY <3>1, <1>3
  <2>2. a - 1 \in DOMAIN u /\ (a - 1) + 1 = a BY <2>1, <1>1
  <2> QED BY <2>2, <1>1
<1>7. ASSUME NEW g PROVE OnWay(u, 0, g) <=> OnWay(w, n, g)
  <2>1. ASSUME OnWay(u, 0, g) PROVE OnWay(w, n, g)
    <3>1. PICK a \in DOMAIN u : \E b \in DOMAIN u[a] : u[a][b] = g BY <2>1 DEF OnWay
    <3>2. PICK b \in DOMAIN u[a] : u[a][b] = g BY <3>1
    <3> QED BY <3>2, <1>5 DEF OnWay
  <2>2. ASSUME OnWay(w, n, g) PROVE OnWay(u, 0, g)
    <3>1. PICK a \in DOMAIN w : \E b \in DOMAIN w[a] : Left(w, n, a, b) /\ w[a][b] = g BY <2>2 DEF OnWay
    <3>2. PICK b \in DOMAIN w[a] : Left(w, n, a, b) /\ w[a][b] = g BY <3>1
    <3>3. a - 1 \in DOMAIN u /\ u[a - 1] = w[a] BY <3>2, <1>6
    <3> QED BY <3>2, <3>3, <1>4 DEF OnWay
  <2> QED BY <2>1, <2>2
<1>8. ASSUME NEW g, NEW h, Ordered(w, n, g, h) PROVE Ordered(u, 0, g, h)
  <2> SUFFICES ASSUME NEW a \in DOMAIN u, NEW c \in DOMAIN u, NEW b \in DOMAIN u[a], NEW d \in DOMAIN u[c],
                      u[a][b] = g, u[c][d] = h
               PROVE  Precedes(a, b, c, d)
    BY DEF Ordered
  <2>1. /\ a + 1 \in DOMAIN w /\ b \in DOMAIN w[a + 1] /\ w[a + 1][b] = g /\ Left(w, n, a + 1, b)
        /\ c + 1 \in DOMAIN w /\ d \in DOMAIN w[c + 1] /\ w[c + 1][d] = h /\ Left(w, n, c + 1, d)
    BY <1>5
  <2>2. Precedes(a + 1, b, c + 1, d) BY <2>1, <1>8 DEF Ordered
  <2>3. a \in Nat /\ c \in Nat /\ b \in Nat /\ d \in Nat BY <1>4, <1>5
  <2> QED BY <2>2, <2>3 DEF Precedes
<1>9. ASSUME NEW g, Once(w, n, g) PROVE Once(u, 0, g)
  <2> SUFFICES ASSUME NEW a \in DOMAIN u, NEW c \in DOMAIN u, NEW b \in DOMAIN u[a], NEW d \in DOMAIN u[c],
                      u[a][b] = g, u[c][d] = g
               PROVE  a = c /\ b = d
    BY DEF Once
  <2>1. /\ a + 1 \in DOMAIN w /\ b \in DOMAIN w[a + 1] /\ w[a + 1][b] = g /\ Left(w, n, a + 1, b)
        /\ c + 1 \in DOMAIN w /\ d \in DOMAIN w[c + 1] /\ w[c + 1][d] = g /\ Left(w, n, c + 1, d)
    BY <1>5
  <2>2. a + 1 = c + 1 /\ b = d BY <2>1, <1>9 DEF Once
  <2>3. a \in Nat /\ c \in Nat BY <1>5
  <2> QED BY <2>2, <2>3
<1> QED BY <1>1, <1>7, <1>8, <1>9 DEF u, n

\* What uncork() and destroy() do to the batch at the end of the line: an empty one follows
\* it, or it is dropped, with all that was written after the first frame lost.
LEMMA Flushed ==
  ASSUME NEW w \in Packets
  PROVE  /\ Append(w, <<>>) \in Packets
         /\ \A g : OnWay(Append(w, <<>>), 0, g) <=> OnWay(w, 0, g)
         /\ Shorter(w, 0, Append(w, <<>>), 0)
<1> DEFINE u == Append(w, <<>>)
<1>1. /\ u \in Packets /\ Len(w) \in Nat /\ DOMAIN w = 1 .. Len(w)
      /\ DOMAIN u = 1 .. Len(w) + 1 /\ (\A a \in DOMAIN w : u[a] = w[a]) /\ u[Len(w) + 1] = <<>>
  <2>1. <<>> \in Seq(MuxFrames) OBVIOUS
  <2> QED BY <2>1 DEF Packets
<1> HIDE DEF u
<1>2. \A a \in DOMAIN u : \A b \in DOMAIN u[a] : a \in DOMAIN w /\ u[a] = w[a] /\ Left(u, 0, a, b)
  <2> TAKE a \in DOMAIN u
  <2> TAKE b \in DOMAIN u[a]
  <2>1. a # Len(w) + 1 BY <1>1
  <2>2. a \in DOMAIN w BY <2>1, <1>1
  <2> QED BY <2>2, <1>1, LeftAtStart
<1>3. \A a \in DOMAIN w : a \in DOMAIN u /\ u[a] = w[a] /\ \A b \in DOMAIN w[a] : Left(w, 0, a, b)
  <2> TAKE a \in DOMAIN w
  <2>1. a \in DOMAIN u BY <1>1
  <2> QED BY <2>1, <1>1, LeftAtStart
<1>4. \A g : OnWay(u, 0, g) <=> OnWay(w, 0, g) BY <1>2, <1>3 DEF OnWay
<1>5. \A g, h : Ordered(w, 0, g, h) => Ordered(u, 0, g, h) BY <1>2, <1>3 DEF Ordered
<1>6. \A g : Once(w, 0, g) => Once(u, 0, g) BY <1>2, <1>3 DEF Once
<1> QED BY <1>1, <1>4, <1>5, <1>6 DEF Shorter, u

LEMMA Dropped ==
  ASSUME NEW x \in Packets, NEW p \in Seq(MuxFrames)
  PROVE  /\ Append(x, <<>>) \in Packets /\ Append(x, p) \in Packets
         /\ Shorter(Append(x, p), 0, Append(x, <<>>), 0)
         /\ \A g, h : /\ OnWay(Append(x, p), 0, g) /\ ~OnWay(Append(x, <<>>), 0, g)
                      /\ Ordered(Append(x, p), 0, g, h)
                      => ~OnWay(Append(x, <<>>), 0, h)
<1> DEFINE w == Append(x, p)
           u == Append(x, <<>>)
<1>1. /\ w \in Packets /\ u \in Packets /\ Len(x) \in Nat /\ DOMAIN x = 1 .. Len(x)
      /\ DOMAIN w = 1 .. Len(x) + 1 /\ (\A a \in DOMAIN x : w[a] = x[a]) /\ w[Len(x) + 1] = p
  BY DEF Packets
<1>2. \A g : OnWay(u, 0, g) <=> OnWay(x, 0, g) BY Flushed
<1>3. Shorter(x, 0, u, 0) BY Flushed
<1> HIDE DEF u, w
<1>4. \A a \in DOMAIN x : \A b \in DOMAIN x[a] :
        a \in DOMAIN w /\ w[a] = x[a] /\ Left(w, 0, a, b) /\ Left(x, 0, a, b) /\ a < Len(x) + 1
  <2> TAKE a \in DOMAIN x
  <2> TAKE b \in DOMAIN x[a]
  <2>1. a \in DOMAIN w /\ w[a] = x[a] /\ a < Len(x) + 1 BY <1>1
  <2>2. b \in DOMAIN w[a] BY <2>1
  <2> QED BY <2>1, <2>2, <1>1, LeftAtStart
<1>5. Shorter(x, 0, x, 0) /\ Shorter(w, 0, x, 0)
  <2>1. \A g : OnWay(x, 0, g) => OnWay(w, 0, g) BY <1>4 DEF OnWay
  <2>2. \A g, h : Ordered(w, 0, g, h) => Ordered(x, 0, g, h) BY <1>4 DEF Ordered
  <2>3. \A g : Once(w, 0, g) => Once(x, 0, g) BY <1>4 DEF Once
  <2> QED BY <2>1, <2>2, <2>3 DEF Shorter
<1>6. Shorter(w, 0, u, 0) BY <1>3, <1>5 DEF Shorter
<1>7. ASSUME NEW g, NEW h, OnWay(w, 0, g), ~OnWay(u, 0, g), Ordered(w, 0, g, h), OnWay(u, 0, h)
      PROVE  FALSE
  <2>1. ~OnWay(x, 0, g) /\ OnWay(x, 0, h) BY <1>2, <1>7
  <2>2. PICK a \in DOMAIN w : \E b \in DOMAIN w[a] : Left(w, 0, a, b) /\ w[a][b] = g BY <1>7 DEF OnWay
  <2>3. PICK b \in DOMAIN w[a] : Left(w, 0, a, b) /\ w[a][b] = g BY <2>2
  <2>4. PICK c \in DOMAIN x : \E d \in DOMAIN x[c] : x[c][d] = h BY <2>1 DEF OnWay
  <2>5. PICK d \in DOMAIN x[c] : x[c][d] = h BY <2>4
  <2>6. a \notin DOMAIN x BY <2>1, <2>3, <1>1, <1>4 DEF OnWay
  <2>7. a = Len(x) + 1 BY <2>6, <1>1
  <2>8. c \in DOMAIN w /\ d \in DOMAIN w[c] /\ w[c][d] = h /\ Left(w, 0, c, d) /\ c < Len(x) + 1 BY <2>5, <1>4
  <2>9. Precedes(a, b, c, d) BY <2>3, <2>8, <1>7 DEF Ordered
  <2> QED BY <2>7, <2>8, <2>9, <1>1 DEF Precedes
<1> QED BY <1>1, <1>6, <1>7 DEF u, w

\* Two muxes that differ in channel i and the lookup of one id at most.
SameBut(m, t) ==
  /\ t.next = m.next /\ t.cork = m.cork /\ t.batch = m.batch /\ t.destroyed = m.destroyed

LEMMA MuxFields ==
  ASSUME NEW m \in MuxType
  PROVE  /\ m.next \in Nat \ {0} /\ m.ch \in [Ids -> ChanType] /\ m.remote \in [Ids -> Ids \cup {None}]
         /\ m.pending \in [Keys -> Ids \cup {None}] /\ m.last \in [Keys -> Ids \cup {None}]
         /\ m.cork \in Nat /\ m.batch \in Seq(MuxFrames) /\ m.destroyed \in BOOLEAN
         /\ \A i \in Ids : /\ m.ch[i] \in ChanType /\ m.ch[i].st \in ChannelStates
                           /\ m.ch[i].key \in Keys \cup {None} /\ m.ch[i].rid \in Ids \cup {None}
         /\ None \notin Ids
<1>1. /\ m.next \in Nat \ {0} /\ m.ch \in [Ids -> ChanType] /\ m.remote \in [Ids -> Ids \cup {None}]
      /\ m.pending \in [Keys -> Ids \cup {None}] /\ m.last \in [Keys -> Ids \cup {None}]
      /\ m.cork \in Nat /\ m.batch \in Seq(MuxFrames) /\ m.destroyed \in BOOLEAN
  BY DEF MuxType
<1>2. \A i \in Ids : m.ch[i] \in ChanType BY <1>1
<1>3. \A c \in ChanType : c.st \in ChannelStates /\ c.key \in Keys \cup {None} /\ c.rid \in Ids \cup {None}
  BY DEF ChanType
<1>4. None \notin Ids BY DEF None, Ids
<1> QED BY <1>1, <1>2, <1>3, <1>4

LEMMA PairFields ==
  ASSUME NEW m \in MuxType, NEW i \in Ids, NEW r \in Ids
  PROVE  /\ TryPair(m, i, r) \in MuxType /\ SameBut(m, TryPair(m, i, r))
         /\ TryPair(m, i, r).pending = m.pending
         /\ TryPair(m, i, r).ch[i] = [st |-> "open", key |-> m.ch[i].key, rid |-> r]
         /\ \A j \in Ids : j # i => TryPair(m, i, r).ch[j] = m.ch[j]
         /\ TryPair(m, i, r).remote[r] = i
         /\ \A s \in Ids : s # r => TryPair(m, i, r).remote[s] = m.remote[s]
<1> DEFINE t == TryPair(m, i, r)
           c == [st |-> "open", key |-> m.ch[i].key, rid |-> r]
           ch == [m.ch EXCEPT ![i] = c]
           remote == [m.remote EXCEPT ![r] = i]
<1>1. /\ m.ch \in [Ids -> ChanType] /\ m.remote \in [Ids -> Ids \cup {None}] /\ m.ch[i] \in ChanType
      /\ m.ch[i].key \in Keys \cup {None}
  BY MuxFields
<1>2. c \in ChanType BY <1>1 DEF ChanType, ChannelStates
<1>3. [[m.ch[i] EXCEPT !.rid = r] EXCEPT !.st = "open"] = c
  <2> DEFINE x == m.ch[i]
  <2>1. PICK st \in ChannelStates, key \in Keys \cup {None}, rid \in Ids \cup {None} :
          x = [st |-> st, key |-> key, rid |-> rid]
    BY <1>1 DEF ChanType
  <2> HIDE DEF x
  <2> DEFINE y == [x EXCEPT !.rid = r]
  <2>2. y = [st |-> st, key |-> key, rid |-> r] BY <2>1
  <2> HIDE DEF y
  <2>3. [y EXCEPT !.st = "open"] = [st |-> "open", key |-> key, rid |-> r] BY <2>2
  <2>4. x.key = key BY <2>1
  <2> QED BY <2>3, <2>4 DEF x, y
<1>4. [[m.ch EXCEPT ![i].rid = r] EXCEPT ![i].st = "open"] = ch
  <2>1. [m.ch EXCEPT ![i].rid = r][i] = [m.ch[i] EXCEPT !.rid = r] BY <1>1
  <2> QED BY <1>1, <1>3, <2>1
<1>5. t = [m EXCEPT !.ch = [[m.ch EXCEPT ![i].rid = r] EXCEPT ![i].st = "open"], !.remote = remote]
  BY DEF TryPair, MuxType
<1>6. t = [m EXCEPT !.ch = ch, !.remote = remote] BY <1>4, <1>5
<1>7. ch \in [Ids -> ChanType] /\ remote \in [Ids -> Ids \cup {None}] BY <1>1, <1>2
<1>8. ch[i] = c /\ remote[r] = i /\ (\A j \in Ids : j # i => ch[j] = m.ch[j])
      /\ (\A s \in Ids : s # r => remote[s] = m.remote[s])
  BY <1>1
<1> HIDE DEF c, ch, remote, t
<1>9. t \in MuxType /\ t.ch = ch /\ t.remote = remote /\ t.pending = m.pending /\ SameBut(m, t)
  BY <1>6, <1>7 DEF MuxType, SameBut
<1> QED BY <1>8, <1>9 DEF c, t

LEMMA RemoveFields ==
  ASSUME NEW m \in MuxType, NEW i \in Ids
  PROVE  LET t == RemoveChannel(m, i)
         IN  /\ t \in MuxType /\ SameBut(m, t)
             /\ t.ch[i] = [st |-> "gone", key |-> m.ch[i].key, rid |-> m.ch[i].rid]
             /\ \A j \in Ids : j # i => t.ch[j] = m.ch[j]
             /\ \A s \in Ids : t.remote[s] = IF s = m.ch[i].rid THEN None ELSE m.remote[s]
             /\ \A k \in Keys : t.pending[k] = IF k = m.ch[i].key THEN None ELSE m.pending[k]
<1> DEFINE t == RemoveChannel(m, i)
           c == m.ch[i]
           d == [st |-> "gone", key |-> m.ch[i].key, rid |-> m.ch[i].rid]
           ch == [m.ch EXCEPT ![i] = d]
           remote == IF c.rid = None THEN m.remote ELSE [m.remote EXCEPT ![c.rid] = None]
           pending == [m.pending EXCEPT ![c.key] = None]
           last == [m.last EXCEPT ![c.key] = IF @ = i THEN None ELSE @]
<1>1. /\ m.ch \in [Ids -> ChanType] /\ m.remote \in [Ids -> Ids \cup {None}] /\ c \in ChanType
      /\ c.key \in Keys \cup {None} /\ c.rid \in Ids \cup {None} /\ None \notin Ids
      /\ m.pending \in [Keys -> Ids \cup {None}] /\ m.last \in [Keys -> Ids \cup {None}]
  BY MuxFields
<1>2. d \in ChanType BY <1>1 DEF ChanType, ChannelStates
<1>3. [c EXCEPT !.st = "gone"] = d BY <1>1 DEF ChanType
<1>4. t = [m EXCEPT !.ch = ch, !.remote = remote, !.pending = pending, !.last = last]
  <2>1. t = [m EXCEPT !.ch[i] = d, !.remote = remote, !.pending[c.key] = None,
                      !.last[c.key] = IF @ = i THEN None ELSE @]
    BY <1>3 DEF RemoveChannel
  <2> QED BY <2>1 DEF MuxType
<1>5. /\ ch \in [Ids -> ChanType] /\ remote \in [Ids -> Ids \cup {None}]
      /\ pending \in [Keys -> Ids \cup {None}] /\ last \in [Keys -> Ids \cup {None}]
  BY <1>1, <1>2
<1>6. /\ ch[i] = d /\ \A j \in Ids : j # i => ch[j] = m.ch[j]
      /\ \A s \in Ids : remote[s] = IF s = c.rid THEN None ELSE m.remote[s]
      /\ \A k \in Keys : pending[k] = IF k = c.key THEN None ELSE m.pending[k]
  BY <1>1
<1> HIDE DEF ch, remote, pending, last, t, d
<1>7. /\ t \in MuxType /\ t.ch = ch /\ t.remote = remote /\ t.pending = pending /\ SameBut(m, t)
  BY <1>4, <1>5 DEF MuxType, SameBut
<1> QED BY <1>6, <1>7 DEF t, d

\* While the peer's OPEN is not known to be answered, General speaks of both ends.
Both(m, q, v, w, n) == General(m, q, v, 0) /\ General(q, m, w, n)

LEMMA HeldBy ==
  ASSUME NEW m, NEW r
  PROVE  r \in Held(m) <=> (\E i \in Ids : m.ch[i].rid = r) \/ (\E k \in Keys : m.pending[k] = r)
BY DEF Held

\* try_pair: channel i of m is paired with the peer's r, of which nothing was known.
LEMMA PairedGeneral ==
  ASSUME NEW m \in MuxType, NEW q \in MuxType, NEW v, NEW w, NEW n,
         Both(m, q, v, w, n), NEW i \in Ids, m.ch[i].st = "sent", NEW r \in Ids, r \notin Held(m),
         q.ch[r].st \in Opened, \A k \in Keys : ~OnWay(w, n, OpenFrame(r, k))
  PROVE  Both(TryPair(m, i, r), q, v, w, n)
<1> DEFINE t == TryPair(m, i, r)
<1>1. /\ t \in MuxType /\ t.next = m.next /\ t.pending = m.pending
      /\ t.ch[i] = [st |-> "open", key |-> m.ch[i].key, rid |-> r]
      /\ \A j \in Ids : j # i => t.ch[j] = m.ch[j]
      /\ t.remote[r] = i
      /\ \A s \in Ids : s # r => t.remote[s] = m.remote[s]
  BY PairFields DEF SameBut
<1> HIDE DEF t
<1>2. t.ch[i].st = "open" /\ t.ch[i].key = m.ch[i].key /\ t.ch[i].rid = r BY <1>1
<1>3. None \notin Ids /\ \A j \in Ids : m.ch[j].rid \in Ids \cup {None} BY MuxFields
<1>4. r # None BY <1>3
<1>5. \A j \in Ids : m.ch[j].rid # r BY DEF Held
<1>6. \A k \in Keys : m.pending[k] # r BY DEF Held
<1>7. WellKept(m) /\ WellKept(q) /\ Traced(m, q, v, 0) /\ Traced(q, m, w, n) BY DEF Both, General
<1>8. m.ch[i].rid = None /\ m.ch[i].key \in Keys /\ ~(i >= m.next) BY <1>7 DEF WellKept
<1>9. WellKept(t)
  <2>1. \A j \in Ids : /\ t.ch[j].st \in {"none", "new", "sent"} => t.ch[j].rid = None
                       /\ t.ch[j].st = "open" => t.ch[j].rid \in Ids
                       /\ t.ch[j].st # "none" => t.ch[j].key \in Keys
                       /\ j >= t.next <=> t.ch[j].st = "none"
    <3> TAKE j \in Ids
    <3>1. CASE j = i BY <3>1, <1>1, <1>2, <1>8
    <3>2. CASE j # i
      <4>1. t.ch[j] = m.ch[j] /\ t.next = m.next BY <3>2, <1>1
      <4> QED BY <4>1, <1>7 DEF WellKept
    <3> QED BY <3>1, <3>2
  <2>2. ASSUME NEW j \in Ids, NEW s \in Ids
        PROVE  t.remote[s] = j <=> t.ch[j].st = "open" /\ t.ch[j].rid = s
    <3>1. m.remote[s] = j <=> m.ch[j].st = "open" /\ m.ch[j].rid = s BY <1>7 DEF WellKept
    <3>2. m.remote[s] = i <=> m.ch[i].st = "open" /\ m.ch[i].rid = s BY <1>7 DEF WellKept
    <3>3. CASE j = i BY <3>2, <3>3, <1>1, <1>2
    <3>4. CASE j # i BY <3>1, <3>4, <1>1, <1>2, <1>5
    <3> QED BY <3>3, <3>4
  <2>3. ASSUME NEW j \in Ids, NEW l \in Ids, t.ch[j].rid = t.ch[l].rid, t.ch[j].rid # None PROVE j = l
    <3>1. m.ch[j].rid = m.ch[l].rid /\ m.ch[j].rid # None => j = l BY <1>7 DEF WellKept
    <3>2. CASE j = i BY <3>2, <2>3, <1>1, <1>2, <1>5
    <3>3. CASE l = i BY <3>3, <2>3, <1>1, <1>2, <1>5
    <3>4. CASE j # i /\ l # i BY <3>1, <3>4, <2>3, <1>1
    <3> QED BY <3>2, <3>3, <3>4
  <2>4. ASSUME NEW j \in Ids, NEW k \in Keys, t.pending[k] # None PROVE t.ch[j].rid # t.pending[k]
    <3>1. m.pending[k] # None => m.ch[j].rid # m.pending[k] BY <1>7 DEF WellKept
    <3>2. CASE j = i BY <3>2, <1>1, <1>2, <1>6
    <3>3. CASE j # i BY <3>1, <3>3, <2>4, <1>1
    <3> QED BY <3>2, <3>3
  <2> QED BY <2>1, <2>2, <2>3, <2>4 DEF WellKept
<1>10. Traced(t, q, v, 0)
  <2>1. \A j \in Ids : t.ch[j].key = m.ch[j].key /\ (m.ch[j].st \in Opened => t.ch[j].st \in Opened)
    BY <1>1, <1>2 DEF Opened
  <2> QED BY <2>1, <1>7 DEF Traced
<1>11. Traced(q, t, w, n)
  <2>1. \A s \in Ids : s \in Held(t) => s \in Held(m) \/ s = r
    <3> TAKE s \in Ids
    <3>1. ASSUME NEW j \in Ids, t.ch[j].rid = s PROVE s \in Held(m) \/ s = r
      <4>1. j # i => m.ch[j].rid = s BY <3>1, <1>1
      <4> QED BY <3>1, <4>1, <1>2 DEF Held
    <3>2. ASSUME NEW k \in Keys, t.pending[k] = s PROVE s \in Held(m) BY <3>2, <1>1 DEF Held
    <3> QED BY <3>1, <3>2, HeldBy
  <2>2. ASSUME NEW s \in Ids, NEW k \in Keys, OnWay(w, n, OpenFrame(s, k))
        PROVE  q.ch[s].st \in Opened /\ q.ch[s].key = k /\ s \notin Held(t) /\ Once(w, n, OpenFrame(s, k))
    <3>1. s # r BY <2>2
    <3>2. q.ch[s].st \in Opened /\ q.ch[s].key = k /\ s \notin Held(m) /\ Once(w, n, OpenFrame(s, k))
      BY <2>2, <1>7 DEF Traced
    <3> QED BY <2>1, <3>1, <3>2
  <2>3. \A s \in Ids, k \in Keys : t.pending[k] = s => q.ch[s].key = k BY <1>1, <1>7 DEF Traced
  <2>4. \A s \in Ids : s \in Held(t) => q.ch[s].st \in Opened BY <2>1, <1>7 DEF Traced
  <2> QED BY <2>2, <2>3, <2>4 DEF Traced
<1> QED BY <1>7, <1>9, <1>10, <1>11 DEF Both, General, t

\* remove_channel.
LEMMA RemovedGeneral ==
  ASSUME NEW m \in MuxType, NEW q \in MuxType, NEW v, NEW w, NEW n,
         Both(m, q, v, w, n), NEW i \in Ids, Live(m, i)
  PROVE  Both(RemoveChannel(m, i), q, v, w, n)
<1> DEFINE t == RemoveChannel(m, i)
<1>1. /\ t \in MuxType /\ t.next = m.next
      /\ t.ch[i] = [st |-> "gone", key |-> m.ch[i].key, rid |-> m.ch[i].rid]
      /\ \A j \in Ids : j # i => t.ch[j] = m.ch[j]
      /\ \A s \in Ids : t.remote[s] = IF s = m.ch[i].rid THEN None ELSE m.remote[s]
      /\ \A k \in Keys : t.pending[k] = IF k = m.ch[i].key THEN None ELSE m.pending[k]
  BY RemoveFields DEF SameBut
<1> HIDE DEF t
<1>2. t.ch[i].st = "gone" /\ \A j \in Ids : t.ch[j].key = m.ch[j].key /\ t.ch[j].rid = m.ch[j].rid
  BY <1>1
<1>3. None \notin Ids /\ \A j \in Ids : m.ch[j].rid \in Ids \cup {None} BY MuxFields
<1>4. WellKept(m) /\ WellKept(q) /\ Traced(m, q, v, 0) /\ Traced(q, m, w, n) BY DEF Both, General
<1>5. WellKept(t)
  <2>1. \A j \in Ids : /\ t.ch[j].st \in {"none", "new", "sent"} => t.ch[j].rid = None
                       /\ t.ch[j].st = "open" => t.ch[j].rid \in Ids
                       /\ t.ch[j].st # "none" => t.ch[j].key \in Keys
                       /\ j >= t.next <=> t.ch[j].st = "none"
    <3> TAKE j \in Ids
    <3>1. CASE j = i
      <4>1. m.ch[i].key \in Keys /\ ~(i >= m.next) BY <1>4 DEF WellKept, Live
      <4> QED BY <3>1, <4>1, <1>1, <1>2
    <3>2. CASE j # i
      <4>1. t.ch[j] = m.ch[j] /\ t.next = m.next BY <3>2, <1>1
      <4> QED BY <4>1, <1>4 DEF WellKept
    <3> QED BY <3>1, <3>2
  <2>2. ASSUME NEW j \in Ids, NEW s \in Ids
        PROVE  t.remote[s] = j <=> t.ch[j].st = "open" /\ t.ch[j].rid = s
    <3>1. m.remote[s] = j <=> m.ch[j].st = "open" /\ m.ch[j].rid = s BY <1>4 DEF WellKept
    <3>2. m.remote[s] = i <=> m.ch[i].st = "open" /\ m.ch[i].rid = s BY <1>4 DEF WellKept
    <3>3. m.ch[i].st = "open" \/ m.ch[i].rid = None BY <1>4 DEF WellKept, Live
    <3>4. m.ch[i].rid = m.ch[j].rid /\ m.ch[i].rid # None => i = j BY <1>4 DEF WellKept
    <3>5. CASE j = i BY <3>2, <3>3, <3>5, <1>1, <1>2, <1>3
    <3>6. CASE j # i
      <4>1. t.ch[j] = m.ch[j] BY <3>6, <1>1
      <4>2. CASE s = m.ch[i].rid
        <5>1. t.remote[s] = None /\ s # None BY <4>2, <1>1, <1>3
        <5>2. m.ch[j].rid # s BY <4>2, <3>4, <3>6, <5>1
        <5> QED BY <4>1, <5>1, <5>2, <1>3
      <4>3. CASE s # m.ch[i].rid BY <4>1, <4>3, <3>1, <1>1
      <4> QED BY <4>2, <4>3
    <3> QED BY <3>5, <3>6
  <2>3. \A j, l \in Ids : t.ch[j].rid = t.ch[l].rid /\ t.ch[j].rid # None => j = l BY <1>2, <1>4 DEF WellKept
  <2>4. \A j \in Ids, k \in Keys : t.pending[k] # None => t.ch[j].rid # t.pending[k]
    BY <1>1, <1>2, <1>4 DEF WellKept
  <2> QED BY <2>1, <2>2, <2>3, <2>4 DEF WellKept
<1>6. Traced(t, q, v, 0)
  <2>1. \A j \in Ids : t.ch[j].key = m.ch[j].key /\ (m.ch[j].st \in Opened => t.ch[j].st \in Opened)
    BY <1>1, <1>2 DEF Opened
  <2> QED BY <2>1, <1>4 DEF Traced
<1>7. Traced(q, t, w, n)
  <2>1. \A s \in Ids : s \in Held(t) => s \in Held(m) BY <1>1, <1>2, <1>3 DEF Held
  <2>2. \A s \in Ids, k \in Keys : t.pending[k] = s => m.pending[k] = s BY <1>1, <1>3
  <2> QED BY <2>1, <2>2, <1>4 DEF Traced
<1> QED BY <1>4, <1>5, <1>6, <1>7 DEF Both, General, t

LEMMA TracedShorter ==
  ASSUME NEW m, NEW q, NEW w, NEW n, NEW u, NEW l, Traced(q, m, w, n), Shorter(w, n, u, l)
  PROVE  Traced(q, m, u, l)
BY DEF Traced, Shorter

\* An OPEN that finds no channel to pair with waits.
LEMMA WaitingFields ==
  ASSUME NEW m \in MuxType, NEW k \in Keys, NEW r \in Ids \cup {None}
  PROVE  LET t == [m EXCEPT !.pending[k] = r]
         IN  /\ t \in MuxType /\ SameBut(m, t) /\ t.ch = m.ch /\ t.remote = m.remote
             /\ t.pending[k] = r /\ \A l \in Keys : l # k => t.pending[l] = m.pending[l]
<1> DEFINE t == [m EXCEPT !.pending[k] = r]
           pending == [m.pending EXCEPT ![k] = r]
<1>1. m.pending \in [Keys -> Ids \cup {None}] BY MuxFields
<1>2. pending \in [Keys -> Ids \cup {None}] /\ pending[k] = r /\ \A l \in Keys : l # k => pending[l] = m.pending[l]
  BY <1>1
<1>3. t = [m EXCEPT !.pending = pending] BY DEF MuxType
<1> HIDE DEF t, pending
<1>4. t \in MuxType /\ t.pending = pending /\ t.ch = m.ch /\ t.remote = m.remote /\ SameBut(m, t)
  BY <1>2, <1>3 DEF MuxType, SameBut
<1> QED BY <1>2, <1>4 DEF t

LEMMA WaitingGeneral ==
  ASSUME NEW m \in MuxType, NEW q \in MuxType, NEW v, NEW w, NEW n, Both(m, q, v, w, n),
         NEW k \in Keys, NEW r \in Ids, r \notin Held(m), q.ch[r].st \in Opened, q.ch[r].key = k,
         \A l \in Keys : ~OnWay(w, n, OpenFrame(r, l))
  PROVE  Both([m EXCEPT !.pending[k] = r], q, v, w, n)
<1> DEFINE t == [m EXCEPT !.pending[k] = r]
<1>0. /\ SameBut(m, t) /\ t.ch = m.ch /\ t.remote = m.remote
      /\ t.pending[k] = r /\ \A l \in Keys : l # k => t.pending[l] = m.pending[l]
  <2>1. r \in Ids \cup {None} OBVIOUS
  <2> QED BY <2>1, WaitingFields
<1>1. /\ t.next = m.next /\ t.ch = m.ch /\ t.remote = m.remote
      /\ t.pending[k] = r /\ \A l \in Keys : l # k => t.pending[l] = m.pending[l]
  BY <1>0 DEF SameBut
<1> HIDE DEF t
<1>2. WellKept(m) /\ WellKept(q) /\ Traced(m, q, v, 0) /\ Traced(q, m, w, n) BY DEF Both, General
<1>3. WellKept(t)
  <2>1. \A i \in Ids, l \in Keys : t.pending[l] # None => t.ch[i].rid # t.pending[l]
    <3> TAKE i \in Ids, l \in Keys
    <3>1. CASE l = k BY <3>1, <1>1 DEF Held
    <3>2. CASE l # k
      <4>1. t.pending[l] = m.pending[l] /\ t.ch = m.ch BY <3>2, <1>1
      <4> QED BY <4>1, <1>2 DEF WellKept
    <3> QED BY <3>1, <3>2
  <2> QED BY <2>1, <1>1, <1>2 DEF WellKept
<1>4. Traced(t, q, v, 0) BY <1>1, <1>2 DEF Traced
<1>5. Traced(q, t, w, n)
  <2>1. \A s \in Ids : s \in Held(t) => s \in Held(m) \/ s = r
    <3> TAKE s \in Ids
    <3>1. ASSUME NEW j \in Ids, t.ch[j].rid = s PROVE s \in Held(m) BY <3>1, <1>1 DEF Held
    <3>2. ASSUME NEW l \in Keys, t.pending[l] = s PROVE s \in Held(m) \/ s = r
      <4>1. l # k => m.pending[l] = s BY <3>2, <1>1
      <4> QED BY <3>2, <4>1, <1>1 DEF Held
    <3> QED BY <3>1, <3>2, HeldBy
  <2>2. ASSUME NEW s \in Ids, NEW l \in Keys, OnWay(w, n, OpenFrame(s, l))
        PROVE  q.ch[s].st \in Opened /\ q.ch[s].key = l /\ s \notin Held(t) /\ Once(w, n, OpenFrame(s, l))
    <3>1. s # r BY <2>2
    <3>2. q.ch[s].st \in Opened /\ q.ch[s].key = l /\ s \notin Held(m) /\ Once(w, n, OpenFrame(s, l))
      BY <2>2, <1>2 DEF Traced
    <3> QED BY <2>1, <3>1, <3>2
  <2>3. ASSUME NEW s \in Ids, NEW l \in Keys, t.pending[l] = s PROVE q.ch[s].key = l
    <3>1. CASE l = k BY <3>1, <2>3, <1>1
    <3>2. CASE l # k
      <4>1. m.pending[l] = s BY <3>2, <2>3, <1>1
      <4> QED BY <4>1, <1>2 DEF Traced
    <3> QED BY <3>1, <3>2
  <2>4. \A s \in Ids : s \in Held(t) => q.ch[s].st \in Opened BY <2>1, <1>2 DEF Traced
  <2> QED BY <2>2, <2>3, <2>4 DEF Traced
<1> QED BY <1>2, <1>3, <1>4, <1>5 DEF Both, General, t

\* find_by_pair_key: a live channel of the key.
LEMMA FoundByKey ==
  ASSUME NEW m, NEW k
  PROVE  \/ FindByPairKey(m, k) = None /\ \A i \in Ids : Live(m, i) => m.ch[i].key # k
         \/ /\ FindByPairKey(m, k) \in Ids /\ Live(m, FindByPairKey(m, k))
            /\ m.ch[FindByPairKey(m, k)].key = k
<1>1. CASE OfKey(m, k) = {} BY <1>1 DEF FindByPairKey, OfKey
<1>2. CASE OfKey(m, k) # {}
  <2>0. MaxId \in Nat BY MuxAssumption
  <2>1. OfKey(m, k) \in SUBSET (1 .. MaxId) BY DEF OfKey, Ids
  <2>2. PICK x \in OfKey(m, k) : \A y \in OfKey(m, k) : x <= y BY <1>2, <2>0, <2>1, FirstOf
  <2>3. Min(OfKey(m, k)) \in OfKey(m, k) BY <2>2 DEF Min
  <2> QED BY <1>2, <2>3 DEF FindByPairKey, OfKey
<1> QED BY <1>1, <1>2

\* The cases of one frame f, taken as the next of packet w[1], at the end with mux m.
LEMMA FrameCases ==
  ASSUME NEW m \in MuxType, NEW f \in MuxFrames
  PROVE  \/ /\ f.op = "open"
            /\ LET i == FindByPairKey(m, f.key)
               IN  \/ i \in Ids /\ m.ch[i].st = "sent" /\ m.ch[i].key = f.key /\ Handle(m, f) = TryPair(m, i, f.id)
                   \/ /\ i = None \/ (i \in Ids /\ m.ch[i].st \in {"new", "open"} /\ m.ch[i].key = f.key)
                      /\ i = None => \A j \in Ids : Live(m, j) => m.ch[j].key # f.key
                      /\ Handle(m, f) = [m EXCEPT !.pending[f.key] = f.id]
         \/ f.op = "close" /\ m.remote[f.id] = None /\ Handle(m, f) = m
         \/ f.op = "close" /\ m.remote[f.id] \in Ids /\ Handle(m, f) = RemoveChannel(m, m.remote[f.id])
         \/ f.op = "data" /\ Handle(m, f) = m
<1>1. CASE f.op = "open"
  <2> DEFINE i == FindByPairKey(m, f.key)
  <2>1. Handle(m, f) = IF i # None /\ m.ch[i].st = "sent" THEN TryPair(m, i, f.id)
                       ELSE [m EXCEPT !.pending[f.key] = f.id]
    BY <1>1 DEF Handle, HandleOpen
  <2>2. \/ i = None /\ \A j \in Ids : Live(m, j) => m.ch[j].key # f.key
        \/ i \in Ids /\ Live(m, i) /\ m.ch[i].key = f.key
    BY FoundByKey
  <2>3. None \notin Ids BY MuxFields
  <2> HIDE DEF i
  <2>4. CASE i = None BY <1>1, <2>1, <2>2, <2>3, <2>4 DEF i
  <2>5. CASE i \in Ids /\ Live(m, i) /\ m.ch[i].key = f.key
    <3>1. m.ch[i].st \in {"new", "sent", "open"} /\ i # None BY <2>3, <2>5 DEF Live
    <3> QED BY <1>1, <2>1, <2>5, <3>1 DEF i
  <2> QED BY <2>2, <2>4, <2>5
<1>2. CASE f.op = "close"
  <2>1. Handle(m, f) = IF m.remote[f.id] = None THEN m ELSE RemoveChannel(m, m.remote[f.id])
    BY <1>2 DEF Handle, HandleClose
  <2>2. f.id \in Ids BY FrameKinds
  <2>3. m.remote[f.id] \in Ids \cup {None} BY <2>2, MuxFields
  <2> QED BY <1>2, <2>1, <2>3
<1>3. CASE f.op = "data" BY <1>3 DEF Handle
<1> QED BY <1>1, <1>2, <1>3, FrameKinds

LEMMA FrameGeneral ==
  ASSUME NEW m \in MuxType, NEW q \in MuxType, NEW v, NEW w \in Packets, NEW n \in Nat,
         1 \in DOMAIN w, n + 1 \in DOMAIN w[1], NEW f, f = w[1][n + 1], Both(m, q, v, w, n)
  PROVE  f \in MuxFrames /\ Handle(m, f) \in MuxType /\ SameBut(m, Handle(m, f)) /\ Both(Handle(m, f), q, v, w, n + 1)
<1>1. f \in MuxFrames
  <2>1. w[1] \in Seq(MuxFrames) BY DEF Packets
  <2> QED BY <2>1
<1>2. /\ Shorter(w, n, w, n + 1) /\ OnWay(w, n, f)
      /\ Once(w, n, f) => ~OnWay(w, n + 1, f)
  BY Took
<1>3. Both(m, q, v, w, n + 1) BY <1>2, TracedShorter DEF Both, General
<1>4. SameBut(m, m) BY DEF SameBut
<1>5. CASE f.op = "open"
  <2> DEFINE i == FindByPairKey(m, f.key)
             r == f.id
             k == f.key
  <2>1. r \in Ids /\ k \in Keys /\ f = OpenFrame(r, k) BY <1>1, <1>5, FrameKinds
  <2>2. q.ch[r].st \in Opened /\ q.ch[r].key = k /\ r \notin Held(m) /\ Once(w, n, OpenFrame(r, k))
    BY <1>2, <2>1 DEF Both, General, Traced
  <2>3. \A l \in Keys : ~OnWay(w, n + 1, OpenFrame(r, l))
    <3> TAKE l \in Keys
    <3>1. CASE l = k BY <3>1, <1>2, <2>1, <2>2
    <3>2. CASE l # k BY <3>2, <1>3, <2>1, <2>2 DEF Both, General, Traced
    <3> QED BY <3>1, <3>2
  <2>4. \/ i \in Ids /\ m.ch[i].st = "sent" /\ Handle(m, f) = TryPair(m, i, r)
        \/ Handle(m, f) = [m EXCEPT !.pending[k] = r]
    BY <1>1, <1>5, FrameCases
  <2> HIDE DEF i, r, k
  <2>5. CASE i \in Ids /\ m.ch[i].st = "sent" /\ Handle(m, f) = TryPair(m, i, r)
    <3>1. TryPair(m, i, r) \in MuxType /\ SameBut(m, TryPair(m, i, r)) BY <2>1, <2>5, PairFields
    <3>2. Both(TryPair(m, i, r), q, v, w, n + 1) BY <1>3, <2>1, <2>2, <2>3, <2>5, PairedGeneral
    <3> QED BY <1>1, <2>5, <3>1, <3>2
  <2>6. CASE Handle(m, f) = [m EXCEPT !.pending[k] = r]
    <3>1. [m EXCEPT !.pending[k] = r] \in MuxType /\ SameBut(m, [m EXCEPT !.pending[k] = r])
      BY <2>1, WaitingFields
    <3>2. Both([m EXCEPT !.pending[k] = r], q, v, w, n + 1) BY <1>3, <2>1, <2>2, <2>3, WaitingGeneral
    <3> QED BY <1>1, <2>6, <3>1, <3>2
  <2> QED BY <2>4, <2>5, <2>6
<1>6. CASE f.op # "open"
  <2>1. \/ Handle(m, f) = m
        \/ f.op = "close" /\ m.remote[f.id] \in Ids /\ Handle(m, f) = RemoveChannel(m, m.remote[f.id])
    BY <1>1, <1>6, FrameCases
  <2>2. CASE Handle(m, f) = m BY <1>1, <1>3, <1>4, <2>2
  <2>3. CASE f.op = "close" /\ m.remote[f.id] \in Ids /\ Handle(m, f) = RemoveChannel(m, m.remote[f.id])
    <3> DEFINE i == m.remote[f.id]
    <3>1. f.id \in Ids BY <1>1, <2>3, FrameKinds
    <3>2. m.ch[i].st = "open" BY <2>3, <3>1 DEF Both, General, WellKept
    <3>3. Live(m, i) BY <3>2 DEF Live
    <3> HIDE DEF i
    <3>4. i \in Ids /\ Handle(m, f) = RemoveChannel(m, i) BY <2>3 DEF i
    <3>5. RemoveChannel(m, i) \in MuxType /\ SameBut(m, RemoveChannel(m, i)) BY <3>4, RemoveFields
    <3>6. Both(RemoveChannel(m, i), q, v, w, n + 1) BY <1>3, <3>3, <3>4, RemovedGeneral
    <3> QED BY <1>1, <3>4, <3>5, <3>6
  <2> QED BY <2>1, <2>2, <2>3
<1> QED BY <1>5, <1>6

\* Both ends at once: what each may say of the other (v on the way to q, w to m).
Tight(m, q, v, w, n) == Orderly(m, q, v, 0) /\ Orderly(q, m, w, n)

LEMMA Parts ==
  ASSUME NEW m, NEW q, NEW v, NEW n
  PROVE  Orderly(m, q, v, n) <=> /\ Alone(m) /\ Matched(m, q, v, n)
                                 /\ Announced(m, q, v, n) /\ InLine(m, q, v, n)
BY DEF Orderly

\* What the parts give for single channels.
LEMMA AloneAt ==
  ASSUME NEW m \in MuxType, Alone(m), NEW i \in Ids, NEW j \in Ids, m.ch[i].key = m.ch[j].key
  PROVE  /\ m.ch[i].st # "none" /\ m.ch[j].st # "none" =>
              i = j \/ (i < j /\ m.ch[i].st = "gone" /\ m.ch[i].rid # None)
                    \/ (j < i /\ m.ch[j].st = "gone" /\ m.ch[j].rid # None)
         /\ Live(m, i) /\ Live(m, j) => i = j
<1>1. i \in Nat /\ j \in Nat BY MuxAssumption DEF Ids
<1>2. i = j \/ i < j \/ j < i BY <1>1
<1>3. i < j /\ m.ch[j].st # "none" => m.ch[i].st = "gone" /\ m.ch[i].rid # None BY DEF Alone, SameKey
<1>4. j < i /\ m.ch[i].st # "none" => m.ch[j].st = "gone" /\ m.ch[j].rid # None BY DEF Alone, SameKey
<1> QED BY <1>2, <1>3, <1>4 DEF Live

\* try_pair, seen from both ends.  What was known of r at m, if anything, is what
\* pairing it with i makes true.
LEMMA PairedTight ==
  ASSUME NEW m \in MuxType, NEW q \in MuxType, NEW v, NEW w, NEW n,
         Both(m, q, v, w, n), NEW i \in Ids, m.ch[i].st = "sent",
         NEW r \in Ids, r \notin Held(m), q.ch[r].st \in Opened, q.ch[r].key = m.ch[i].key,
         m.pending[m.ch[i].key] = None,
         Orderly(m, q, v, 0), Alone(q), InLine(q, m, w, n),
         \A s, x \in Ids : s # r /\ q.ch[s].rid = x => MatchedAt(q, m, w, n, s, x),
         \A s \in Ids : s # r /\ q.ch[s].st = "sent" => AnnouncedAt(q, m, w, n, s),
         q.ch[r].rid \in {None, i}, \A s \in Ids : q.ch[s].rid = i => s = r,
         q.ch[r].st = "sent" => OnWay(v, 0, OpenOf(m, i)),
         q.ch[r].st = "gone" /\ q.ch[r].rid = i => Heard(q, w, n, r),
         \A s \in Ids : s < r /\ SameKey(q, s, r) =>
            ~OnWay(w, n, OpenOf(q, s)) /\ ~OnWay(w, n, CloseFrame(s))
  PROVE  Tight(TryPair(m, i, r), q, v, w, n)
<1> DEFINE t == TryPair(m, i, r)
           k == m.ch[i].key
<1>1. /\ t \in MuxType /\ t.pending = m.pending /\ t.destroyed = m.destroyed
      /\ t.ch[i] = [st |-> "open", key |-> k, rid |-> r]
      /\ \A j \in Ids : j # i => t.ch[j] = m.ch[j]
  BY PairFields DEF SameBut
<1> HIDE DEF t, k
<1>2. /\ t.ch[i].st = "open" /\ t.ch[i].rid = r
      /\ \A j \in Ids : t.ch[j].key = m.ch[j].key
  BY <1>1 DEF k
<1>3. None \notin Ids /\ (\A j \in Ids : m.ch[j].rid \in Ids \cup {None}) /\ r # None BY MuxFields
<1>4. WellKept(m) /\ WellKept(q) BY DEF Both, General
<1>5. m.ch[i].rid = None BY <1>4 DEF WellKept
<1>6. Alone(m) /\ Matched(m, q, v, 0) /\ Announced(m, q, v, 0) /\ InLine(m, q, v, 0) BY Parts
<1>7. ~(m.destroyed = TRUE) BY <1>6 DEF Alone, Live
<1>8. \A j \in Ids : Live(t, j) <=> Live(m, j) BY <1>1, <1>2 DEF Live
<1>9. Alone(t)
  <2>1. ASSUME NEW a \in Ids, NEW b \in Ids, a < b, SameKey(t, a, b), t.ch[b].st # "none"
        PROVE  t.ch[a].st = "gone" /\ t.ch[a].rid # None
    <3>1. SameKey(m, a, b) BY <2>1, <1>2 DEF SameKey
    <3>2. m.ch[b].st # "none" BY <2>1, <1>1
    <3>3. m.ch[a].st = "gone" /\ m.ch[a].rid # None BY <2>1, <3>1, <3>2, <1>6 DEF Alone
    <3> QED BY <3>3, <1>1
  <2>2. ASSUME NEW a \in Ids, Live(t, a), t.pending[t.ch[a].key] # None PROVE t.ch[a].st = "new"
    <3>1. Live(m, a) /\ m.pending[m.ch[a].key] # None BY <2>2, <1>1, <1>2, <1>8
    <3>2. a # i BY <3>1
    <3> QED BY <3>1, <3>2, <1>1, <1>6 DEF Alone
  <2>3. ASSUME NEW a \in Ids, t.ch[a].st = "gone", t.ch[a].rid = None PROVE t.destroyed = TRUE
    <3>1. a # i BY <2>3, <1>2
    <3> QED BY <2>3, <3>1, <1>1, <1>6 DEF Alone
  <2>4. t.destroyed = TRUE => \A a \in Ids : ~Live(t, a) BY <1>1, <1>7
  <2> QED BY <2>1, <2>2, <2>3, <2>4 DEF Alone
<1>10. \A a, b \in Ids : SameKey(t, a, b) <=> SameKey(m, a, b) BY <1>2 DEF SameKey
<1>11. \A a \in Ids : OpenOf(t, a) = OpenOf(m, a) BY <1>2 DEF OpenOf
<1>12. Matched(t, q, v, 0)
  <2> SUFFICES ASSUME NEW j \in Ids, NEW s \in Ids, t.ch[j].rid = s PROVE MatchedAt(t, q, v, 0, j, s)
    BY DEF Matched
  <2>1. CASE j # i
    <3>1. t.ch[j] = m.ch[j] BY <2>1, <1>1
    <3>2. MatchedAt(m, q, v, 0, j, s) BY <3>1, <1>6 DEF Matched
    <3>3. Answered(m, q, v, 0, j, s) => Answered(t, q, v, 0, j, s) BY <1>1, <1>11 DEF Answered
    <3>4. Heard(m, v, 0, j) => Heard(t, v, 0, j) BY <1>1, <1>10, <1>11 DEF Heard
    <3> QED BY <3>1, <3>2, <3>3, <3>4 DEF MatchedAt
  <2>2. CASE j = i
    <3>1. s = r /\ t.ch[i].st # "gone" BY <2>2, <1>2
    <3>2. q.ch[r].key = t.ch[i].key BY <1>2
    <3>3. q.ch[r].st = "sent" => OnWay(v, 0, OpenOf(t, i)) BY <1>11
    <3>4. q.ch[r].st = "open" => q.ch[r].rid = i
      <4>1. q.ch[r].st = "open" => q.ch[r].rid \in Ids BY <1>4 DEF WellKept
      <4> QED BY <4>1, <1>3
    <3>5. q.ch[r].st = "gone" => q.ch[r].rid = i \/ (q.ch[r].rid = None /\ q.destroyed = TRUE)
      BY DEF Alone
    <3>6. Answered(t, q, v, 0, i, r) BY <3>3, <3>4, <3>5 DEF Answered, Opened
    <3> QED BY <2>2, <3>1, <3>2, <3>6 DEF MatchedAt
  <2> QED BY <2>1, <2>2
<1>13. Announced(t, q, v, 0)
  <2> SUFFICES ASSUME NEW j \in Ids, t.ch[j].st = "sent" PROVE AnnouncedAt(t, q, v, 0, j)
    BY DEF Announced
  <2>1. j # i BY <1>2
  <2>2. m.ch[j].st = "sent" BY <2>1, <1>1
  <2>3. AnnouncedAt(m, q, v, 0, j) BY <2>2, <1>6 DEF Announced
  <2> QED BY <2>3, <1>2, <1>11 DEF AnnouncedAt
<1>14. InLine(t, q, v, 0)
  <2>1. \A j \in Ids : m.ch[j].st = "gone" => t.ch[j].st = "gone" BY <1>1
  <2>2. \A j, s \in Ids : m.ch[j].rid = s => t.ch[j].rid = s BY <1>1, <1>3, <1>5
  <2> QED BY <2>1, <2>2, <1>6, <1>10, <1>11 DEF InLine
<1>15. Matched(q, t, w, n)
  <2> SUFFICES ASSUME NEW s \in Ids, NEW x \in Ids, q.ch[s].rid = x PROVE MatchedAt(q, t, w, n, s, x)
    BY DEF Matched
  <2>1. CASE s = r
    <3>1. x = i BY <2>1, <1>3
    <3>2. Answered(q, t, w, n, r, i) BY <1>2 DEF Answered
    <3>3. q.ch[r].st = "gone" => Heard(q, w, n, r) BY <2>1, <3>1
    <3> QED BY <2>1, <3>1, <3>2, <3>3, <1>2 DEF MatchedAt
  <2>2. CASE s # r
    <3>1. x # i BY <2>2
    <3>2. t.ch[x] = m.ch[x] BY <3>1, <1>1
    <3>3. MatchedAt(q, m, w, n, s, x) BY <2>2
    <3>4. Answered(q, t, w, n, s, x) BY <3>2, <3>3, <1>1 DEF Answered, MatchedAt
    <3> QED BY <3>2, <3>3, <3>4, <1>8 DEF MatchedAt
  <2> QED BY <2>1, <2>2
<1>16. Announced(q, t, w, n)
  <2> SUFFICES ASSUME NEW s \in Ids, q.ch[s].st = "sent" PROVE AnnouncedAt(q, t, w, n, s)
    BY DEF Announced
  <2>1. CASE s = r BY <2>1, <1>2 DEF AnnouncedAt
  <2>2. CASE s # r
    <3>1. AnnouncedAt(q, m, w, n, s) BY <2>2
    <3>2. ASSUME NEW x \in Ids, m.ch[x].rid = s PROVE t.ch[x].rid = s BY <3>2, <1>1, <1>3, <1>5
    <3> QED BY <3>1, <3>2, <1>1 DEF AnnouncedAt
  <2> QED BY <2>1, <2>2
<1>17. InLine(q, t, w, n)
  <2>1. \A s \in Ids : s \in Held(t) => s \in Held(m) \/ s = r
    <3> TAKE s \in Ids
    <3>1. ASSUME NEW j \in Ids, t.ch[j].rid = s PROVE s \in Held(m) \/ s = r
      <4>1. j # i => m.ch[j].rid = s BY <3>1, <1>1
      <4> QED BY <3>1, <4>1, <1>2 DEF Held
    <3>2. ASSUME NEW l \in Keys, t.pending[l] = s PROVE s \in Held(m) BY <3>2, <1>1 DEF Held
    <3> QED BY <3>1, <3>2, HeldBy
  <2> QED BY <2>1 DEF InLine
<1> QED BY <1>9, <1>12, <1>13, <1>14, <1>15, <1>16, <1>17 DEF Tight, Orderly, t

\* What m holds of q may shrink, as long as nothing that q counts on is lost.
LEMMA InLineHeld ==
  ASSUME NEW m, NEW q, NEW t, NEW w, NEW n, InLine(q, m, w, n),
         \A s \in Ids : s \in Held(t) => s \in Held(m)
  PROVE  InLine(q, t, w, n)
BY DEF InLine

LEMMA InLineShorter ==
  ASSUME NEW m, NEW q, NEW w, NEW n, NEW u, NEW l, InLine(q, m, w, n), Shorter(w, n, u, l)
  PROVE  InLine(q, m, u, l)
BY DEF InLine, Shorter

\* A frame is taken that m has no use for: data, or a CLOSE of a channel whose peer is closed.
LEMMA TakenTight ==
  ASSUME NEW m \in MuxType, NEW q \in MuxType, NEW v, NEW w \in Packets, NEW n \in Nat,
         1 \in DOMAIN w, n + 1 \in DOMAIN w[1], NEW f \in MuxFrames, f = w[1][n + 1],
         Tight(m, q, v, w, n), f.op # "open",
         f.op = "close" => \A x \in Ids : q.ch[f.id].rid = x => ~Live(m, x)
  PROVE  Tight(m, q, v, w, n + 1)
<1>1. Shorter(w, n, w, n + 1) /\ (\A g : g # f /\ OnWay(w, n, g) => OnWay(w, n + 1, g)) BY Took
<1>2. Orderly(m, q, v, 0) /\ Alone(q) /\ Matched(q, m, w, n) /\ Announced(q, m, w, n) /\ InLine(q, m, w, n)
  BY DEF Tight, Orderly
<1>3. \A g : OnWay(w, n + 1, g) => OnWay(w, n, g) BY <1>1 DEF Shorter
<1>4. \A s \in Ids : OpenOf(q, s) # f
  <2> TAKE s \in Ids
  <2>1. OpenOf(q, s).op = "open" BY DEF OpenOf, OpenFrame
  <2> QED BY <2>1
<1>5. \A s \in Ids : CloseFrame(s) = f => f.op = "close" /\ f.id = s BY FrameKinds
<1>6. Matched(q, m, w, n + 1)
  <2> SUFFICES ASSUME NEW s \in Ids, NEW x \in Ids, q.ch[s].rid = x PROVE MatchedAt(q, m, w, n + 1, s, x)
    BY DEF Matched
  <2>1. MatchedAt(q, m, w, n, s, x) BY <1>2 DEF Matched
  <2>2. Answered(q, m, w, n + 1, s, x) BY <2>1, <1>1, <1>3, <1>4 DEF MatchedAt, Answered
  <2>3. ASSUME q.ch[s].st = "gone", Live(m, x) PROVE Heard(q, w, n + 1, s)
    <3>1. Heard(q, w, n, s) BY <2>1, <2>3 DEF MatchedAt
    <3>2. CloseFrame(s) # f BY <2>3, <1>5
    <3> QED BY <3>1, <3>2, <1>1, <1>3 DEF Heard
  <2> QED BY <2>1, <2>2, <2>3 DEF MatchedAt
<1>7. Announced(q, m, w, n + 1) BY <1>1, <1>2, <1>4 DEF Announced, AnnouncedAt
<1>8. InLine(q, m, w, n + 1) BY <1>1, <1>2, InLineShorter
<1> QED BY <1>2, <1>6, <1>7, <1>8 DEF Tight, Orderly

\* remove_channel on an open channel, at m: the peer must hear of it or be closed itself.
LEMMA RemovedTight ==
  ASSUME NEW m \in MuxType, NEW q \in MuxType, NEW v, NEW w, NEW n,
         Both(m, q, v, w, n), Tight(m, q, v, w, n), NEW i \in Ids, m.ch[i].st = "open",
         NEW u, \A g : OnWay(v, 0, g) => OnWay(u, 0, g),
         InLine(RemoveChannel(m, i), q, u, 0),
         Heard(RemoveChannel(m, i), u, 0, i) \/ ~Live(q, m.ch[i].rid)
  PROVE  Tight(RemoveChannel(m, i), q, u, w, n)
<1> DEFINE t == RemoveChannel(m, i)
<1>1. /\ t \in MuxType /\ t.destroyed = m.destroyed
      /\ t.ch[i] = [st |-> "gone", key |-> m.ch[i].key, rid |-> m.ch[i].rid]
      /\ \A j \in Ids : j # i => t.ch[j] = m.ch[j]
      /\ \A k \in Keys : t.pending[k] = IF k = m.ch[i].key THEN None ELSE m.pending[k]
  BY RemoveFields DEF SameBut
<1> HIDE DEF t
<1>2. /\ t.ch[i].st = "gone"
      /\ \A j \in Ids : t.ch[j].key = m.ch[j].key /\ t.ch[j].rid = m.ch[j].rid
  BY <1>1
<1>3. None \notin Ids /\ \A j \in Ids : m.ch[j].rid \in Ids \cup {None} BY MuxFields
<1>4. /\ Alone(m) /\ Matched(m, q, v, 0) /\ Announced(m, q, v, 0)
      /\ Alone(q) /\ Matched(q, m, w, n) /\ Announced(q, m, w, n) /\ InLine(q, m, w, n)
  BY DEF Tight, Orderly
<1>5. ~(m.destroyed = TRUE) BY <1>4 DEF Alone, Live
<1>6. m.ch[i].rid \in Ids /\ m.ch[i].key \in Keys BY DEF Both, General, WellKept
<1>7. m.pending[m.ch[i].key] = None BY <1>4 DEF Alone, Live
<1>8. \A j \in Ids : Live(t, j) => Live(m, j) /\ j # i BY <1>1, <1>2 DEF Live
<1>9. \A k \in Keys : t.pending[k] = m.pending[k] BY <1>1, <1>7
<1>10. \A a \in Ids : OpenOf(t, a) = OpenOf(m, a) BY <1>2 DEF OpenOf
<1>11. Alone(t)
  <2>1. ASSUME NEW a \in Ids, NEW b \in Ids, a < b, SameKey(t, a, b), t.ch[b].st # "none"
        PROVE  t.ch[a].st = "gone" /\ t.ch[a].rid # None
    <3>1. SameKey(m, a, b) BY <2>1, <1>2 DEF SameKey
    <3>2. m.ch[b].st # "none" BY <2>1, <1>1
    <3>3. m.ch[a].st = "gone" /\ m.ch[a].rid # None BY <2>1, <3>1, <3>2, <1>4 DEF Alone
    <3> QED BY <3>3, <1>1
  <2>2. ASSUME NEW a \in Ids, Live(t, a), t.pending[t.ch[a].key] # None PROVE t.ch[a].st = "new"
    <3>1. a # i /\ Live(m, a) /\ t.ch[a] = m.ch[a] BY <2>2, <1>1, <1>8
    <3>2. m.ch[a].key \in Keys BY <3>1 DEF Both, General, WellKept, Live
    <3>3. m.pending[m.ch[a].key] # None BY <2>2, <3>1, <3>2, <1>9
    <3> QED BY <3>1, <3>3, <1>4 DEF Alone
  <2>3. ASSUME NEW a \in Ids, t.ch[a].st = "gone", t.ch[a].rid = None PROVE t.destroyed = TRUE
    <3>1. a # i BY <2>3, <1>2, <1>3, <1>6
    <3> QED BY <2>3, <3>1, <1>1, <1>4 DEF Alone
  <2>4. t.destroyed = TRUE => \A a \in Ids : ~Live(t, a) BY <1>1, <1>5
  <2> QED BY <2>1, <2>2, <2>3, <2>4 DEF Alone
<1>12. Matched(t, q, u, 0)
  <2> SUFFICES ASSUME NEW j \in Ids, NEW s \in Ids, t.ch[j].rid = s PROVE MatchedAt(t, q, u, 0, j, s)
    BY DEF Matched
  <2>1. MatchedAt(m, q, v, 0, j, s) BY <1>2, <1>4 DEF Matched
  <2>2. Answered(t, q, u, 0, j, s) BY <2>1, <1>5, <1>10 DEF MatchedAt, Answered
  <2>3. ASSUME t.ch[j].st = "gone", Live(q, s) PROVE Heard(t, u, 0, j)
    <3>1. CASE j = i BY <2>3, <3>1, <1>2 DEF t
    <3>2. CASE j # i
      <4>1. Heard(m, v, 0, j) BY <2>1, <2>3, <3>2, <1>1 DEF MatchedAt
      <4> QED BY <4>1, <1>5 DEF Heard
    <3> QED BY <3>1, <3>2
  <2> QED BY <2>1, <2>2, <2>3, <1>2 DEF MatchedAt
<1>13. Announced(t, q, u, 0)
  <2> SUFFICES ASSUME NEW j \in Ids, t.ch[j].st = "sent" PROVE AnnouncedAt(t, q, u, 0, j)
    BY DEF Announced
  <2>1. m.ch[j].st = "sent" BY <1>1, <1>2
  <2>2. AnnouncedAt(m, q, v, 0, j) BY <2>1, <1>4 DEF Announced
  <2> QED BY <2>2, <1>2, <1>10 DEF AnnouncedAt
<1>14. Matched(q, t, w, n)
  <2> SUFFICES ASSUME NEW s \in Ids, NEW x \in Ids, q.ch[s].rid = x PROVE MatchedAt(q, t, w, n, s, x)
    BY DEF Matched
  <2>1. MatchedAt(q, m, w, n, s, x) BY <1>4 DEF Matched
  <2>2. Answered(q, t, w, n, s, x)
    <3>1. CASE x = i
      <4>1. m.ch[i].rid = s BY <2>1, <3>1 DEF MatchedAt, Answered
      <4> QED BY <3>1, <4>1, <1>2 DEF Answered
    <3>2. CASE x # i
      <4>1. t.ch[x] = m.ch[x] BY <3>2, <1>1
      <4> QED BY <2>1, <4>1, <1>1 DEF MatchedAt, Answered
    <3> QED BY <3>1, <3>2
  <2> QED BY <2>1, <2>2, <1>2, <1>8 DEF MatchedAt
<1>15. Announced(q, t, w, n)
  <2> SUFFICES ASSUME NEW s \in Ids, q.ch[s].st = "sent" PROVE AnnouncedAt(q, t, w, n, s)
    BY DEF Announced
  <2>1. AnnouncedAt(q, m, w, n, s) BY <1>4 DEF Announced
  <2>2. q.ch[s].key \in Keys BY DEF Both, General, WellKept
  <2> QED BY <2>1, <2>2, <1>1, <1>2, <1>9 DEF AnnouncedAt
<1>16. InLine(q, t, w, n)
  <2>1. \A s \in Ids : s \in Held(t) => s \in Held(m) BY <1>2, <1>9, HeldBy
  <2> QED BY <2>1, <1>4, InLineHeld
<1> QED BY <1>4, <1>11, <1>12, <1>13, <1>14, <1>15, <1>16 DEF Tight, Orderly, t

\* An OPEN is next in line.
Arriving(m, q, v, w, n, f) ==
  /\ 1 \in DOMAIN w /\ n + 1 \in DOMAIN w[1] /\ f = w[1][n + 1] /\ f \in MuxFrames
  /\ Both(m, q, v, w, n) /\ Tight(m, q, v, w, n)

\* What holds when OPEN frame f arrives: nothing is known of the channel it opens, none of an
\* earlier channel of the key is still on the way, and none of a later one is here.
OpensAnew(m, q, w, n, f) ==
  /\ f.id \in Ids /\ f.key \in Keys /\ f = OpenOf(q, f.id)
  /\ f.id \notin Held(m) /\ q.ch[f.id].st \in Opened /\ q.ch[f.id].key = f.key
  /\ \A l \in Keys : ~OnWay(w, n + 1, OpenFrame(f.id, l))
  /\ \A s \in Ids : s < f.id /\ SameKey(q, s, f.id) =>
       ~OnWay(w, n, OpenOf(q, s)) /\ ~OnWay(w, n, CloseFrame(s))
  /\ \A s \in Ids : s > f.id /\ SameKey(q, s, f.id) => s \notin Held(m)
  /\ OnWay(w, n, f)
  /\ \A g : g # f /\ OnWay(w, n, g) => OnWay(w, n + 1, g)
  /\ Shorter(w, n, w, n + 1)

LEMMA OpenArrives ==
  ASSUME NEW m \in MuxType, NEW q \in MuxType, NEW v, NEW w \in Packets, NEW n \in Nat, NEW f,
         Arriving(m, q, v, w, n, f), f.op = "open"
  PROVE  OpensAnew(m, q, w, n, f)
<1> DEFINE r == f.id
           k == f.key
<1>0. 1 \in DOMAIN w /\ n + 1 \in DOMAIN w[1] /\ f = w[1][n + 1] /\ f \in MuxFrames BY DEF Arriving
<1>1. r \in Ids /\ k \in Keys /\ f = OpenFrame(r, k) BY <1>0, FrameKinds
<1>2. /\ Shorter(w, n, w, n + 1) /\ OnWay(w, n, f)
      /\ \A g : g # f /\ OnWay(w, n, g) => OnWay(w, n + 1, g)
      /\ Once(w, n, f) => ~OnWay(w, n + 1, f)
      /\ \A g : Ordered(w, n, g, f) => ~OnWay(w, n, g)
  BY <1>0, Took
<1>3. Traced(q, m, w, n) BY DEF Arriving, Both, General
<1> HIDE DEF r, k
<1>4. q.ch[r].st \in Opened /\ q.ch[r].key = k /\ r \notin Held(m) /\ Once(w, n, OpenFrame(r, k))
  BY <1>1, <1>2, <1>3 DEF Traced
<1>5. f = OpenOf(q, r) BY <1>1, <1>4 DEF OpenOf
<1>6. \A l \in Keys : ~OnWay(w, n + 1, OpenFrame(r, l))
  <2> TAKE l \in Keys
  <2>1. CASE l = k BY <2>1, <1>1, <1>2, <1>4
  <2>2. CASE l # k
    <3>1. OnWay(w, n + 1, OpenFrame(r, l)) => OnWay(w, n, OpenFrame(r, l)) BY <1>2 DEF Shorter
    <3> QED BY <2>2, <3>1, <1>1, <1>3, <1>4 DEF Traced
  <2> QED BY <2>1, <2>2
<1>7. InLine(q, m, w, n) BY DEF Arriving, Tight, Orderly
<1>8. ASSUME NEW s \in Ids, s < r, SameKey(q, s, r)
      PROVE  ~OnWay(w, n, OpenOf(q, s)) /\ ~OnWay(w, n, CloseFrame(s))
  <2>1. Ordered(w, n, OpenOf(q, s), OpenOf(q, r)) /\ Ordered(w, n, CloseFrame(s), OpenOf(q, r))
    BY <1>1, <1>7, <1>8 DEF InLine
  <2> QED BY <2>1, <1>2, <1>5
<1>9. ASSUME NEW s \in Ids, s > r, SameKey(q, s, r) PROVE s \notin Held(m)
  <2>1. r \in Nat /\ s \in Nat BY <1>1, MuxAssumption DEF Ids
  <2>2. r < s /\ SameKey(q, r, s) BY <2>1, <1>9 DEF SameKey
  <2> QED BY <2>2, <1>1, <1>2, <1>5, <1>7 DEF InLine
<1> QED BY <1>1, <1>2, <1>4, <1>5, <1>6, <1>8, <1>9 DEF OpensAnew, r, k

\* handle_open finds a channel that has sent its own OPEN.
LEMMA OpenPaired ==
  ASSUME NEW m \in MuxType, NEW q \in MuxType, NEW v, NEW w \in Packets, NEW n \in Nat, NEW f,
         Arriving(m, q, v, w, n, f), f.op = "open",
         NEW i \in Ids, m.ch[i].st = "sent", m.ch[i].key = f.key
  PROVE  Tight(TryPair(m, i, f.id), q, v, w, n + 1)
<1> DEFINE r == f.id
<1>1. /\ r \in Ids /\ f.key \in Keys /\ f = OpenOf(q, r)
      /\ r \notin Held(m) /\ q.ch[r].st \in Opened /\ q.ch[r].key = f.key
      /\ \A l \in Keys : ~OnWay(w, n + 1, OpenFrame(r, l))
      /\ \A s \in Ids : s < r /\ SameKey(q, s, r) =>
           ~OnWay(w, n, OpenOf(q, s)) /\ ~OnWay(w, n, CloseFrame(s))
      /\ OnWay(w, n, f)
      /\ \A g : g # f /\ OnWay(w, n, g) => OnWay(w, n + 1, g)
      /\ Shorter(w, n, w, n + 1)
  <2>1. OpensAnew(m, q, w, n, f) BY OpenArrives
  <2> QED BY <2>1 DEF OpensAnew
<1>0. q.ch[r].key = m.ch[i].key BY <1>1
<1> HIDE DEF r
<1>2. Both(m, q, v, w, n) /\ Orderly(m, q, v, 0) /\ Orderly(q, m, w, n) BY DEF Arriving, Tight
<1>3. Both(m, q, v, w, n + 1) BY <1>1, <1>2, TracedShorter DEF Both, General
<1>4. /\ Alone(m) /\ Matched(m, q, v, 0) /\ Announced(m, q, v, 0)
      /\ Alone(q) /\ Matched(q, m, w, n) /\ Announced(q, m, w, n) /\ InLine(q, m, w, n)
  BY <1>2 DEF Orderly
<1>5. Live(m, i) BY DEF Live
<1>6. ~(m.destroyed = TRUE) /\ m.pending[m.ch[i].key] = None BY <1>4, <1>5 DEF Alone
<1>7. None \notin Ids /\ \A s \in Ids : q.ch[s].rid \in Ids \cup {None} BY MuxFields
<1>8. \A x \in Ids : m.ch[x].rid # r BY <1>1 DEF Held
<1>9. \A g : OnWay(w, n + 1, g) => OnWay(w, n, g) BY <1>1 DEF Shorter
<1>10. ASSUME NEW x \in Ids, q.ch[r].rid = x PROVE x = i
  <2>1. MatchedAt(q, m, w, n, r, x) BY <1>1, <1>4, <1>10 DEF Matched
  <2>2. m.ch[x].key = m.ch[i].key /\ m.ch[x].st = "sent" BY <2>1, <1>0, <1>1, <1>6, <1>8 DEF MatchedAt, Answered
  <2>3. Live(m, x) BY <2>2 DEF Live
  <2> QED BY <2>2, <2>3, <1>4, <1>5, AloneAt
<1>11. q.ch[r].rid \in {None, i} BY <1>1, <1>7, <1>10
<1>12. ASSUME NEW s \in Ids, q.ch[s].rid = i, s # r PROVE FALSE
  <2>1. MatchedAt(q, m, w, n, s, i) BY <1>4, <1>12 DEF Matched
  <2>2. q.ch[s].key = q.ch[r].key BY <2>1, <1>0 DEF MatchedAt
  <2>3. q.ch[s].st # "none" /\ q.ch[r].st # "none" /\ q.ch[s].rid # None
    BY <1>1, <1>2, <1>7, <1>12 DEF Both, General, WellKept, Opened
  <2>4. \/ s < r /\ q.ch[s].st = "gone"
        \/ r < s /\ q.ch[r].st = "gone" /\ q.ch[r].rid # None
    BY <2>2, <2>3, <1>1, <1>4, <1>12, AloneAt
  <2>5. CASE s < r /\ q.ch[s].st = "gone"
    <3>1. Heard(q, w, n, s) BY <2>1, <2>5, <1>5 DEF MatchedAt
    <3>2. SameKey(q, s, r) BY <2>2 DEF SameKey
    <3>3. ~OnWay(w, n, CloseFrame(s)) BY <2>5, <3>2, <1>1
    <3>4. r <= s BY <3>1, <3>2, <3>3, <1>1 DEF Heard
    <3>5. r \in Nat /\ s \in Nat BY <1>1, MuxAssumption DEF Ids
    <3> QED BY <2>5, <3>4, <3>5
  <2>6. CASE r < s /\ q.ch[r].st = "gone" /\ q.ch[r].rid # None
    <3>1. q.ch[r].rid = i BY <2>6, <1>11
    <3>2. q.ch[r].rid = q.ch[s].rid /\ q.ch[r].rid # None BY <2>6, <3>1, <1>12
    <3> QED BY <3>2, <1>1, <1>2, <1>12 DEF Both, General, WellKept
  <2> QED BY <2>4, <2>5, <2>6
<1>13. ASSUME q.ch[r].st = "sent" PROVE OnWay(v, 0, OpenOf(m, i))
  <2>1. Live(q, r) BY <1>13 DEF Live
  <2>2. ~(q.destroyed = TRUE) BY <2>1, <1>1, <1>4 DEF Alone
  <2>3. q.pending[m.ch[i].key] # i
    <3>1. q.pending[q.ch[r].key] # None => q.ch[r].st = "new" BY <2>1, <1>1, <1>4 DEF Alone
    <3> QED BY <3>1, <1>0, <1>7, <1>13
  <2>4. \A s \in Ids : q.ch[s].rid # i
    <3>1. q.ch[r].rid = None BY <1>1, <1>2, <1>13 DEF Both, General, WellKept
    <3> QED BY <3>1, <1>7, <1>12
  <2>5. AnnouncedAt(m, q, v, 0, i) BY <1>4 DEF Announced
  <2> QED BY <2>2, <2>3, <2>4, <2>5 DEF AnnouncedAt
<1>14. \A s \in Ids : CloseFrame(s) # f
  <2> TAKE s \in Ids
  <2>1. CloseFrame(s).op = "close" BY FrameKinds
  <2> QED BY <2>1
<1>15. \A s \in Ids : s # r => OpenOf(q, s) # f
  <2> TAKE s \in Ids
  <2>1. OpenOf(q, s).id = s BY DEF OpenOf, OpenFrame
  <2> QED BY <2>1 DEF r
<1>16. ASSUME NEW s \in Ids, Heard(q, w, n, s) PROVE Heard(q, w, n + 1, s)
  BY <1>1, <1>9, <1>14, <1>16 DEF Heard
<1>17. ASSUME q.ch[r].st = "gone", q.ch[r].rid = i PROVE Heard(q, w, n + 1, r)
  <2>1. MatchedAt(q, m, w, n, r, i) BY <1>1, <1>4, <1>17 DEF Matched
  <2>2. Heard(q, w, n, r) BY <2>1, <1>5, <1>17 DEF MatchedAt
  <2> QED BY <2>2, <1>1, <1>16
<1>18. ASSUME NEW s \in Ids, NEW x \in Ids, s # r, q.ch[s].rid = x PROVE MatchedAt(q, m, w, n + 1, s, x)
  <2>1. MatchedAt(q, m, w, n, s, x) BY <1>4, <1>18 DEF Matched
  <2>2. Answered(q, m, w, n + 1, s, x) BY <2>1, <1>1, <1>9, <1>15, <1>18 DEF MatchedAt, Answered
  <2> QED BY <2>1, <2>2, <1>16 DEF MatchedAt
<1>19. ASSUME NEW s \in Ids, s # r, q.ch[s].st = "sent" PROVE AnnouncedAt(q, m, w, n + 1, s)
  <2>1. AnnouncedAt(q, m, w, n, s) BY <1>4, <1>19 DEF Announced
  <2> QED BY <2>1, <1>1, <1>15, <1>19 DEF AnnouncedAt
<1>20. InLine(q, m, w, n + 1) BY <1>1, <1>4, InLineShorter
<1>21. \A s \in Ids : s < r /\ SameKey(q, s, r) =>
         ~OnWay(w, n + 1, OpenOf(q, s)) /\ ~OnWay(w, n + 1, CloseFrame(s))
  BY <1>1, <1>9
<1>22. Tight(TryPair(m, i, r), q, v, w, n + 1)
  BY <1>0, <1>1, <1>2, <1>3, <1>4, <1>6, <1>11, <1>12, <1>13, <1>17, <1>18, <1>19, <1>20, <1>21, PairedTight
<1> QED BY <1>22 DEF r

\* handle_open finds none: the key has no live channel, or one that is still new.
LEMMA OpenWaits ==
  ASSUME NEW m \in MuxType, NEW q \in MuxType, NEW v, NEW w \in Packets, NEW n \in Nat, NEW f,
         Arriving(m, q, v, w, n, f), f.op = "open", NEW i,
         i = None \/ (i \in Ids /\ m.ch[i].st \in {"new", "open"} /\ m.ch[i].key = f.key),
         i = None => \A j \in Ids : Live(m, j) => m.ch[j].key # f.key
  PROVE  Tight([m EXCEPT !.pending[f.key] = f.id], q, v, w, n + 1)
<1> DEFINE r == f.id
           k == f.key
           t == [m EXCEPT !.pending[k] = r]
<1>1. /\ r \in Ids /\ k \in Keys /\ f = OpenOf(q, r)
      /\ r \notin Held(m) /\ q.ch[r].st \in Opened /\ q.ch[r].key = k
      /\ \A s \in Ids : s < r /\ SameKey(q, s, r) =>
           ~OnWay(w, n, OpenOf(q, s)) /\ ~OnWay(w, n, CloseFrame(s))
      /\ \A s \in Ids : s > r /\ SameKey(q, s, r) => s \notin Held(m)
      /\ OnWay(w, n, f)
      /\ \A g : g # f /\ OnWay(w, n, g) => OnWay(w, n + 1, g)
      /\ Shorter(w, n, w, n + 1)
  <2>1. OpensAnew(m, q, w, n, f) BY OpenArrives
  <2> QED BY <2>1 DEF OpensAnew
<1>2. /\ t.destroyed = m.destroyed /\ t.ch = m.ch
      /\ t.pending[k] = r /\ \A l \in Keys : l # k => t.pending[l] = m.pending[l]
  <2>1. r \in Ids \cup {None} /\ k \in Keys BY <1>1
  <2> HIDE DEF r, k
  <2>2. /\ SameBut(m, t) /\ t.ch = m.ch
        /\ t.pending[k] = r /\ \A l \in Keys : l # k => t.pending[l] = m.pending[l]
    BY <2>1, WaitingFields
  <2> HIDE DEF t
  <2> QED BY <2>2 DEF SameBut
<1>3. i = None \/ (i \in Ids /\ m.ch[i].st \in {"new", "open"} /\ m.ch[i].key = k) OBVIOUS
<1>4. i = None => \A j \in Ids : Live(m, j) => m.ch[j].key # k OBVIOUS
<1>5. \A s \in Ids : s # r => OpenOf(q, s) # f
  <2> TAKE s \in Ids
  <2>1. OpenOf(q, s).id = s BY DEF OpenOf, OpenFrame
  <2> QED BY <2>1
<1>6. \A s \in Ids : CloseFrame(s) # f
  <2> TAKE s \in Ids
  <2>1. CloseFrame(s).op = "close" BY FrameKinds
  <2> QED BY <2>1
<1> HIDE DEF t, r, k
<1>7. Both(m, q, v, w, n) /\ Orderly(m, q, v, 0) /\ Orderly(q, m, w, n) BY DEF Arriving, Tight
<1>8. /\ Alone(m) /\ Matched(m, q, v, 0) /\ Announced(m, q, v, 0) /\ InLine(m, q, v, 0)
      /\ Alone(q) /\ Matched(q, m, w, n) /\ Announced(q, m, w, n) /\ InLine(q, m, w, n)
  BY <1>7 DEF Orderly
<1>9. None \notin Ids /\ r \in Nat BY <1>1, MuxFields, MuxAssumption DEF Ids
<1>10. ASSUME NEW j \in Ids, m.ch[j].st = "open", m.ch[j].key = k PROVE FALSE
  <2> DEFINE s == m.ch[j].rid
  <2>1. s \in Ids /\ Live(m, j) BY <1>7, <1>10 DEF Both, General, WellKept, Live
  <2>2. s # r /\ s \in Held(m) BY <1>1 DEF Held
  <2>3. MatchedAt(m, q, v, 0, j, s) BY <2>1, <1>8 DEF Matched
  <2> HIDE DEF s
  <2>4. q.ch[s].key = q.ch[r].key /\ q.ch[s].st # "none" /\ q.ch[r].st # "none"
    BY <2>3, <1>1, <1>10 DEF MatchedAt, Answered, Opened
  <2>5. s \in Nat BY <2>1, MuxAssumption DEF Ids
  <2>6. s < r /\ q.ch[s].st = "gone" /\ q.ch[s].rid # None
    <3>1. s < r \/ s > r BY <2>2, <2>5, <1>9
    <3>2. SameKey(q, s, r) BY <2>4 DEF SameKey
    <3>3. s < r BY <2>1, <2>2, <3>1, <3>2, <1>1
    <3> QED BY <2>1, <2>4, <3>2, <3>3, <1>1, <1>8 DEF Alone
  <2>7. q.ch[s].rid = j BY <2>3, <2>6 DEF MatchedAt, Answered
  <2>8. MatchedAt(q, m, w, n, s, j) BY <2>1, <2>7, <1>8 DEF Matched
  <2>9. Heard(q, w, n, s) BY <2>1, <2>6, <2>8 DEF MatchedAt
  <2>10. SameKey(q, s, r) BY <2>4 DEF SameKey
  <2>11. r <= s BY <2>1, <2>6, <2>9, <2>10, <1>1 DEF Heard
  <2> QED BY <2>5, <2>6, <2>11, <1>9
<1>11. ASSUME NEW j \in Ids, Live(m, j), m.ch[j].key = k PROVE m.ch[j].st = "new"
  <2>1. i \in Ids /\ m.ch[i].st \in {"new", "open"} /\ m.ch[i].key = k BY <1>3, <1>4, <1>11
  <2>2. m.ch[i].st = "new" BY <2>1, <1>10
  <2>3. Live(m, i) BY <2>2 DEF Live
  <2>4. i = j BY <2>1, <2>3, <1>8, <1>11, AloneAt
  <2> QED BY <2>2, <2>4
<1>12. \A j \in Ids : Live(t, j) <=> Live(m, j) BY <1>2 DEF Live
<1>13. Alone(t)
  <2>1. ASSUME NEW a \in Ids, Live(t, a), t.pending[t.ch[a].key] # None PROVE t.ch[a].st = "new"
    <3>1. Live(m, a) /\ t.ch[a] = m.ch[a] BY <2>1, <1>2, <1>12
    <3>2. m.ch[a].key \in Keys BY <3>1, <1>7 DEF Both, General, WellKept, Live
    <3>3. CASE m.ch[a].key = k BY <3>1, <3>3, <1>11
    <3>4. CASE m.ch[a].key # k BY <2>1, <3>1, <3>2, <3>4, <1>2, <1>8 DEF Alone
    <3> QED BY <3>3, <3>4
  <2> QED BY <2>1, <1>2, <1>8, <1>12 DEF Alone, SameKey
<1>14. Matched(t, q, v, 0)
  BY <1>2, <1>8 DEF Matched, MatchedAt, Answered, Heard, OpenOf, SameKey
<1>15. Announced(t, q, v, 0) BY <1>2, <1>8 DEF Announced, AnnouncedAt, OpenOf
<1>16. InLine(t, q, v, 0) BY <1>2, <1>8 DEF InLine, OpenOf, SameKey
<1>17. Matched(q, t, w, n + 1)
  <2> SUFFICES ASSUME NEW s \in Ids, NEW x \in Ids, q.ch[s].rid = x PROVE MatchedAt(q, t, w, n + 1, s, x)
    BY DEF Matched
  <2>1. MatchedAt(q, m, w, n, s, x) BY <1>8 DEF Matched
  <2>2. m.ch[x].st = "sent" => s # r
    <3> SUFFICES ASSUME m.ch[x].st = "sent", s = r PROVE FALSE OBVIOUS
    <3>1. Live(m, x) /\ m.ch[x].key = k BY <2>1, <1>1 DEF Live, MatchedAt
    <3> QED BY <3>1, <1>11
  <2>3. \A g : OnWay(w, n + 1, g) => OnWay(w, n, g) BY <1>1 DEF Shorter
  <2>4. Answered(q, t, w, n + 1, s, x) BY <2>1, <2>2, <2>3, <1>1, <1>2, <1>5 DEF MatchedAt, Answered
  <2>5. Heard(q, w, n, s) => Heard(q, w, n + 1, s) BY <2>3, <1>1, <1>6 DEF Heard
  <2> QED BY <2>1, <2>4, <2>5, <1>2, <1>12 DEF MatchedAt
<1>18. Announced(q, t, w, n + 1)
  <2> SUFFICES ASSUME NEW s \in Ids, q.ch[s].st = "sent" PROVE AnnouncedAt(q, t, w, n + 1, s)
    BY DEF Announced
  <2>1. AnnouncedAt(q, m, w, n, s) BY <1>8 DEF Announced
  <2>2. q.ch[s].key \in Keys BY <1>7 DEF Both, General, WellKept
  <2>3. CASE s = r BY <2>3, <1>1, <1>2 DEF AnnouncedAt
  <2>4. CASE s # r
    <3>1. OnWay(w, n, OpenOf(q, s)) => OnWay(w, n + 1, OpenOf(q, s)) BY <2>4, <1>1, <1>5
    <3>2. ASSUME m.pending[q.ch[s].key] = s PROVE q.ch[s].key # k
      <4> SUFFICES ASSUME q.ch[s].key = k PROVE FALSE OBVIOUS
      <4>1. s \in Held(m) BY <2>2, <3>2 DEF Held
      <4>2. SameKey(q, s, r) /\ SameKey(q, r, s) BY <1>1 DEF SameKey
      <4>3. s \in Nat BY MuxAssumption DEF Ids
      <4>4. s < r \/ s > r BY <2>4, <4>3, <1>9
      <4>5. s < r BY <4>1, <4>2, <4>4, <1>1
      <4>6. q.ch[r].st # "none" BY <1>1 DEF Opened
      <4>7. q.ch[s].st = "gone" BY <4>2, <4>5, <4>6, <1>1, <1>8 DEF Alone
      <4> QED BY <4>7
    <3>3. m.pending[q.ch[s].key] = s => t.pending[q.ch[s].key] = s BY <2>2, <3>2, <1>2
    <3> QED BY <2>1, <3>1, <3>3, <1>2 DEF AnnouncedAt
  <2> QED BY <2>3, <2>4
<1>19. InLine(q, t, w, n + 1)
  <2>1. InLine(q, m, w, n + 1) BY <1>1, <1>8, InLineShorter
  <2>2. \A s \in Ids : s \in Held(t) => s \in Held(m) \/ s = r
    <3> TAKE s \in Ids
    <3>1. ASSUME NEW j \in Ids, t.ch[j].rid = s PROVE s \in Held(m) BY <3>1, <1>2 DEF Held
    <3>2. ASSUME NEW l \in Keys, t.pending[l] = s PROVE s \in Held(m) \/ s = r
      <4>1. l # k => m.pending[l] = s BY <3>2, <1>2
      <4> QED BY <3>2, <4>1, <1>2 DEF Held
    <3> QED BY <3>1, <3>2, HeldBy
  <2>3. \A s \in Ids : s < r /\ SameKey(q, s, r) =>
          ~OnWay(w, n + 1, OpenOf(q, s)) /\ ~OnWay(w, n + 1, CloseFrame(s))
    BY <1>1 DEF Shorter
  <2> QED BY <2>1, <2>2, <2>3 DEF InLine
<1>20. Tight(t, q, v, w, n + 1)
  BY <1>8, <1>13, <1>14, <1>15, <1>16, <1>17, <1>18, <1>19 DEF Tight, Orderly
<1> QED BY <1>20 DEF t, r, k

\* handle_close.
LEMMA CloseArrives ==
  ASSUME NEW m \in MuxType, NEW q \in MuxType, NEW v, NEW w \in Packets, NEW n \in Nat, NEW f,
         Arriving(m, q, v, w, n, f), f.op = "close"
  PROVE  Tight(Handle(m, f), q, v, w, n + 1)
<1> DEFINE r == f.id
           i == m.remote[r]
<1>0. 1 \in DOMAIN w /\ n + 1 \in DOMAIN w[1] /\ f = w[1][n + 1] /\ f \in MuxFrames BY DEF Arriving
<1>1. r \in Ids /\ f = CloseFrame(r) BY <1>0, FrameKinds
<1>2. Both(m, q, v, w, n) /\ Tight(m, q, v, w, n) BY DEF Arriving
<1>3. /\ Alone(m) /\ Matched(m, q, v, 0) /\ Announced(m, q, v, 0) /\ InLine(m, q, v, 0)
      /\ Alone(q) /\ Matched(q, m, w, n) /\ Announced(q, m, w, n) /\ InLine(q, m, w, n)
  BY <1>2 DEF Tight, Orderly
<1>4. OnWay(w, n, f) /\ (\A g : Ordered(w, n, g, f) => ~OnWay(w, n, g)) BY <1>0, Took
<1>5. q.ch[r].st = "gone" /\ ~OnWay(w, n, OpenOf(q, r)) BY <1>1, <1>3, <1>4 DEF InLine
<1>6. None \notin Ids BY MuxFields
<1>7. \/ i = None /\ Handle(m, f) = m
      \/ i \in Ids /\ Handle(m, f) = RemoveChannel(m, i)
  BY <1>0, FrameCases
<1>8. WellKept(m) BY <1>2 DEF Both, General
<1>9. ASSUME i = None, NEW x \in Ids, q.ch[r].rid = x PROVE ~Live(m, x)
  <2>1. MatchedAt(q, m, w, n, r, x) BY <1>1, <1>3, <1>9 DEF Matched
  <2>2. m.ch[x].st = "open" /\ m.ch[x].rid = r => m.remote[r] = x BY <1>1, <1>8 DEF WellKept
  <2>3. ~(m.ch[x].st = "open" /\ m.ch[x].rid = r) BY <2>2, <1>6, <1>9
  <2> HIDE DEF r
  <2>4. OnWay(w, n, CloseFrame(r)) BY <1>1, <1>4
  <2>5. Answered(q, m, w, n, r, x) BY <2>1 DEF MatchedAt
  <2>6. m.ch[x].st # "sent" BY <2>4, <2>5, <1>5 DEF Answered
  <2>7. m.ch[x].st # "new" /\ m.ch[x].st # "open" BY <2>3, <2>5, <2>6 DEF Answered
  <2> QED BY <2>6, <2>7 DEF Live
<1>10. CASE i = None /\ Handle(m, f) = m
  <2>1. \A x \in Ids : q.ch[f.id].rid = x => ~Live(m, x) BY <1>9, <1>10
  <2> QED BY <2>1, <1>0, <1>2, <1>10, TakenTight
<1>11. CASE i \in Ids /\ Handle(m, f) = RemoveChannel(m, i)
  <2> HIDE DEF i
  <2>1. m.ch[i].st = "open" /\ m.ch[i].rid = r BY <1>1, <1>8, <1>11 DEF WellKept, i
  <2> DEFINE t == RemoveChannel(m, i)
  <2>2. /\ t \in MuxType
        /\ t.ch[i] = [st |-> "gone", key |-> m.ch[i].key, rid |-> m.ch[i].rid]
        /\ \A j \in Ids : j # i => t.ch[j] = m.ch[j]
    BY <1>11, RemoveFields
  <2>3. InLine(t, q, v, 0)
    <3> HIDE DEF t
    <3>1. \A j \in Ids : /\ t.ch[j].key = m.ch[j].key /\ t.ch[j].rid = m.ch[j].rid
                         /\ m.ch[j].st = "gone" => t.ch[j].st = "gone"
      BY <2>2
    <3>2. \A a, b \in Ids : SameKey(t, a, b) <=> SameKey(m, a, b) BY <3>1 DEF SameKey
    <3>3. \A a \in Ids : OpenOf(t, a) = OpenOf(m, a) BY <3>1 DEF OpenOf
    <3> QED BY <3>1, <3>2, <3>3, <1>3 DEF InLine
  <2>4. ~Live(q, m.ch[i].rid) BY <2>1, <1>5 DEF Live
  <2>5. Tight(t, q, v, w, n) BY <2>1, <2>3, <2>4, <1>2, <1>11, RemovedTight
  <2>6. ASSUME NEW x \in Ids, q.ch[r].rid = x PROVE ~Live(t, x)
    <3>1. MatchedAt(m, q, v, 0, i, r) BY <2>1, <1>1, <1>3, <1>11 DEF Matched
    <3>2. q.ch[r].rid = i
      <4> HIDE DEF r
      <4> QED BY <2>6, <3>1, <1>5, <1>6 DEF MatchedAt, Answered
    <3>3. t.ch[i].st = "gone" BY <2>2
    <3> QED BY <2>6, <3>2, <3>3 DEF Live
  <2>7. \A x \in Ids : q.ch[f.id].rid = x => ~Live(t, x) BY <2>6
  <2> HIDE DEF t
  <2>8. Tight(t, q, v, w, n + 1) BY <2>2, <2>5, <2>7, <1>0, TakenTight
  <2> QED BY <2>8, <1>11 DEF t
<1> QED BY <1>7, <1>10, <1>11

LEMMA FrameTight ==
  ASSUME NEW m \in MuxType, NEW q \in MuxType, NEW v, NEW w \in Packets, NEW n \in Nat, NEW f,
         Arriving(m, q, v, w, n, f)
  PROVE  Tight(Handle(m, f), q, v, w, n + 1)
<1>0. 1 \in DOMAIN w /\ n + 1 \in DOMAIN w[1] /\ f = w[1][n + 1] /\ f \in MuxFrames /\ Tight(m, q, v, w, n)
  BY DEF Arriving
<1>1. CASE f.op = "open"
  <2> DEFINE i == FindByPairKey(m, f.key)
  <2>1. \/ i \in Ids /\ m.ch[i].st = "sent" /\ m.ch[i].key = f.key /\ Handle(m, f) = TryPair(m, i, f.id)
        \/ /\ i = None \/ (i \in Ids /\ m.ch[i].st \in {"new", "open"} /\ m.ch[i].key = f.key)
           /\ i = None => \A j \in Ids : Live(m, j) => m.ch[j].key # f.key
           /\ Handle(m, f) = [m EXCEPT !.pending[f.key] = f.id]
    BY <1>0, <1>1, FrameCases
  <2> HIDE DEF i
  <2>2. CASE i \in Ids /\ m.ch[i].st = "sent" /\ m.ch[i].key = f.key /\ Handle(m, f) = TryPair(m, i, f.id)
    <3>1. Tight(TryPair(m, i, f.id), q, v, w, n + 1) BY <1>1, <2>2, OpenPaired
    <3> QED BY <2>2, <3>1
  <2>3. CASE /\ i = None \/ (i \in Ids /\ m.ch[i].st \in {"new", "open"} /\ m.ch[i].key = f.key)
             /\ i = None => \A j \in Ids : Live(m, j) => m.ch[j].key # f.key
             /\ Handle(m, f) = [m EXCEPT !.pending[f.key] = f.id]
    <3>1. Tight([m EXCEPT !.pending[f.key] = f.id], q, v, w, n + 1) BY <1>1, <2>3, OpenWaits
    <3> QED BY <2>3, <3>1
  <2> QED BY <2>1, <2>2, <2>3
<1>2. CASE f.op = "close" BY <1>2, CloseArrives
<1>3. CASE f.op = "data"
  <2>1. Handle(m, f) = m BY <1>3 DEF Handle
  <2> QED BY <1>0, <1>3, <2>1, TakenTight
<1> QED BY <1>0, <1>1, <1>2, <1>3, FrameKinds

\* A data frame that names its own channel's id finds that channel, or it is closed.
LEMMA NoStray ==
  ASSUME NEW m \in MuxType, NEW q \in MuxType, NEW v, NEW w \in Packets, NEW n \in Nat, NEW f,
         Arriving(m, q, v, w, n, f), Strays(m, f)
  PROVE  f.from # f.id
<1> SUFFICES ASSUME f.from = f.id PROVE FALSE OBVIOUS
<1> DEFINE x == f.id
<1>0. /\ 1 \in DOMAIN w /\ n + 1 \in DOMAIN w[1] /\ f = w[1][n + 1] /\ f \in MuxFrames
      /\ f.op = "data" /\ m.remote[x] # x /\ (m.remote[x] # None \/ m.ch[x].st # "gone")
  BY DEF Arriving, Strays
<1>1. x \in Ids /\ f = DataFrame(x, x) BY <1>0, FrameKinds
<1> HIDE DEF x
<1>2. OnWay(w, n, f) /\ (\A g : Ordered(w, n, g, f) => ~OnWay(w, n, g)) BY <1>0, Took
<1>3. WellKept(m) /\ Alone(m) /\ Matched(q, m, w, n) /\ InLine(q, m, w, n)
  BY DEF Arriving, Both, General, Tight, Orderly
<1>4. q.ch[x].rid = x /\ ~OnWay(w, n, OpenOf(q, x)) /\ OnWay(w, n, DataFrame(x, x))
  BY <1>1, <1>2, <1>3 DEF InLine
<1>5. Answered(q, m, w, n, x, x) BY <1>1, <1>3, <1>4 DEF Matched, MatchedAt
<1>6. m.remote[x] \in Ids \cup {None} /\ None \notin Ids BY <1>1, MuxFields
<1>7. m.ch[x].st # "sent" BY <1>1, <1>4, <1>5 DEF Answered
<1>8. m.ch[x].st # "open"
  <2>1. m.ch[x].st = "open" /\ m.ch[x].rid = x => m.remote[x] = x BY <1>1, <1>3 DEF WellKept
  <2> QED BY <2>1, <1>0, <1>5 DEF Answered
<1>9. m.ch[x].st = "gone" /\ (m.ch[x].rid = x \/ m.destroyed = TRUE) BY <1>5, <1>7, <1>8 DEF Answered
<1>10. m.remote[x] \in Ids BY <1>0, <1>6, <1>9
<1>11. m.ch[m.remote[x]].st = "open" /\ m.ch[m.remote[x]].rid = x BY <1>1, <1>3, <1>10 DEF WellKept
<1>12. ~(m.destroyed = TRUE) BY <1>3, <1>10, <1>11 DEF Alone, Live
<1>13. m.ch[x].rid = m.ch[m.remote[x]].rid /\ m.ch[x].rid # None BY <1>1, <1>6, <1>9, <1>11, <1>12
<1>14. x = m.remote[x] BY <1>1, <1>3, <1>10, <1>13 DEF WellKept
<1> QED BY <1>0, <1>14

\* The loop of handle_batch, frame by frame.
Run(got, p, n, after) ==
  after = [a \in 0 .. n |-> IF a = 0 THEN got ELSE HandleFrame(after[a - 1], p[a])]

LEMMA Runs ==
  ASSUME NEW got, NEW p \in Seq(MuxFrames)
  PROVE  \E after : Run(got, p, Len(p), after)
<1> DEFINE Bad == {n \in 1 .. Len(p) + 1 : ~\E after : Run(got, p, n - 1, after)}
<1>1. Len(p) \in Nat OBVIOUS
<1>2. Bad = {}
  <2> SUFFICES ASSUME Bad # {} PROVE FALSE OBVIOUS
  <2>1. Bad \in SUBSET (1 .. Len(p) + 1) /\ Len(p) + 1 \in Nat BY <1>1
  <2>2. PICK b \in Bad : \A i \in Bad : b <= i BY <2>1, FirstOf
  <2>3. b \in 1 .. Len(p) + 1 /\ ~\E after : Run(got, p, b - 1, after) BY <2>2
  <2>4. CASE b = 1
    <3> DEFINE g == [a \in 0 .. 0 |-> got]
    <3>1. g = [a \in 0 .. 0 |-> IF a = 0 THEN got ELSE HandleFrame(g[a - 1], p[a])] OBVIOUS
    <3>2. b - 1 = 0 BY <2>4
    <3>3. Run(got, p, b - 1, g) BY <3>1, <3>2 DEF Run
    <3> QED BY <2>3, <3>3
  <2>5. CASE b # 1
    <3> DEFINE c == b - 1
               d == c - 1
    <3>1. c \in 1 .. Len(p) + 1 /\ c < b /\ c \in Nat \ {0} /\ d \in Nat BY <2>3, <2>5, <1>1
    <3>2. c \notin Bad
      <4>1. ~(b <= c) BY <2>3, <3>1, <1>1
      <4> HIDE DEF Bad
      <4> QED BY <2>2, <4>1
    <3>3. PICK g : Run(got, p, d, g) BY <3>1, <3>2
    <3> HIDE DEF Bad, c
    <3>4. c = d + 1 /\ 0 .. c = (0 .. d) \cup {c} /\ c \notin 0 .. d BY <3>1
    <3> HIDE DEF d
    <3> DEFINE h == [a \in 0 .. c |-> IF a = c THEN HandleFrame(g[d], p[c]) ELSE g[a]]
    <3>5. \A a \in 0 .. d : g[a] = IF a = 0 THEN got ELSE HandleFrame(g[a - 1], p[a])
      <4>1. g = [a \in 0 .. d |-> IF a = 0 THEN got ELSE HandleFrame(g[a - 1], p[a])] BY <3>3 DEF Run
      <4> QED BY <4>1
    <3>6. ASSUME NEW a \in 0 .. c
          PROVE  h[a] = IF a = 0 THEN got ELSE HandleFrame(h[a - 1], p[a])
      <4>1. CASE a = c
        <5>1. a - 1 = d /\ d \in 0 .. c /\ d # c /\ a # 0 BY <4>1, <3>1, <3>4
        <5>2. h[a] = HandleFrame(g[d], p[c]) /\ h[d] = g[d] BY <4>1, <5>1
        <5> QED BY <4>1, <5>1, <5>2
      <4>2. CASE a # c /\ a = 0
        <5>1. a \in 0 .. d BY <4>2, <3>4
        <5> QED BY <4>2, <5>1, <3>5
      <4>3. CASE a # c /\ a # 0
        <5>1. a \in 0 .. d /\ a - 1 \in 0 .. c /\ a - 1 # c BY <4>3, <3>1, <3>4
        <5>2. h[a] = g[a] /\ h[a - 1] = g[a - 1] BY <4>3, <5>1
        <5> QED BY <4>3, <5>1, <5>2, <3>5
      <4> QED BY <4>1, <4>2, <4>3
    <3>7. h = [a \in 0 .. c |-> h[a]] OBVIOUS
    <3>8. h = [a \in 0 .. c |-> IF a = 0 THEN got ELSE HandleFrame(h[a - 1], p[a])]
      <4> HIDE DEF h
      <4> QED BY <3>6, <3>7
    <3>9. Run(got, p, c, h)
      <4> HIDE DEF h
      <4> QED BY <3>8 DEF Run
    <3> QED BY <2>3, <3>9 DEF c
  <2> QED BY <2>4, <2>5
<1>3. Len(p) + 1 \in 1 .. Len(p) + 1 /\ (Len(p) + 1) - 1 = Len(p) BY <1>1
<1>4. Len(p) + 1 \notin Bad BY <1>2
<1>5. \E after : Run(got, p, (Len(p) + 1) - 1, after) BY <1>3, <1>4
<1> QED BY <1>3, <1>5

LEMMA BatchRuns ==
  ASSUME NEW got, NEW p \in Seq(MuxFrames)
  PROVE  \E after : /\ Run(got, p, Len(p), after)
                    /\ HandleBatch(got, p) = after[Cardinality({n \in DOMAIN p : Entries(p, n) <= MaxBatch})]
<1> DEFINE after == CHOOSE g : g = [a \in 0 .. Len(p) |-> IF a = 0 THEN got ELSE HandleFrame(g[a - 1], p[a])]
<1>1. \E g : g = [a \in 0 .. Len(p) |-> IF a = 0 THEN got ELSE HandleFrame(g[a - 1], p[a])]
  <2>1. PICK g : Run(got, p, Len(p), g) BY Runs
  <2> QED BY <2>1 DEF Run
<1>2. after = [a \in 0 .. Len(p) |-> IF a = 0 THEN got ELSE HandleFrame(after[a - 1], p[a])] BY <1>1
<1>3. HandleBatch(got, p) = after[Cardinality({n \in DOMAIN p : Entries(p, n) <= MaxBatch})]
  BY DEF HandleBatch
<1>4. Run(got, p, Len(p), after)
  <2> HIDE DEF after
  <2> QED BY <1>2 DEF Run
<1> QED BY <1>3, <1>4

\* A packet within the limit is taken whole.
LEMMA AllTaken ==
  ASSUME NEW p \in Seq(MuxFrames), Entries(p, Len(p)) <= MaxBatch
  PROVE  Cardinality({n \in DOMAIN p : Entries(p, n) <= MaxBatch}) = Len(p)
<1> DEFINE N == Len(p)
           Turns(n) == {i \in 2 .. n : Leading(p[i]) # Leading(p[i - 1])}
<1>0. MaxBatch \in Nat BY MuxAssumption
<1>1. N \in Nat /\ DOMAIN p = 1 .. N OBVIOUS
<1>2. \A n : Entries(p, n) = n + Cardinality(Turns(n)) BY DEF Entries
<1>3. ASSUME NEW n \in 1 .. N PROVE Entries(p, n) <= MaxBatch
  <2>1. Turns(n) \in SUBSET Turns(N) /\ Turns(N) \in SUBSET (2 .. N) BY <1>1
  <2>2. IsFiniteSet(2 .. N) BY <1>1, FS_Interval
  <2> HIDE DEF Turns, N
  <2>3. IsFiniteSet(Turns(N)) BY <2>1, <2>2, FS_Subset
  <2>4. IsFiniteSet(Turns(n)) /\ Cardinality(Turns(n)) <= Cardinality(Turns(N)) BY <2>1, <2>3, FS_Subset
  <2>5. Cardinality(Turns(n)) \in Nat /\ Cardinality(Turns(N)) \in Nat BY <2>3, <2>4, FS_CardinalityType
  <2>6. N + Cardinality(Turns(N)) <= MaxBatch BY <1>2 DEF N
  <2>7. n + Cardinality(Turns(n)) <= MaxBatch BY <2>4, <2>5, <2>6, <1>0, <1>1
  <2> QED BY <2>7, <1>2
<1>4. {n \in DOMAIN p : Entries(p, n) <= MaxBatch} = 1 .. N BY <1>1, <1>3
<1>5. Cardinality(1 .. N) = N
  <2> HIDE DEF N
  <2>1. Cardinality(1 .. N) = IF 1 > N THEN 0 ELSE N - 1 + 1 BY <1>1, FS_Interval
  <2> QED BY <2>1, <1>1
<1> QED BY <1>4, <1>5

\* Frames that the limit cuts off a packet leave the rest of the line as it is.
LEMMA LostRest ==
  ASSUME NEW w \in Packets, NEW l \in Nat, NEW n \in 0 .. l
  PROVE  Shorter(w, n, w, l)
<1>1. ASSUME NEW a \in DOMAIN w, NEW b \in DOMAIN w[a], Left(w, l, a, b) PROVE Left(w, n, a, b)
  <2>1. w[a] \in Seq(MuxFrames) BY DEF Packets
  <2>2. b \in Nat BY <2>1
  <2> QED BY <1>1, <2>2 DEF Left
<1>2. \A g : OnWay(w, l, g) => OnWay(w, n, g) BY <1>1 DEF OnWay
<1>3. \A g, h : Ordered(w, n, g, h) => Ordered(w, l, g, h) BY <1>1 DEF Ordered
<1>4. \A g : Once(w, n, g) => Once(w, l, g) BY <1>1 DEF Once
<1> QED BY <1>2, <1>3, <1>4 DEF Shorter

\* What the end that takes packet w[1] has become after n of its frames; calm says that
\* the applications are tidy and no batch was cut.
Taking(calm, got, m, q, v, w, n) ==
  /\ got.mux \in MuxType /\ SameBut(m, got.mux)
  /\ Both(got.mux, q, v, w, n)
  /\ calm = TRUE => Tight(got.mux, q, v, w, n)
  /\ calm = TRUE => \A s \in got.strayed : s.from # s.id

LEMMA OneFrame ==
  ASSUME NEW m \in MuxType, NEW q \in MuxType, NEW v, NEW w \in Packets, NEW n \in Nat,
         1 \in DOMAIN w, n + 1 \in DOMAIN w[1], NEW got, NEW calm, Taking(calm, got, m, q, v, w, n)
  PROVE  Taking(calm, HandleFrame(got, w[1][n + 1]), m, q, v, w, n + 1)
<1> DEFINE f == w[1][n + 1]
           t == Handle(got.mux, f)
           next == HandleFrame(got, f)
<1>1. got.mux \in MuxType /\ SameBut(m, got.mux) /\ Both(got.mux, q, v, w, n) BY DEF Taking
<1>2. f \in MuxFrames /\ t \in MuxType /\ SameBut(got.mux, t) /\ Both(t, q, v, w, n + 1)
  BY <1>1, FrameGeneral
<1>3. SameBut(m, t) BY <1>1, <1>2 DEF SameBut
<1>4. calm = TRUE => Arriving(got.mux, q, v, w, n, f) BY <1>1, <1>2 DEF Arriving, Taking
<1> HIDE DEF f
<1>5. calm = TRUE => Tight(t, q, v, w, n + 1) BY <1>1, <1>4, FrameTight
<1>6. next.mux = t /\ next.strayed = got.strayed \cup
                 (IF Strays(got.mux, f) THEN {[from |-> f.from, id |-> f.id]} ELSE {})
  BY DEF HandleFrame
<1>7. ASSUME calm = TRUE, NEW s \in next.strayed PROVE s.from # s.id
  <2>1. CASE s \in got.strayed BY <2>1, <1>7 DEF Taking
  <2>2. CASE s \notin got.strayed
    <3> HIDE DEF next
    <3>1. Strays(got.mux, f) /\ s = [from |-> f.from, id |-> f.id] BY <2>2, <1>6, <1>7
    <3>2. f.from # f.id BY <3>1, <1>1, <1>4, <1>7, NoStray
    <3> QED BY <3>1, <3>2
  <2> QED BY <2>1, <2>2
<1> HIDE DEF t, next
<1>8. Taking(calm, next, m, q, v, w, n + 1) BY <1>2, <1>3, <1>5, <1>6, <1>7 DEF Taking
<1> QED BY <1>8 DEF next, f

\* The number of frames of a packet that handle_batch takes.
Taken(p) == Cardinality({n \in DOMAIN p : Entries(p, n) <= MaxBatch})

LEMMA TakenRange ==
  ASSUME NEW p \in Seq(MuxFrames)
  PROVE  Taken(p) \in 0 .. Len(p) /\ (Whole(p) => Taken(p) = Len(p))
<1> DEFINE N == Len(p)
           T == {n \in DOMAIN p : Entries(p, n) <= MaxBatch}
<1>1. N \in Nat /\ T \in SUBSET (1 .. N) OBVIOUS
<1>2. Whole(p) => Taken(p) = N BY AllTaken DEF Whole, Taken
<1> HIDE DEF N, T
<1>3. IsFiniteSet(1 .. N) /\ Cardinality(1 .. N) = N
  <2>1. Cardinality(1 .. N) = IF 1 > N THEN 0 ELSE N - 1 + 1 BY <1>1, FS_Interval
  <2> QED BY <2>1, <1>1, FS_Interval
<1>4. IsFiniteSet(T) /\ Cardinality(T) <= N /\ Cardinality(T) \in Nat BY <1>1, <1>3, FS_Subset, FS_CardinalityType
<1> QED BY <1>1, <1>2, <1>4 DEF Taken, T, N

\* on_data: the frames of a packet are taken one by one, as far as the limit goes.
LEMMA TakenPacket ==
  ASSUME NEW m \in MuxType, NEW q \in MuxType, NEW v, NEW w \in Packets, 1 \in DOMAIN w,
         Both(m, q, v, w, 0), NEW calm, calm = TRUE => Tight(m, q, v, w, 0)
  PROVE  Taking(calm, HandleBatch([mux |-> m, strayed |-> {}], w[1]), m, q, v, w, Taken(w[1]))
<1> DEFINE p == w[1]
           N == Len(p)
           got == [mux |-> m, strayed |-> {}]
<1>1. p \in Seq(MuxFrames) /\ N \in Nat /\ DOMAIN p = 1 .. N
  <2>1. p \in Seq(MuxFrames) BY DEF Packets
  <2> HIDE DEF p
  <2> QED BY <2>1
<1>2. Taking(calm, got, m, q, v, w, 0) BY DEF Taking, SameBut
<1>3. Taken(p) \in 0 .. N BY <1>1, TakenRange
<1> HIDE DEF p, got
<1>4. PICK after : /\ Run(got, p, Len(p), after)
                   /\ HandleBatch(got, p) = after[Cardinality({n \in DOMAIN p : Entries(p, n) <= MaxBatch})]
  BY <1>1, BatchRuns
<1>5. HandleBatch(got, p) = after[Taken(p)] BY <1>4 DEF Taken
<1>6. \A a \in 0 .. N : after[a] = IF a = 0 THEN got ELSE HandleFrame(after[a - 1], p[a])
  <2>1. after = [a \in 0 .. N |-> IF a = 0 THEN got ELSE HandleFrame(after[a - 1], p[a])] BY <1>4 DEF Run
  <2> HIDE DEF N
  <2> QED BY <2>1
<1> HIDE DEF N
<1> DEFINE Bad == {n \in 1 .. N + 1 : ~Taking(calm, after[n - 1], m, q, v, w, n - 1)}
<1>7. Bad = {}
  <2> SUFFICES ASSUME Bad # {} PROVE FALSE OBVIOUS
  <2>1. Bad \in SUBSET (1 .. N + 1) /\ N + 1 \in Nat BY <1>1
  <2>2. PICK b \in Bad : \A i \in Bad : b <= i BY <2>1, FirstOf
  <2>3. b \in 1 .. N + 1 /\ ~Taking(calm, after[b - 1], m, q, v, w, b - 1) BY <2>2
  <2>4. b # 1
    <3> SUFFICES ASSUME b = 1 PROVE FALSE OBVIOUS
    <3>1. b - 1 = 0 /\ 0 \in 0 .. N BY <1>1
    <3>2. after[0] = got BY <3>1, <1>6
    <3> QED BY <2>3, <3>1, <3>2, <1>2
  <2> DEFINE c == b - 1
             d == c - 1
  <2>5. c \in 1 .. N + 1 /\ c < b /\ c \in Nat \ {0} /\ d \in Nat /\ c \in 1 .. N /\ c = d + 1
    BY <2>3, <2>4, <1>1
  <2>6. c \notin Bad
    <3>1. ~(b <= c) BY <2>3, <2>5, <1>1
    <3> HIDE DEF Bad
    <3> QED BY <2>2, <3>1
  <2>7. Taking(calm, after[d], m, q, v, w, d) BY <2>5, <2>6
  <2> HIDE DEF Bad
  <2>8. ~Taking(calm, after[c], m, q, v, w, c) BY <2>3
  <2> HIDE DEF c
  <2>9. c \in 0 .. N /\ c # 0 BY <2>5, <1>1
  <2>10. after[c] = HandleFrame(after[d], p[c]) BY <2>9, <1>6
  <2> HIDE DEF d
  <2>11. d + 1 \in DOMAIN w[1] /\ w[1][d + 1] = p[c] BY <2>5, <1>1 DEF p
  <2>12. Taking(calm, HandleFrame(after[d], w[1][d + 1]), m, q, v, w, d + 1) BY <2>5, <2>7, <2>11, OneFrame
  <2> QED BY <2>5, <2>8, <2>10, <2>11, <2>12
<1> DEFINE c == Taken(p)
<1>8. c + 1 \in 1 .. N + 1 /\ (c + 1) - 1 = c BY <1>1, <1>3
<1> HIDE DEF c
<1>9. Taking(calm, after[c], m, q, v, w, c) BY <1>7, <1>8
<1> QED BY <1>5, <1>9 DEF p, got, c

\* Two lines with the same frames left, in the same order.
Alike(w, n, u, l) == Shorter(w, n, u, l) /\ \A g : OnWay(w, n, g) => OnWay(u, l, g)

LEMMA AlikeKeeps ==
  ASSUME NEW m, NEW q, NEW w, NEW n, NEW u, NEW l, Alike(w, n, u, l)
  PROVE  /\ General(q, m, w, n) => General(q, m, u, l)
         /\ Orderly(q, m, w, n) => Orderly(q, m, u, l)
<1>1. Shorter(w, n, u, l) /\ \A g : OnWay(w, n, g) <=> OnWay(u, l, g) BY DEF Alike, Shorter
<1>2. General(q, m, w, n) => General(q, m, u, l) BY <1>1, TracedShorter DEF General
<1>3. ASSUME Matched(q, m, w, n) PROVE Matched(q, m, u, l)
  <2> SUFFICES ASSUME NEW i \in Ids, NEW r \in Ids, q.ch[i].rid = r PROVE MatchedAt(q, m, u, l, i, r)
    BY DEF Matched
  <2>1. MatchedAt(q, m, w, n, i, r) BY <1>3 DEF Matched
  <2>2. Answered(q, m, w, n, i, r) => Answered(q, m, u, l, i, r) BY <1>1 DEF Answered
  <2>3. Heard(q, w, n, i) => Heard(q, u, l, i) BY <1>1 DEF Heard
  <2> QED BY <2>1, <2>2, <2>3 DEF MatchedAt
<1>4. Announced(q, m, w, n) => Announced(q, m, u, l) BY <1>1 DEF Announced, AnnouncedAt
<1>5. InLine(q, m, w, n) => InLine(q, m, u, l) BY <1>1, InLineShorter
<1> QED BY <1>2, <1>3, <1>4, <1>5 DEF Orderly

\* A frame that opens nothing leaves what is traced alone.
LEMMA SentGeneral ==
  ASSUME NEW m, NEW q, NEW v \in Packets, NEW u \in Packets, NEW f \in MuxFrames, Extended(v, u, f),
         f.op # "open", Traced(m, q, v, 0)
  PROVE  Traced(m, q, u, 0)
<1>1. /\ \A g : OnWay(u, 0, g) <=> OnWay(v, 0, g) \/ g = f
      /\ \A g : g # f /\ Once(v, 0, g) => Once(u, 0, g)
  BY Sent
<1>2. \A i \in Ids, k \in Keys : OpenFrame(i, k) # f
  <2> TAKE i \in Ids, k \in Keys
  <2>1. OpenFrame(i, k).op = "open" BY FrameKinds
  <2> QED BY <2>1
<1>3. \A i \in Ids, k \in Keys : OnWay(u, 0, OpenFrame(i, k)) => OnWay(v, 0, OpenFrame(i, k)) BY <1>1, <1>2
<1>4. \A i \in Ids, k \in Keys : Once(v, 0, OpenFrame(i, k)) => Once(u, 0, OpenFrame(i, k)) BY <1>1, <1>2
<1> QED BY <1>3, <1>4 DEF Traced

\* Channel::send.
LEMMA DataTight ==
  ASSUME NEW m \in MuxType, NEW q \in MuxType, NEW v \in Packets, NEW u \in Packets, NEW w, NEW n,
         Both(m, q, v, w, n), Tight(m, q, v, w, n), NEW i \in Ids, m.ch[i].st = "open",
         Extended(v, u, DataFrame(i, m.ch[i].rid))
  PROVE  Tight(m, q, u, w, n)
<1> DEFINE r == m.ch[i].rid
           f == DataFrame(i, r)
<1>1. r \in Ids BY DEF Both, General, WellKept
<1>2. /\ \A g : OnWay(u, 0, g) <=> OnWay(v, 0, g) \/ g = f
      /\ \A g, h : g # f /\ Ordered(v, 0, g, h) => Ordered(u, 0, g, h)
  BY Sent
<1> HIDE DEF r
<1>3. \A j \in Ids : OpenOf(m, j) # f /\ CloseFrame(j) # f
  <2> TAKE j \in Ids
  <2>1. OpenOf(m, j).op = "open" BY DEF OpenOf, OpenFrame
  <2>2. CloseFrame(j).op = "close" /\ f.op = "data" BY <1>1, FrameKinds
  <2> HIDE DEF f
  <2> QED BY <2>1, <2>2
<1>4. \A j, s \in Ids : DataFrame(j, s) = f => j = i /\ s = r BY <1>1, FramesDiffer
<1> HIDE DEF f
<1>5. /\ Alone(m) /\ Matched(m, q, v, 0) /\ Announced(m, q, v, 0) /\ InLine(m, q, v, 0) /\ Orderly(q, m, w, n)
  BY DEF Tight, Orderly
<1>6. ~(m.destroyed = TRUE) BY <1>5 DEF Alone, Live
<1>7. Matched(m, q, u, 0)
  <2> SUFFICES ASSUME NEW j \in Ids, NEW s \in Ids, m.ch[j].rid = s PROVE MatchedAt(m, q, u, 0, j, s)
    BY DEF Matched
  <2>1. MatchedAt(m, q, v, 0, j, s) BY <1>5 DEF Matched
  <2>2. Answered(m, q, u, 0, j, s) BY <2>1, <1>2, <1>6 DEF MatchedAt, Answered
  <2>3. Heard(m, v, 0, j) => Heard(m, u, 0, j) BY <1>2, <1>6 DEF Heard
  <2> QED BY <2>1, <2>2, <2>3 DEF MatchedAt
<1>8. Announced(m, q, u, 0) BY <1>2, <1>5 DEF Announced, AnnouncedAt
<1>9. InLine(m, q, u, 0)
  <2>1. ASSUME NEW j \in Ids
        PROVE  /\ Ordered(u, 0, OpenOf(m, j), CloseFrame(j))
               /\ OnWay(u, 0, CloseFrame(j)) => m.ch[j].st = "gone"
               /\ \A s \in Ids : /\ Ordered(u, 0, OpenOf(m, j), DataFrame(j, s))
                                 /\ OnWay(u, 0, DataFrame(j, s)) => m.ch[j].rid = s
    <3>1. Ordered(u, 0, OpenOf(m, j), CloseFrame(j)) BY <1>2, <1>3, <1>5 DEF InLine
    <3>2. OnWay(u, 0, CloseFrame(j)) => m.ch[j].st = "gone" BY <1>2, <1>3, <1>5 DEF InLine
    <3>3. \A s \in Ids : Ordered(u, 0, OpenOf(m, j), DataFrame(j, s)) BY <1>2, <1>3, <1>5 DEF InLine
    <3>4. ASSUME NEW s \in Ids, OnWay(u, 0, DataFrame(j, s)) PROVE m.ch[j].rid = s
      <4>1. CASE DataFrame(j, s) = f BY <4>1, <1>4 DEF r
      <4>2. CASE OnWay(v, 0, DataFrame(j, s)) BY <4>2, <1>5 DEF InLine
      <4> QED BY <3>4, <4>1, <4>2, <1>2
    <3> QED BY <3>1, <3>2, <3>3, <3>4
  <2>2. ASSUME NEW a \in Ids, NEW b \in Ids, a < b, SameKey(m, a, b)
        PROVE  /\ Ordered(u, 0, OpenOf(m, a), OpenOf(m, b)) /\ Ordered(u, 0, CloseFrame(a), OpenOf(m, b))
               /\ b \in Held(q) => ~OnWay(u, 0, OpenOf(m, a)) /\ ~OnWay(u, 0, CloseFrame(a))
    <3>1. /\ Ordered(v, 0, OpenOf(m, a), OpenOf(m, b)) /\ Ordered(v, 0, CloseFrame(a), OpenOf(m, b))
          /\ b \in Held(q) => ~OnWay(v, 0, OpenOf(m, a)) /\ ~OnWay(v, 0, CloseFrame(a))
      BY <2>2, <1>5 DEF InLine
    <3> QED BY <3>1, <1>2, <1>3
  <2> QED BY <2>1, <2>2 DEF InLine
<1> QED BY <1>5, <1>7, <1>8, <1>9 DEF Tight, Orderly

\* Channel::close of an open channel.
LEMMA ClosedTight ==
  ASSUME NEW m \in MuxType, NEW q \in MuxType, NEW v \in Packets, NEW u \in Packets, NEW w, NEW n,
         Both(m, q, v, w, n), Tight(m, q, v, w, n), NEW i \in Ids, m.ch[i].st = "open",
         Extended(v, u, CloseFrame(i))
  PROVE  Tight(RemoveChannel(m, i), q, u, w, n)
<1> DEFINE f == CloseFrame(i)
           t == RemoveChannel(m, i)
<1>2. /\ \A g : OnWay(u, 0, g) <=> OnWay(v, 0, g) \/ g = f
      /\ \A g, h : g # f /\ Ordered(v, 0, g, h) => Ordered(u, 0, g, h)
      /\ \A h : h # f /\ ~OnWay(v, 0, h) => Ordered(u, 0, f, h)
  BY Sent
<1>3. \A j \in Ids : OpenOf(m, j) # f /\ (CloseFrame(j) = f <=> j = i) /\ \A s \in Ids : DataFrame(j, s) # f
  <2> TAKE j \in Ids
  <2>1. OpenOf(m, j).op = "open" BY DEF OpenOf, OpenFrame
  <2>2. f.op = "close" /\ \A s \in Ids : DataFrame(j, s).op = "data" BY FrameKinds
  <2>3. CloseFrame(j) = f <=> j = i BY FramesDiffer
  <2> HIDE DEF f
  <2> QED BY <2>1, <2>2, <2>3
<1>4. /\ t.ch[i] = [st |-> "gone", key |-> m.ch[i].key, rid |-> m.ch[i].rid]
      /\ \A j \in Ids : j # i => t.ch[j] = m.ch[j]
  BY RemoveFields
<1>5. Alone(m) /\ InLine(m, q, v, 0) /\ Traced(m, q, v, 0) /\ WellKept(m) BY DEF Tight, Orderly, Both, General
<1>6. Heard(t, u, 0, i) BY <1>2 DEF Heard
<1> HIDE DEF f, t
<1>7. /\ t.ch[i].st = "gone"
      /\ \A j \in Ids : /\ t.ch[j].key = m.ch[j].key /\ t.ch[j].rid = m.ch[j].rid
                        /\ m.ch[j].st = "gone" => t.ch[j].st = "gone"
  BY <1>4
<1>8. \A a, b \in Ids : SameKey(t, a, b) <=> SameKey(m, a, b) BY <1>7 DEF SameKey
<1>9. \A a \in Ids : OpenOf(t, a) = OpenOf(m, a) BY <1>7 DEF OpenOf
<1>10. ASSUME NEW b \in Ids, i < b, SameKey(m, i, b) PROVE ~OnWay(v, 0, OpenOf(m, b)) /\ b \notin Held(q)
  <2>1. m.ch[b].st = "none" BY <1>5, <1>10 DEF Alone
  <2>2. m.ch[b].st \notin Opened BY <2>1 DEF Opened
  <2>3. b \notin Held(q) BY <2>2, <1>5 DEF Traced
  <2>4. m.ch[b].key \in Keys
    <3>1. m.ch[i].key \in Keys BY <1>5 DEF WellKept
    <3> QED BY <3>1, <1>10 DEF SameKey
  <2>5. ~OnWay(v, 0, OpenFrame(b, m.ch[b].key)) BY <2>2, <2>4, <1>5 DEF Traced
  <2> QED BY <2>3, <2>5 DEF OpenOf
<1>11. InLine(t, q, u, 0)
  <2>1. ASSUME NEW j \in Ids
        PROVE  /\ Ordered(u, 0, OpenOf(t, j), CloseFrame(j))
               /\ OnWay(u, 0, CloseFrame(j)) => t.ch[j].st = "gone"
               /\ \A s \in Ids : /\ Ordered(u, 0, OpenOf(t, j), DataFrame(j, s))
                                 /\ OnWay(u, 0, DataFrame(j, s)) => t.ch[j].rid = s
    <3>1. Ordered(u, 0, OpenOf(t, j), CloseFrame(j)) BY <1>2, <1>3, <1>5, <1>9 DEF InLine
    <3>2. OnWay(u, 0, CloseFrame(j)) => t.ch[j].st = "gone" BY <1>2, <1>3, <1>5, <1>7 DEF InLine
    <3>3. \A s \in Ids : Ordered(u, 0, OpenOf(t, j), DataFrame(j, s)) BY <1>2, <1>3, <1>5, <1>9 DEF InLine
    <3>4. \A s \in Ids : OnWay(u, 0, DataFrame(j, s)) => t.ch[j].rid = s BY <1>2, <1>3, <1>5, <1>7 DEF InLine
    <3> QED BY <3>1, <3>2, <3>3, <3>4
  <2>2. ASSUME NEW a \in Ids, NEW b \in Ids, a < b, SameKey(t, a, b)
        PROVE  /\ Ordered(u, 0, OpenOf(t, a), OpenOf(t, b)) /\ Ordered(u, 0, CloseFrame(a), OpenOf(t, b))
               /\ b \in Held(q) => ~OnWay(u, 0, OpenOf(t, a)) /\ ~OnWay(u, 0, CloseFrame(a))
    <3>0. SameKey(m, a, b) /\ OpenOf(t, a) = OpenOf(m, a) /\ OpenOf(t, b) = OpenOf(m, b) BY <2>2, <1>8, <1>9
    <3>1. /\ Ordered(v, 0, OpenOf(m, a), OpenOf(m, b)) /\ Ordered(v, 0, CloseFrame(a), OpenOf(m, b))
          /\ b \in Held(q) => ~OnWay(v, 0, OpenOf(m, a)) /\ ~OnWay(v, 0, CloseFrame(a))
      BY <2>2, <3>0, <1>5 DEF InLine
    <3>2. CASE a = i
      <4>1. ~OnWay(v, 0, OpenOf(m, b)) /\ b \notin Held(q) BY <2>2, <3>0, <3>2, <1>10
      <4> QED BY <3>0, <3>1, <3>2, <4>1, <1>2, <1>3
    <3>3. CASE a # i
      <4>1. CloseFrame(a) # f /\ OpenOf(m, a) # f BY <3>3, <1>3
      <4> QED BY <3>0, <3>1, <4>1, <1>2
    <3> QED BY <3>2, <3>3
  <2> QED BY <2>1, <2>2 DEF InLine
<1>12. \A g : OnWay(v, 0, g) => OnWay(u, 0, g) BY <1>2
<1> QED BY <1>6, <1>11, <1>12, RemovedTight DEF t

\* x is m with channel i of key k marked as opened and no OPEN of the key waiting.
OpenedAs(m, x, i, k) ==
  /\ x \in MuxType /\ SameBut(m, x) /\ x.remote = m.remote
  /\ x.ch[i] = [st |-> "sent", key |-> k, rid |-> None]
  /\ \A j \in Ids : j # i => x.ch[j] = m.ch[j]
  /\ x.pending[k] = None /\ \A l \in Keys : l # k => x.pending[l] = m.pending[l]

LEMMA OpenedBoth ==
  ASSUME NEW m \in MuxType, NEW q \in MuxType, NEW v \in Packets, NEW u \in Packets, NEW w, NEW n,
         Both(m, q, v, w, n), NEW i \in Ids, m.ch[i].st = "new", NEW k, k = m.ch[i].key,
         NEW x, OpenedAs(m, x, i, k), Extended(v, u, OpenFrame(i, k))
  PROVE  Both(x, q, u, w, n)
<1> DEFINE f == OpenFrame(i, k)
<1>1. WellKept(m) /\ WellKept(q) /\ Traced(m, q, v, 0) /\ Traced(q, m, w, n) BY DEF Both, General
<1>2. m.ch[i].rid = None /\ k \in Keys /\ ~(i >= m.next) BY <1>1 DEF WellKept
<1>3. /\ x \in MuxType /\ x.next = m.next /\ x.remote = m.remote
      /\ x.ch[i].st = "sent" /\ x.ch[i].key = k /\ x.ch[i].rid = None
      /\ \A j \in Ids : j # i => x.ch[j] = m.ch[j]
      /\ \A l \in Keys : x.pending[l] # None => x.pending[l] = m.pending[l]
  BY DEF OpenedAs, SameBut
<1>4. \A j \in Ids : x.ch[j].rid = m.ch[j].rid /\ x.ch[j].key = m.ch[j].key BY <1>2, <1>3
<1>5. None \notin Ids BY MuxFields
<1>6. WellKept(x)
  <2>1. \A j \in Ids : /\ x.ch[j].st \in {"none", "new", "sent"} => x.ch[j].rid = None
                       /\ x.ch[j].st = "open" => x.ch[j].rid \in Ids
                       /\ x.ch[j].st # "none" => x.ch[j].key \in Keys
                       /\ j >= x.next <=> x.ch[j].st = "none"
    <3> TAKE j \in Ids
    <3>1. CASE j = i BY <3>1, <1>2, <1>3
    <3>2. CASE j # i
      <4>1. x.ch[j] = m.ch[j] /\ x.next = m.next BY <3>2, <1>3
      <4> QED BY <4>1, <1>1 DEF WellKept
    <3> QED BY <3>1, <3>2
  <2>2. ASSUME NEW j \in Ids, NEW s \in Ids
        PROVE  x.remote[s] = j <=> x.ch[j].st = "open" /\ x.ch[j].rid = s
    <3>1. m.remote[s] = j <=> m.ch[j].st = "open" /\ m.ch[j].rid = s BY <1>1 DEF WellKept
    <3> QED BY <3>1, <1>3
  <2>3. \A j, l \in Ids : x.ch[j].rid = x.ch[l].rid /\ x.ch[j].rid # None => j = l BY <1>1, <1>4 DEF WellKept
  <2>4. \A j \in Ids, l \in Keys : x.pending[l] # None => x.ch[j].rid # x.pending[l]
    BY <1>1, <1>3, <1>4 DEF WellKept
  <2> QED BY <2>1, <2>2, <2>3, <2>4 DEF WellKept
<1>7. /\ \A g : OnWay(u, 0, g) <=> OnWay(v, 0, g) \/ g = f
      /\ \A g : g # f /\ Once(v, 0, g) => Once(u, 0, g)
      /\ ~OnWay(v, 0, f) => Once(u, 0, f)
  BY Sent
<1>8. \A j \in Ids, l \in Keys : OpenFrame(j, l) = f <=> j = i /\ l = k BY FramesDiffer
<1>9. m.ch[i].st \notin Opened BY DEF Opened
<1>10. i \notin Held(q) /\ ~OnWay(v, 0, f) BY <1>1, <1>2, <1>9 DEF Traced
<1> HIDE DEF f
<1>11. \A j \in Ids : m.ch[j].st \in Opened => x.ch[j].st \in Opened BY <1>3, <1>9
<1>12. x.ch[i].st \in Opened BY <1>3 DEF Opened
<1>13. Traced(x, q, u, 0)
  <2>1. ASSUME NEW j \in Ids, NEW l \in Keys, OnWay(u, 0, OpenFrame(j, l))
        PROVE  x.ch[j].st \in Opened /\ x.ch[j].key = l /\ j \notin Held(q) /\ Once(u, 0, OpenFrame(j, l))
    <3>1. CASE OpenFrame(j, l) = f BY <3>1, <1>3, <1>7, <1>8, <1>10, <1>12
    <3>2. CASE OpenFrame(j, l) # f
      <4>1. OnWay(v, 0, OpenFrame(j, l)) BY <2>1, <3>2, <1>7
      <4>2. m.ch[j].st \in Opened /\ m.ch[j].key = l /\ j \notin Held(q) /\ Once(v, 0, OpenFrame(j, l))
        BY <4>1, <1>1 DEF Traced
      <4> QED BY <3>2, <4>2, <1>4, <1>7, <1>11
    <3> QED BY <3>1, <3>2
  <2> QED BY <2>1, <1>1, <1>4, <1>11 DEF Traced
<1>14. Traced(q, x, w, n)
  <2>1. \A s \in Ids : s \in Held(x) => s \in Held(m) BY <1>3, <1>4, <1>5, HeldBy
  <2>2. \A s \in Ids, l \in Keys : x.pending[l] = s => m.pending[l] = s BY <1>3, <1>5
  <2> QED BY <2>1, <2>2, <1>1 DEF Traced
<1> QED BY <1>1, <1>6, <1>13, <1>14 DEF Both, General

LEMMA OpenedTight ==
  ASSUME NEW m \in MuxType, NEW q \in MuxType, NEW v \in Packets, NEW u \in Packets, NEW w, NEW n,
         Both(m, q, v, w, n), Tight(m, q, v, w, n),
         NEW i \in Ids, m.ch[i].st = "new", NEW k, k = m.ch[i].key,
         NEW x, OpenedAs(m, x, i, k), Extended(v, u, OpenFrame(i, k))
  PROVE  /\ Orderly(x, q, u, 0) /\ Alone(q) /\ InLine(q, x, w, n) /\ Matched(q, x, w, n)
         /\ \A s \in Ids : q.ch[s].st = "sent" /\ s # m.pending[k] => AnnouncedAt(q, x, w, n, s)
<1> DEFINE f == OpenFrame(i, k)
<1>1. WellKept(m) /\ WellKept(q) /\ Traced(m, q, v, 0) /\ Traced(q, m, w, n) BY DEF Both, General
<1>2. m.ch[i].rid = None /\ k \in Keys BY <1>1 DEF WellKept
<1>3. /\ x \in MuxType /\ x.destroyed = m.destroyed
      /\ x.ch[i].st = "sent" /\ x.ch[i].key = k /\ x.ch[i].rid = None
      /\ \A j \in Ids : j # i => x.ch[j] = m.ch[j]
      /\ x.pending[k] = None /\ \A l \in Keys : l # k => x.pending[l] = m.pending[l]
  BY DEF OpenedAs, SameBut
<1>4. \A j \in Ids : x.ch[j].rid = m.ch[j].rid /\ x.ch[j].key = m.ch[j].key BY <1>2, <1>3
<1>5. None \notin Ids BY MuxFields
<1>6. /\ Alone(m) /\ Matched(m, q, v, 0) /\ Announced(m, q, v, 0) /\ InLine(m, q, v, 0)
      /\ Alone(q) /\ Matched(q, m, w, n) /\ Announced(q, m, w, n) /\ InLine(q, m, w, n)
  BY DEF Tight, Orderly
<1>7. ~(m.destroyed = TRUE) BY <1>6 DEF Alone, Live
<1>8. \A j \in Ids : Live(x, j) <=> Live(m, j) BY <1>3 DEF Live
<1>9. \A a, b \in Ids : SameKey(x, a, b) <=> SameKey(m, a, b) BY <1>4 DEF SameKey
<1>10. \A a \in Ids : OpenOf(x, a) = OpenOf(m, a) BY <1>4 DEF OpenOf
<1>11. /\ \A g : OnWay(u, 0, g) <=> OnWay(v, 0, g) \/ g = f
       /\ \A g, h : g # f /\ Ordered(v, 0, g, h) => Ordered(u, 0, g, h)
       /\ \A h : h # f /\ ~OnWay(v, 0, h) => Ordered(u, 0, f, h)
  BY Sent
<1>12. /\ OpenOf(m, i) = f
       /\ \A j \in Ids : (OpenOf(m, j) = f <=> j = i) /\ CloseFrame(j) # f /\ \A s \in Ids : DataFrame(j, s) # f
  BY FramesDiffer DEF OpenOf
<1> HIDE DEF f
<1>13. m.ch[i].st \notin Opened BY DEF Opened
<1>14. i \notin Held(q) /\ ~OnWay(v, 0, f) BY <1>1, <1>2, <1>13 DEF Traced, f
<1>15. Alone(x)
  <2>1. ASSUME NEW a \in Ids, NEW b \in Ids, a < b, SameKey(x, a, b), x.ch[b].st # "none"
        PROVE  x.ch[a].st = "gone" /\ x.ch[a].rid # None
    <3>1. SameKey(m, a, b) BY <2>1, <1>9
    <3>2. m.ch[b].st # "none" BY <2>1, <1>3
    <3>3. m.ch[a].st = "gone" /\ m.ch[a].rid # None BY <2>1, <3>1, <3>2, <1>6 DEF Alone
    <3> QED BY <3>3, <1>3
  <2>2. ASSUME NEW a \in Ids, Live(x, a), x.pending[x.ch[a].key] # None PROVE x.ch[a].st = "new"
    <3>1. Live(m, a) /\ m.ch[a].key \in Keys BY <2>2, <1>1, <1>8 DEF WellKept, Live
    <3>2. x.ch[a].key # k /\ a # i BY <2>2, <1>3
    <3>3. m.pending[m.ch[a].key] # None BY <2>2, <3>1, <3>2, <1>3, <1>4
    <3> QED BY <3>1, <3>2, <3>3, <1>3, <1>6 DEF Alone
  <2>3. ASSUME NEW a \in Ids, x.ch[a].st = "gone", x.ch[a].rid = None PROVE x.destroyed = TRUE
    <3>1. a # i BY <2>3, <1>3
    <3> QED BY <2>3, <3>1, <1>3, <1>6 DEF Alone
  <2>4. x.destroyed = TRUE => \A a \in Ids : ~Live(x, a) BY <1>3, <1>7
  <2> QED BY <2>1, <2>2, <2>3, <2>4 DEF Alone
<1>16. Matched(x, q, u, 0)
  <2> SUFFICES ASSUME NEW j \in Ids, NEW s \in Ids, x.ch[j].rid = s PROVE MatchedAt(x, q, u, 0, j, s)
    BY DEF Matched
  <2>1. MatchedAt(m, q, v, 0, j, s) BY <1>4, <1>6 DEF Matched
  <2>2. Answered(x, q, u, 0, j, s) BY <2>1, <1>7, <1>10, <1>11 DEF MatchedAt, Answered
  <2>3. Heard(m, v, 0, j) => Heard(x, u, 0, j) BY <1>7, <1>11 DEF Heard
  <2>4. x.ch[j].st = "gone" => m.ch[j].st = "gone" BY <1>3
  <2> QED BY <2>1, <2>2, <2>3, <2>4, <1>4 DEF MatchedAt
<1>17. Announced(x, q, u, 0)
  <2> SUFFICES ASSUME NEW j \in Ids, x.ch[j].st = "sent" PROVE AnnouncedAt(x, q, u, 0, j)
    BY DEF Announced
  <2>1. CASE j = i BY <2>1, <1>10, <1>11, <1>12 DEF AnnouncedAt
  <2>2. CASE j # i
    <3>1. m.ch[j].st = "sent" BY <2>2, <1>3
    <3>2. AnnouncedAt(m, q, v, 0, j) BY <3>1, <1>6 DEF Announced
    <3> QED BY <3>2, <1>4, <1>10, <1>11 DEF AnnouncedAt
  <2> QED BY <2>1, <2>2
<1>18. ASSUME NEW b \in Ids, i < b, SameKey(m, i, b) PROVE ~OnWay(v, 0, OpenOf(m, b)) /\ b \notin Held(q)
  <2>1. m.ch[b].st = "none" BY <1>6, <1>18 DEF Alone
  <2>2. m.ch[b].st \notin Opened BY <2>1 DEF Opened
  <2>3. b \notin Held(q) BY <2>2, <1>1 DEF Traced
  <2>4. m.ch[b].key \in Keys BY <1>2, <1>18 DEF SameKey
  <2>5. ~OnWay(v, 0, OpenFrame(b, m.ch[b].key)) BY <2>2, <2>4, <1>1 DEF Traced
  <2> QED BY <2>3, <2>5 DEF OpenOf
<1>19. InLine(x, q, u, 0)
  <2>1. ASSUME NEW j \in Ids
        PROVE  /\ Ordered(u, 0, OpenOf(x, j), CloseFrame(j))
               /\ OnWay(u, 0, CloseFrame(j)) => x.ch[j].st = "gone"
               /\ \A s \in Ids : /\ Ordered(u, 0, OpenOf(x, j), DataFrame(j, s))
                                 /\ OnWay(u, 0, DataFrame(j, s)) => x.ch[j].rid = s
    <3>0. /\ Ordered(v, 0, OpenOf(m, j), CloseFrame(j))
          /\ OnWay(v, 0, CloseFrame(j)) => m.ch[j].st = "gone"
          /\ \A s \in Ids : /\ Ordered(v, 0, OpenOf(m, j), DataFrame(j, s))
                            /\ OnWay(v, 0, DataFrame(j, s)) => m.ch[j].rid = s
      BY <1>6 DEF InLine
    <3>1. OnWay(u, 0, CloseFrame(j)) => x.ch[j].st = "gone" BY <3>0, <1>3, <1>11, <1>12
    <3>2. \A s \in Ids : OnWay(u, 0, DataFrame(j, s)) => x.ch[j].rid = s BY <3>0, <1>4, <1>11, <1>12
    <3>3. CASE j = i
      <4>1. ~OnWay(v, 0, CloseFrame(i)) /\ \A s \in Ids : ~OnWay(v, 0, DataFrame(i, s))
        BY <3>0, <3>3, <1>2, <1>5
      <4> QED BY <3>1, <3>2, <3>3, <4>1, <1>10, <1>11, <1>12
    <3>4. CASE j # i
      <4>1. OpenOf(x, j) = OpenOf(m, j) /\ OpenOf(m, j) # f BY <3>4, <1>10, <1>12
      <4> QED BY <3>0, <3>1, <3>2, <4>1, <1>11
    <3> QED BY <3>3, <3>4
  <2>2. ASSUME NEW a \in Ids, NEW b \in Ids, a < b, SameKey(x, a, b)
        PROVE  /\ Ordered(u, 0, OpenOf(x, a), OpenOf(x, b)) /\ Ordered(u, 0, CloseFrame(a), OpenOf(x, b))
               /\ b \in Held(q) => ~OnWay(u, 0, OpenOf(x, a)) /\ ~OnWay(u, 0, CloseFrame(a))
    <3>0. SameKey(m, a, b) /\ OpenOf(x, a) = OpenOf(m, a) /\ OpenOf(x, b) = OpenOf(m, b) BY <2>2, <1>9, <1>10
    <3>1. /\ Ordered(v, 0, OpenOf(m, a), OpenOf(m, b)) /\ Ordered(v, 0, CloseFrame(a), OpenOf(m, b))
          /\ b \in Held(q) => ~OnWay(v, 0, OpenOf(m, a)) /\ ~OnWay(v, 0, CloseFrame(a))
      BY <2>2, <3>0, <1>6 DEF InLine
    <3>4. CloseFrame(a) # f BY <1>12
    <3>2. CASE a = i
      <4>1. ~OnWay(v, 0, OpenOf(m, b)) /\ b \notin Held(q) BY <2>2, <3>0, <3>2, <1>18
      <4>2. a # b
        <5>1. a \in Nat /\ b \in Nat BY MuxAssumption DEF Ids
        <5> QED BY <2>2, <5>1
      <4>3. OpenOf(m, b) # f BY <3>2, <4>2, <1>12
      <4> QED BY <3>0, <3>1, <3>2, <3>4, <4>1, <4>3, <1>11, <1>12
    <3>3. CASE a # i
      <4>1. OpenOf(m, a) # f BY <3>3, <1>12
      <4> QED BY <3>0, <3>1, <3>4, <4>1, <1>11
    <3> QED BY <3>2, <3>3
  <2> QED BY <2>1, <2>2 DEF InLine
<1>20. Matched(q, x, w, n)
  <2> SUFFICES ASSUME NEW s \in Ids, NEW y \in Ids, q.ch[s].rid = y PROVE MatchedAt(q, x, w, n, s, y)
    BY DEF Matched
  <2>1. MatchedAt(q, m, w, n, s, y) BY <1>6 DEF Matched
  <2>2. y # i BY <2>1 DEF MatchedAt, Answered
  <2>3. x.ch[y] = m.ch[y] BY <2>2, <1>3
  <2>4. Answered(q, x, w, n, s, y) BY <2>1, <2>3, <1>3 DEF MatchedAt, Answered
  <2> QED BY <2>1, <2>3, <2>4, <1>8 DEF MatchedAt
<1>21. ASSUME NEW s \in Ids, q.ch[s].st = "sent", s # m.pending[k] PROVE AnnouncedAt(q, x, w, n, s)
  <2>1. AnnouncedAt(q, m, w, n, s) BY <1>6, <1>21 DEF Announced
  <2>2. q.ch[s].key \in Keys BY <1>1, <1>21 DEF WellKept
  <2>3. m.pending[q.ch[s].key] = s => x.pending[q.ch[s].key] = s BY <2>2, <1>3, <1>21
  <2> QED BY <2>1, <2>3, <1>3, <1>4 DEF AnnouncedAt
<1>22. InLine(q, x, w, n)
  <2>0. \A l \in Keys : x.pending[l] # None => x.pending[l] = m.pending[l] BY <1>3
  <2>1. \A s \in Ids : s \in Held(x) => s \in Held(m) BY <2>0, <1>4, <1>5, HeldBy
  <2> QED BY <2>1, <1>6, InLineHeld
<1> QED BY <1>6, <1>15, <1>16, <1>17, <1>19, <1>20, <1>21, <1>22 DEF Orderly

\* What Channel::open makes of m.
Sending(m, i) == [m EXCEPT !.ch[i].st = "sent"]
Opening(m, i, k) ==
  IF m.pending[k] = None THEN m ELSE TryPair([m EXCEPT !.pending[k] = None], i, m.pending[k])

LEMMA SendingFields ==
  ASSUME NEW m \in MuxType, NEW i \in Ids, WellKept(m), m.ch[i].st = "new", NEW k, k = m.ch[i].key
  PROVE  /\ k \in Keys /\ Sending(m, i) \in MuxType
         /\ Sending(m, i).ch[i].key = k /\ Sending(m, i).pending = m.pending
         /\ m.pending[k] = None => OpenedAs(m, Sending(m, i), i, k)
         /\ OpenedAs(m, [Sending(m, i) EXCEPT !.pending[k] = None], i, k)
<1> DEFINE s == Sending(m, i)
           c == [st |-> "sent", key |-> k, rid |-> None]
           ch == [m.ch EXCEPT ![i] = c]
           b == [s EXCEPT !.pending[k] = None]
<1>1. /\ m.ch \in [Ids -> ChanType] /\ m.ch[i] \in ChanType /\ m.pending \in [Keys -> Ids \cup {None}]
  BY MuxFields
<1>2. k \in Keys /\ m.ch[i].rid = None BY DEF WellKept
<1>3. c \in ChanType BY <1>2 DEF ChanType, ChannelStates
<1>4. [m.ch[i] EXCEPT !.st = "sent"] = c BY <1>1, <1>2 DEF ChanType
<1>5. [m.ch EXCEPT ![i].st = "sent"] = ch BY <1>1, <1>4
<1>6. s = [m EXCEPT !.ch = [m.ch EXCEPT ![i].st = "sent"]] BY DEF MuxType, Sending
<1>7. s = [m EXCEPT !.ch = ch] BY <1>5, <1>6
<1>8. ch \in [Ids -> ChanType] /\ ch[i] = c /\ \A j \in Ids : j # i => ch[j] = m.ch[j] BY <1>1, <1>3
<1>9. c.key = k OBVIOUS
<1> HIDE DEF c, ch, s
<1>10. s \in MuxType /\ s.ch = ch /\ s.remote = m.remote /\ s.pending = m.pending /\ SameBut(m, s)
  BY <1>7, <1>8 DEF MuxType, SameBut
<1>11. /\ b \in MuxType /\ SameBut(s, b) /\ b.ch = s.ch /\ b.remote = s.remote
       /\ b.pending[k] = None /\ \A l \in Keys : l # k => b.pending[l] = s.pending[l]
  <2>1. None \in Ids \cup {None} OBVIOUS
  <2> QED BY <2>1, <1>2, <1>10, WaitingFields
<1> HIDE DEF b
<1>12. SameBut(m, b) BY <1>10, <1>11 DEF SameBut
<1>13. OpenedAs(m, b, i, k) BY <1>8, <1>10, <1>11, <1>12 DEF OpenedAs, c
<1>14. m.pending[k] = None => OpenedAs(m, s, i, k) BY <1>8, <1>10 DEF OpenedAs, c
<1> QED BY <1>2, <1>8, <1>9, <1>10, <1>13, <1>14 DEF s, b

LEMMA OpenKeeps ==
  ASSUME NEW m \in MuxType, NEW q \in MuxType, NEW v \in Packets, NEW u \in Packets, NEW w, NEW n,
         Both(m, q, v, w, n), NEW i \in Ids, m.ch[i].st = "new", NEW k, k = m.ch[i].key,
         Extended(v, u, OpenFrame(i, k))
  PROVE  LET t == Opening(Sending(m, i), i, k)
         IN  /\ t \in MuxType /\ SameBut(m, t) /\ Both(t, q, u, w, n)
             /\ Tight(m, q, v, w, n) => Tight(t, q, u, w, n)
<1> DEFINE s == Sending(m, i)
           b == [s EXCEPT !.pending[k] = None]
           r == m.pending[k]
           t == Opening(s, i, k)
<1>1. WellKept(m) /\ WellKept(q) /\ Traced(m, q, v, 0) /\ Traced(q, m, w, n) BY DEF Both, General
<1>2. /\ k \in Keys /\ s \in MuxType /\ s.pending = m.pending
      /\ m.pending[k] = None => OpenedAs(m, s, i, k)
      /\ OpenedAs(m, b, i, k)
  BY <1>1, SendingFields
<1>3. t = IF r = None THEN s ELSE TryPair(b, i, r) BY <1>2 DEF Opening
<1> HIDE DEF s, b, t
<1>4. r \in Ids \cup {None} /\ None \notin Ids
  <2>1. m.pending \in [Keys -> Ids \cup {None}] /\ None \notin Ids BY MuxFields
  <2> QED BY <2>1, <1>2
<1>5. CASE r = None
  <2>1. OpenedAs(m, s, i, k) /\ t = s BY <1>2, <1>3, <1>5
  <2>2. Both(s, q, u, w, n) BY <2>1, OpenedBoth
  <2>3. ASSUME Tight(m, q, v, w, n) PROVE Tight(s, q, u, w, n)
    <3>1. /\ Orderly(s, q, u, 0) /\ Alone(q) /\ InLine(q, s, w, n) /\ Matched(q, s, w, n)
          /\ \A x \in Ids : q.ch[x].st = "sent" /\ x # m.pending[k] => AnnouncedAt(q, s, w, n, x)
      BY <2>1, <2>3, OpenedTight
    <3>2. Announced(q, s, w, n) BY <3>1, <1>4, <1>5 DEF Announced
    <3> QED BY <3>1, <3>2 DEF Tight, Orderly
  <2> QED BY <2>1, <2>2, <2>3 DEF OpenedAs, t, s
<1>6. CASE r \in Ids
  <2> HIDE DEF r
  <2>1. t = TryPair(b, i, r) BY <1>3, <1>4, <1>6
  <2>2. Both(b, q, u, w, n) BY <1>2, OpenedBoth
  <2>3. /\ b \in MuxType /\ SameBut(m, b)
        /\ b.ch[i].st = "sent" /\ b.ch[i].key = k /\ b.ch[i].rid = None
        /\ \A j \in Ids : j # i => b.ch[j] = m.ch[j]
        /\ b.pending[k] = None /\ \A l \in Keys : l # k => b.pending[l] = m.pending[l]
    BY <1>2 DEF OpenedAs
  <2>4. m.ch[i].rid = None BY <1>1 DEF WellKept
  <2>5. q.ch[r].key = k /\ m.pending[k] = r BY <1>1, <1>2, <1>6 DEF Traced, r
  <2>6. r \in Held(m) BY <2>5, <1>2 DEF Held
  <2>7. q.ch[r].st \in Opened BY <2>6, <1>1, <1>6 DEF Traced
  <2>8. r # None BY <1>4, <1>6
  <2>9. r \notin Held(b)
    <3>1. \A j \in Ids : m.ch[j].rid # r BY <2>5, <2>8, <1>1, <1>2 DEF WellKept
    <3>2. \A j \in Ids : b.ch[j].rid # r BY <2>3, <2>4, <2>8, <3>1
    <3>3. ASSUME NEW l \in Keys, b.pending[l] = r PROVE FALSE
      <4>1. l # k BY <2>3, <2>8, <3>3
      <4>2. m.pending[l] = r BY <2>3, <3>3, <4>1
      <4>3. q.ch[r].key = l BY <4>2, <1>1, <1>6 DEF Traced
      <4> QED BY <2>5, <4>1, <4>3
    <3> QED BY <3>2, <3>3, HeldBy
  <2>10. \A l \in Keys : ~OnWay(w, n, OpenFrame(r, l)) BY <2>6, <1>1, <1>6 DEF Traced
  <2>11. TryPair(b, i, r) \in MuxType /\ SameBut(b, TryPair(b, i, r)) BY <2>3, <1>6, PairFields
  <2>12. Both(TryPair(b, i, r), q, u, w, n) BY <2>2, <2>3, <2>7, <2>9, <2>10, <1>6, PairedGeneral
  <2>13. SameBut(m, TryPair(b, i, r)) BY <2>3, <2>11 DEF SameBut
  <2>14. ASSUME Tight(m, q, v, w, n) PROVE Tight(TryPair(b, i, r), q, u, w, n)
    <3>1. /\ Orderly(b, q, u, 0) /\ Alone(q) /\ InLine(q, b, w, n) /\ Matched(q, b, w, n)
          /\ \A x \in Ids : q.ch[x].st = "sent" /\ x # m.pending[k] => AnnouncedAt(q, b, w, n, x)
      BY <1>2, <2>14, OpenedTight
    <3>2. Alone(m) /\ Matched(q, m, w, n) /\ InLine(q, m, w, n) BY <2>14 DEF Tight, Orderly
    <3>3. \A a \in Ids : q.ch[a].rid # i
      <4>1. m.ch[i].st \notin Opened BY DEF Opened
      <4>2. i \notin Held(q) BY <4>1, <1>1 DEF Traced
      <4> QED BY <4>2 DEF Held
    <3>4. ASSUME NEW y \in Ids, q.ch[r].rid = y PROVE FALSE
      <4>1. MatchedAt(q, m, w, n, r, y) BY <3>2, <3>4, <1>6 DEF Matched
      <4>2. m.ch[y].key = m.ch[i].key BY <2>5, <4>1 DEF MatchedAt
      <4>3. Live(m, i) BY DEF Live
      <4>4. y = i \/ ~Live(m, y) BY <3>2, <4>2, <4>3, AloneAt
      <4>5. m.ch[y].rid # r BY <2>5, <2>8, <1>1, <1>2 DEF WellKept
      <4>6. ~(m.destroyed = TRUE) BY <3>2, <4>3 DEF Alone
      <4>7. m.ch[y].st = "sent" BY <4>1, <4>5, <4>6 DEF MatchedAt, Answered
      <4>8. Live(m, y) BY <4>7 DEF Live
      <4> QED BY <4>4, <4>7, <4>8
    <3>5. q.ch[r].rid = None
      <4>1. q.ch[r].rid \in Ids \cup {None} BY <1>6, MuxFields
      <4> QED BY <3>4, <4>1
    <3>6. OnWay(u, 0, OpenOf(b, i))
      <4>1. \A g : OnWay(u, 0, g) <=> OnWay(v, 0, g) \/ g = OpenFrame(i, k) BY Sent
      <4> QED BY <2>3, <4>1 DEF OpenOf
    <3>7. \A x \in Ids : x < r /\ SameKey(q, x, r) =>
            ~OnWay(w, n, OpenOf(q, x)) /\ ~OnWay(w, n, CloseFrame(x))
      BY <2>6, <3>2, <1>6 DEF InLine
    <3>8. \A x, y \in Ids : x # r /\ q.ch[x].rid = y => MatchedAt(q, b, w, n, x, y) BY <3>1 DEF Matched
    <3>9. \A x \in Ids : x # r /\ q.ch[x].st = "sent" => AnnouncedAt(q, b, w, n, x) BY <2>5, <3>1
    <3>10. q.ch[r].rid \in {None, i} /\ (\A a \in Ids : q.ch[a].rid = i => a = r) BY <3>3, <3>5
    <3>11. q.ch[r].st = "gone" /\ q.ch[r].rid = i => Heard(q, w, n, r) BY <3>3, <1>6
    <3>12. q.ch[r].key = b.ch[i].key /\ b.pending[b.ch[i].key] = None BY <2>3, <2>5
    <3> QED BY <2>2, <2>3, <2>7, <2>9, <3>1, <3>6, <3>7, <3>8, <3>9, <3>10, <3>11, <3>12, <1>6, PairedTight
  <2> QED BY <2>1, <2>11, <2>12, <2>13, <2>14 DEF t, s
<1> QED BY <1>4, <1>5, <1>6

\* create_channel.
Created(m, k) ==
  [m EXCEPT !.next = @ + 1, !.ch[m.next] = [st |-> "new", key |-> k, rid |-> None], !.last[k] = m.next]

LEMMA CreatedFields ==
  ASSUME NEW m \in MuxType, NEW k \in Keys, m.next <= MaxId
  PROVE  LET t == Created(m, k)
         IN  /\ t \in MuxType /\ t.next = m.next + 1 /\ m.next \in Ids /\ t.remote = m.remote
             /\ t.pending = m.pending /\ t.cork = m.cork /\ t.batch = m.batch /\ t.destroyed = m.destroyed
             /\ t.ch[m.next] = [st |-> "new", key |-> k, rid |-> None]
             /\ \A j \in Ids : j # m.next => t.ch[j] = m.ch[j]
<1> DEFINE t == Created(m, k)
           c == [st |-> "new", key |-> k, rid |-> None]
           ch == [m.ch EXCEPT ![m.next] = c]
           last == [m.last EXCEPT ![k] = m.next]
           next == m.next + 1
<1>1. /\ m.ch \in [Ids -> ChanType] /\ m.last \in [Keys -> Ids \cup {None}] /\ m.next \in Nat \ {0}
  BY MuxFields
<1>2. m.next \in Ids /\ next \in Nat \ {0} BY <1>1, MuxAssumption DEF Ids
<1>3. c \in ChanType BY DEF ChanType, ChannelStates
<1>4. t = [m EXCEPT !.next = next, !.ch = ch, !.last = last] BY DEF MuxType, Created
<1>5. /\ ch \in [Ids -> ChanType] /\ ch[m.next] = c /\ last \in [Keys -> Ids \cup {None}]
      /\ \A j \in Ids : j # m.next => ch[j] = m.ch[j]
  BY <1>1, <1>2, <1>3
<1> HIDE DEF c, ch, last, next, t
<1>6. /\ t \in MuxType /\ t.next = next /\ t.ch = ch /\ t.remote = m.remote
      /\ t.pending = m.pending /\ t.cork = m.cork /\ t.batch = m.batch /\ t.destroyed = m.destroyed
  BY <1>2, <1>4, <1>5 DEF MuxType
<1> QED BY <1>2, <1>5, <1>6 DEF t, c, next

LEMMA CreatedKeeps ==
  ASSUME NEW m \in MuxType, NEW q \in MuxType, NEW v, NEW w, Both(m, q, v, w, 0),
         NEW k \in Keys, m.next <= MaxId, ~(m.destroyed = TRUE)
  PROVE  /\ Both(Created(m, k), q, v, w, 0)
         /\ Tight(m, q, v, w, 0) /\ (\A j \in Ids : Live(m, j) => m.ch[j].key # k) =>
              Tight(Created(m, k), q, v, w, 0)
<1> DEFINE t == Created(m, k)
           i == m.next
<1>1. WellKept(m) /\ WellKept(q) /\ Traced(m, q, v, 0) /\ Traced(q, m, w, 0) BY DEF Both, General
<1>2. /\ t \in MuxType /\ t.next = i + 1 /\ i \in Ids /\ i \in Nat /\ t.remote = m.remote
      /\ t.pending = m.pending /\ t.destroyed = m.destroyed
      /\ t.ch[i] = [st |-> "new", key |-> k, rid |-> None]
      /\ \A j \in Ids : j # i => t.ch[j] = m.ch[j]
  BY CreatedFields, MuxFields
<1> HIDE DEF t, i
<1>3. /\ t.ch[i].st = "new" /\ t.ch[i].key = k /\ t.ch[i].rid = None BY <1>2
<1>4. \A j \in Ids : j \in Nat BY MuxAssumption DEF Ids
<1>5. m.ch[i].st = "none" /\ m.ch[i].rid = None
  <2>1. i >= m.next /\ m.next = i BY <1>2 DEF i
  <2> QED BY <2>1, <1>1, <1>2 DEF WellKept
<1>6. \A j \in Ids : t.ch[j].rid = m.ch[j].rid BY <1>2, <1>3, <1>5
<1>7. m.ch[i].st \notin Opened BY <1>5 DEF Opened
<1>8. i \notin Held(q) BY <1>1, <1>2, <1>7 DEF Traced
<1>9. \A l \in Keys : ~OnWay(v, 0, OpenFrame(i, l)) BY <1>1, <1>2, <1>7 DEF Traced
<1>10. Held(t) = Held(m) BY <1>2, <1>6 DEF Held
<1>11. WellKept(t)
  <2>1. \A j \in Ids : /\ t.ch[j].st \in {"none", "new", "sent"} => t.ch[j].rid = None
                       /\ t.ch[j].st = "open" => t.ch[j].rid \in Ids
                       /\ t.ch[j].st # "none" => t.ch[j].key \in Keys
                       /\ j >= t.next <=> t.ch[j].st = "none"
    <3> TAKE j \in Ids
    <3>1. CASE j = i BY <3>1, <1>2, <1>3
    <3>2. CASE j # i
      <4>1. t.ch[j] = m.ch[j] BY <3>2, <1>2
      <4>2. j >= t.next <=> j >= m.next BY <3>2, <1>2, <1>4 DEF i
      <4> QED BY <4>1, <4>2, <1>1 DEF WellKept
    <3> QED BY <3>1, <3>2
  <2>2. ASSUME NEW j \in Ids, NEW s \in Ids
        PROVE  t.remote[s] = j <=> t.ch[j].st = "open" /\ t.ch[j].rid = s
    <3>1. m.remote[s] = j <=> m.ch[j].st = "open" /\ m.ch[j].rid = s BY <1>1 DEF WellKept
    <3> QED BY <3>1, <1>2, <1>3, <1>5
  <2>3. \A j, l \in Ids : t.ch[j].rid = t.ch[l].rid /\ t.ch[j].rid # None => j = l BY <1>1, <1>6 DEF WellKept
  <2>4. \A j \in Ids, l \in Keys : t.pending[l] # None => t.ch[j].rid # t.pending[l]
    BY <1>1, <1>2, <1>6 DEF WellKept
  <2> QED BY <2>1, <2>2, <2>3, <2>4 DEF WellKept
<1>12. Traced(t, q, v, 0)
  <2>1. ASSUME NEW j \in Ids, NEW l \in Keys, OnWay(v, 0, OpenFrame(j, l))
        PROVE  t.ch[j].st \in Opened /\ t.ch[j].key = l /\ j \notin Held(q) /\ Once(v, 0, OpenFrame(j, l))
    <3>1. j # i BY <2>1, <1>9
    <3>2. m.ch[j].st \in Opened /\ m.ch[j].key = l /\ j \notin Held(q) /\ Once(v, 0, OpenFrame(j, l))
      BY <2>1, <1>1 DEF Traced
    <3>3. t.ch[j] = m.ch[j] BY <3>1, <1>2
    <3> QED BY <3>2, <3>3
  <2>2. ASSUME NEW j \in Ids, j \in Held(q) PROVE t.ch[j].st \in Opened /\ t.ch[j] = m.ch[j]
    <3>1. j # i BY <2>2, <1>8
    <3> QED BY <2>2, <3>1, <1>1, <1>2 DEF Traced
  <2>3. ASSUME NEW j \in Ids, NEW l \in Keys, q.pending[l] = j PROVE t.ch[j].key = l
    <3>1. j \in Held(q) BY <2>3 DEF Held
    <3> QED BY <2>2, <2>3, <3>1, <1>1 DEF Traced
  <2> QED BY <2>1, <2>2, <2>3 DEF Traced
<1>13. Traced(q, t, w, 0)
  <2>1. Traced(q, m, w, 0) /\ t.pending = m.pending /\ Held(t) = Held(m) BY <1>1, <1>2, <1>10
  <2> QED BY <2>1 DEF Traced
<1>14. Both(t, q, v, w, 0) BY <1>1, <1>11, <1>12, <1>13 DEF Both, General
<1>15. ASSUME Tight(m, q, v, w, 0), \A j \in Ids : Live(m, j) => m.ch[j].key # k PROVE Tight(t, q, v, w, 0)
  <2>1. /\ Alone(m) /\ Matched(m, q, v, 0) /\ Announced(m, q, v, 0) /\ InLine(m, q, v, 0)
        /\ Alone(q) /\ Matched(q, m, w, 0) /\ Announced(q, m, w, 0) /\ InLine(q, m, w, 0)
    BY <1>15 DEF Tight, Orderly
  <2>2. ~OnWay(v, 0, OpenOf(t, i)) /\ ~OnWay(v, 0, CloseFrame(i)) /\ \A s \in Ids : ~OnWay(v, 0, DataFrame(i, s))
    <3>1. ~OnWay(v, 0, OpenOf(t, i)) BY <1>3, <1>9 DEF OpenOf
    <3>2. ~OnWay(v, 0, CloseFrame(i)) BY <2>1, <1>2, <1>5 DEF InLine
    <3>3. \A s \in Ids : ~OnWay(v, 0, DataFrame(i, s))
      <4>1. None \notin Ids BY MuxFields
      <4> QED BY <2>1, <4>1, <1>2, <1>5 DEF InLine
    <3> QED BY <3>1, <3>2, <3>3
  <2>3. \A j \in Ids : j # i => OpenOf(t, j) = OpenOf(m, j) BY <1>2 DEF OpenOf
  <2>4. \A a, b \in Ids : a # i /\ b # i => (SameKey(t, a, b) <=> SameKey(m, a, b)) BY <1>2 DEF SameKey
  <2>5. Alone(t)
    <3>1. ASSUME NEW a \in Ids, NEW b \in Ids, a < b, SameKey(t, a, b), t.ch[b].st # "none"
          PROVE  t.ch[a].st = "gone" /\ t.ch[a].rid # None
      <4>0. a \in Nat /\ b \in Nat BY <1>4
      <4>1. CASE b = i
        <5>1. a # i /\ ~(a >= m.next) BY <3>1, <4>0, <4>1, <1>2 DEF i
        <5>2. t.ch[a] = m.ch[a] /\ m.ch[a].key = k BY <3>1, <4>1, <5>1, <1>2, <1>3 DEF SameKey
        <5>3. m.ch[a].st # "none" BY <5>1, <1>1 DEF WellKept
        <5>4. ~Live(m, a) BY <5>2, <1>15
        <5>5. m.ch[a].st \in ChannelStates BY MuxFields
        <5>6. m.ch[a].st = "gone" BY <5>3, <5>4, <5>5 DEF Live, ChannelStates
        <5> QED BY <2>1, <5>2, <5>6 DEF Alone
      <4>2. CASE a = i
        <5>1. b # i /\ b >= m.next BY <3>1, <4>0, <4>2, <1>2 DEF i
        <5>2. t.ch[b].st = "none" BY <5>1, <1>1, <1>2 DEF WellKept
        <5> QED BY <3>1, <5>2
      <4>3. CASE a # i /\ b # i
        <5>1. t.ch[a] = m.ch[a] /\ t.ch[b] = m.ch[b] /\ SameKey(m, a, b) BY <2>4, <3>1, <4>3, <1>2
        <5> QED BY <2>1, <3>1, <5>1 DEF Alone
      <4> QED BY <4>1, <4>2, <4>3
    <3>2. ASSUME NEW a \in Ids, Live(t, a), t.pending[t.ch[a].key] # None PROVE t.ch[a].st = "new"
      <4>1. CASE a = i BY <4>1, <1>3
      <4>2. CASE a # i
        <5>1. t.ch[a] = m.ch[a] BY <4>2, <1>2
        <5>2. Live(m, a) BY <3>2, <5>1 DEF Live
        <5> QED BY <2>1, <3>2, <5>1, <5>2, <1>2 DEF Alone
      <4> QED BY <4>1, <4>2
    <3>3. ASSUME NEW a \in Ids, t.ch[a].st = "gone", t.ch[a].rid = None PROVE t.destroyed = TRUE
      <4>1. a # i BY <3>3, <1>3
      <4> QED BY <2>1, <3>3, <4>1, <1>2 DEF Alone
    <3>4. t.destroyed = TRUE => \A a \in Ids : ~Live(t, a) BY <1>2
    <3> QED BY <3>1, <3>2, <3>3, <3>4 DEF Alone
  <2>6. Matched(t, q, v, 0)
    <3> SUFFICES ASSUME NEW j \in Ids, NEW s \in Ids, t.ch[j].rid = s PROVE MatchedAt(t, q, v, 0, j, s)
      BY DEF Matched
    <3>1. None \notin Ids BY MuxFields
    <3>2. j # i BY <3>1, <1>3
    <3>3. t.ch[j] = m.ch[j] BY <3>2, <1>2
    <3>4. MatchedAt(m, q, v, 0, j, s) BY <2>1, <3>3 DEF Matched
    <3>5. Answered(t, q, v, 0, j, s) BY <2>3, <3>2, <3>4, <1>2 DEF MatchedAt, Answered
    <3>6. Heard(m, v, 0, j) => Heard(t, v, 0, j) BY <1>2 DEF Heard
    <3> QED BY <3>3, <3>4, <3>5, <3>6 DEF MatchedAt
  <2>7. Announced(t, q, v, 0)
    <3> SUFFICES ASSUME NEW j \in Ids, t.ch[j].st = "sent" PROVE AnnouncedAt(t, q, v, 0, j)
      BY DEF Announced
    <3>1. j # i BY <1>3
    <3>2. t.ch[j] = m.ch[j] /\ OpenOf(t, j) = OpenOf(m, j) BY <2>3, <3>1, <1>2
    <3> QED BY <2>1, <3>2 DEF Announced, AnnouncedAt
  <2>8. InLine(t, q, v, 0)
    <3>1. ASSUME NEW j \in Ids
          PROVE  /\ Ordered(v, 0, OpenOf(t, j), CloseFrame(j))
                 /\ OnWay(v, 0, CloseFrame(j)) => t.ch[j].st = "gone"
                 /\ \A s \in Ids : /\ Ordered(v, 0, OpenOf(t, j), DataFrame(j, s))
                                   /\ OnWay(v, 0, DataFrame(j, s)) => t.ch[j].rid = s
      <4>1. CASE j = i BY <2>2, <4>1 DEF Ordered, OnWay
      <4>2. CASE j # i
        <5>1. t.ch[j] = m.ch[j] /\ OpenOf(t, j) = OpenOf(m, j) BY <2>3, <4>2, <1>2
        <5> QED BY <2>1, <5>1 DEF InLine
      <4> QED BY <4>1, <4>2
    <3>2. ASSUME NEW a \in Ids, NEW b \in Ids, a < b, SameKey(t, a, b)
          PROVE  /\ Ordered(v, 0, OpenOf(t, a), OpenOf(t, b)) /\ Ordered(v, 0, CloseFrame(a), OpenOf(t, b))
                 /\ b \in Held(q) => ~OnWay(v, 0, OpenOf(t, a)) /\ ~OnWay(v, 0, CloseFrame(a))
      <4>1. CASE a = i BY <2>2, <4>1 DEF Ordered, OnWay
      <4>2. CASE b = i BY <2>2, <4>2, <1>8 DEF Ordered, OnWay
      <4>3. CASE a # i /\ b # i
        <5>1. SameKey(m, a, b) /\ OpenOf(t, a) = OpenOf(m, a) /\ OpenOf(t, b) = OpenOf(m, b)
          BY <2>3, <2>4, <3>2, <4>3
        <5> QED BY <2>1, <3>2, <5>1 DEF InLine
      <4> QED BY <4>1, <4>2, <4>3
    <3> QED BY <3>1, <3>2 DEF InLine
  <2>9. Matched(q, t, w, 0)
    <3> SUFFICES ASSUME NEW s \in Ids, NEW x \in Ids, q.ch[s].rid = x PROVE MatchedAt(q, t, w, 0, s, x)
      BY DEF Matched
    <3>1. MatchedAt(q, m, w, 0, s, x) BY <2>1 DEF Matched
    <3>2. x # i BY <3>1, <1>5 DEF MatchedAt, Answered
    <3>3. t.ch[x] = m.ch[x] BY <3>2, <1>2
    <3>4. Answered(q, t, w, 0, s, x) BY <3>1, <3>3, <1>2 DEF MatchedAt, Answered
    <3>5. Live(t, x) => Live(m, x) BY <3>3 DEF Live
    <3> QED BY <3>1, <3>3, <3>4, <3>5 DEF MatchedAt
  <2>10. Announced(q, t, w, 0)
    <3> SUFFICES ASSUME NEW s \in Ids, q.ch[s].st = "sent" PROVE AnnouncedAt(q, t, w, 0, s) BY DEF Announced
    <3>1. AnnouncedAt(q, m, w, 0, s) BY <2>1 DEF Announced
    <3>2. t.pending = m.pending /\ t.destroyed = m.destroyed BY <1>2
    <3>3. (\E r \in Ids : m.ch[r].rid = s) => \E r \in Ids : t.ch[r].rid = s BY <1>6
    <3> QED BY <3>1, <3>2, <3>3 DEF AnnouncedAt
  <2>11. InLine(q, t, w, 0) BY <2>1, <1>10, InLineHeld
  <2> QED BY <2>1, <2>5, <2>6, <2>7, <2>8, <2>9, <2>10, <2>11 DEF Tight, Orderly
<1> QED BY <1>14, <1>15 DEF t

\* Mux::destroy.
LiveIds(m) == {i \in Ids : Live(m, i)}
Destroyed(m) ==
  [m EXCEPT
     !.ch = [i \in Ids |-> IF i \in LiveIds(m) THEN [@[i] EXCEPT !.st = "gone"] ELSE @[i]],
     !.remote = [r \in Ids |-> IF \E i \in LiveIds(m) : m.ch[i].rid = r THEN None ELSE @[r]],
     !.pending = [k \in Keys |-> IF OfKey(m, k) # {} THEN None ELSE @[k]],
     !.last = [k \in Keys |-> IF @[k] \in OfKey(m, k) THEN None ELSE @[k]],
     !.destroyed = TRUE, !.batch = <<>>, !.cork = 0]

LEMMA DestroyedFields ==
  ASSUME NEW m \in MuxType
  PROVE  LET t == Destroyed(m)
         IN  /\ t \in MuxType /\ t.next = m.next /\ t.destroyed = TRUE /\ t.batch = <<>> /\ t.cork = 0
             /\ \A i \in Ids : /\ t.ch[i].key = m.ch[i].key /\ t.ch[i].rid = m.ch[i].rid
                               /\ t.ch[i].st = IF Live(m, i) THEN "gone" ELSE m.ch[i].st
             /\ \A r \in Ids : t.remote[r] = IF \E i \in Ids : Live(m, i) /\ m.ch[i].rid = r THEN None
                                             ELSE m.remote[r]
             /\ \A k \in Keys : t.pending[k] \in {m.pending[k], None}
<1> DEFINE t == Destroyed(m)
           gone(c) == [st |-> "gone", key |-> c.key, rid |-> c.rid]
           ch == [i \in Ids |-> IF i \in LiveIds(m) THEN [m.ch[i] EXCEPT !.st = "gone"] ELSE m.ch[i]]
           remote == [r \in Ids |-> IF \E i \in LiveIds(m) : m.ch[i].rid = r THEN None ELSE m.remote[r]]
           pending == [k \in Keys |-> IF OfKey(m, k) # {} THEN None ELSE m.pending[k]]
           last == [k \in Keys |-> IF m.last[k] \in OfKey(m, k) THEN None ELSE m.last[k]]
           batch == <<>>
<1>1. /\ m.ch \in [Ids -> ChanType] /\ m.remote \in [Ids -> Ids \cup {None}] /\ \A i \in Ids : m.ch[i] \in ChanType
      /\ m.pending \in [Keys -> Ids \cup {None}] /\ m.last \in [Keys -> Ids \cup {None}]
  BY MuxFields
<1>2. ASSUME NEW c \in ChanType PROVE [c EXCEPT !.st = "gone"] = gone(c) /\ gone(c) \in ChanType
  <2>1. [c EXCEPT !.st = "gone"] = gone(c) BY DEF ChanType
  <2>2. c.key \in Keys \cup {None} /\ c.rid \in Ids \cup {None} BY DEF ChanType
  <2>3. gone(c) \in ChanType BY <2>2 DEF ChanType, ChannelStates
  <2> QED BY <2>1, <2>3
<1>3. ch = [i \in Ids |-> IF i \in LiveIds(m) THEN gone(m.ch[i]) ELSE m.ch[i]]
  <2>1. \A i \in Ids : [m.ch[i] EXCEPT !.st = "gone"] = gone(m.ch[i]) BY <1>1, <1>2
  <2> HIDE DEF gone
  <2> QED BY <2>1
<1>4. ASSUME NEW i \in Ids
      PROVE  /\ ch[i] \in ChanType /\ ch[i].key = m.ch[i].key /\ ch[i].rid = m.ch[i].rid
             /\ ch[i].st = IF Live(m, i) THEN "gone" ELSE m.ch[i].st
  <2>1. m.ch[i] \in ChanType /\ gone(m.ch[i]) \in ChanType BY <1>1, <1>2
  <2>2. ch[i] = IF Live(m, i) THEN gone(m.ch[i]) ELSE m.ch[i]
    <3> HIDE DEF gone
    <3> QED BY <1>3 DEF LiveIds
  <2> HIDE DEF ch
  <2> QED BY <2>1, <2>2
<1>5. ch \in [Ids -> ChanType]
  <2>1. ch = [i \in Ids |-> ch[i]] OBVIOUS
  <2> HIDE DEF ch
  <2> QED BY <2>1, <1>4
<1>6. /\ remote \in [Ids -> Ids \cup {None}] /\ pending \in [Keys -> Ids \cup {None}]
      /\ last \in [Keys -> Ids \cup {None}] /\ batch \in Seq(MuxFrames)
  BY <1>1
<1>7. \A r \in Ids : remote[r] = IF \E i \in Ids : Live(m, i) /\ m.ch[i].rid = r THEN None ELSE m.remote[r]
  BY DEF LiveIds
<1>8. \A k \in Keys : pending[k] \in {m.pending[k], None} OBVIOUS
<1>9. t = [m EXCEPT !.ch = ch, !.remote = remote, !.pending = pending, !.last = last,
                    !.destroyed = TRUE, !.batch = batch, !.cork = 0]
  BY DEF MuxType, Destroyed
<1>10. batch = <<>> OBVIOUS
<1> HIDE DEF ch, remote, pending, last, t, batch
<1>11. t \in MuxType /\ t.ch = ch /\ t.remote = remote /\ t.pending = pending /\ t.next = m.next
       /\ t.destroyed = TRUE /\ t.batch = batch /\ t.cork = 0
  BY <1>5, <1>6, <1>9 DEF MuxType
<1> QED BY <1>4, <1>7, <1>8, <1>10, <1>11 DEF t

LEMMA DestroyedKeeps ==
  ASSUME NEW m \in MuxType, NEW q \in MuxType, NEW x \in Packets, NEW w,
         Both(m, q, Append(x, m.batch), w, 0), ~(m.destroyed = TRUE)
  PROVE  /\ Both(Destroyed(m), q, Append(x, <<>>), w, 0)
         /\ Tight(m, q, Append(x, m.batch), w, 0) => Tight(Destroyed(m), q, Append(x, <<>>), w, 0)
<1> DEFINE t == Destroyed(m)
           v == Append(x, m.batch)
           u == Append(x, <<>>)
<1>1. WellKept(m) /\ WellKept(q) /\ Traced(m, q, v, 0) /\ Traced(q, m, w, 0) BY DEF Both, General
<1>2. /\ t \in MuxType /\ t.next = m.next /\ t.destroyed = TRUE
      /\ \A i \in Ids : /\ t.ch[i].key = m.ch[i].key /\ t.ch[i].rid = m.ch[i].rid
                        /\ t.ch[i].st = IF Live(m, i) THEN "gone" ELSE m.ch[i].st
      /\ \A r \in Ids : t.remote[r] = IF \E i \in Ids : Live(m, i) /\ m.ch[i].rid = r THEN None
                                      ELSE m.remote[r]
      /\ \A k \in Keys : t.pending[k] \in {m.pending[k], None}
  BY DestroyedFields
<1>3. /\ v \in Packets /\ u \in Packets /\ Shorter(v, 0, u, 0)
      /\ \A g, h : OnWay(v, 0, g) /\ ~OnWay(u, 0, g) /\ Ordered(v, 0, g, h) => ~OnWay(u, 0, h)
  <2>1. m.batch \in Seq(MuxFrames) BY MuxFields
  <2> QED BY <2>1, Dropped
<1> HIDE DEF t, u, v
<1>4. None \notin Ids /\ \A i \in Ids : m.ch[i].st \in ChannelStates BY MuxFields
<1>5. \A i \in Ids : ~Live(t, i) BY <1>2 DEF Live
<1>6. \A i \in Ids : m.ch[i].st \in Opened => t.ch[i].st \in Opened BY <1>2 DEF Opened
<1>7. \A s \in Ids : s \in Held(t) => s \in Held(m)
  <2>1. \A s \in Ids, k \in Keys : t.pending[k] = s => m.pending[k] = s BY <1>2, <1>4
  <2> QED BY <2>1, <1>2, HeldBy
<1>8. WellKept(t)
  <2>1. \A j \in Ids : /\ t.ch[j].st \in {"none", "new", "sent"} => t.ch[j].rid = None
                       /\ t.ch[j].st = "open" => t.ch[j].rid \in Ids
                       /\ t.ch[j].st # "none" => t.ch[j].key \in Keys
                       /\ j >= t.next <=> t.ch[j].st = "none"
    <3> TAKE j \in Ids
    <3>1. CASE Live(m, j)
      <4>1. m.ch[j].key \in Keys /\ ~(j >= m.next) BY <3>1, <1>1 DEF WellKept, Live
      <4> QED BY <3>1, <4>1, <1>2
    <3>2. CASE ~Live(m, j)
      <4>1. t.ch[j].st = m.ch[j].st /\ t.ch[j].rid = m.ch[j].rid /\ t.ch[j].key = m.ch[j].key /\ t.next = m.next
        BY <3>2, <1>2
      <4> QED BY <4>1, <1>1 DEF WellKept
    <3> QED BY <3>1, <3>2
  <2>2. ASSUME NEW j \in Ids, NEW s \in Ids
        PROVE  t.remote[s] = j <=> t.ch[j].st = "open" /\ t.ch[j].rid = s
    <3>1. m.remote[s] = j <=> m.ch[j].st = "open" /\ m.ch[j].rid = s BY <1>1 DEF WellKept
    <3>2. t.ch[j].st # "open" BY <1>5 DEF Live
    <3>3. ASSUME t.remote[s] = j PROVE FALSE
      <4>1. ~(\E i \in Ids : Live(m, i) /\ m.ch[i].rid = s) /\ m.remote[s] = j BY <3>3, <1>2, <1>4
      <4>2. Live(m, j) /\ m.ch[j].rid = s BY <3>1, <4>1 DEF Live
      <4> QED BY <4>1, <4>2
    <3> QED BY <3>2, <3>3
  <2>3. \A j, l \in Ids : t.ch[j].rid = t.ch[l].rid /\ t.ch[j].rid # None => j = l BY <1>1, <1>2 DEF WellKept
  <2>4. ASSUME NEW j \in Ids, NEW l \in Keys, t.pending[l] # None PROVE t.ch[j].rid # t.pending[l]
    <3>1. t.pending[l] = m.pending[l] /\ m.pending[l] # None BY <2>4, <1>2
    <3> QED BY <3>1, <1>1, <1>2 DEF WellKept
  <2> QED BY <2>1, <2>2, <2>3, <2>4 DEF WellKept
<1>9. Traced(t, q, u, 0)
  <2>1. Traced(m, q, u, 0) BY <1>1, <1>3, TracedShorter
  <2>2. \A i \in Ids : t.ch[i].key = m.ch[i].key BY <1>2
  <2> QED BY <2>1, <2>2, <1>6 DEF Traced
<1>10. Traced(q, t, w, 0)
  <2>1. \A s \in Ids, k \in Keys : t.pending[k] = s => m.pending[k] = s BY <1>2, <1>4
  <2> QED BY <2>1, <1>1, <1>7 DEF Traced
<1>11. Both(t, q, u, w, 0) BY <1>1, <1>8, <1>9, <1>10 DEF Both, General
<1>12. ASSUME Tight(m, q, v, w, 0) PROVE Tight(t, q, u, w, 0)
  <2>1. /\ Alone(m) /\ Matched(m, q, v, 0) /\ Announced(m, q, v, 0) /\ InLine(m, q, v, 0)
        /\ Alone(q) /\ Matched(q, m, w, 0) /\ Announced(q, m, w, 0) /\ InLine(q, m, w, 0)
    BY <1>12 DEF Tight, Orderly
  <2>2. \A a, b \in Ids : SameKey(t, a, b) <=> SameKey(m, a, b) BY <1>2 DEF SameKey
  <2>3. \A a \in Ids : OpenOf(t, a) = OpenOf(m, a) BY <1>2 DEF OpenOf
  <2>4. \A g : OnWay(u, 0, g) => OnWay(v, 0, g) BY <1>3 DEF Shorter
  <2>5. Alone(t)
    <3>1. ASSUME NEW a \in Ids, NEW b \in Ids, a < b, SameKey(t, a, b), t.ch[b].st # "none"
          PROVE  t.ch[a].st = "gone" /\ t.ch[a].rid # None
      <4>1. m.ch[b].st # "none" BY <3>1, <1>2 DEF Live
      <4>2. m.ch[a].st = "gone" /\ m.ch[a].rid # None BY <2>1, <2>2, <3>1, <4>1 DEF Alone
      <4> QED BY <4>2, <1>2
    <3> QED BY <3>1, <1>2, <1>5 DEF Alone
  <2>6. Matched(t, q, u, 0)
    <3> SUFFICES ASSUME NEW i \in Ids, NEW r \in Ids, t.ch[i].rid = r PROVE MatchedAt(t, q, u, 0, i, r)
      BY DEF Matched
    <3>1. MatchedAt(m, q, v, 0, i, r) BY <2>1, <1>2 DEF Matched
    <3>2. Answered(t, q, u, 0, i, r)
      <4>1. CASE q.ch[r].st = "sent" /\ OnWay(v, 0, OpenOf(m, i)) /\ ~OnWay(u, 0, OpenOf(m, i))
        <5>1. Ordered(v, 0, OpenOf(m, i), CloseFrame(i)) /\ \A s \in Ids : Ordered(v, 0, OpenOf(m, i), DataFrame(i, s))
          BY <2>1 DEF InLine
        <5>2. ~OnWay(u, 0, CloseFrame(i)) /\ \A s \in Ids : ~OnWay(u, 0, DataFrame(i, s)) BY <4>1, <5>1, <1>3
        <5> QED BY <4>1, <5>2, <1>2 DEF Answered
      <4>2. CASE ~(q.ch[r].st = "sent" /\ OnWay(v, 0, OpenOf(m, i)) /\ ~OnWay(u, 0, OpenOf(m, i)))
        BY <2>3, <3>1, <4>2 DEF MatchedAt, Answered
      <4> QED BY <4>1, <4>2
    <3>3. ASSUME t.ch[i].st = "gone", Live(q, r) PROVE Heard(t, u, 0, i)
      <4> SUFFICES ASSUME ~OnWay(u, 0, CloseFrame(i)), NEW j \in Ids, SameKey(m, i, j), OnWay(u, 0, OpenOf(m, j))
                   PROVE  j <= i
        BY <2>2, <2>3, <1>2 DEF Heard
      <4>0. i \in Nat /\ j \in Nat BY MuxAssumption DEF Ids
      <4>1. SUFFICES ASSUME i < j PROVE FALSE BY <4>0
      <4>2. OnWay(v, 0, OpenOf(m, j)) BY <2>4
      <4>3. m.ch[i].rid # None BY <1>2, <1>4
      <4>4. m.ch[i].key \in Keys /\ m.ch[i].st # "none" BY <4>3, <1>1 DEF WellKept
      <4>5. m.ch[j].key \in Keys BY <4>4 DEF SameKey
      <4>6. m.ch[j].st \in Opened BY <4>2, <4>5, <1>1 DEF Traced, OpenOf
      <4>7. m.ch[j].st # "none" BY <4>6 DEF Opened
      <4>8. m.ch[i].st = "gone" BY <2>1, <4>1, <4>7 DEF Alone
      <4>9. Heard(m, v, 0, i) BY <3>1, <3>3, <4>8 DEF MatchedAt
      <4>10. OnWay(v, 0, CloseFrame(i)) BY <4>9 DEF Heard
      <4>11. Ordered(v, 0, CloseFrame(i), OpenOf(m, j)) BY <2>1, <4>1 DEF InLine
      <4> QED BY <4>10, <4>11, <1>3
    <3> QED BY <3>1, <3>2, <3>3, <1>2 DEF MatchedAt
  <2>7. Announced(t, q, u, 0) BY <1>5 DEF Announced, Live
  <2>8. InLine(t, q, u, 0)
    <3>1. InLine(m, q, u, 0) BY <2>1, <1>3, InLineShorter
    <3>2. \A j \in Ids : t.ch[j].rid = m.ch[j].rid /\ (m.ch[j].st = "gone" => t.ch[j].st = "gone") BY <1>2
    <3> QED BY <2>2, <2>3, <3>1, <3>2 DEF InLine
  <2>9. Matched(q, t, w, 0)
    <3> SUFFICES ASSUME NEW s \in Ids, NEW y \in Ids, q.ch[s].rid = y PROVE MatchedAt(q, t, w, 0, s, y)
      BY DEF Matched
    <3>1. MatchedAt(q, m, w, 0, s, y) BY <2>1 DEF Matched
    <3>2. m.ch[y].st = "sent" => m.ch[y].rid = None BY <1>1 DEF WellKept
    <3>3. Answered(q, t, w, 0, s, y) BY <3>1, <3>2, <1>2 DEF MatchedAt, Answered, Live
    <3> QED BY <3>1, <3>3, <1>2, <1>5 DEF MatchedAt
  <2>10. Announced(q, t, w, 0) BY <1>2 DEF Announced, AnnouncedAt
  <2>11. InLine(q, t, w, 0) BY <2>1, <1>7, InLineHeld
  <2> QED BY <2>1, <2>5, <2>6, <2>7, <2>8, <2>9, <2>10, <2>11 DEF Tight, Orderly
<1> QED BY <1>11, <1>12 DEF t, u, v

\* write_frame puts a frame at the end of the line: into the batch, or as a packet of its own.
LEMMA IntoBatch ==
  ASSUME NEW x \in Packets, NEW b \in Seq(MuxFrames), NEW f \in MuxFrames
  PROVE  /\ Append(x, b) \in Packets /\ Append(b, f) \in Seq(MuxFrames) /\ Append(x, Append(b, f)) \in Packets
         /\ Extended(Append(x, b), Append(x, Append(b, f)), f)
<1> DEFINE g == Append(b, f)
           w == Append(x, b)
           u == Append(x, g)
           c == Len(x) + 1
           d == Len(b) + 1
<1>1. g \in Seq(MuxFrames) /\ Len(b) \in Nat /\ DOMAIN b = 1 .. Len(b) /\ DOMAIN g = 1 .. d
      /\ g[d] = f /\ \A j \in DOMAIN b : g[j] = b[j]
  OBVIOUS
<1> HIDE DEF g
<1>2. w \in Packets /\ u \in Packets /\ Len(x) \in Nat /\ DOMAIN x = 1 .. Len(x) BY <1>1 DEF Packets
<1>3. DOMAIN w = 1 .. c /\ w[c] = b /\ \A a \in DOMAIN x : w[a] = x[a] BY DEF Packets
<1>4. DOMAIN u = 1 .. c /\ u[c] = g /\ \A a \in DOMAIN x : u[a] = x[a] BY <1>1 DEF Packets
<1> HIDE DEF w, u
<1>5. c \in DOMAIN u /\ d \in DOMAIN u[c] /\ u[c][d] = f BY <1>1, <1>2, <1>4
<1>6. \A a \in 1 .. c : a = c \/ (a \in DOMAIN x /\ a < c) BY <1>2
<1>7. \A j \in DOMAIN g : j = d \/ (j \in DOMAIN b /\ j < d) BY <1>1
<1>8. \A j \in DOMAIN b : j \in DOMAIN g /\ j # d BY <1>1
<1> HIDE DEF c, d
<1>9. ASSUME NEW a \in DOMAIN u, NEW j \in DOMAIN u[a]
      PROVE  \/ a = c /\ j = d
             \/ a \in DOMAIN w /\ j \in DOMAIN w[a] /\ w[a][j] = u[a][j] /\ Precedes(a, j, c, d)
  <2>1. CASE a = c BY <2>1, <1>1, <1>3, <1>4, <1>7, <1>9 DEF Precedes
  <2>2. CASE a # c BY <2>2, <1>3, <1>4, <1>6, <1>9 DEF Precedes
  <2> QED BY <2>1, <2>2
<1>10. ASSUME NEW a \in DOMAIN w, NEW j \in DOMAIN w[a]
       PROVE  a \in DOMAIN u /\ j \in DOMAIN u[a] /\ u[a][j] = w[a][j] /\ ~(a = c /\ j = d)
  <2>1. CASE a = c BY <2>1, <1>1, <1>3, <1>4, <1>8, <1>10
  <2>2. CASE a # c BY <2>2, <1>3, <1>4, <1>6, <1>10
  <2> QED BY <2>1, <2>2
<1>11. Extended(w, u, f) BY <1>5, <1>9, <1>10 DEF Extended
<1> QED BY <1>1, <1>2, <1>11 DEF w, u, g

LEMMA AsPacket ==
  ASSUME NEW x \in Packets, NEW f \in MuxFrames
  PROVE  /\ Append(x, <<f>>) \in Packets /\ Append(Append(x, <<f>>), <<>>) \in Packets
         /\ Append(x, <<>>) \in Packets
         /\ Extended(Append(x, <<>>), Append(Append(x, <<f>>), <<>>), f)
<1> DEFINE y == Append(x, <<f>>)
           w == Append(x, <<>>)
           u == Append(y, <<>>)
           c == Len(x) + 1
<1>0. <<f>> \in Seq(MuxFrames) /\ <<>> \in Seq(MuxFrames) /\ DOMAIN <<f>> = {1} /\ <<f>>[1] = f
  <2>1. <<f>> \in Seq(MuxFrames) /\ <<>> \in Seq(MuxFrames) /\ Len(<<f>>) = 1 OBVIOUS
  <2>2. DOMAIN <<f>> = 1 .. 1 BY <2>1
  <2> QED BY <2>1, <2>2
<1>1. /\ y \in Packets /\ w \in Packets /\ Len(x) \in Nat /\ DOMAIN x = 1 .. Len(x)
      /\ Len(y) = c /\ DOMAIN y = 1 .. c /\ y[c] = <<f>> /\ \A a \in DOMAIN x : y[a] = x[a]
  BY <1>0 DEF Packets
<1>2. DOMAIN w = 1 .. c /\ w[c] = <<>> /\ \A a \in DOMAIN x : w[a] = x[a] BY <1>0 DEF Packets
<1> HIDE DEF y, w
<1>3. /\ u \in Packets /\ DOMAIN u = 1 .. c + 1 /\ u[c + 1] = <<>> /\ \A a \in DOMAIN y : u[a] = y[a]
  BY <1>0, <1>1 DEF Packets
<1> HIDE DEF u
<1>4. c \in DOMAIN y /\ c \in DOMAIN u /\ u[c] = <<f>> BY <1>1, <1>3
<1>5. \A a \in 1 .. c + 1 : a = c \/ a = c + 1 \/ (a \in DOMAIN x /\ a < c) BY <1>1
<1>6. \A a \in 1 .. c : a = c \/ (a \in DOMAIN x /\ a \in DOMAIN y /\ a < c /\ a \in 1 .. c + 1) BY <1>1
<1>13. \A a \in DOMAIN x : a \in 1 .. c /\ a # c BY <1>1
<1> HIDE DEF c
<1>7. 1 \in DOMAIN u[c] /\ u[c][1] = f BY <1>0, <1>4
<1>8. \A j : j \notin DOMAIN <<>> OBVIOUS
<1>9. ASSUME NEW a \in DOMAIN u, NEW j \in DOMAIN u[a]
      PROVE  \/ a = c /\ j = 1
             \/ a \in DOMAIN w /\ j \in DOMAIN w[a] /\ w[a][j] = u[a][j] /\ Precedes(a, j, c, 1)
  <2>1. CASE a = c BY <2>1, <1>0, <1>4, <1>9
  <2>2. CASE a = c + 1 BY <2>2, <1>3, <1>8, <1>9
  <2>3. CASE a # c /\ a # c + 1
    <3>1. a \in DOMAIN x /\ a < c BY <2>3, <1>3, <1>5
    <3>2. u[a] = x[a] /\ w[a] = x[a] /\ a \in DOMAIN w BY <3>1, <1>1, <1>2, <1>3, <1>13
    <3> QED BY <3>1, <3>2, <1>9 DEF Precedes
  <2> QED BY <2>1, <2>2, <2>3
<1>10. ASSUME NEW a \in DOMAIN w, NEW j \in DOMAIN w[a]
       PROVE  a \in DOMAIN u /\ j \in DOMAIN u[a] /\ u[a][j] = w[a][j] /\ ~(a = c /\ j = 1)
  <2>1. a # c BY <1>2, <1>8, <1>10
  <2>2. a \in DOMAIN x /\ a \in DOMAIN y /\ a \in DOMAIN u BY <2>1, <1>2, <1>3, <1>6
  <2>3. u[a] = x[a] /\ w[a] = x[a] BY <2>2, <1>1, <1>2, <1>3
  <2> QED BY <2>1, <2>2, <2>3, <1>10
<1>11. Extended(w, u, f) BY <1>4, <1>7, <1>9, <1>10 DEF Extended
<1> QED BY <1>1, <1>3, <1>11 DEF u, w, y

\* Nothing that is said of an end depends on its cork, its batch or last_channel_by_key_.
SameChannels(m, t) ==
  t.next = m.next /\ t.ch = m.ch /\ t.remote = m.remote /\ t.pending = m.pending /\ t.destroyed = m.destroyed

LEMMA SameEnd ==
  ASSUME NEW m, NEW t, SameChannels(m, t), NEW q, NEW v, NEW w, NEW n
  PROVE  /\ Both(m, q, v, w, n) => Both(t, q, v, w, n)
         /\ Tight(m, q, v, w, n) => Tight(t, q, v, w, n)
<1>0. t.next = m.next /\ t.ch = m.ch /\ t.remote = m.remote /\ t.pending = m.pending /\ t.destroyed = m.destroyed
  BY DEF SameChannels
<1>1. Held(t) = Held(m) BY <1>0 DEF Held
<1>2. \A i \in Ids : (Live(t, i) <=> Live(m, i)) /\ OpenOf(t, i) = OpenOf(m, i) BY <1>0 DEF Live, OpenOf
<1>3. \A i, j \in Ids : SameKey(t, i, j) <=> SameKey(m, i, j) BY <1>0 DEF SameKey
<1>4. WellKept(m) => WellKept(t) BY <1>0 DEF WellKept
<1>5. Traced(m, q, v, 0) => Traced(t, q, v, 0) BY <1>0 DEF Traced
<1>6. Traced(q, m, w, n) => Traced(q, t, w, n) BY <1>0, <1>1 DEF Traced
<1>7. Alone(m) => Alone(t) BY <1>0, <1>2, <1>3 DEF Alone
<1>8. ASSUME Matched(m, q, v, 0) PROVE Matched(t, q, v, 0)
  <2> SUFFICES ASSUME NEW i \in Ids, NEW r \in Ids, t.ch[i].rid = r PROVE MatchedAt(t, q, v, 0, i, r)
    BY DEF Matched
  <2>1. MatchedAt(m, q, v, 0, i, r) BY <1>0, <1>8 DEF Matched
  <2>2. Answered(m, q, v, 0, i, r) => Answered(t, q, v, 0, i, r) BY <1>0, <1>2 DEF Answered
  <2>3. Heard(m, v, 0, i) => Heard(t, v, 0, i) BY <1>0, <1>2, <1>3 DEF Heard
  <2> QED BY <2>1, <2>2, <2>3, <1>0 DEF MatchedAt
<1>9. Announced(m, q, v, 0) => Announced(t, q, v, 0) BY <1>0, <1>2 DEF Announced, AnnouncedAt
<1>10. InLine(m, q, v, 0) => InLine(t, q, v, 0) BY <1>0, <1>2, <1>3 DEF InLine
<1>11. ASSUME Matched(q, m, w, n) PROVE Matched(q, t, w, n)
  <2> SUFFICES ASSUME NEW i \in Ids, NEW r \in Ids, q.ch[i].rid = r PROVE MatchedAt(q, t, w, n, i, r)
    BY DEF Matched
  <2>1. MatchedAt(q, m, w, n, i, r) BY <1>11 DEF Matched
  <2>2. Answered(q, m, w, n, i, r) => Answered(q, t, w, n, i, r) BY <1>0 DEF Answered
  <2> QED BY <2>1, <2>2, <1>0, <1>2 DEF MatchedAt
<1>12. Announced(q, m, w, n) => Announced(q, t, w, n) BY <1>0 DEF Announced, AnnouncedAt
<1>13. InLine(q, m, w, n) => InLine(q, t, w, n) BY <1>1 DEF InLine
<1> QED BY <1>4, <1>5, <1>6, <1>7, <1>8, <1>9, <1>10, <1>11, <1>12, <1>13 DEF Both, General, Tight, Orderly

-----------------------------------------------------------------------------
(* The steps of the two muxes. *)

\* What is on the way to an end: packets on the stream, and the other end's batch.
Way(e) == Append(net[e], mux[Other(e)].batch)

\* The applications are tidy and no batch was cut.
Uncut == Tidy = TRUE /\ cut = FALSE

MuxShape ==
  /\ mux \in [Ends -> MuxType] /\ net \in [Ends -> Packets] /\ cut \in BOOLEAN
  /\ \A e \in Ends : mux[e].cork = 0 => mux[e].batch = <<>>

\* The inductive invariant.
MuxInv ==
  /\ MuxShape
  /\ \A e \in Ends : General(mux[e], mux[Other(e)], Way(Other(e)), 0)
  /\ Uncut => \A e \in Ends : Orderly(mux[e], mux[Other(e)], Way(Other(e)), 0)
  /\ Uncut => \A s \in strayed : s.from # s.id

LEMMA OtherEnd ==
  ASSUME NEW e \in Ends
  PROVE  /\ Other(e) \in Ends /\ Other(e) # e
         /\ Other(Other(e)) = e /\ Ends = {e, Other(e)}
<1>1. PICK a \in Ends, b \in Ends : a # b /\ Ends = {a, b} BY MuxAssumption
<1>2. ASSUME NEW x \in Ends PROVE Other(x) \in Ends /\ Other(x) # x
  <2>1. \E o \in Ends : o # x BY <1>1
  <2> QED BY <2>1 DEF Other
<1> QED BY <1>1, <1>2

\* What is known before a step of end e.
LEMMA Before ==
  ASSUME MuxInv, NEW e \in Ends, NEW o, o = Other(e)
  PROVE  /\ o \in Ends /\ o # e
         /\ mux[e] \in MuxType /\ mux[o] \in MuxType /\ net[e] \in Packets /\ net[o] \in Packets
         /\ Append(net[o], mux[e].batch) \in Packets /\ Append(net[e], mux[o].batch) \in Packets
         /\ Both(mux[e], mux[o], Append(net[o], mux[e].batch), Append(net[e], mux[o].batch), 0)
         /\ Uncut => Tight(mux[e], mux[o], Append(net[o], mux[e].batch), Append(net[e], mux[o].batch), 0)
<1>1. o \in Ends /\ o # e /\ Other(o) = e BY OtherEnd
<1>2. mux[e] \in MuxType /\ mux[o] \in MuxType /\ net[e] \in Packets /\ net[o] \in Packets
  BY <1>1 DEF MuxInv, MuxShape
<1>3. mux[e].batch \in Seq(MuxFrames) /\ mux[o].batch \in Seq(MuxFrames) BY <1>2, MuxFields
<1>4. Append(net[o], mux[e].batch) \in Packets /\ Append(net[e], mux[o].batch) \in Packets BY <1>2, <1>3, Dropped
<1>5. Way(o) = Append(net[o], mux[e].batch) /\ Way(e) = Append(net[e], mux[o].batch) BY <1>1 DEF Way
<1>6. General(mux[e], mux[o], Way(o), 0) /\ General(mux[o], mux[e], Way(e), 0) BY <1>1 DEF MuxInv
<1>7. Uncut => Orderly(mux[e], mux[o], Way(o), 0) /\ Orderly(mux[o], mux[e], Way(e), 0)
  BY <1>1 DEF MuxInv
<1> QED BY <1>1, <1>2, <1>4, <1>5, <1>6, <1>7 DEF Both, Tight

\* What makes the invariant hold after it.
LEMMA Resulting ==
  ASSUME MuxInv, NEW e \in Ends, NEW o, o = Other(e), NEW t \in MuxType, mux' = [mux EXCEPT ![e] = t],
         net' \in [Ends -> Packets], t.cork = 0 => t.batch = <<>>, cut' \in BOOLEAN,
         Both(t, mux[o], Append(net'[o], t.batch), Append(net'[e], mux[o].batch), 0),
         Uncut' => Tight(t, mux[o], Append(net'[o], t.batch), Append(net'[e], mux[o].batch), 0),
         Uncut' => \A s \in strayed' : s.from # s.id
  PROVE  MuxInv'
<1>1. o \in Ends /\ o # e /\ Other(o) = e /\ Ends = {e, o} BY OtherEnd
<1>2. mux \in [Ends -> MuxType] BY DEF MuxInv, MuxShape
<1>3. mux' \in [Ends -> MuxType] /\ mux'[e] = t /\ mux'[o] = mux[o] BY <1>1, <1>2
<1>4. MuxShape'
  <2>1. ASSUME NEW d \in Ends PROVE mux'[d].cork = 0 => mux'[d].batch = <<>>
    <3>1. CASE d = e BY <3>1, <1>3
    <3>2. CASE d = o BY <3>2, <1>1, <1>3 DEF MuxInv, MuxShape
    <3> QED BY <3>1, <3>2, <1>1
  <2> QED BY <2>1, <1>3 DEF MuxShape
<1>5. Way(o)' = Append(net'[o], t.batch) /\ Way(e)' = Append(net'[e], mux[o].batch) BY <1>1, <1>3 DEF Way
<1>6. General(t, mux[o], Way(o)', 0) /\ General(mux[o], t, Way(e)', 0) BY <1>5 DEF Both
<1>7. Uncut' => Orderly(t, mux[o], Way(o)', 0) /\ Orderly(mux[o], t, Way(e)', 0) BY <1>5 DEF Tight
<1>8. \A d \in Ends : General(mux'[d], mux'[Other(d)], Way(Other(d))', 0)
  <2> TAKE d \in Ends
  <2>1. CASE d = e
    <3>1. mux'[d] = t /\ mux'[Other(d)] = mux[o] /\ Way(Other(d))' = Way(o)' BY <2>1, <1>3
    <3> QED BY <3>1, <1>6
  <2>2. CASE d = o
    <3>1. mux'[d] = mux[o] /\ mux'[Other(d)] = t /\ Way(Other(d))' = Way(e)' BY <2>2, <1>1, <1>3
    <3> QED BY <3>1, <1>6
  <2> QED BY <2>1, <2>2, <1>1
<1>9. Uncut' => \A d \in Ends : Orderly(mux'[d], mux'[Other(d)], Way(Other(d))', 0)
  <2> HAVE Uncut'
  <2> TAKE d \in Ends
  <2>1. CASE d = e
    <3>1. mux'[d] = t /\ mux'[Other(d)] = mux[o] /\ Way(Other(d))' = Way(o)' BY <2>1, <1>3
    <3> QED BY <3>1, <1>7
  <2>2. CASE d = o
    <3>1. mux'[d] = mux[o] /\ mux'[Other(d)] = t /\ Way(Other(d))' = Way(e)' BY <2>2, <1>1, <1>3
    <3> QED BY <3>1, <1>7
  <2> QED BY <2>1, <2>2, <1>1
<1> QED BY <1>4, <1>8, <1>9 DEF MuxInv

\* A step that takes no packet leaves `cut` as it is.
LEMMA After ==
  ASSUME MuxInv, NEW e \in Ends, NEW o, o = Other(e), NEW t \in MuxType, mux' = [mux EXCEPT ![e] = t],
         net' \in [Ends -> Packets], t.cork = 0 => t.batch = <<>>, cut' = cut,
         Both(t, mux[o], Append(net'[o], t.batch), Append(net'[e], mux[o].batch), 0),
         Uncut => Tight(t, mux[o], Append(net'[o], t.batch), Append(net'[e], mux[o].batch), 0),
         Uncut => \A s \in strayed' : s.from # s.id
  PROVE  MuxInv'
<1>1. cut' \in BOOLEAN BY DEF MuxInv, MuxShape
<1>2. Uncut' => Uncut BY DEF Uncut
<1>3. /\ Uncut' => Tight(t, mux[o], Append(net'[o], t.batch), Append(net'[e], mux[o].batch), 0)
      /\ Uncut' => \A s \in strayed' : s.from # s.id
  BY <1>2
<1> QED BY <1>1, <1>3, Resulting

\* A frame f is written by an end that has become t.
LEMMA Wrote ==
  ASSUME MuxInv, NEW e \in Ends, NEW o, o = Other(e), NEW t \in MuxType, SameBut(mux[e], t),
         NEW f \in MuxFrames, WriteFrame(e, t, f), strayed' = strayed /\ cut' = cut,
         \A u \in Packets : Extended(Append(net[o], mux[e].batch), u, f) =>
           Both(t, mux[o], u, Append(net[e], mux[o].batch), 0),
         Uncut => \A u \in Packets : Extended(Append(net[o], mux[e].batch), u, f) =>
           Tight(t, mux[o], u, Append(net[e], mux[o].batch), 0)
  PROVE  MuxInv'
<1>0. /\ o \in Ends /\ o # e
      /\ mux[e] \in MuxType /\ mux[o] \in MuxType /\ net[e] \in Packets /\ net[o] \in Packets
  BY Before
<1>1. mux[e].batch \in Seq(MuxFrames) /\ t.batch = mux[e].batch /\ t.cork = mux[e].cork /\ t.cork \in Nat
  BY <1>0, MuxFields DEF SameBut
<1>2. net \in [Ends -> Packets] /\ mux \in [Ends -> MuxType] BY DEF MuxInv, MuxShape
<1>4. Uncut => \A s \in strayed' : s.from # s.id BY DEF MuxInv
<1>5. mux[e].cork = 0 => mux[e].batch = <<>> BY DEF MuxInv, MuxShape
<1>6. CASE t.cork > 0 /\ mux' = [mux EXCEPT ![e] = [t EXCEPT !.batch = Append(@, f)]]
           /\ net' = net
  <2> DEFINE y == [t EXCEPT !.batch = Append(@, f)]
             b == Append(mux[e].batch, f)
             u == Append(net[o], b)
  <2>1. /\ b \in Seq(MuxFrames) /\ u \in Packets
        /\ Extended(Append(net[o], mux[e].batch), u, f)
    BY <1>0, <1>1, IntoBatch
  <2>2. y = [t EXCEPT !.batch = b] BY <1>1
  <2> HIDE DEF b
  <2>3. y \in MuxType /\ y.batch = b /\ y.cork = t.cork /\ SameChannels(t, y)
    BY <2>1, <2>2 DEF MuxType, SameChannels
  <2>4. mux' = [mux EXCEPT ![e] = y] BY <1>6
  <2> HIDE DEF y
  <2>5. mux'[e] = y BY <2>4, <1>2
  <2>7. Both(t, mux[o], u, Append(net[e], mux[o].batch), 0) BY <2>1
  <2>8. Uncut => Tight(t, mux[o], u, Append(net[e], mux[o].batch), 0) BY <2>1
  <2>9. Both(y, mux[o], u, Append(net[e], mux[o].batch), 0) BY <2>3, <2>7, SameEnd
  <2>10. Uncut => Tight(y, mux[o], u, Append(net[e], mux[o].batch), 0) BY <2>3, <2>8, SameEnd
  <2>11. Append(net'[o], y.batch) = u /\ net'[e] = net[e] BY <2>3, <1>6
  <2>12. net' \in [Ends -> Packets] BY <1>2, <1>6
  <2>13. y.cork = 0 => y.batch = <<>> BY <2>3, <1>6, <1>1
  <2>14. Both(y, mux[o], Append(net'[o], y.batch), Append(net'[e], mux[o].batch), 0) BY <2>9, <2>11
  <2>15. Uncut => Tight(y, mux[o], Append(net'[o], y.batch), Append(net'[e], mux[o].batch), 0)
    BY <2>10, <2>11
  <2> QED BY <2>3, <2>4, <2>12, <2>13, <2>14, <2>15, <1>4, After
<1>7. CASE t.cork = 0 /\ mux' = [mux EXCEPT ![e] = t] /\ net' = [net EXCEPT ![o] = Append(@, <<f>>)]
  <2> DEFINE z == Append(net[o], <<f>>)
             u == Append(z, <<>>)
  <2>1. mux[e].batch = <<>> /\ t.batch = <<>> BY <1>1, <1>5, <1>7
  <2>2. z \in Packets /\ u \in Packets /\ Extended(Append(net[o], <<>>), u, f) BY <1>0, AsPacket
  <2>5. net' = [net EXCEPT ![o] = z] BY <1>7
  <2> HIDE DEF z
  <2>6. net' \in [Ends -> Packets] /\ net'[o] = z /\ \A d \in Ends : d # o => net'[d] = net[d]
    BY <2>2, <2>5, <1>0, <1>2
  <2>8. Both(t, mux[o], u, Append(net[e], mux[o].batch), 0) BY <2>1, <2>2
  <2>9. Uncut => Tight(t, mux[o], u, Append(net[e], mux[o].batch), 0) BY <2>1, <2>2
  <2>10. Append(net'[o], t.batch) = u /\ net'[e] = net[e] BY <2>1, <2>6, <1>0
  <2>11. Both(t, mux[o], Append(net'[o], t.batch), Append(net'[e], mux[o].batch), 0) BY <2>8, <2>10
  <2>12. Uncut => Tight(t, mux[o], Append(net'[o], t.batch), Append(net'[e], mux[o].batch), 0)
    BY <2>9, <2>10
  <2>13. mux' = [mux EXCEPT ![e] = t] /\ (t.cork = 0 => t.batch = <<>>) BY <1>7, <2>1
  <2> QED BY <2>6, <2>11, <2>12, <2>13, <1>4, After
<1> QED BY <1>6, <1>7 DEF WriteFrame

LEMMA CreateStep ==
  ASSUME MuxInv, NEW e \in Ends, NEW k \in Keys, NEW u \in BOOLEAN, CreateChannel(e, k, u)
  PROVE  MuxInv'
<1> DEFINE o == Other(e)
           t == Created(mux[e], k)
           v == Append(net[o], mux[e].batch)
           w == Append(net[e], mux[o].batch)
<1>1. /\ mux[e] \in MuxType /\ mux[o] \in MuxType
      /\ Both(mux[e], mux[o], v, w, 0) /\ (Uncut => Tight(mux[e], mux[o], v, w, 0))
  BY Before
<1>2. /\ ~(mux[e].destroyed = TRUE) /\ mux[e].next <= MaxId /\ mux' = [mux EXCEPT ![e] = t]
      /\ net' = net /\ strayed' = strayed /\ cut' = cut /\ (Uncut => FindByPairKey(mux[e], k) = None)
  BY DEF CreateChannel, Created, Uncut
<1>3. t \in MuxType /\ t.cork = mux[e].cork /\ t.batch = mux[e].batch BY <1>1, <1>2, CreatedFields
<1>4. Uncut => \A j \in Ids : Live(mux[e], j) => mux[e].ch[j].key # k
  BY <1>2, FoundByKey, <1>1, MuxFields
<1>5. Both(t, mux[o], v, w, 0) /\ (Uncut => Tight(t, mux[o], v, w, 0)) BY <1>1, <1>2, <1>4, CreatedKeeps
<1> HIDE DEF t
<1>6. Both(t, mux[o], Append(net'[o], t.batch), Append(net'[e], mux[o].batch), 0) BY <1>2, <1>3, <1>5
<1>7. Uncut => Tight(t, mux[o], Append(net'[o], t.batch), Append(net'[e], mux[o].batch), 0)
  BY <1>2, <1>3, <1>5
<1>8. /\ net' \in [Ends -> Packets] /\ (t.cork = 0 => t.batch = <<>>)
      /\ (Uncut => \A s \in strayed' : s.from # s.id)
  BY <1>2, <1>3 DEF MuxInv, MuxShape
<1> HIDE DEF o
<1>9. o = Other(e) BY DEF o
<1> QED BY <1>2, <1>3, <1>6, <1>7, <1>8, <1>9, After

LEMMA OpenStep ==
  ASSUME MuxInv, NEW e \in Ends, NEW i \in Ids, Open(e, i)
  PROVE  MuxInv'
<1> DEFINE o == Other(e)
           k == mux[e].ch[i].key
           t == Opening(Sending(mux[e], i), i, k)
           v == Append(net[o], mux[e].batch)
           w == Append(net[e], mux[o].batch)
<1>1. /\ mux[e] \in MuxType /\ mux[o] \in MuxType /\ v \in Packets
      /\ Both(mux[e], mux[o], v, w, 0) /\ (Uncut => Tight(mux[e], mux[o], v, w, 0))
  BY Before
<1>2. mux[e].ch[i].st = "new" BY DEF Open
<1>3. WellKept(mux[e]) BY <1>1 DEF Both, General
<1>4. k \in Keys /\ Sending(mux[e], i).ch[i].key = k BY <1>1, <1>2, <1>3, SendingFields
<1>5. WriteFrame(e, t, OpenFrame(i, k)) /\ strayed' = strayed /\ cut' = cut BY <1>4 DEF Open, Opening, Sending
<1>6. OpenFrame(i, k) \in MuxFrames BY <1>4, FrameKinds
<1> HIDE DEF t, o
<1>7. ASSUME NEW u \in Packets, Extended(v, u, OpenFrame(i, k))
      PROVE  /\ t \in MuxType /\ SameBut(mux[e], t) /\ Both(t, mux[o], u, w, 0)
             /\ Tight(mux[e], mux[o], v, w, 0) => Tight(t, mux[o], u, w, 0)
  BY <1>1, <1>2, <1>7, OpenKeeps DEF t
<1>8. \E u \in Packets : Extended(v, u, OpenFrame(i, k))
  <2>1. mux[e].batch \in Seq(MuxFrames) /\ net[o] \in Packets BY <1>1, MuxFields, Before DEF o
  <2> QED BY <2>1, <1>6, IntoBatch
<1>9. t \in MuxType /\ SameBut(mux[e], t) BY <1>7, <1>8
<1>10. o = Other(e) BY DEF o
<1>11. \A u \in Packets : Extended(v, u, OpenFrame(i, k)) => Both(t, mux[o], u, w, 0) BY <1>7
<1>12. Uncut => \A u \in Packets : Extended(v, u, OpenFrame(i, k)) => Tight(t, mux[o], u, w, 0)
  BY <1>1, <1>7
<1> HIDE DEF k
<1> QED BY <1>5, <1>6, <1>9, <1>10, <1>11, <1>12, Wrote

LEMMA SendStep ==
  ASSUME MuxInv, NEW e \in Ends, NEW i \in Ids, Send(e, i)
  PROVE  MuxInv'
<1> DEFINE o == Other(e)
           t == mux[e]
           f == DataFrame(i, mux[e].ch[i].rid)
           v == Append(net[o], mux[e].batch)
           w == Append(net[e], mux[o].batch)
<1>1. /\ t \in MuxType /\ mux[o] \in MuxType /\ v \in Packets
      /\ Both(t, mux[o], v, w, 0) /\ (Uncut => Tight(t, mux[o], v, w, 0))
  BY Before
<1>2. t.ch[i].st = "open" /\ WriteFrame(e, t, f) /\ strayed' = strayed /\ cut' = cut BY DEF Send
<1>3. t.ch[i].rid \in Ids BY <1>1, <1>2 DEF Both, General, WellKept
<1>4. f \in MuxFrames /\ f.op # "open" BY <1>3, FrameKinds
<1> HIDE DEF f
<1>5. ASSUME NEW u \in Packets, Extended(v, u, f) PROVE Both(t, mux[o], u, w, 0)
  <2>1. WellKept(t) /\ Traced(t, mux[o], v, 0) /\ General(mux[o], t, w, 0) BY <1>1 DEF Both, General
  <2>2. Traced(t, mux[o], u, 0) BY <2>1, <1>1, <1>4, <1>5, SentGeneral
  <2> QED BY <2>1, <2>2 DEF Both, General
<1>6. ASSUME Uncut, NEW u \in Packets, Extended(v, u, f) PROVE Tight(t, mux[o], u, w, 0)
  <2>1. Extended(v, u, DataFrame(i, t.ch[i].rid)) BY <1>6 DEF f
  <2> QED BY <2>1, <1>1, <1>2, <1>6, DataTight
<1>7. SameBut(mux[e], t) BY DEF SameBut
<1> HIDE DEF t, o
<1>8. o = Other(e) /\ t = mux[e] BY DEF o, t
<1> QED BY <1>1, <1>2, <1>4, <1>5, <1>6, <1>7, <1>8, Wrote

LEMMA CloseStep ==
  ASSUME MuxInv, NEW e \in Ends, NEW i \in Ids, Close(e, i)
  PROVE  MuxInv'
<1> DEFINE o == Other(e)
           t == RemoveChannel(mux[e], i)
           f == CloseFrame(i)
           v == Append(net[o], mux[e].batch)
           w == Append(net[e], mux[o].batch)
<1>1. /\ mux[e] \in MuxType /\ mux[o] \in MuxType /\ v \in Packets
      /\ Both(mux[e], mux[o], v, w, 0) /\ (Uncut => Tight(mux[e], mux[o], v, w, 0))
  BY Before
<1>2. Live(mux[e], i) /\ WriteFrame(e, t, f) /\ strayed' = strayed /\ cut' = cut /\ (Uncut => mux[e].ch[i].st = "open")
  BY DEF Close, Uncut
<1>3. f \in MuxFrames /\ f.op # "open" BY FrameKinds
<1>4. t \in MuxType /\ SameBut(mux[e], t) BY <1>1, RemoveFields
<1>5. Both(t, mux[o], v, w, 0) BY <1>1, <1>2, RemovedGeneral
<1> HIDE DEF t, f
<1>6. ASSUME NEW u \in Packets, Extended(v, u, f) PROVE Both(t, mux[o], u, w, 0)
  <2>1. WellKept(t) /\ Traced(t, mux[o], v, 0) /\ General(mux[o], t, w, 0) BY <1>5 DEF Both, General
  <2>2. Traced(t, mux[o], u, 0) BY <2>1, <1>1, <1>3, <1>6, SentGeneral
  <2> QED BY <2>1, <2>2 DEF Both, General
<1>7. ASSUME Uncut, NEW u \in Packets, Extended(v, u, f) PROVE Tight(t, mux[o], u, w, 0)
  <2>1. Extended(v, u, CloseFrame(i)) BY <1>7 DEF f
  <2>2. Tight(RemoveChannel(mux[e], i), mux[o], u, w, 0) BY <2>1, <1>1, <1>2, <1>7, ClosedTight
  <2> QED BY <2>2 DEF t
<1> HIDE DEF o
<1>8. o = Other(e) BY DEF o
<1> QED BY <1>1, <1>2, <1>3, <1>4, <1>6, <1>7, <1>8, Wrote

LEMMA CorkStep ==
  ASSUME MuxInv, NEW e \in Ends, Cork(e)
  PROVE  MuxInv'
<1> DEFINE o == Other(e)
           c == mux[e].cork + 1
           t == [mux[e] EXCEPT !.cork = c]
           v == Append(net[o], mux[e].batch)
           w == Append(net[e], mux[o].batch)
<1>1. /\ mux[e] \in MuxType /\ mux[o] \in MuxType
      /\ Both(mux[e], mux[o], v, w, 0) /\ (Uncut => Tight(mux[e], mux[o], v, w, 0))
  BY Before
<1>2. mux' = [mux EXCEPT ![e] = t] /\ net' = net /\ strayed' = strayed /\ cut' = cut BY DEF Cork
<1>3. c \in Nat \ {0} BY <1>1, MuxFields
<1> HIDE DEF c
<1>4. t \in MuxType /\ t.cork = c /\ t.batch = mux[e].batch /\ SameChannels(mux[e], t)
  BY <1>1, <1>3 DEF MuxType, SameChannels
<1> HIDE DEF t
<1>5. Both(t, mux[o], v, w, 0) /\ (Uncut => Tight(t, mux[o], v, w, 0)) BY <1>1, <1>4, SameEnd
<1>6. Both(t, mux[o], Append(net'[o], t.batch), Append(net'[e], mux[o].batch), 0) BY <1>2, <1>4, <1>5
<1>7. Uncut => Tight(t, mux[o], Append(net'[o], t.batch), Append(net'[e], mux[o].batch), 0)
  BY <1>2, <1>4, <1>5
<1>8. /\ net' \in [Ends -> Packets]
      /\ (Uncut => \A s \in strayed' : s.from # s.id)
  BY <1>2, <1>4 DEF MuxInv, MuxShape
<1>9. t.cork = 0 => t.batch = <<>> BY <1>3, <1>4
<1> HIDE DEF o
<1>10. o = Other(e) BY DEF o
<1> QED BY <1>2, <1>4, <1>6, <1>7, <1>8, <1>9, <1>10, After

\* uncork: the batch leaves as a packet, or stays what it is.
LEMMA UncorkStep ==
  ASSUME MuxInv, NEW e \in Ends, Uncork(e)
  PROVE  MuxInv'
<1> DEFINE o == Other(e)
           b == mux[e].batch
           flush == mux[e].cork = 1 /\ b # <<>>
           c == mux[e].cork - 1
           d == IF flush THEN <<>> ELSE b
           t == [mux[e] EXCEPT !.cork = c, !.batch = d]
           v == Append(net[o], b)
           w == Append(net[e], mux[o].batch)
<1>1. /\ o \in Ends /\ o # e /\ mux[e] \in MuxType /\ mux[o] \in MuxType
      /\ net[e] \in Packets /\ net[o] \in Packets /\ v \in Packets
      /\ Both(mux[e], mux[o], v, w, 0) /\ (Uncut => Tight(mux[e], mux[o], v, w, 0))
  BY Before
<1>2. net \in [Ends -> Packets] /\ mux \in [Ends -> MuxType] BY DEF MuxInv, MuxShape
<1>3. /\ mux[e].cork > 0 /\ strayed' = strayed /\ cut' = cut /\ mux' = [mux EXCEPT ![e] = t]
      /\ net' = IF flush THEN [net EXCEPT ![o] = v] ELSE net
  <2>1. /\ mux[e].cork > 0 /\ strayed' = strayed /\ cut' = cut
        /\ net' = IF flush THEN [net EXCEPT ![o] = v] ELSE net
    BY DEF Uncork
  <2>2. mux' = [mux EXCEPT ![e].cork = @ - 1, ![e].batch = IF flush THEN <<>> ELSE @] BY DEF Uncork
  <2>3. mux' = [mux EXCEPT ![e] = [[mux[e] EXCEPT !.cork = c] EXCEPT !.batch = d]]
    BY <2>2, <1>1, <1>2 DEF MuxType
  <2>4. t = [[mux[e] EXCEPT !.cork = c] EXCEPT !.batch = d] BY <1>1 DEF MuxType
  <2> QED BY <2>1, <2>3, <2>4
<1>4. mux[e].cork \in Nat /\ b \in Seq(MuxFrames) BY <1>1, MuxFields
<1>5. c \in Nat /\ d \in Seq(MuxFrames) BY <1>3, <1>4
<1>6. c = 0 => d = <<>> BY <1>4
<1> HIDE DEF c, d
<1>7. t \in MuxType /\ t.cork = c /\ t.batch = d /\ SameChannels(mux[e], t)
  BY <1>1, <1>5 DEF MuxType, SameChannels
<1> HIDE DEF t
<1>8. Both(t, mux[o], v, w, 0) /\ (Uncut => Tight(t, mux[o], v, w, 0)) BY <1>1, <1>7, SameEnd
<1>11. /\ net' \in [Ends -> Packets]
       /\ Both(t, mux[o], Append(net'[o], t.batch), Append(net'[e], mux[o].batch), 0)
       /\ Uncut => Tight(t, mux[o], Append(net'[o], t.batch), Append(net'[e], mux[o].batch), 0)
  <2>1. CASE flush
    <3>1. d = <<>> /\ net' = [net EXCEPT ![o] = v] BY <2>1, <1>3 DEF d
    <3> HIDE DEF v
    <3>3. net' \in [Ends -> Packets] /\ net'[o] = v /\ \A x \in Ends : x # o => net'[x] = net[x]
      BY <3>1, <1>1, <1>2
    <3>5. Alike(v, 0, Append(v, <<>>), 0) BY <1>1, Flushed DEF Alike
    <3>6. General(t, mux[o], Append(v, <<>>), 0) BY <3>5, <1>8, AlikeKeeps DEF Both
    <3>7. Uncut => Orderly(t, mux[o], Append(v, <<>>), 0) BY <3>5, <1>8, AlikeKeeps DEF Tight
    <3>8. Append(net'[o], t.batch) = Append(v, <<>>) /\ Append(net'[e], mux[o].batch) = w
      BY <3>1, <3>3, <1>1, <1>7
    <3>9. Both(t, mux[o], Append(v, <<>>), w, 0) BY <3>6, <1>8 DEF Both
    <3>10. Uncut => Tight(t, mux[o], Append(v, <<>>), w, 0) BY <3>7, <1>8 DEF Tight
    <3> QED BY <3>3, <3>8, <3>9, <3>10
  <2>2. CASE ~flush
    <3>1. d = b /\ net' = net BY <2>2, <1>3 DEF d
    <3>2. Append(net'[o], t.batch) = v /\ Append(net'[e], mux[o].batch) = w BY <3>1, <1>7
    <3> QED BY <3>1, <3>2, <1>2, <1>8
  <2> QED BY <2>1, <2>2
<1>12. Uncut => \A s \in strayed' : s.from # s.id BY <1>3 DEF MuxInv
<1>13. t.cork = 0 => t.batch = <<>> BY <1>6, <1>7
<1>14. t \in MuxType /\ mux' = [mux EXCEPT ![e] = t] BY <1>3, <1>7
<1> HIDE DEF o
<1>15. o = Other(e) BY DEF o
<1> QED BY <1>3, <1>11, <1>12, <1>13, <1>14, <1>15, After

LEMMA DestroyStep ==
  ASSUME MuxInv, NEW e \in Ends, Destroy(e)
  PROVE  MuxInv'
<1> DEFINE o == Other(e)
           t == Destroyed(mux[e])
           v == Append(net[o], mux[e].batch)
           w == Append(net[e], mux[o].batch)
<1>1. /\ mux[e] \in MuxType /\ mux[o] \in MuxType /\ net[o] \in Packets
      /\ Both(mux[e], mux[o], v, w, 0) /\ (Uncut => Tight(mux[e], mux[o], v, w, 0))
  BY Before
<1>2. ~(mux[e].destroyed = TRUE) /\ mux' = [mux EXCEPT ![e] = t] /\ net' = net /\ strayed' = strayed /\ cut' = cut
  BY DEF Destroy, Destroyed, LiveIds
<1>3. t \in MuxType /\ t.cork = 0 /\ t.batch = <<>> BY <1>1, DestroyedFields
<1>4. Both(t, mux[o], Append(net[o], <<>>), w, 0) /\ (Uncut => Tight(t, mux[o], Append(net[o], <<>>), w, 0))
  BY <1>1, <1>2, DestroyedKeeps
<1> HIDE DEF t
<1>5. Both(t, mux[o], Append(net'[o], t.batch), Append(net'[e], mux[o].batch), 0) BY <1>2, <1>3, <1>4
<1>6. Uncut => Tight(t, mux[o], Append(net'[o], t.batch), Append(net'[e], mux[o].batch), 0)
  BY <1>2, <1>3, <1>4
<1>7. /\ net' \in [Ends -> Packets]
      /\ (Uncut => \A s \in strayed' : s.from # s.id)
  BY <1>2 DEF MuxInv, MuxShape
<1> HIDE DEF o
<1>9. o = Other(e) BY DEF o
<1> QED BY <1>2, <1>3, <1>5, <1>6, <1>7, <1>9, After

LEMMA OnDataStep ==
  ASSUME MuxInv, NEW e \in Ends, OnData(e)
  PROVE  MuxInv'
<1> DEFINE o == Other(e)
           x == net[e]
           b == mux[o].batch
           v == Append(net[o], mux[e].batch)
           w == Append(x, b)
           got == HandleBatch([mux |-> mux[e], strayed |-> {}], Head(x))
           t == got.mux
<1>1. /\ o \in Ends /\ o # e /\ mux[e] \in MuxType /\ mux[o] \in MuxType
      /\ x \in Packets /\ net[o] \in Packets /\ w \in Packets
      /\ Both(mux[e], mux[o], v, w, 0) /\ (Uncut => Tight(mux[e], mux[o], v, w, 0))
  BY Before
<1>2. net \in [Ends -> Packets] BY DEF MuxInv, MuxShape
<1>3. /\ x # <<>> /\ mux' = [mux EXCEPT ![e] = t] /\ strayed' = strayed \cup got.strayed
      /\ net' = [net EXCEPT ![e] = Tail(x)] /\ cut' = (cut \/ ~Whole(Head(x)))
  BY DEF OnData
<1>4. b \in Seq(MuxFrames) BY <1>1, MuxFields
<1>5. /\ 1 \in DOMAIN x /\ 1 \in DOMAIN w /\ w # <<>> /\ w[1] = Head(x) /\ Head(x) = x[1]
      /\ Tail(w) = Append(Tail(x), b) /\ Tail(x) \in Packets
  <2>1. x \in Seq(Seq(MuxFrames)) /\ x # <<>> BY <1>1, <1>3 DEF Packets
  <2>2. Len(x) \in Nat /\ Len(x) > 0 /\ DOMAIN x = 1 .. Len(x) BY <2>1
  <2>3. w \in Seq(Seq(MuxFrames)) /\ Len(w) = Len(x) + 1 /\ w[1] = x[1] BY <2>1, <2>2, <1>4
  <2>4. w # <<>> /\ 1 \in DOMAIN w BY <2>2, <2>3
  <2>5. Tail(x) \in Seq(Seq(MuxFrames)) /\ Head(x) = x[1] BY <2>1
  <2>6. Tail(w) = Append(Tail(x), b) BY <2>1, <2>2, <1>4
  <2>7. 1 \in DOMAIN x BY <2>2
  <2>8. Tail(x) \in Packets BY <2>5 DEF Packets
  <2>9. w[1] = Head(x) BY <2>3, <2>5
  <2> HIDE DEF w, x, b
  <2> QED BY <2>4, <2>5, <2>6, <2>7, <2>8, <2>9
<1> DEFINE n == Taken(w[1])
           calm == IF Tidy = TRUE /\ cut' = FALSE THEN TRUE ELSE FALSE
<1>6. /\ calm = TRUE <=> Uncut'
      /\ cut' \in BOOLEAN /\ (Uncut' => Uncut /\ Whole(w[1]))
  <2>1. cut \in BOOLEAN BY DEF MuxInv, MuxShape
  <2>2. cut' \in BOOLEAN /\ (cut' = FALSE => cut = FALSE /\ Whole(Head(x))) BY <2>1, <1>3
  <2> QED BY <2>2, <1>5 DEF Uncut
<1>7. Taking(calm, got, mux[e], mux[o], v, w, n)
  <2>1. calm = TRUE => Tight(mux[e], mux[o], v, w, 0) BY <1>1, <1>6
  <2> HIDE DEF calm
  <2>2. Taking(calm, HandleBatch([mux |-> mux[e], strayed |-> {}], w[1]), mux[e], mux[o], v, w, Taken(w[1]))
    BY <2>1, <1>1, <1>5, TakenPacket
  <2> QED BY <2>2, <1>5
<1> HIDE DEF got, calm
<1>8. /\ t \in MuxType /\ SameBut(mux[e], t) /\ Both(t, mux[o], v, w, n)
      /\ (Uncut' => Tight(t, mux[o], v, w, n)) /\ (Uncut' => \A s \in got.strayed : s.from # s.id)
  BY <1>6, <1>7 DEF Taking
<1>9. Shorter(w, n, Tail(w), 0) /\ (Uncut' => Alike(w, n, Tail(w), 0))
  <2>1. w[1] \in Seq(MuxFrames) BY <1>1, <1>5 DEF Packets
  <2>2. n \in 0 .. Len(w[1]) /\ (Whole(w[1]) => n = Len(w[1])) BY <2>1, TakenRange
  <2>3. Alike(w, Len(w[1]), Tail(w), 0) BY <1>1, <1>5, Emptied DEF Alike, Shorter
  <2>4. Shorter(w, n, w, Len(w[1])) BY <1>1, <2>1, <2>2, LostRest
  <2> QED BY <2>2, <2>3, <2>4, <1>6 DEF Alike, Shorter
<1> HIDE DEF n, w, t
<1>10. General(mux[o], t, w, n) => General(mux[o], t, Tail(w), 0) BY <1>9, TracedShorter DEF General
<1>11. Uncut' /\ Orderly(mux[o], t, w, n) => Orderly(mux[o], t, Tail(w), 0) BY <1>9, AlikeKeeps
<1>12. Both(t, mux[o], v, Tail(w), 0) BY <1>8, <1>10 DEF Both
<1>13. Uncut' => Tight(t, mux[o], v, Tail(w), 0) BY <1>8, <1>11 DEF Tight
<1>14. net' \in [Ends -> Packets] /\ net'[e] = Tail(x) /\ \A d \in Ends : d # e => net'[d] = net[d]
  BY <1>2, <1>3, <1>5
<1>16. t.batch = mux[e].batch /\ t.cork = mux[e].cork BY <1>8 DEF SameBut
<1>17. t.cork = 0 => t.batch = <<>> BY <1>16 DEF MuxInv, MuxShape
<1>18. Append(net'[o], t.batch) = v /\ Append(net'[e], mux[o].batch) = Tail(w) BY <1>1, <1>5, <1>14, <1>16
<1>19. Uncut' => \A s \in strayed' : s.from # s.id BY <1>3, <1>6, <1>8 DEF MuxInv
<1>20. Both(t, mux[o], Append(net'[o], t.batch), Append(net'[e], mux[o].batch), 0) BY <1>12, <1>18
<1>21. Uncut' => Tight(t, mux[o], Append(net'[o], t.batch), Append(net'[e], mux[o].batch), 0)
  BY <1>13, <1>18
<1>22. t \in MuxType /\ mux' = [mux EXCEPT ![e] = t] BY <1>3, <1>8 DEF t
<1> HIDE DEF o
<1>23. o = Other(e) BY DEF o
<1> QED BY <1>6, <1>14, <1>17, <1>19, <1>20, <1>21, <1>22, <1>23, Resulting

LEMMA MuxStarts == MuxInit => MuxInv
<1> SUFFICES ASSUME MuxInit PROVE MuxInv OBVIOUS
<1> DEFINE m == NewMux
           w == <<<<>>>>
<1>1. mux = [e \in Ends |-> m] /\ net = [e \in Ends |-> <<>>] /\ strayed = {} /\ cut = FALSE BY DEF MuxInit
<1>2. /\ m.next = 1 /\ m.ch = [i \in Ids |-> NoChannel] /\ m.remote = [i \in Ids |-> None]
      /\ m.pending = [k \in Keys |-> None] /\ m.cork = 0 /\ m.batch = <<>> /\ m.destroyed = FALSE
  BY DEF NewMux
<1>3. NoChannel \in ChanType /\ NoChannel.st = "none" /\ NoChannel.key = None /\ NoChannel.rid = None
  BY DEF NoChannel, ChanType, ChannelStates
<1>4. m \in MuxType
  <2>1. 1 \in Nat \ {0} /\ 0 \in Nat /\ <<>> \in Seq(MuxFrames) /\ FALSE \in BOOLEAN OBVIOUS
  <2>2. [i \in Ids |-> NoChannel] \in [Ids -> ChanType] BY <1>3
  <2> QED BY <2>1, <2>2 DEF NewMux, MuxType
<1> HIDE DEF m
<1>5. \A i \in Ids : m.ch[i] = NoChannel /\ m.remote[i] = None BY <1>2
<1>6. \A k \in Keys : m.pending[k] = None BY <1>2
<1>7. None \notin Ids /\ \A i \in Ids : i >= 1 BY <1>4, MuxFields DEF Ids
<1>8. \A f : ~OnWay(w, 0, f)
  <2>1. DOMAIN w = {1} /\ w[1] = <<>>
    <3>1. Len(w) = 1 /\ w \in Seq({<<>>}) OBVIOUS
    <3>2. DOMAIN w = 1 .. 1 BY <3>1
    <3> QED BY <3>2
  <2>2. \A b : b \notin DOMAIN <<>> OBVIOUS
  <2> QED BY <2>1, <2>2 DEF OnWay
<1>9. \A f, g : Ordered(w, 0, f, g) BY <1>8 DEF Ordered, OnWay
<1> HIDE DEF w
<1>10. \A i \in Ids : i \notin Held(m) BY <1>3, <1>5, <1>6, <1>7 DEF Held
<1>11. WellKept(m) BY <1>2, <1>3, <1>5, <1>6, <1>7 DEF WellKept
<1>12. Traced(m, m, w, 0) BY <1>6, <1>7, <1>8, <1>10 DEF Traced
<1>13. Alone(m) BY <1>2, <1>3, <1>5 DEF Alone, Live
<1>14. Matched(m, m, w, 0) BY <1>3, <1>5, <1>7 DEF Matched
<1>15. Announced(m, m, w, 0) BY <1>3, <1>5 DEF Announced
<1>16. InLine(m, m, w, 0) BY <1>8, <1>9 DEF InLine
<1>17. General(m, m, w, 0) /\ Orderly(m, m, w, 0) BY <1>11, <1>12, <1>13, <1>14, <1>15, <1>16 DEF General, Orderly
<1>18. \A e \in Ends : mux[e] = m /\ net[e] = <<>> BY <1>1
<1>19. \A e \in Ends : mux[e] = m /\ mux[Other(e)] = m /\ Way(Other(e)) = w
  <2> TAKE e \in Ends
  <2>1. Other(e) \in Ends /\ Other(Other(e)) = e BY OtherEnd
  <2>2. Append(<<>>, <<>>) = <<<<>>>> OBVIOUS
  <2> QED BY <2>1, <2>2, <1>2, <1>18 DEF Way, w
<1>20. MuxShape
  <2>1. <<>> \in Packets BY DEF Packets
  <2>2. mux \in [Ends -> MuxType] /\ net \in [Ends -> Packets] BY <2>1, <1>1, <1>4
  <2> QED BY <2>2, <1>1, <1>2, <1>18 DEF MuxShape
<1>21. \A e \in Ends : General(mux[e], mux[Other(e)], Way(Other(e)), 0) BY <1>17, <1>19
<1>22. \A e \in Ends : Orderly(mux[e], mux[Other(e)], Way(Other(e)), 0) BY <1>17, <1>19
<1> QED BY <1>1, <1>20, <1>21, <1>22 DEF MuxInv

LEMMA MuxStays == MuxInv /\ UNCHANGED muxVars => MuxInv'
<1> SUFFICES ASSUME MuxInv, mux' = mux, net' = net, strayed' = strayed /\ cut' = cut PROVE MuxInv' BY DEF muxVars
<1>1. MuxShape' BY DEF MuxInv, MuxShape
<1>2. \A e \in Ends : Way(Other(e))' = Way(Other(e)) BY DEF Way
<1>3. \A e \in Ends : General(mux'[e], mux'[Other(e)], Way(Other(e))', 0) BY <1>2 DEF MuxInv
<1>4. Uncut' => \A e \in Ends : Orderly(mux'[e], mux'[Other(e)], Way(Other(e))', 0) BY <1>2 DEF MuxInv, Uncut
<1>5. Uncut' => \A s \in strayed' : s.from # s.id BY DEF MuxInv, Uncut
<1> QED BY <1>1, <1>3, <1>4, <1>5 DEF MuxInv

LEMMA MuxSteps == MuxInv /\ [MuxNext]_muxVars => MuxInv'
<1> SUFFICES ASSUME MuxInv, [MuxNext]_muxVars PROVE MuxInv' OBVIOUS
<1>1. CASE MuxNext
  <2>1. PICK e \in Ends :
          \/ \E k \in Keys, u \in BOOLEAN : CreateChannel(e, k, u)
          \/ \E i \in Ids : Open(e, i) \/ Send(e, i) \/ Close(e, i)
          \/ Cork(e) \/ Uncork(e) \/ OnData(e) \/ Destroy(e)
    BY <1>1 DEF MuxNext
  <2>2. CASE \E k \in Keys, u \in BOOLEAN : CreateChannel(e, k, u) BY <2>2, CreateStep
  <2>3. CASE \E i \in Ids : Open(e, i) \/ Send(e, i) \/ Close(e, i) BY <2>3, OpenStep, SendStep, CloseStep
  <2>4. CASE Cork(e) BY <2>4, CorkStep
  <2>5. CASE Uncork(e) BY <2>5, UncorkStep
  <2>6. CASE OnData(e) BY <2>6, OnDataStep
  <2>7. CASE Destroy(e) BY <2>7, DestroyStep
  <2> QED BY <2>1, <2>2, <2>3, <2>4, <2>5, <2>6, <2>7
<1>2. CASE UNCHANGED muxVars BY <1>2, MuxStays
<1> QED BY <1>1, <1>2

\* Any sequence of channel operations and packets at the two ends of a stream
\* (Mux, Channel) keeps the inductive invariant: for every application, an OPEN on
\* the way is known to its sender and to nobody else; for a tidy one, until a batch
\* exceeds the receiver's limit, each pairing is answered, each close heard of, and the
\* frames of a channel arrive in order.
THEOREM MuxTheorem == MuxSpec => []MuxInv
<1>1. MuxInit => MuxInv BY MuxStarts
<1>2. MuxInv /\ [MuxNext]_muxVars => MuxInv' BY MuxSteps
<1> QED BY <1>1, <1>2, PTL DEF MuxSpec

LEMMA ExactNow == MuxInv => LookupExact
<1> SUFFICES ASSUME MuxInv, NEW e \in Ends, NEW r \in Ids
             PROVE  {i \in Ids : mux[e].ch[i].st = "open" /\ mux[e].ch[i].rid = r}
                      = IF mux[e].remote[r] = None THEN {} ELSE {mux[e].remote[r]}
  BY DEF LookupExact
<1>1. mux[e] \in MuxType /\ WellKept(mux[e]) BY DEF MuxInv, MuxShape, General
<1>2. mux[e].remote[r] \in Ids \cup {None} /\ None \notin Ids BY <1>1, MuxFields
<1>3. \A i \in Ids : mux[e].remote[r] = i <=> mux[e].ch[i].st = "open" /\ mux[e].ch[i].rid = r
  BY <1>1 DEF WellKept
<1> QED BY <1>2, <1>3

\* remote_to_channel_ (Mux::remove_channel, Mux::try_pair) names exactly the open
\* channels by the peer's id, whatever the applications at the two ends do and whichever
\* frames the receiver's limit cuts off.
THEOREM LookupExactTheorem == MuxSpec => []LookupExact
BY MuxTheorem, ExactNow, PTL

\* With nothing on the way, the two ends agree.
LEMMA AgreeNow == MuxInv => EndsAgree
<1> SUFFICES ASSUME MuxInv, Uncut, Settled PROVE
      /\ \A e \in Ends, i \in Ids :
           mux[e].ch[i].st = "open" =>
             LET p == mux[Other(e)].ch[mux[e].ch[i].rid]
             IN  p.st = "open" /\ p.key = mux[e].ch[i].key /\ p.rid = i
      /\ \A e \in Ends, i, j \in Ids :
           /\ mux[e].ch[i].st = "sent"
           /\ mux[Other(e)].ch[j].st = "sent"
           => mux[e].ch[i].key # mux[Other(e)].ch[j].key
  BY DEF EndsAgree, Uncut, MuxInv, MuxShape
<1> SUFFICES ASSUME NEW e \in Ends, NEW i \in Ids PROVE
      /\ mux[e].ch[i].st = "open" =>
             LET p == mux[Other(e)].ch[mux[e].ch[i].rid]
             IN  p.st = "open" /\ p.key = mux[e].ch[i].key /\ p.rid = i
      /\ \A j \in Ids :
           /\ mux[e].ch[i].st = "sent"
           /\ mux[Other(e)].ch[j].st = "sent"
           => mux[e].ch[i].key # mux[Other(e)].ch[j].key
  OBVIOUS
<1> DEFINE o == Other(e)
           m == mux[e]
           q == mux[o]
           v == Way(o)
           w == Way(e)
<1>0. o \in Ends /\ Other(o) = e BY OtherEnd
<1>1. /\ m \in MuxType /\ q \in MuxType /\ WellKept(m) /\ WellKept(q)
      /\ Orderly(m, q, v, 0) /\ Orderly(q, m, w, 0)
  BY <1>0 DEF MuxInv, MuxShape, General
<1>2. ~(m.destroyed = TRUE) /\ ~(q.destroyed = TRUE) BY <1>0 DEF Settled
<1>3. ASSUME NEW x \in Ends PROVE \A f : ~OnWay(Way(x), 0, f)
  <2>1. Other(x) \in Ends BY OtherEnd
  <2>2. net[x] = <<>> /\ mux[Other(x)].batch = <<>> BY <2>1 DEF Settled
  <2>3. Way(x) = <<<<>>>>
    <3>1. Append(<<>>, <<>>) = <<<<>>>> OBVIOUS
    <3> QED BY <2>2, <3>1 DEF Way
  <2>4. DOMAIN <<<<>>>> = {1} /\ <<<<>>>>[1] = <<>>
    <3>1. Len(<<<<>>>>) = 1 /\ <<<<>>>> \in Seq({<<>>}) OBVIOUS
    <3>2. DOMAIN <<<<>>>> = 1 .. 1 BY <3>1
    <3> QED BY <3>2
  <2>5. \A b : b \notin DOMAIN <<>> OBVIOUS
  <2> QED BY <2>3, <2>4, <2>5 DEF OnWay
<1>4. \A f : ~OnWay(v, 0, f) /\ ~OnWay(w, 0, f) BY <1>0, <1>3
<1>5. Alone(m) /\ Alone(q) /\ Matched(m, q, v, 0) /\ Matched(q, m, w, 0) /\ Announced(m, q, v, 0)
      /\ Announced(q, m, w, 0)
  BY <1>1 DEF Orderly
<1> HIDE DEF m, q, v, w
<1>6. ASSUME m.ch[i].st = "open"
      PROVE  LET p == q.ch[m.ch[i].rid] IN p.st = "open" /\ p.key = m.ch[i].key /\ p.rid = i
  <2>1. PICK r \in Ids : m.ch[i].rid = r BY <1>1, <1>6 DEF WellKept
  <2>2. MatchedAt(m, q, v, 0, i, r) BY <2>1, <1>5 DEF Matched
  <2>3. q.ch[r].key = m.ch[i].key /\ q.ch[r].st \in {"open", "gone"} /\ q.ch[r].rid = i
    BY <2>2, <1>2, <1>4 DEF MatchedAt, Answered
  <2>4. MatchedAt(q, m, w, 0, r, i) BY <2>3, <1>5 DEF Matched
  <2>5. Live(m, i) BY <1>6 DEF Live
  <2>6. ~Heard(q, w, 0, r) BY <1>2, <1>4 DEF Heard
  <2>7. q.ch[r].st # "gone" BY <2>4, <2>5, <2>6 DEF MatchedAt
  <2> QED BY <2>1, <2>3, <2>7
<1>7. ASSUME NEW j \in Ids, m.ch[i].st = "sent", q.ch[j].st = "sent", m.ch[i].key = q.ch[j].key
      PROVE  FALSE
  <2>1. AnnouncedAt(m, q, v, 0, i) BY <1>5, <1>7 DEF Announced
  <2>2. q.pending[m.ch[i].key] = i \/ \E r \in Ids : q.ch[r].rid = i BY <2>1, <1>2, <1>4 DEF AnnouncedAt
  <2>3. i # None /\ Live(q, j) BY <1>1, <1>7, MuxFields DEF Live
  <2>4. CASE q.pending[m.ch[i].key] = i BY <2>3, <2>4, <1>5, <1>7 DEF Alone
  <2>5. CASE \E r \in Ids : q.ch[r].rid = i
    <3>1. PICK r \in Ids : q.ch[r].rid = i BY <2>5
    <3>2. MatchedAt(q, m, w, 0, r, i) BY <3>1, <1>5 DEF Matched
    <3>3. Answered(q, m, w, 0, r, i) BY <3>2 DEF MatchedAt
    <3> QED BY <3>3, <1>2, <1>4, <1>7 DEF Answered
  <2> QED BY <2>2, <2>4, <2>5
<1> QED BY <1>6, <1>7 DEF m, q

\* Once nothing is under way and no batch was cut, the channels of two tidy applications pair up
\* (handle_open, Channel::open, handle_close): an open channel meets an open channel
\* of its key that names it, and no two opened channels of a key have missed each other.
THEOREM EndsAgreeTheorem == MuxSpec => []EndsAgree
BY MuxTheorem, AgreeNow, PTL

\* A data frame (Channel::send, handle_data) of a tidy application misses its channel
\* only where the two ids of the channel differ, until a batch is cut.
THEOREM StraysTheorem == MuxSpec => []StraysOnlyAcrossIds
<1>1. MuxInv => StraysOnlyAcrossIds BY MuxAssumption DEF MuxInv, MuxShape, Uncut, StraysOnlyAcrossIds
<1> QED BY <1>1, MuxTheorem, PTL
=============================================================================
