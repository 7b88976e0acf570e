------------------------------- MODULE Protomux -------------------------------
(***************************************************************************)
(* protomux::Mux and protomux::Channel: two ends of one framed stream,     *)
(* each with its own channel ids, that open, pair, use, cork and close     *)
(* channels at the same time.                                              *)
(*                                                                         *)
(* The stream is a FIFO of packets per direction; a packet is one frame,   *)
(* or the frames of a batch.  A channel's (protocol, id) pair is its key;  *)
(* aliases, handshakes and payloads are left out, and so are REJECT (the   *)
(* code never sends it) and the drained_ flag.  What an application does   *)
(* inside a callback is a step of its own.                                 *)
(***************************************************************************)
EXTENDS Integers, Sequences, FiniteSets, SequencesExt, FiniteSetsExt

CONSTANTS
  Ends,      \* the two ends of the stream
  Keys,      \* the (protocol, id) pairs
  MaxId,     \* bound: channels created per end (32 bit in the code)
  MaxNet,    \* bound: frames written and not yet received
  MaxCork,   \* bound: nesting of cork()
  MaxBatch,  \* MAX_BATCH_ENTRIES, of which the sender knows nothing
  Tidy       \* the application has one channel per key and closes only open ones

ASSUME MuxAssumption ==
  /\ {MaxId, MaxNet, MaxCork, MaxBatch} \subseteq Nat /\ MaxBatch > 0
  /\ \E a, b \in Ends : a # b /\ Ends = {a, b}
  /\ Tidy \in BOOLEAN

Other(e) == CHOOSE o \in Ends : o # e
Ids == 1 .. MaxId
None == 0

VARIABLES
  mux,     \* the Mux object of each end
  net,     \* packets on the way to each end
  strayed, \* data frames that missed the channel they were sent to
  cut      \* history: a batch exceeded the receiver's limit and lost its last frames

muxVars == <<mux, net, strayed, cut>>

\* A Channel: created, OPEN sent, open at both ends, or destroyed; rid is
\* remote_id_.
ChannelStates == {"none", "new", "sent", "open", "gone"}
NoChannel == [st |-> "none", key |-> None, rid |-> None]

NewMux == [next |-> 1,                               \* next_local_id_
           ch |-> [i \in Ids |-> NoChannel],         \* channels_, local_to_channel_
           remote |-> [i \in Ids |-> None],          \* remote_to_channel_
           pending |-> [k \in Keys |-> None],        \* pending_remote_
           last |-> [k \in Keys |-> None],           \* last_channel_by_key_
           cork |-> 0,                               \* cork_count_
           batch |-> <<>>,                           \* batch_
           destroyed |-> FALSE]

\* Frames: OPEN and CLOSE name the sender's id.  `from` is the channel a data
\* frame was sent on; it is not part of the frame.
OpenFrame(i, k) == [op |-> "open", id |-> i, key |-> k]
CloseFrame(i) == [op |-> "close", id |-> i]
DataFrame(i, id) == [op |-> "data", id |-> id, from |-> i]

--------------------------------------------------------------------------------
(* One end *)

Live(m, i) == m.ch[i].st \in {"new", "sent", "open"}

\* find_by_pair_key: the oldest live channel of the key.
OfKey(m, k) == {i \in Ids : Live(m, i) /\ m.ch[i].key = k}
FindByPairKey(m, k) == IF OfKey(m, k) = {} THEN None ELSE Min(OfKey(m, k))

\* try_pair and fully_open.
TryPair(m, i, r) ==
  [m EXCEPT !.ch[i].rid = r, !.ch[i].st = "open", !.remote[r] = i]

\* remove_channel, at the end of every close: also a waiting remote OPEN of the
\* same key is dropped.
RemoveChannel_KeepsLookup(m, i) ==
  LET c == m.ch[i]
  IN  [m EXCEPT !.ch[i] = [c EXCEPT !.st = "gone"],
                !.pending[c.key] = None,
                !.last[c.key] = IF @ = i THEN None ELSE @]
RemoveChannel(m, i) ==
  LET c == m.ch[i]
  IN  [m EXCEPT !.ch[i] = [c EXCEPT !.st = "gone"],
                !.remote = IF c.rid = None THEN @ ELSE [@ EXCEPT ![c.rid] = None],
                !.pending[c.key] = None,
                !.last[c.key] = IF @ = i THEN None ELSE @]

\* handle_open: pair with the local channel, or wait for one.
HandleOpen(m, f) ==
  LET i == FindByPairKey(m, f.key)
  IN  IF i # None /\ m.ch[i].st = "sent" THEN TryPair(m, i, f.id)
      ELSE [m EXCEPT !.pending[f.key] = f.id]

\* handle_close: a CLOSE for an id that is not paired has no effect.
HandleClose(m, f) ==
  IF m.remote[f.id] = None THEN m ELSE RemoveChannel(m, m.remote[f.id])

\* handle_data dispatches to remote_to_channel_, which is keyed by the ids of
\* the sender; the application's handler changes nothing here.
Handle(m, f) ==
  CASE f.op = "open" -> HandleOpen(m, f)
    [] f.op = "close" -> HandleClose(m, f)
    [] f.op = "data" -> m

\* A data frame reaches the channel it was sent to, or finds it closed.
Strays(m, f) ==
  /\ f.op = "data"
  /\ m.remote[f.id] # f.id
  /\ m.remote[f.id] # None \/ m.ch[f.id].st # "gone"

\* handle_batch: the frames in order, up to the limit; a change of the leading
\* channel id between two frames takes an entry as well.
Leading(f) == IF f.op = "data" THEN f.id ELSE 0
Entries(p, n) == n + Cardinality({i \in 2 .. n : Leading(p[i]) # Leading(p[i - 1])})
HandleFrame(got, f) ==
  [mux |-> Handle(got.mux, f),
   strayed |-> got.strayed \cup
                 (IF Strays(got.mux, f) THEN {[from |-> f.from, id |-> f.id]} ELSE {})]
Whole(p) == Entries(p, Len(p)) <= MaxBatch
HandleBatch(got, p) ==
  LET after[n \in 0 .. Len(p)] ==
        IF n = 0 THEN got ELSE HandleFrame(after[n - 1], p[n])
  IN  after[Cardinality({n \in DOMAIN p : Entries(p, n) <= MaxBatch})]

\* write_frame: into the batch while corked, else on the stream as a packet of
\* its own.  (The refusal after destroy concerns callbacks of destroy itself: no
\* channel is left to write afterwards.)
UnderWay ==
  LET towards(e) == Len(FlattenSeq(net[e])) + Len(mux[e].batch)
  IN  MapThenSumSet(towards, Ends)
WriteFrame_DataPasses(e, m, f) ==
  /\ UnderWay < MaxNet
  /\ \/ /\ m.cork > 0 /\ f.op # "data"
        /\ mux' = [mux EXCEPT ![e] = [m EXCEPT !.batch = Append(@, f)]]
        /\ UNCHANGED net
     \/ /\ m.cork = 0 \/ f.op = "data"
        /\ mux' = [mux EXCEPT ![e] = m]
        /\ net' = [net EXCEPT ![Other(e)] = Append(@, <<f>>)]
WriteFrame(e, m, f) ==
  /\ UnderWay < MaxNet                                       \* bound
  /\ \/ /\ m.cork > 0
        /\ mux' = [mux EXCEPT ![e] = [m EXCEPT !.batch = Append(@, f)]]
        /\ UNCHANGED net
     \/ /\ m.cork = 0
        /\ mux' = [mux EXCEPT ![e] = m]
        /\ net' = [net EXCEPT ![Other(e)] = Append(@, <<f>>)]

--------------------------------------------------------------------------------
(* Operations *)

MuxInit ==
  /\ mux = [e \in Ends |-> NewMux]
  /\ net = [e \in Ends |-> <<>>]
  /\ strayed = {}
  /\ cut = FALSE

\* create_channel: with `unique`, refused while the oldest live channel of the
\* key is open.
CreateChannel(e, k, unique) ==
  LET m == mux[e]
      found == FindByPairKey(m, k)
  IN  /\ ~m.destroyed
      /\ unique /\ found # None => m.ch[found].st # "open"
      /\ Tidy => found = None
      /\ m.next <= MaxId                                        \* bound
      /\ mux' = [mux EXCEPT ![e] =
           [m EXCEPT !.next = @ + 1,
                     !.ch[m.next] = [st |-> "new", key |-> k, rid |-> None],
                     !.last[k] = m.next]]
      /\ UNCHANGED <<net, strayed, cut>>

\* Channel::open: OPEN, then pairing with a remote OPEN that waits.
Open_SkipsPending(e, i) ==
  /\ mux[e].ch[i].st = "new"
  /\ WriteFrame(e, [mux[e] EXCEPT !.ch[i].st = "sent"], OpenFrame(i, mux[e].ch[i].key))
  /\ UNCHANGED <<strayed, cut>>
Open(e, i) ==
  LET m == [mux[e] EXCEPT !.ch[i].st = "sent"]
      k == m.ch[i].key
  IN  /\ mux[e].ch[i].st = "new"
      /\ WriteFrame(e,
                    IF m.pending[k] = None THEN m
                    ELSE TryPair([m EXCEPT !.pending[k] = None], i, m.pending[k]),
                    OpenFrame(i, k))
      /\ UNCHANGED <<strayed, cut>>

\* Channel::send: the frame carries the receiver's id of the channel.
Send(e, i) ==
  /\ mux[e].ch[i].st = "open"
  /\ WriteFrame(e, mux[e], DataFrame(i, mux[e].ch[i].rid))
  /\ UNCHANGED <<strayed, cut>>

\* Channel::close: CLOSE, then the channel is removed.
Close(e, i) ==
  /\ Live(mux[e], i)
  /\ Tidy => mux[e].ch[i].st = "open"
  /\ WriteFrame(e, RemoveChannel(mux[e], i), CloseFrame(i))
  /\ UNCHANGED <<strayed, cut>>

Cork(e) ==
  /\ mux[e].cork < MaxCork                                      \* bound
  /\ mux' = [mux EXCEPT ![e].cork = @ + 1]
  /\ UNCHANGED <<net, strayed, cut>>

\* uncork: the last one sends the batch as one packet.
Uncork(e) ==
  LET m == mux[e]
      flush == m.cork = 1 /\ m.batch # <<>>
  IN  /\ m.cork > 0
      /\ mux' = [mux EXCEPT ![e].cork = @ - 1,
                            ![e].batch = IF flush THEN <<>> ELSE @]
      /\ net' = IF flush THEN [net EXCEPT ![Other(e)] = Append(@, m.batch)] ELSE net
      /\ UNCHANGED <<strayed, cut>>

\* on_data: a single frame, or the frames of a batch as far as the limit goes.
OnData(e) ==
  /\ net[e] # <<>>
  /\ \E got \in {HandleBatch([mux |-> mux[e], strayed |-> {}], Head(net[e]))} :
       /\ mux' = [mux EXCEPT ![e] = got.mux]
       /\ strayed' = strayed \cup got.strayed
  /\ cut' = (cut \/ ~Whole(Head(net[e])))
  /\ net' = [net EXCEPT ![e] = Tail(@)]

\* Mux::destroy: every live channel is closed as if by the peer; no frame
\* leaves any more.
Destroy(e) ==
  LET m == mux[e]
      live == {i \in Ids : Live(m, i)}
  IN  /\ ~m.destroyed
      /\ mux' = [mux EXCEPT ![e] =
           [m EXCEPT
              !.ch = [i \in Ids |-> IF i \in live THEN [@[i] EXCEPT !.st = "gone"] ELSE @[i]],
              !.remote = [r \in Ids |-> IF \E i \in live : m.ch[i].rid = r THEN None ELSE @[r]],
              !.pending = [k \in Keys |-> IF OfKey(m, k) # {} THEN None ELSE @[k]],
              !.last = [k \in Keys |-> IF @[k] \in OfKey(m, k) THEN None ELSE @[k]],
              !.destroyed = TRUE, !.batch = <<>>, !.cork = 0]]
      /\ UNCHANGED <<net, strayed, cut>>

MuxNext ==
  \E e \in Ends :
    \/ \E k \in Keys, u \in BOOLEAN : CreateChannel(e, k, u)
    \/ \E i \in Ids : Open(e, i) \/ Send(e, i) \/ Close(e, i)
    \/ Cork(e)
    \/ Uncork(e)
    \/ OnData(e)
    \/ Destroy(e)

MuxSpec == MuxInit /\ [][MuxNext]_muxVars

--------------------------------------------------------------------------------
(* Properties *)

\* remote_to_channel_ names exactly the open channels, by the peer's id: a frame
\* found there always meets an open channel, so handle_data's buffering branch
\* and drain_pending never have anything to do; also after a batch was cut.
LookupExact ==
  \A e \in Ends, r \in Ids :
    LET m == mux[e]
    IN  {i \in Ids : m.ch[i].st = "open" /\ m.ch[i].rid = r}
          = IF m.remote[r] = None THEN {} ELSE {m.remote[r]}

Settled ==
  \A e \in Ends : net[e] = <<>> /\ mux[e].batch = <<>> /\ ~mux[e].destroyed

\* Once nothing is under way and no batch was cut, the two ends agree: an open channel is paired with
\* an open channel of the same key that is paired with it, and no two opened
\* channels of one key have missed each other.
EndsAgree ==
  (Tidy /\ ~cut /\ Settled) =>
    /\ \A e \in Ends, i \in Ids :
         mux[e].ch[i].st = "open" =>
           LET p == mux[Other(e)].ch[mux[e].ch[i].rid]
           IN  p.st = "open" /\ p.key = mux[e].ch[i].key /\ p.rid = i
    /\ \A e \in Ends, i, j \in Ids :
         /\ mux[e].ch[i].st = "sent"
         /\ mux[Other(e)].ch[j].st = "sent"
         => mux[e].ch[i].key # mux[Other(e)].ch[j].key

\* A data frame of a tidy application, also one corked behind the OPEN it depends on,
\* misses its channel only on a channel whose two ids differ: the frame carries the
\* receiver's id and is looked up as if it were the sender's.  This is claimed until
\* a batch is cut, when the OPEN of a later frame may be lost.
StraysOnlyAcrossIds == (Tidy /\ ~cut) => \A s \in strayed : s.from # s.id
===============================================================================
