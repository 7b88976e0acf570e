----------------------------- MODULE SecretStream -----------------------------
(***************************************************************************)
(* SecretStreamDuplex under the stream wrapper of the C API: both ends of  *)
(* one UDX stream exchange headers, write, end, time out and are           *)
(* destroyed.                                                              *)
(*                                                                         *)
(* UDX is external: a reliable FIFO of frames per direction, read in       *)
(* chunks that may split a frame, whose acknowledgements arrive at any     *)
(* time after the data and whose close callback comes last.  Ciphers and   *)
(* byte layout are left out: peers are honest, so frames are well formed.  *)
(***************************************************************************)
EXTENDS Integers, Sequences, SequencesExt

CONSTANTS
  Ends,       \* the two ends
  KeepAlive,  \* ends that run a keepalive timer (keep_alive_ms > 0)
  Timeouts,   \* ends that run an inactivity timer (timeout_ms > 0)
  MaxWrites,  \* bound: messages each end writes
  MaxWire,    \* bound: frames under way per direction
  MaxPending, \* cap on messages queued before the connect event (64)
  Nonces      \* size of the nonce counter's space (2^64)

ASSUME StreamAssumption ==
  /\ \E a, b \in Ends : a # b /\ Ends = {a, b}
  /\ KeepAlive \subseteq Ends /\ Timeouts \subseteq Ends
  /\ {MaxWrites, MaxWire, MaxPending} \subseteq Nat
  /\ Nonces \in Nat \ {0}

Other(e) == CHOOSE o \in Ends : o # e

VARIABLES
  dup,       \* the SecretStreamDuplex and its wrapper at each end
  wire,      \* frames on the way to each end
  written,   \* number of messages each end's application has written
  delivered, \* messages handed to each end's application
  nonces     \* [counter, used, reused] of the unordered channel of each end

streamVars == <<dup, wire, written, delivered, nonces>>

\* Frames: messages are numbered; 0 is the empty message of a keepalive.
Header == -1
Eof == -2
Empty == 0

NewDuplex ==
  [started |-> FALSE, attached |-> FALSE, partial |-> FALSE,
   header_sent |-> FALSE, header_received |-> FALSE, connected |-> FALSE,
   ended |-> FALSE, eof |-> FALSE, destroyed |-> FALSE, closed |-> FALSE,
   pending |-> <<>>]

\* setup_secret_send: the counter starts at its (random) first value, here 0.
NewNonces == [counter |-> 0, used |-> {}, reused |-> FALSE]

StreamInit ==
  /\ dup = [e \in Ends |-> NewDuplex]
  /\ wire = [e \in Ends |-> <<>>]
  /\ written = [e \in Ends |-> 0]
  /\ delivered = [e \in Ends |-> <<>>]
  /\ nonces = [e \in Ends |-> NewNonces]

\* encrypt and udx_stream_write.
Submit(e, f) ==
  /\ Len(wire[Other(e)]) < MaxWire                             \* bound
  /\ wire' = [wire EXCEPT ![Other(e)] = Append(@, f)]

\* destroy(): timers stop, the UDX stream is told; its close callback follows.
DestroyedDuplex(d) == [d EXCEPT !.destroyed = TRUE]

--------------------------------------------------------------------------------
(* Both headers: the connect event *)

\* maybe_fire_connect, on [d, out]: the queue is replayed unless the duplex was
\* destroyed meanwhile.
MaybeFireConnect_DropsQueue(s) ==
  IF s.d.connected \/ ~(s.d.header_sent /\ s.d.header_received) THEN s
  ELSE [s EXCEPT !.d.connected = TRUE, !.d.pending = <<>>]
MaybeFireConnect(s) ==
  IF s.d.connected \/ ~(s.d.header_sent /\ s.d.header_received) THEN s
  ELSE [d |-> [s.d EXCEPT !.connected = TRUE, !.pending = <<>>],
        out |-> IF s.d.destroyed THEN s.out ELSE s.out \o s.d.pending]

\* start(): our callbacks on the raw stream.
Started(d) == [d EXCEPT !.started = TRUE, !.attached = TRUE]

\* hyperdht_stream_open: the header is the first frame; a write that fails at
\* once destroys.
Start(e) ==
  /\ ~dup[e].started
  /\ Submit(e, Header)
  /\ dup' = [dup EXCEPT ![e] = Started(@)]
  /\ UNCHANGED <<written, delivered, nonces>>
StartFails(e) ==
  /\ ~dup[e].started
  /\ dup' = [dup EXCEPT ![e] = DestroyedDuplex(Started(@))]
  /\ UNCHANGED <<wire, written, delivered, nonces>>

\* The acknowledgement of our header; `destroyed` is not asked.
HeaderAcked_WhenReceived(e) ==
  /\ dup[e].started /\ ~dup[e].header_sent /\ dup[e].attached
  /\ dup[Other(e)].header_received /\ dup[e].header_received
  /\ dup' = [dup EXCEPT ![e].header_sent = TRUE]
  /\ UNCHANGED <<wire, written, delivered, nonces>>
HeaderAcked(e) ==
  LET s == MaybeFireConnect([d |-> [dup[e] EXCEPT !.header_sent = TRUE],
                             out |-> delivered[e]])
  IN  /\ dup[e].started /\ ~dup[e].header_sent /\ dup[e].attached
      /\ dup[Other(e)].header_received
      /\ dup' = [dup EXCEPT ![e] = s.d]
      /\ delivered' = [delivered EXCEPT ![e] = s.out]
      /\ UNCHANGED <<wire, written, nonces>>

--------------------------------------------------------------------------------
(* Reading *)

\* decrypt: where a keepalive is set, an empty message is the peer's keepalive.
Swallowed(e, f) == f = Empty /\ e \in KeepAlive

\* handle_frame: the header first; messages are queued before the connect
\* event, up to the cap.
HandleFrame(e, s, f) ==
  IF ~s.d.header_received
  THEN MaybeFireConnect([d |-> [s.d EXCEPT !.header_received = TRUE], out |-> s.out])
  ELSE IF Swallowed(e, f) THEN s
  ELSE IF s.d.connected THEN [d |-> s.d, out |-> Append(s.out, f)]
  ELSE LET q == [s.d EXCEPT !.pending = Append(@, f)]
       IN  [d |-> IF Len(q.pending) > MaxPending THEN DestroyedDuplex(q) ELSE q, out |-> s.out]

\* try_extract_frame, in the loop that destruction ends.
ExtractFrame(e, s, f) == IF s.d.destroyed THEN s ELSE HandleFrame(e, s, f)

\* process_incoming_bytes: a read completes n frames (bound: at most two) and may
\* leave the first bytes of another in recv_buf_; once destroyed, bytes only pile up.
OnUdxRead(e, n, partial) ==
  LET s0 == [d |-> [dup[e] EXCEPT !.partial = partial], out |-> delivered[e]]
      s1 == IF n = 0 THEN s0 ELSE ExtractFrame(e, s0, wire[e][1])
      s  == IF n < 2 THEN s1 ELSE ExtractFrame(e, s1, wire[e][2])
  IN  /\ dup[e].attached
      /\ n \in 0 .. Len(wire[e])
      /\ n = 0 => partial /\ ~dup[e].partial
      /\ partial => n < Len(wire[e]) /\ wire[e][n + 1] # Eof
      /\ \A i \in 1 .. n : wire[e][i] # Eof
      /\ dup' = [dup EXCEPT ![e] = s.d]
      /\ delivered' = [delivered EXCEPT ![e] = s.out]
      /\ wire' = [wire EXCEPT ![e] = SubSeq(@, n + 1, Len(@))]
      /\ UNCHANGED <<written, nonces>>

\* UV_EOF: on_end, where the wrapper ends its own direction.
OnUdxEof(e) ==
  /\ dup[e].attached
  /\ wire[e] # <<>> /\ Head(wire[e]) = Eof
  /\ IF dup[e].ended \/ dup[e].destroyed
     THEN /\ dup' = [dup EXCEPT ![e] = [@ EXCEPT !.eof = TRUE]]
          /\ wire' = [wire EXCEPT ![e] = Tail(@)]
     ELSE /\ dup' = [dup EXCEPT ![e] = [@ EXCEPT !.eof = TRUE, !.ended = TRUE]]
          /\ wire' = [wire EXCEPT ![e] = Tail(@), ![Other(e)] = Append(@, Eof)]
  /\ UNCHANGED <<written, delivered, nonces>>

--------------------------------------------------------------------------------
(* Writing and closing *)

\* write() is refused before the connect event, after end and after destruction.
Writable(d) == d.connected /\ ~d.ended /\ ~d.destroyed

\* hyperdht_stream_write
Write(e) ==
  /\ Writable(dup[e])
  /\ written[e] < MaxWrites                                    \* bound
  /\ written' = [written EXCEPT ![e] = @ + 1]
  /\ Submit(e, written[e] + 1)
  /\ UNCHANGED <<dup, delivered, nonces>>

\* The timers run from start() to destroy().
TimerRuns(e, set) == e \in set /\ dup[e].started /\ ~dup[e].destroyed

\* The keepalive timer: an empty message, where a write is possible at all.
\* Bound: the other end has seen none yet.
OnKeepalive(e) ==
  /\ TimerRuns(e, KeepAlive)
  /\ Writable(dup[e])
  /\ Empty \notin Range(wire[Other(e)] \o delivered[Other(e)] \o dup[Other(e)].pending)
  /\ Submit(e, Empty)
  /\ UNCHANGED <<dup, written, delivered, nonces>>

\* The inactivity timer.
OnTimeout(e) ==
  /\ TimerRuns(e, Timeouts)
  /\ dup' = [dup EXCEPT ![e] = DestroyedDuplex(@)]
  /\ UNCHANGED <<wire, written, delivered, nonces>>

\* hyperdht_stream_close: end() sends our end of stream.
End(e) ==
  /\ dup[e].started /\ ~dup[e].ended /\ ~dup[e].destroyed
  /\ dup' = [dup EXCEPT ![e].ended = TRUE]
  /\ Submit(e, Eof)
  /\ UNCHANGED <<written, delivered, nonces>>

\* UDX closes a stream that was destroyed, whose peer is gone, or both of whose
\* directions have ended (external).
UdxMayClose(e) ==
  \/ dup[e].destroyed
  \/ dup[Other(e)].destroyed
  \/ dup[e].ended /\ dup[e].eof /\ dup[Other(e)].eof

\* fire_close and stream_fire_close: the close callback, then both objects are
\* deleted.
Closed(d) == [d EXCEPT !.destroyed = TRUE, !.closed = TRUE, !.pending = <<>>]

\* on_udx_close: detached first.
OnUdxClose_StaysAttached(e) ==
  /\ dup[e].attached /\ UdxMayClose(e)
  /\ dup' = [dup EXCEPT ![e].closed = TRUE]
  /\ UNCHANGED <<wire, written, delivered, nonces>>
OnUdxClose(e) ==
  /\ dup[e].attached
  /\ UdxMayClose(e)
  /\ dup' = [dup EXCEPT ![e] = Closed([@ EXCEPT !.attached = FALSE])]
  /\ UNCHANGED <<wire, written, delivered, nonces>>

--------------------------------------------------------------------------------
(* Unordered messages *)

\* box_message: the counter steps before it is used.
NextNonce(e) == (nonces[e].counter + 1) % Nonces

\* send_udp: back at its first value the counter has no nonce left and the stream
\* is destroyed.
SendUdp_NoWrapCheck(e) ==
  /\ dup[e].started /\ ~dup[e].destroyed
  /\ nonces' = [nonces EXCEPT ![e] =
       [counter |-> NextNonce(e), used |-> @.used \cup {NextNonce(e)},
        reused |-> NextNonce(e) \in @.used]]
  /\ UNCHANGED <<dup, wire, written, delivered>>
SendUdp(e) ==
  /\ dup[e].started /\ ~dup[e].destroyed
  /\ \/ /\ NextNonce(e) = 0
        /\ dup' = [dup EXCEPT ![e] = DestroyedDuplex(@)]
        /\ nonces' = [nonces EXCEPT ![e].counter = 0]
     \/ /\ NextNonce(e) # 0
        /\ nonces' = [nonces EXCEPT ![e] =
             [counter |-> NextNonce(e), used |-> @.used \cup {NextNonce(e)},
              reused |-> NextNonce(e) \in @.used]]
        /\ UNCHANGED dup
  /\ UNCHANGED <<wire, written, delivered>>

StreamNext ==
  \E e \in Ends :
    \/ Start(e) \/ StartFails(e)
    \/ HeaderAcked(e)
    \/ \E n \in 0 .. 2, p \in BOOLEAN : OnUdxRead(e, n, p)
    \/ OnUdxEof(e)
    \/ Write(e)
    \/ OnKeepalive(e) \/ OnTimeout(e)
    \/ End(e)
    \/ OnUdxClose(e)
    \/ SendUdp(e)

\* The wrapper starts at once; UDX delivers, acknowledges and closes.
StreamFairness ==
  \A e \in Ends :
    /\ WF_streamVars(Start(e))
    /\ WF_streamVars(HeaderAcked(e))
    /\ WF_streamVars(OnUdxRead(e, 1, FALSE))
    /\ WF_streamVars(OnUdxEof(e))
    /\ WF_streamVars(OnUdxClose(e))

StreamSpec == StreamInit /\ [][StreamNext]_streamVars /\ StreamFairness

--------------------------------------------------------------------------------
(* Properties *)

\* The messages of s come in the order they were written, and none is missing.
Rising(s) == \A i, j \in DOMAIN s : i < j /\ s[i] > Empty /\ s[j] > Empty => s[i] < s[j]
NoGap(s) == \A m \in Range(s) : 1 .. m \subseteq Range(s)

\* What an application receives, and the queue it has yet to receive, is what
\* the other wrote, in order and without gaps: nothing that arrives between our
\* header's sending and its acknowledgement is lost or overtaken (handle_frame,
\* maybe_fire_connect).  An end with a keepalive never sees an empty message.
InOrder ==
  \A e \in Ends :
    LET got == delivered[e] \o dup[e].pending
    IN  /\ Rising(got) /\ NoGap(got)
        /\ Range(got) \subseteq 0 .. written[Other(e)]
        /\ e \in KeepAlive => Empty \notin Range(got)

\* The close callback is the last: after it no connect event, no message and no
\* second close reaches the application, whatever acknowledgement or read is
\* still under way (on_udx_close, the alive_ flag).
CloseIsLast ==
  [][\A e \in Ends :
       dup[e].closed => dup'[e].closed /\ delivered'[e] = delivered[e]
                        /\ dup'[e].connected = dup[e].connected]_streamVars

\* No two unordered messages of one stream are sealed with the same nonce
\* (box_message's wrap check).
NonceFresh == \A e \in Ends : ~nonces[e].reused

\* In whatever order headers and acknowledgements arrive, a started stream
\* connects or closes, and one that either side has ended closes at both ends
\* (maybe_fire_connect; on_end answers with end).
ConnectsAndCloses ==
  \A e \in Ends :
    /\ dup[e].started ~> (dup[e].connected \/ dup[e].closed)
    /\ dup[e].ended ~> dup[e].closed
===============================================================================
