--------------------------- MODULE ConnectionPool ---------------------------
(***************************************************************************)
(* connection_pool::ConnectionPool, for one remote public key: connecting_ *)
(* and connections_ hold at most one ConnectionRef each.                   *)
(***************************************************************************)
EXTENDS Naturals

NoRef == 0
EmptyPool == [connecting |-> NoRef, connected |-> NoRef]

Get(p) == IF p.connected # NoRef THEN p.connected ELSE p.connecting
HasRef(p) == Get(p) # NoRef

\* should_keep_new: of two connections in one direction the newer; of two in
\* opposite directions the newer at the end with the higher key and the older at
\* the other end.
ShouldKeepNew_Newer(sameDirection, higher) == TRUE
ShouldKeepNew(sameDirection, higher) == sameDirection \/ higher

\* remove: by key, so both entries go.
RemoveRef(p) == EmptyPool

\* attach_stream: what the pool holds afterwards, and the ref it destroys.
Put(p, c, opened) == IF opened THEN [p EXCEPT !.connected = c] ELSE [p EXCEPT !.connecting = c]
AttachStream_KeepsEntry(p, c, opened, sameDirection, higher) ==
  IF ~HasRef(p) \/ ShouldKeepNew(sameDirection, higher)
  THEN [pool |-> Put(p, c, opened), destroyed |-> Get(p)]
  ELSE [pool |-> p, destroyed |-> c]
AttachStream(p, c, opened, sameDirection, higher) ==
  IF ~HasRef(p) \/ ShouldKeepNew(sameDirection, higher)
  THEN [pool |-> Put(IF HasRef(p) THEN RemoveRef(p) ELSE p, c, opened), destroyed |-> Get(p)]
  ELSE [pool |-> p, destroyed |-> c]

\* mark_opened: what waits in connecting_ moves, over what is connected.
MarkOpened(p) ==
  IF p.connecting = NoRef THEN p ELSE [connecting |-> NoRef, connected |-> p.connecting]
=============================================================================
