------------------------------- MODULE Router -------------------------------
(***************************************************************************)
(* router::Router: the servers of a node by target, and where the answer   *)
(* to a PEER_HANDSHAKE or a PEER_HOLEPUNCH goes.                           *)
(*                                                                         *)
(* A packet carries an address to and from, a transaction id, a mode, the  *)
(* client's address if a relay has added it (peer), and the handshake it   *)
(* is about (conn, for the Noise bytes and the holepunch payload).         *)
(***************************************************************************)
EXTENDS Naturals

CONSTANT NoAddress   \* an absent peer_address

\* What a server, or a relay on its way to one, may be asked.
Incoming == {"from_client", "from_relay", "from_second_relay"}

\* set, get, remove: the targets that have an entry.
Set(forwards, target) == forwards \cup {target}
Remove(forwards, target) == forwards \ {target}
Has(forwards, target) == target \in forwards

\* peer_address.value_or(req.from.addr)
ClientAddress_Sender(req) == req.from
ClientAddress(req) == IF req.peer = NoAddress THEN req.from ELSE req.peer

\* The handler is called: a handshake must have one of the incoming modes, a
\* holepunch message is not asked for its mode.
AcceptsHandshake(forwards, req) == Has(forwards, req.target) /\ req.mode \in Incoming
AcceptsHolepunch(forwards, req) == Has(forwards, req.target)
Accepts(forwards, req) ==
  IF req.cmd = "handshake" THEN AcceptsHandshake(forwards, req) ELSE AcceptsHolepunch(forwards, req)

\* reply_fn of a client that asked directly: a RESPONSE.
Reply(req, at) ==
  [req EXCEPT !.kind = "response", !.mode = "reply", !.from = at, !.to = req.from, !.peer = NoAddress]

\* reply_fn of a forwarded message: a REQUEST with the same tid to the relay.
RelayBack(req, at) ==
  [req EXCEPT !.mode = "from_server", !.from = at, !.to = req.from, !.peer = ClientAddress(req)]

Answer(req, at) == IF req.mode = "from_client" THEN Reply(req, at) ELSE RelayBack(req, at)
=============================================================================
