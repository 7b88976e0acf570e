--------------------------- MODULE MCServerSessions ---------------------------
(* Instances of ServerSessions for TLC: two handshakes, three sessions, room for
   two at a time. *)
EXTENDS ServerSessions
===============================================================================
