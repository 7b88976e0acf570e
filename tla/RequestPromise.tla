---------------------------- MODULE RequestPromise ----------------------------
(***************************************************************************)
(* What RpcSocket::request promises to the layers above it (Query,         *)
(* Announcer, ping-and-swap, ...): a request that is accepted stays        *)
(* outstanding until it ends in exactly one of three ways - answered       *)
(* (on_response ran), expired (on_timeout ran) or cancelled (neither ran)  *)
(* - and an ended or refused request never changes again.                  *)
(*                                                                         *)
(* RpcSocket implements this specification with its congestion window,     *)
(* queue, retries, sessions and close().                                   *)
(***************************************************************************)
CONSTANT Requests

VARIABLE outcome

Outcomes == {"idle", "outstanding", "answered", "expired", "cancelled", "refused"}

TypeOK == outcome \in [Requests -> Outcomes]

Init == outcome = [r \in Requests |-> "idle"]

\* request(): accepted (a callback will follow) or refused (none ever will).
Submit(r, o) ==
  /\ outcome[r] = "idle"
  /\ o \in {"outstanding", "refused"}
  /\ outcome' = [outcome EXCEPT ![r] = o]

\* One of the two callbacks runs.
Complete(r, o) ==
  /\ outcome[r] = "outstanding"
  /\ o \in {"answered", "expired"}
  /\ outcome' = [outcome EXCEPT ![r] = o]

\* cancel_request(), Session::destroy() and close() drop a batch silently.
Cancel(S) ==
  /\ \A r \in S : outcome[r] = "outstanding"
  /\ outcome' = [r \in Requests |-> IF r \in S THEN "cancelled" ELSE outcome[r]]

Next ==
  \/ \E r \in Requests, o \in Outcomes : Submit(r, o) \/ Complete(r, o)
  \/ \E S \in SUBSET Requests : Cancel(S)

Spec == Init /\ [][Next]_outcome
===============================================================================
