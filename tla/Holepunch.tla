------------------------------ MODULE Holepunch ------------------------------
(***************************************************************************)
(* The client's holepunch: PunchState drives two rounds over the relay     *)
(* while the pool socket samples its NAT, then the Holepuncher probes.     *)
(*                                                                         *)
(* The server, the relay and the nodes that are pinged are external: each  *)
(* request may be answered late, badly or never.  The client has no socket *)
(* pool and no punch statistics (holepunch_connect passes neither), so the *)
(* birthday strategy is out of its reach.                                  *)
(***************************************************************************)
EXTENDS Integers, Sequences, FiniteSets

CONSTANTS
  Pings,      \* nodes pinged for NAT samples besides the relay (at most 6)
  MinSamples, \* samples after which Round 2 need not wait (4)
  Attempts,   \* sends of a pool request (3)
  Polls,      \* polls of the sampler before the wait is given up (20)
  Rounds,     \* rounds of consistent probing (10)
  Probes      \* probes to random ports (1750)

ASSUME HolepunchAssumption ==
  {Pings, MinSamples, Attempts, Polls, Rounds, Probes} \subseteq Nat \ {0}

VARIABLE hp  \* PunchState, its PoolSocket and its Holepuncher

Classes == {"unknown", "consistent", "random"}  \* what NatSampler can say
Idle == -1                                      \* no request under way

\* Holepuncher, as the initiator.
NewPuncher ==
  [connected |-> FALSE, punching |-> FALSE, destroyed |-> FALSE, timer |-> FALSE,
   round |-> 0, probes_left |-> 0, local |-> "unknown", remote |-> "unknown"]

NoPunch ==
  [begun |-> FALSE, completed |-> FALSE, result |-> "none", pool |-> "none",
   relayPing |-> FALSE, relaySeen |-> FALSE, others |-> 0, sampled |-> 0,
   fw |-> "unknown", frozen |-> FALSE, sampling_done |-> FALSE,
   r1 |-> Idle, r2 |-> Idle, told |-> "none", server |-> "none", token |-> FALSE,
   retried |-> FALSE, wait |-> 0, sleeper |-> "none", puncher |-> NewPuncher]

--------------------------------------------------------------------------------
(* Completion *)

\* Holepuncher::destroy, without the abort callback.
Destroyed(p) == [p EXCEPT !.destroyed = TRUE, !.punching = FALSE, !.timer = FALSE]

\* PoolSocket::close drops the requests under way with their callbacks.
ClosePool(h) ==
  [h EXCEPT !.pool = "closed", !.r1 = Idle, !.r2 = Idle,
            !.relayPing = FALSE, !.others = 0]

\* PunchState::complete: a socket that won stays open for the caller.
Complete_LeavesTimers(h, r) ==
  IF h.completed THEN h
  ELSE LET g == [h EXCEPT !.completed = TRUE, !.result = r]
       IN  IF r = "fail" THEN ClosePool(g) ELSE [g EXCEPT !.pool = "kept"]
Complete(h, r) ==
  IF h.completed THEN h
  ELSE LET g == [h EXCEPT !.completed = TRUE, !.result = r, !.sleeper = "none",
                          !.wait = 0, !.puncher = Destroyed(@)]
       IN  IF r = "fail" THEN ClosePool(g) ELSE [g EXCEPT !.pool = "kept"]

\* destroy() of a puncher that is not connected fires on_abort.
Abort(h) == Complete([h EXCEPT !.puncher = Destroyed(@)], "fail")

--------------------------------------------------------------------------------
(* The pool socket: NAT samples and requests *)

\* The classes the sampler may move to with its n-th sample (see NatSampler).
ClassAfter(fw, n) ==
  IF n < 3 THEN {fw}
  ELSE {"consistent", "random"} \cup (IF n <= 4 THEN {fw} ELSE {})

\* NatSampler::add on every response, whichever request it answers.
Sampled(h) ==
  {[h EXCEPT !.sampled = @ + 1, !.fw = c] :
     c \in IF h.frozen THEN {h.fw} ELSE ClassAfter(h.fw, h.sampled + 1)}
RelaySampled(h) ==
  IF h.relaySeen THEN {h} ELSE {[g EXCEPT !.relaySeen = TRUE] : g \in Sampled(h)}

\* finish(): sampling is done when every ping was answered or lost.
Finish(h) == [h EXCEPT !.sampling_done = ~h.relayPing /\ h.others = 0]

\* PoolSocket::request: the first of the attempts, all with one TID.
Sent == Attempts - 1

PingAnswered ==
  \/ hp.relayPing
     /\ \E g \in RelaySampled(hp) : hp' = Finish([g EXCEPT !.relayPing = FALSE])
  \/ hp.others > 0
     /\ \E g \in Sampled(hp) : hp' = Finish([g EXCEPT !.others = @ - 1])

\* The last attempt of a ping times out.
PingLost ==
  \/ hp.relayPing /\ hp' = Finish([hp EXCEPT !.relayPing = FALSE])
  \/ hp.others > 0 /\ hp' = Finish([hp EXCEPT !.others = @ - 1])

\* discover_pool_addresses.
Discover(h) == [h EXCEPT !.relayPing = TRUE, !.others = Pings]

--------------------------------------------------------------------------------
(* Probing *)

\* consistent_probe: a round, or the abort after the last.
ConsistentProbe_NoAbort(h) ==
  IF ~h.puncher.punching \/ h.puncher.connected \/ h.puncher.round >= Rounds
  THEN [h EXCEPT !.puncher.punching = FALSE, !.puncher.timer = FALSE]
  ELSE [h EXCEPT !.puncher.round = @ + 1, !.puncher.timer = TRUE]
ConsistentProbe(h) ==
  IF ~h.puncher.punching \/ h.puncher.connected \/ h.puncher.round >= Rounds
  THEN IF h.puncher.punching /\ ~h.puncher.connected THEN Abort(h)
       ELSE [h EXCEPT !.puncher.timer = FALSE]
  ELSE [h EXCEPT !.puncher.round = @ + 1, !.puncher.timer = TRUE]

\* random_probes, with probes left.
RandomProbes(h) ==
  [h EXCEPT !.puncher.probes_left = @ - 1, !.puncher.timer = TRUE]

\* punch(): a random NAT of ours needs a socket pool; the refusal is ignored.
Punch(h) ==
  LET p == h.puncher
  IN  IF p.connected \/ p.local = "random" THEN h
      ELSE IF p.remote # "random"
      THEN ConsistentProbe([h EXCEPT !.puncher.punching = TRUE, !.puncher.round = 0])
      ELSE RandomProbes([h EXCEPT !.puncher.punching = TRUE,
                                  !.puncher.probes_left = Probes])

\* on_punch_timer: when the random probes are spent, consistent rounds follow.
OnPunchTimer ==
  /\ hp.puncher.timer
  /\ hp' = IF hp.puncher.probes_left > 0 THEN RandomProbes(hp)
           ELSE ConsistentProbe(hp)

\* on_message: the first probe that reaches the initiator connects it.
ProbeArrives ==
  /\ hp.begun /\ hp.pool = "open" /\ ~hp.puncher.destroyed
  /\ hp' = Complete([hp EXCEPT !.puncher.connected = TRUE,
                               !.puncher.punching = FALSE], "ok")

--------------------------------------------------------------------------------
(* The rounds *)

\* run_round1: the class is read anew by each try.
RunRound1(h) == [h EXCEPT !.r1 = Sent, !.puncher.local = h.fw]

\* holepunch_connect.
HolepunchConnect ==
  RunRound1(Discover([NoPunch EXCEPT !.begun = TRUE, !.pool = "open"]))

\* send_round2: the message carries the class of the moment it is sent.
SendRound2(h) ==
  Punch([h EXCEPT !.frozen = TRUE, !.told = h.fw, !.r2 = Sent])

\* is_unstable, as analyze() reports it: no reopen is wired.
Unstable(p) ==
  \/ p.remote = "random" /\ p.local = "random"
  \/ p.local = "unknown"

\* proceed(): after the sampling wait.
Proceed(h) ==
  LET remote == IF h.server = "unknown" THEN "consistent" ELSE h.server
      g == [h EXCEPT !.wait = 0, !.puncher.local = h.fw, !.puncher.remote = remote]
  IN  IF Unstable(g.puncher) THEN Complete(g, "fail")
      ELSE IF (h.server = "unknown" \/ ~h.token) /\ ~h.retried
      THEN [g EXCEPT !.retried = TRUE, !.sleeper = "retry"]
      ELSE [g EXCEPT !.sleeper = "pause"]

Enough(h) == h.sampling_done \/ h.sampled >= MinSamples

\* The answer to Round 1: unusable (no value, undecryptable, an error, no
\* address), a server without a firewall, or its class and perhaps a token.
\* The sample that comes with it counts unless the relay was seen before.
OnRound1Response ==
  /\ hp.r1 # Idle
  /\ \E g \in RelaySampled([hp EXCEPT !.r1 = Idle]) :
       \/ hp' = Complete(g, "fail")
       \/ hp' = Complete(g, "ok")
       \/ \E fw \in Classes, token \in BOOLEAN :
            LET s == [g EXCEPT !.server = fw, !.token = token]
            IN  hp' = IF g.completed THEN g
                      ELSE IF Enough(g) THEN Proceed(s)
                      ELSE [s EXCEPT !.wait = Polls]

OnRound1Timeout ==
  /\ hp.r1 # Idle
  /\ hp' = IF hp.r1 > 0 THEN [hp EXCEPT !.r1 = @ - 1]
           ELSE Complete([hp EXCEPT !.r1 = Idle], "fail")

\* poll(): every 100 ms, for at most two seconds.
PollSampler ==
  /\ hp.wait > 0
  /\ hp' = IF Enough(hp) \/ hp.wait = 1 THEN Proceed(hp)
           ELSE [hp EXCEPT !.wait = @ - 1]

\* The sleeper: the retry of Round 1, or the pause before Round 2.
SleeperFires ==
  /\ hp.sleeper # "none"
  /\ LET g == [hp EXCEPT !.sleeper = "none"]
     IN  hp' = IF hp.sleeper = "retry" THEN RunRound1(g) ELSE SendRound2(g)

\* The answer to Round 2 may be an error, else it only renews the addresses.
OnRound2Response ==
  /\ hp.r2 # Idle
  /\ LET g == [hp EXCEPT !.r2 = Idle]
     IN  hp' = g \/ hp' = Complete(g, "fail")

OnRound2Timeout ==
  /\ hp.r2 # Idle
  /\ hp' = [hp EXCEPT !.r2 = IF @ > 0 THEN @ - 1 ELSE Idle]

PunchStep ==
  \/ PingAnswered \/ PingLost
  \/ OnRound1Response \/ OnRound1Timeout \/ PollSampler \/ SleeperFires
  \/ OnRound2Response \/ OnRound2Timeout
  \/ OnPunchTimer \/ ProbeArrives

\* punch() refused for want of a pool: nothing is armed any more.
NoStrategy(h) == h.told # "none" /\ h.puncher.local = "random"
==============================================================================
