------------------------------- MODULE RpcSocket -------------------------------
(***************************************************************************)
(* The request side of rpc::RpcSocket and rpc::Session: transaction ids,   *)
(* the 4-bucket congestion window, the queue of requests that wait for     *)
(* budget, per-request timeout and retry, cancellation and close().        *)
(*                                                                         *)
(* A request is named by its transaction id: find_inflight() looks it up   *)
(* by nothing else.  Clocks are abstracted: a running timer may fire at    *)
(* any moment.  The datagrams' content, the RTT estimate (which only       *)
(* chooses a timer's length) and the per-tick counters read by the health  *)
(* monitor are left out, and so is the token rotation in on_drain_tick,    *)
(* which shares no state with the requests.                                *)
(***************************************************************************)
EXTENDS Integers, Sequences, FiniteSets

CONSTANTS
  TidMax,      \* transaction ids are 0..TidMax (65535 in the code)
  MaxWindow,   \* DEFAULT_MAX_WINDOW: sends per bucket, half the total budget
  MaxPending,  \* MAX_PENDING: longest queue of waiting requests
  MaxRetries,  \* largest retry count a caller asks for
  Sessions,    \* the rpc::Session objects
  Callers,     \* <<s, k>>: someone who issues requests through s with k retries
  NoSession    \* a request issued on the socket itself

ASSUME RpcAssumption ==
  /\ TidMax \in Nat \ {0}
  /\ MaxWindow \in Nat \ {0}
  /\ MaxPending \in Nat
  /\ MaxRetries \in Nat
  /\ NoSession \notin Sessions

ASSUME CallersAssumption ==
  Callers \subseteq (Sessions \cup {NoSession}) \X (0 .. MaxRetries)

Tids == 0 .. TidMax
Slots == 0 .. 3
Status == {"free", "pending", "inflight", "answered", "expired", "cancelled", "refused"}

VARIABLES
  nextTid,   \* next_tid_
  st,        \* where each request is
  sent,      \* InflightRequest::sent
  retries,   \* InflightRequest::retries
  owner,     \* the Session a request was issued through
  calls,     \* how many callbacks of a request have run
  pending,   \* pending_
  window,    \* CongestionWindow::window_
  slot,      \* CongestionWindow::i_
  total,     \* CongestionWindow::total_
  tracked,   \* Session::tids_
  alive,     \* is the Session object still there
  closing    \* closing_

vars == <<nextTid, st, sent, retries, owner, calls, pending, window, slot, total,
          tracked, alive, closing>>

\* What request() accepted and close() still finds in inflight_ or pending_.
Outstanding_AlsoRefused(t) == st[t] \in {"pending", "inflight", "refused"}
Outstanding(t) == st[t] \in {"pending", "inflight"}

Lower(a, b) == IF a < b THEN a ELSE b

--------------------------------------------------------------------------------
(* Congestion window *)

IsFull == total >= 2 * MaxWindow \/ window[slot] >= MaxWindow

\* CongestionWindow::send.
WindowSend ==
  /\ window' = [window EXCEPT ![slot] = @ + 1]
  /\ total' = total + 1
  /\ UNCHANGED slot

\* CongestionWindow::recv, called n times in a row: it stops at an empty bucket.
Credit(n) == Lower(n, window[slot])

WindowRecv(n) ==
  /\ window' = [window EXCEPT ![slot] = @ - Credit(n)]
  /\ total' = total - Credit(n)
  /\ UNCHANGED slot

\* CongestionWindow::drain moves to the next bucket and forgets what it held.
NextSlot == (slot + 1) % 4
Drained_KeepsOldBucket == total
Drained == IF total - window[NextSlot] < 0 THEN 0 ELSE total - window[NextSlot]

\* The while loop of drain_pending, run right after drain(): requests leave
\* the queue until the fresh bucket or the whole window is full.
Room_OneLess == IF 2 * MaxWindow - 1 - Drained < 0 THEN 0 ELSE Lower(MaxWindow - 1, 2 * MaxWindow - 1 - Drained)
Room == IF 2 * MaxWindow - Drained < 0 THEN 0 ELSE Lower(MaxWindow, 2 * MaxWindow - Drained)
Released == Lower(Len(pending), Room)
Leaves(t) == \E i \in 1 .. Released : pending[i] = t

--------------------------------------------------------------------------------
(* Requests *)

\* alloc_tid: 0 is skipped when the counter wraps, not when it starts there.
TidAfter(t) == IF t = TidMax THEN 1 ELSE t + 1

\* find_inflight: queued requests are not found.
FindInflight(t) == st[t] = "inflight"

\* on_request_timeout: `sent > retries` ends the request, otherwise it is resent.
RetriesLeft(t) == sent[t] <= retries[t]

\* Session::request remembers the id it got, unless the id is 0.
Track(s, t) ==
  tracked' = IF s # NoSession /\ t # 0
             THEN [tracked EXCEPT ![s] = @ \cup {t}]
             ELSE tracked

\* The wrapped callbacks of Session::request forget the id first.
Untrack_Missing(t) == tracked' = tracked
Untrack(t) ==
  tracked' = IF owner[t] # NoSession
             THEN [tracked EXCEPT ![owner[t]] = @ \ {t}]
             ELSE tracked

\* destroy_request for every request of S: its timer is stopped and one unit
\* of budget is returned.
DestroyRequests(S, outcome) ==
  /\ st' = [t \in Tids |-> IF t \in S THEN outcome ELSE st[t]]
  /\ WindowRecv(Cardinality(S))

\* request() finds the window and the queue full: it returns 0, and neither
\* callback will ever run.
Refuse(t) ==
  /\ IsFull
  /\ Len(pending) >= MaxPending
  /\ st' = [st EXCEPT ![t] = "refused"]
  /\ UNCHANGED <<sent, pending, window, slot, total, tracked>>

\* request() finds the window full: the request waits in the queue.
Enqueue(s, t) ==
  /\ IsFull
  /\ Len(pending) < MaxPending
  /\ st' = [st EXCEPT ![t] = "pending"]
  /\ pending' = Append(pending, t)
  /\ Track(s, t)
  /\ UNCHANGED <<sent, window, slot, total>>

\* request() sends at once, also when older requests wait in the queue.
SendFirst(s, t) ==
  /\ ~IsFull
  /\ st' = [st EXCEPT ![t] = "inflight"]
  /\ sent' = [sent EXCEPT ![t] = 1]
  /\ WindowSend
  /\ Track(s, t)
  /\ UNCHANGED pending

\* RpcSocket::request, called directly or through Session::request.
Request(s, k) ==
  /\ ~closing
  /\ st[nextTid] = "free"    \* bound: each transaction id is used once
  /\ s # NoSession => alive[s]
  /\ nextTid' = TidAfter(nextTid)
  /\ retries' = [retries EXCEPT ![nextTid] = k]
  /\ owner' = [owner EXCEPT ![nextTid] = s]
  /\ Refuse(nextTid) \/ Enqueue(s, nextTid) \/ SendFirst(s, nextTid)
  /\ UNCHANGED <<calls, alive, closing>>

\* handle_message, RESPONSE_ID: a datagram with id t arrives, possibly a
\* duplicate or one that comes after the request ended.
Response(t) ==
  /\ ~closing
  /\ sent[t] > 0
  /\ FindInflight(t)
  /\ DestroyRequests({t}, "answered")
  /\ calls' = [calls EXCEPT ![t] = @ + 1]
  /\ Untrack(t)
  /\ UNCHANGED <<nextTid, sent, retries, owner, pending, alive, closing>>

\* on_request_timeout with retries left: send_now sends the buffer again,
\* whatever the congestion window says.
Retry(t) ==
  /\ ~closing
  /\ st[t] = "inflight"
  /\ RetriesLeft(t)
  /\ sent' = [sent EXCEPT ![t] = @ + 1]
  /\ WindowSend
  /\ UNCHANGED <<nextTid, st, retries, owner, calls, pending, tracked, alive, closing>>

\* on_request_timeout after the last retry.
Expire(t) ==
  /\ ~closing
  /\ st[t] = "inflight"
  /\ ~RetriesLeft(t)
  /\ DestroyRequests({t}, "expired")
  /\ calls' = [calls EXCEPT ![t] = @ + 1]
  /\ Untrack(t)
  /\ UNCHANGED <<nextTid, sent, retries, owner, pending, alive, closing>>

\* on_drain_tick: rotate the window, then drain_pending.
DrainTick ==
  /\ ~closing
  /\ slot' = NextSlot
  /\ window' = [window EXCEPT ![NextSlot] = Released]
  /\ total' = Drained + Released
  /\ st' = [t \in Tids |-> IF Leaves(t) THEN "inflight" ELSE st[t]]
  /\ sent' = [t \in Tids |-> IF Leaves(t) THEN sent[t] + 1 ELSE sent[t]]
  /\ pending' = SubSeq(pending, Released + 1, Len(pending))
  /\ UNCHANGED <<nextTid, retries, owner, calls, tracked, alive, closing>>

\* Session::destroy: cancel_request on every id the session remembers.  The
\* destructor calls it too, so the object is gone afterwards.
Cancelled(s) == {t \in tracked[s] : FindInflight(t)}

DestroySession(s) ==
  /\ alive[s]
  /\ alive' = [alive EXCEPT ![s] = FALSE]
  /\ tracked' = [tracked EXCEPT ![s] = {}]
  /\ DestroyRequests(Cancelled(s), "cancelled")
  /\ UNCHANGED <<nextTid, sent, retries, owner, calls, pending, closing>>

\* RpcSocket::close: in-flight and queued requests are dropped without a callback.
Close ==
  /\ ~closing
  /\ closing' = TRUE
  /\ pending' = <<>>
  /\ st' = [t \in Tids |-> IF Outstanding(t) THEN "cancelled" ELSE st[t]]
  /\ WindowRecv(Cardinality({t \in Tids : st[t] = "inflight"}))
  /\ UNCHANGED <<nextTid, sent, retries, owner, calls, tracked, alive>>

--------------------------------------------------------------------------------
Init ==
  /\ nextTid \in Tids                    \* the constructor draws it at random
  /\ st = [t \in Tids |-> "free"]
  /\ sent = [t \in Tids |-> 0]
  /\ retries = [t \in Tids |-> 0]
  /\ owner = [t \in Tids |-> NoSession]
  /\ calls = [t \in Tids |-> 0]
  /\ pending = <<>>
  /\ window = [i \in Slots |-> 0]
  /\ slot = 0
  /\ total = 0
  /\ tracked = [s \in Sessions |-> {}]
  /\ alive = [s \in Sessions |-> TRUE]
  /\ closing = FALSE

Next ==
  \/ \E c \in Callers : Request(c[1], c[2])
  \/ \E t \in Tids : Response(t) \/ Retry(t) \/ Expire(t)
  \/ DrainTick
  \/ \E s \in Sessions : DestroySession(s)
  \/ Close

Spec == Init /\ [][Next]_vars

\* libuv keeps firing the repeating drain timer and every started request
\* timer until the socket is closed.
Fairness ==
  /\ WF_vars(DrainTick)
  /\ \A t \in Tids : WF_vars(Retry(t) \/ Expire(t))

FairSpec == Spec /\ Fairness

--------------------------------------------------------------------------------
(* Properties *)

TypeOK ==
  /\ nextTid \in Tids
  /\ st \in [Tids -> Status]
  /\ sent \in [Tids -> Nat]
  /\ retries \in [Tids -> 0 .. MaxRetries]
  /\ owner \in [Tids -> Sessions \cup {NoSession}]
  /\ calls \in [Tids -> Nat]
  /\ pending \in Seq(Tids)
  /\ window \in [Slots -> Nat]
  /\ slot \in Slots
  /\ total \in Nat
  /\ tracked \in [Sessions -> SUBSET Tids]
  /\ alive \in [Sessions -> BOOLEAN]
  /\ closing \in BOOLEAN

\* CongestionWindow: total_ is always the sum of the four buckets, although
\* responses are credited to the current bucket and not to the one that was
\* charged.  In particular the clamp at 0 in drain() never takes effect.
WindowAccounting == total = window[0] + window[1] + window[2] + window[3]

\* pending_ holds exactly the queued requests, once each, and queued requests
\* have not been sent: drain_pending never sees a destroyed or a sent one.
QueueExact ==
  /\ \A t \in Tids : st[t] = "pending" <=> \E i \in 1 .. Len(pending) : pending[i] = t
  /\ \A i, j \in 1 .. Len(pending) : pending[i] = pending[j] => i = j
  /\ \A t \in Tids : st[t] \in {"free", "pending", "refused"} => sent[t] = 0

\* A request runs exactly one callback if it ended by response or timeout and
\* none otherwise, whatever late or repeated datagrams and timers do.
CallbackOnce ==
  \A t \in Tids : calls[t] = IF st[t] \in {"answered", "expired"} THEN 1 ELSE 0

\* on_request_timeout gives up only after retries + 1 sends, and no request is
\* ever sent more often than that.
RetryBudget ==
  \A t \in Tids : /\ sent[t] <= retries[t] + 1
                  /\ st[t] = "expired" => sent[t] = retries[t] + 1

\* While the socket is open a live Session remembers exactly its outstanding
\* requests, queued ones included - except one whose transaction id is 0.
SessionTracks ==
  ~closing =>
    \A s \in Sessions : alive[s] =>
      tracked[s] = {t \in Tids \ {0} : owner[t] = s /\ st[t] \in {"pending", "inflight"}}

\* The state of each request, of the queue and of the Sessions fit together.
RequestInv == TypeOK /\ QueueExact /\ CallbackOnce /\ RetryBudget /\ SessionTracks

\* Every accepted request ends: retries are bounded and the queue moves,
\* although retries consume the budget that the queue waits for.
Resolves == \A t \in Tids : Outstanding(t) ~> ~Outstanding(t)

\* The promise made to callers (module RequestPromise).
Outcome(t) == CASE st[t] = "free" -> "idle"
                [] st[t] \in {"pending", "inflight"} -> "outstanding"
                [] OTHER -> st[t]
Promise == INSTANCE RequestPromise WITH Requests <- Tids, outcome <- [t \in Tids |-> Outcome(t)]
KeepsPromise == Promise!Spec
================================================================================
