--------------------------------- MODULE Query ---------------------------------
(***************************************************************************)
(* query::Query: the iterative walk towards a target.  A stack of pending  *)
(* nodes is visited with bounded concurrency, answers add closer nodes,    *)
(* the K nearest answering nodes are kept, and when nothing is left the    *)
(* result is committed (announce, put) and reported.                       *)
(*                                                                         *)
(* Nodes are numbered by their distance to the target: smaller is nearer.  *)
(* Every visit is one request of module RpcSocket: refused, answered or    *)
(* expired.  The commit handler is the one of dht_ops (announce,           *)
(* immutable_put, mutable_put): it passes the query's continuation as the  *)
(* response callback and no timeout callback.                              *)
(***************************************************************************)
EXTENDS Integers, Sequences, FiniteSets, SequencesExt, Lists

CONSTANTS
  Peers,            \* remote nodes, ordered by distance to the target
  K,                \* routing::K: size of the result
  Concurrency,      \* concurrency_
  SlowConcurrency,  \* SLOWDOWN_CONCURRENCY
  FewSuccesses,     \* K / 4: fewer successes send the walk back to the table
  MaxSeen,          \* MAX_SEEN
  Table,            \* what RoutingTable::closest returns, nearest first
  SeedChoices,      \* possible lists given to add_seed_node
  BootChoices,      \* possible lists of addresses given to add_bootstrap, ids unknown
  MaxCloser,        \* bound: closer nodes per answer
  CommitChoices,    \* may there be an on_commit_ handler
  Refusals          \* may request() refuse a visit or a commit

ASSUME QueryAssumption ==
  /\ Peers \subseteq Nat /\ IsFiniteSet(Peers)
  /\ K \in Nat \ {0} /\ Concurrency \in Nat \ {0} /\ SlowConcurrency \in Nat \ {0}
  /\ FewSuccesses \in Nat /\ MaxSeen \in Nat /\ MaxCloser \in Nat
  /\ Table \in Seq(Peers)
  /\ SeedChoices \subseteq Seq(Peers) /\ BootChoices \subseteq Seq(Peers)
  /\ CommitChoices \subseteq BOOLEAN /\ Refusals \in BOOLEAN

VARIABLES
  boot,        \* the bootstrap addresses
  hasCommit,   \* on_commit_ is set
  seeds,       \* pre_seeds_
  started,     \* start() ran
  pending,     \* pending_, the last element on top
  seen,        \* seen_
  inflight,    \* inflight_
  flight,      \* the visits whose callback is still to come
  successes,   \* successes_
  errors,      \* errors_
  fromTable,   \* from_table_
  slowdown,    \* slowdown_
  closest,     \* closest_replies_
  tokens,      \* the nodes whose reply carried a token
  committing,  \* committing_
  toCommit,    \* commit_inflight_
  commits,     \* the commits whose continuation may still run
  done,        \* done_
  fired,       \* how often on_done_ ran
  destroyed    \* destroy() ended the query

walkVars == <<boot, hasCommit, seeds, started, pending, seen, inflight, flight, successes, errors,
              fromTable, slowdown, closest, tokens, committing, toCommit, commits, done, fired, destroyed>>

setup == <<boot, hasCommit>>

\* The part of the state that one callback changes along its calls.
Now == [pending |-> pending, seen |-> seen, inflight |-> inflight, flight |-> flight,
        successes |-> successes, errors |-> errors, fromTable |-> fromTable,
        slowdown |-> slowdown, closest |-> closest, tokens |-> tokens,
        committing |-> committing, toCommit |-> toCommit, commits |-> commits,
        done |-> done, fired |-> fired]
Becomes(q) ==
  /\ pending' = q.pending /\ seen' = q.seen /\ inflight' = q.inflight /\ flight' = q.flight
  /\ successes' = q.successes /\ errors' = q.errors /\ fromTable' = q.fromTable
  /\ slowdown' = q.slowdown /\ closest' = q.closest /\ tokens' = q.tokens
  /\ committing' = q.committing /\ toCommit' = q.toCommit /\ commits' = q.commits
  /\ done' = q.done /\ fired' = q.fired

\* How many requests the socket accepts in a row during one callback, before its
\* window and its queue are full.
AtMost == IF K < Concurrency THEN Concurrency ELSE K
Accepted == IF Refusals THEN 0 .. AtMost ELSE {AtMost}

--------------------------------------------------------------------------------
(* Frontier *)

\* The positions of a list whose nodes add_pending takes: what was seen before, also
\* earlier in the list, is dropped, and what exceeds MAX_SEEN too.
Added(q, list) ==
  LET fresh == {i \in DOMAIN list : q.seen[list[i]] = "no" /\ \A j \in 1 .. i - 1 : list[j] # list[i]}
      room  == MaxSeen - Cardinality({p \in Peers : q.seen[p] # "no"})
  IN  {i \in fresh : Cardinality({j \in fresh : j < i}) < room}

\* add_pending for every node of a list.
AddPending(q, list) ==
  [q EXCEPT !.pending = @ \o Only(list, Added(q, list)),
            !.seen = [p \in Peers |-> IF \E i \in Added(q, list) : list[i] = p
                                      THEN "pending" ELSE @[p]]]

\* seed_from_table: fills the stack up to K, nearest on top.
SeedFromTable(q) ==
  LET need == K - Len(q.pending)
  IN  IF need <= 0 THEN q
      ELSE AddPending([q EXCEPT !.fromTable = TRUE],
                      Reverse(SubSeq(Table, 1, IF need < Len(Table) THEN need ELSE Len(Table))))

\* is_closer, for a full result the comparison with its last entry.
IsCloser_OnlyWhileShort(q, p) == Len(q.closest) < K
IsCloser(q, p) == Len(q.closest) < K \/ p < q.closest[Len(q.closest)]

\* A bootstrap address has the zero id and is visited in any case.
Worth(q, p) == p \in boot \/ IsCloser(q, p)

Limit(q) == IF q.slowdown THEN SlowConcurrency ELSE Concurrency

\* The while loop of read_more pops from the top until the limit is reached: an
\* entry is popped if fewer worthwhile entries lie above it than visits may start,
\* and visited if it is worthwhile.
Above(I, i) == {j \in I : j > i}
Worthwhile(q) == {i \in DOMAIN q.pending : Worth(q, q.pending[i])}
Popped(q) == {i \in DOMAIN q.pending : Cardinality(Above(Worthwhile(q), i)) < Limit(q) - q.inflight}
Visited(q) == Popped(q) \cap Worthwhile(q)

\* The visits request() accepts; a refused one raises inflight_ all the same.
Sent(q, accepted) == {i \in Visited(q) : Cardinality(Above(Visited(q), i)) < accepted}

Pump(q, accepted) ==
  [q EXCEPT !.pending = Only(@, DOMAIN @ \ Popped(q)),
            !.inflight = @ + Cardinality(Visited(q)),
            !.flight = @ \cup {q.pending[i] : i \in Sent(q, accepted)},
            !.slowdown = @ \/ (~q.fromTable /\ q.successes = 0 /\ q.errors = 0)]

--------------------------------------------------------------------------------
(* Completion *)

FireDoneOnce(q) == IF q.fired = 0 THEN [q EXCEPT !.fired = 1] ELSE q

Finished(q) == FireDoneOnce([q EXCEPT !.done = TRUE])

\* destroy(): nothing more is visited, nothing is committed.
Destroyed(q) == FireDoneOnce([q EXCEPT !.done = TRUE, !.pending = <<>>, !.committing = TRUE])

\* do_commit: one commit per result with a token.
DoCommit(q, accepted) ==
  LET targets == {p \in Range(q.closest) : p \in q.tokens}
      sent    == {p \in targets : Cardinality({t \in targets : t < p}) < accepted}
      r == [q EXCEPT !.committing = TRUE, !.toCommit = Cardinality(targets), !.commits = sent]
  IN  IF targets = {} THEN Finished(r) ELSE r

MaybeFinish(q, accepted) ==
  IF q.done \/ q.committing THEN q
  ELSE IF hasCommit THEN DoCommit(q, accepted) ELSE Finished(q)

WalkIdle_AfterSuccess(q) == q.pending = <<>> /\ q.inflight = 0 /\ q.successes > 0
WalkIdle(q) == q.pending = <<>> /\ q.inflight = 0

\* read_more: pump, fall back to the table once, finish.
ReadMore(q, accepted) ==
  IF q.done THEN q
  ELSE LET r == Pump(q, accepted)
       IN  IF ~WalkIdle(r) THEN r
           ELSE IF ~r.fromTable /\ r.successes < FewSuccesses
                THEN LET t == Pump(SeedFromTable(r), accepted)
                     IN  IF WalkIdle(t) THEN MaybeFinish(t, accepted) ELSE t
                ELSE MaybeFinish(r, accepted)

\* push_closest: insert by distance unless it is there, cap at K.
PushClosest(q, p) ==
  LET nearer == Cardinality({i \in DOMAIN q.closest : q.closest[i] < p})
      length == IF Len(q.closest) < K THEN Len(q.closest) + 1 ELSE Len(q.closest)
  IN  IF p \in Range(q.closest) THEN q
      ELSE [q EXCEPT !.closest = [i \in 1 .. length |-> IF i <= nearer THEN @[i]
                                                        ELSE IF i = nearer + 1 THEN p ELSE @[i - 1]]]

\* The callback of a visit starts with inflight_--.
VisitEnded(q, p) == [q EXCEPT !.flight = @ \ {p}, !.inflight = @ - 1]

\* on_visit_response up to on_reply_: the answer is counted, enters the result and
\* brings closer nodes; enough answers end the slowdown.
Answered(q, p, named, ok, token, closer) ==
  LET q1 == [VisitEnded(q, p) EXCEPT !.seen[p] = "done",
                                     !.successes = IF ok THEN @ + 1 ELSE @,
                                     !.errors = IF ok THEN @ ELSE @ + 1]
      q2 == IF ok /\ named
            THEN [PushClosest(q1, p) EXCEPT !.tokens = IF token THEN @ \cup {p} ELSE @]
            ELSE q1
      q3 == AddPending(q2, closer)
  IN  IF ~q3.fromTable /\ q3.successes + q3.errors >= Concurrency
      THEN [q3 EXCEPT !.slowdown = FALSE] ELSE q3

AllCommitted_OneEarly(q) == q.toCommit <= 1
AllCommitted(q) == q.toCommit = 0

--------------------------------------------------------------------------------
(* Actions *)

\* start(): the caller's seeds in reverse, the table if they are fewer than K.
Start(accepted) ==
  /\ ~started
  /\ started' = TRUE
  /\ seeds' = <<>>
  /\ LET q == AddPending(Now, Reverse(seeds))
     IN  Becomes(ReadMore(IF Len(q.pending) < K THEN SeedFromTable(q) ELSE q, accepted))
  /\ UNCHANGED <<setup, destroyed>>

\* An answer of p: `named` if it carries p's id, `ok` if its error code is 0,
\* `stop` if the caller's on_reply_ calls destroy().
Response(p, named, ok, token, closer, stop, accepted) ==
  LET q == Answered(Now, p, named, ok, token, closer)
  IN  /\ p \in flight
      /\ Becomes(IF done THEN VisitEnded(Now, p)
                 ELSE IF stop THEN Destroyed(q) ELSE ReadMore(q, accepted))
      /\ destroyed' = (destroyed \/ (stop /\ ~done))
      /\ UNCHANGED <<setup, seeds, started>>

Timeout(p, accepted) ==
  LET q0 == VisitEnded(Now, p)
      q1 == [q0 EXCEPT !.seen[p] = "down", !.errors = @ + 1]
  IN  /\ p \in flight
      /\ Becomes(IF done THEN q0 ELSE ReadMore(q1, accepted))
      /\ UNCHANGED <<setup, seeds, started, destroyed>>

\* destroy() called by the owner, not from inside on_reply_.
DestroyQuery ==
  /\ started /\ ~done
  /\ Becomes(Destroyed(Now))
  /\ destroyed' = TRUE
  /\ UNCHANGED <<setup, seeds, started>>

\* The node answers the commit: the query's continuation runs.
CommitAnswer(p) ==
  LET q == [Now EXCEPT !.commits = @ \ {p}, !.toCommit = @ - 1]
  IN  /\ p \in commits
      /\ Becomes(IF AllCommitted(q) THEN Finished(q) ELSE q)
      /\ UNCHANGED <<setup, seeds, started, destroyed>>

\* The commit expires: dht_ops passed no timeout callback.
CommitTimeout(p) ==
  /\ p \in commits
  /\ commits' = commits \ {p}
  /\ UNCHANGED <<setup, seeds, started, pending, seen, inflight, flight, successes, errors, fromTable,
                 slowdown, closest, tokens, committing, toCommit, done, fired, destroyed>>

--------------------------------------------------------------------------------
\* Lists of closer nodes an answer may carry (seen_ makes a repetition harmless).
CloserLists ==
  {c \in UNION {[1 .. n -> Peers] : n \in 0 .. MaxCloser} :
     \A i, j \in DOMAIN c : c[i] = c[j] => i = j}

\* A query before start(): the bootstrap addresses are on the stack.
Nothing == [pending |-> <<>>, seen |-> [p \in Peers |-> "no"], inflight |-> 0, flight |-> {},
            successes |-> 0, errors |-> 0, fromTable |-> FALSE, slowdown |-> FALSE,
            closest |-> <<>>, tokens |-> {}, committing |-> FALSE, toCommit |-> 0,
            commits |-> {}, done |-> FALSE, fired |-> 0]

WalkInit ==
  /\ \E addresses \in BootChoices :
       LET q == AddPending(Nothing, addresses)
       IN  /\ boot = Range(q.pending)
           /\ pending = q.pending /\ seen = q.seen
  /\ hasCommit \in CommitChoices
  /\ seeds \in SeedChoices
  /\ started = FALSE
  /\ inflight = 0 /\ flight = {}
  /\ successes = 0 /\ errors = 0
  /\ fromTable = FALSE /\ slowdown = FALSE
  /\ closest = <<>> /\ tokens = {}
  /\ committing = FALSE /\ toCommit = 0 /\ commits = {}
  /\ done = FALSE /\ fired = 0 /\ destroyed = FALSE

Answer(p) ==
  \E named, ok, token, stop \in BOOLEAN, closer \in CloserLists, accepted \in Accepted :
    /\ token => named /\ ok   \* the token of another reply is not kept
    /\ stop \/ done => accepted = AtMost   \* nothing is sent
    /\ Response(p, named, ok, token, closer, stop, accepted)

WalkNext ==
  \/ \E accepted \in Accepted : Start(accepted)
  \/ \E p \in Peers : Answer(p)
  \/ \E p \in Peers, accepted \in Accepted : Timeout(p, accepted)
  \/ DestroyQuery
  \/ \E p \in Peers : CommitAnswer(p) \/ CommitTimeout(p)

WalkSpec == WalkInit /\ [][WalkNext]_walkVars

\* Every accepted request ends, by an answer or by its timer: what RpcSocket
\* guarantees under its own fairness (property Resolves there).  A node is visited
\* once and committed to once, so it is enough that as long as requests are
\* outstanding some request ends.
outstanding == <<flight, commits>>

RequestEnds ==
  /\ flight' \in SUBSET Peers /\ commits' \in SUBSET Peers
  /\ flight \ flight' # {} \/ commits \ commits' # {}

WalkFairness == WF_outstanding(RequestEnds)

FairWalkSpec == WalkSpec /\ WalkFairness

--------------------------------------------------------------------------------
(* Properties *)

\* Visits never exceed the higher of the two limits on concurrency.
MostVisits == IF Concurrency < SlowConcurrency THEN SlowConcurrency ELSE Concurrency

TypeOK ==
  /\ boot \subseteq Peers /\ hasCommit \in BOOLEAN
  /\ pending \in Seq(Peers) /\ closest \in Seq(Peers) /\ seeds \in Seq(Peers)
  /\ seen \in [Peers -> {"no", "pending", "done", "down"}]
  /\ inflight \in 0 .. MostVisits /\ successes \in Nat /\ errors \in Nat
  /\ toCommit \in Nat /\ fired \in Nat
  /\ flight \subseteq Peers /\ commits \subseteq Peers /\ tokens \subseteq Peers
  /\ started \in BOOLEAN /\ fromTable \in BOOLEAN /\ slowdown \in BOOLEAN
  /\ committing \in BOOLEAN /\ done \in BOOLEAN /\ destroyed \in BOOLEAN

\* on_done_ runs exactly once and exactly when the query is done, whichever of
\* the walk, the commit phase and one or several destroy() calls ends it first.
DoneOnce == fired = IF done THEN 1 ELSE 0

\* No node is lost and none is visited twice: a visit in flight is neither on
\* the stack nor resolved, and stack entries are distinct and unvisited.
VisitedOnce ==
  /\ \A p \in flight : seen[p] = "pending"
  /\ Range(pending) \cap flight = {}
  /\ \A i, j \in DOMAIN pending : pending[i] = pending[j] => i = j
  /\ \A p \in Range(pending) : seen[p] = "pending"
  /\ Cardinality(flight) <= inflight

\* A walk that ran to its end visited every node it learned of that is nearer
\* than the farthest node of its result: nodes skipped early stay unnecessary.
FrontierExhausted ==
  (done \/ committing) /\ ~destroyed =>
    \A p \in Peers :
      seen[p] = "pending" => Len(closest) = K /\ closest[K] < p

\* The result is sorted by distance, within its capacity and without repetition,
\* and only its nodes are committed to, each with the token it gave.
ResultSorted ==
  /\ Len(closest) <= K
  /\ \A i, j \in DOMAIN closest : i < j => closest[i] < closest[j]
  /\ commits \subseteq Range(closest) \cap tokens

\* The walk: its stack, its visits, its result and its completion fit together.
WalkInv == TypeOK /\ DoneOnce /\ VisitedOnce /\ FrontierExhausted /\ ResultSorted

\* A query that commits counts down to zero: the continuations still to come
\* never exceed the counter, so done is never reported while one is awaited.
CommitsAwaited ==
  /\ Cardinality(commits) <= toCommit
  /\ committing /\ ~destroyed /\ done => commits = {} /\ toCommit = 0

\* Every started query reports, unless it lost a visit that request() refused or
\* a commit that was refused or expired: those are counted and never end.
QueryEnds ==
  started ~> \/ fired = 1
             \/ inflight > Cardinality(flight)
             \/ toCommit > Cardinality(commits)
================================================================================
