--------------------------- MODULE RpcSocketProofs ---------------------------
(***************************************************************************)
(* Proofs about RpcSocket for every window size, queue length, retry count *)
(* and set of sessions: type correctness, the congestion window's accounts *)
(* and the promise of exactly one outcome per request (RequestPromise).    *)
(***************************************************************************)
EXTENDS RpcSocket, TLAPS, FiniteSetTheorems, SequenceTheorems

\* destroy_request is called for finitely many requests, so the number of
\* budget units returned to the congestion window is a natural number.
LEMMA BatchSize ==
  ASSUME NEW S \in SUBSET Tids
  PROVE  Cardinality(S) \in Nat
<1>1. IsFiniteSet(Tids) BY FS_Interval, RpcAssumption DEF Tids
<1>2. IsFiniteSet(S) BY <1>1, FS_Subset
<1> QED BY <1>2, FS_CardinalityType

\* CongestionWindow::recv never takes more from the current bucket than it
\* holds.
LEMMA CreditBounds ==
  ASSUME TypeOK, NEW n \in Nat
  PROVE  Credit(n) \in 0 .. window[slot]
BY DEF TypeOK, Credit, Lower, Slots

\* Replacing one bucket changes the sum of the four by the difference, and no
\* bucket exceeds the sum.
SumOf(w) == w[0] + w[1] + w[2] + w[3]

LEMMA OneBucket ==
  ASSUME NEW w \in [Slots -> Nat], NEW i \in Slots, NEW v \in Nat
  PROVE  /\ [w EXCEPT ![i] = v] \in [Slots -> Nat]
         /\ SumOf([w EXCEPT ![i] = v]) = SumOf(w) - w[i] + v
         /\ SumOf(w) \in Nat
         /\ w[i] \in 0 .. SumOf(w)
<1>1. w[0] \in Nat /\ w[1] \in Nat /\ w[2] \in Nat /\ w[3] \in Nat BY DEF Slots
<1>2. CASE i = 0 BY <1>1, <1>2 DEF SumOf, Slots
<1>3. CASE i = 1 BY <1>1, <1>3 DEF SumOf, Slots
<1>4. CASE i = 2 BY <1>1, <1>4 DEF SumOf, Slots
<1>5. CASE i = 3 BY <1>1, <1>5 DEF SumOf, Slots
<1> QED BY <1>2, <1>3, <1>4, <1>5 DEF Slots

\* WindowRecv keeps the types and the accounts.
LEMMA RecvAccounting ==
  ASSUME TypeOK, WindowAccounting, NEW n \in Nat, WindowRecv(n)
  PROVE  /\ window' \in [Slots -> Nat]
         /\ slot' \in Slots
         /\ total' \in Nat
         /\ WindowAccounting'
<1>1. window \in [Slots -> Nat] /\ slot \in Slots /\ total = SumOf(window)
  BY DEF TypeOK, WindowAccounting, SumOf
<1>2. Credit(n) \in 0 .. window[slot] /\ window[slot] \in Nat BY <1>1, CreditBounds
<1> DEFINE rest == window[slot] - Credit(n)
<1>3. rest \in Nat BY <1>2
<1>4. window' = [window EXCEPT ![slot] = rest] /\ total' = total - Credit(n) /\ slot' = slot
  BY DEF WindowRecv
<1> HIDE DEF rest
<1>5. window' \in [Slots -> Nat] /\ SumOf(window') = SumOf(window) - window[slot] + rest /\ SumOf(window) \in Nat
  BY <1>1, <1>3, <1>4, OneBucket
<1>6. total' = SumOf(window') BY <1>1, <1>2, <1>4, <1>5 DEF rest
<1>7. SumOf(window') \in Nat BY <1>1, <1>5, OneBucket
<1> QED BY <1>1, <1>4, <1>5, <1>6, <1>7 DEF WindowAccounting, SumOf

\* WindowSend keeps the types and the accounts.
LEMMA SendAccounting ==
  ASSUME TypeOK, WindowAccounting, WindowSend
  PROVE  /\ window' \in [Slots -> Nat]
         /\ slot' \in Slots
         /\ total' \in Nat
         /\ WindowAccounting'
<1>1. window \in [Slots -> Nat] /\ slot \in Slots /\ total = SumOf(window)
  BY DEF TypeOK, WindowAccounting, SumOf
<1>2. window[slot] \in Nat BY <1>1
<1> DEFINE more == window[slot] + 1
<1>3. more \in Nat /\ window' = [window EXCEPT ![slot] = more] /\ total' = total + 1 /\ slot' = slot
  BY <1>2 DEF WindowSend
<1> HIDE DEF more
<1>4. window' \in [Slots -> Nat] /\ SumOf(window') = SumOf(window) - window[slot] + more /\ SumOf(window) \in Nat
  BY <1>1, <1>3, OneBucket
<1>5. total' = SumOf(window') /\ total' \in Nat BY <1>1, <1>2, <1>3, <1>4 DEF more
<1> QED BY <1>1, <1>3, <1>4, <1>5 DEF WindowAccounting, SumOf

\* What drain() and drain_pending compute: the number of requests released
\* is bounded by the queue, and the new total is again the sum.
LEMMA DrainAccounting ==
  ASSUME TypeOK, WindowAccounting, DrainTick
  PROVE  /\ Released \in 0 .. Len(pending)
         /\ window' \in [Slots -> Nat]
         /\ slot' \in Slots
         /\ total' \in Nat
         /\ WindowAccounting'
<1>1. window \in [Slots -> Nat] /\ slot \in Slots /\ total = SumOf(window)
  BY DEF TypeOK, WindowAccounting, SumOf
<1>2. NextSlot \in Slots BY <1>1 DEF NextSlot, Slots
<1>3. window[NextSlot] \in 0 .. total /\ total \in Nat BY <1>1, <1>2, OneBucket
<1>4. Drained = total - window[NextSlot] /\ Drained \in Nat BY <1>3 DEF Drained
<1>5. Len(pending) \in Nat BY LenProperties DEF TypeOK
<1>6. Room \in Nat BY <1>4, RpcAssumption DEF Room, Lower
<1>7. Released \in 0 .. Len(pending) /\ Released \in Nat BY <1>5, <1>6 DEF Released, Lower
<1>8. window' = [window EXCEPT ![NextSlot] = Released] /\ total' = Drained + Released /\ slot' = NextSlot
  BY DEF DrainTick
<1>9. window' \in [Slots -> Nat] /\ SumOf(window') = SumOf(window) - window[NextSlot] + Released
  BY <1>1, <1>2, <1>7, <1>8, OneBucket
<1>10. total' = SumOf(window') /\ total' \in Nat BY <1>1, <1>3, <1>4, <1>7, <1>8, <1>9
<1> QED BY <1>2, <1>7, <1>8, <1>9, <1>10 DEF WindowAccounting, SumOf

--------------------------------------------------------------------------------
\* The two facts are inductive together: the accounts keep total_ from going
\* negative, the types keep the arithmetic meaningful.
Accounts == TypeOK /\ WindowAccounting

LEMMA AccountsStep == Accounts /\ [Next]_vars => Accounts'
<1> SUFFICES ASSUME Accounts, [Next]_vars PROVE Accounts'
  OBVIOUS
<1> USE DEF Accounts
<1> USE RpcAssumption
<1>1. ASSUME NEW s \in Sessions \cup {NoSession}, NEW k \in 0 .. MaxRetries, Request(s, k)
      PROVE  Accounts'
  <2>1. nextTid \in Tids BY DEF TypeOK
  <2>2. nextTid' \in Tids BY <1>1, <2>1 DEF Request, TidAfter, Tids
  <2>3. retries' \in [Tids -> 0 .. MaxRetries] BY <1>1, <2>1 DEF Request, TypeOK
  <2>4. owner' \in [Tids -> Sessions \cup {NoSession}] BY <1>1, <2>1 DEF Request, TypeOK
  <2>5. calls' = calls /\ alive' = alive /\ closing' = closing BY <1>1 DEF Request
  <2>6. ASSUME Track(s, nextTid) PROVE tracked' \in [Sessions -> SUBSET Tids]
    <3>1. CASE s = NoSession BY <2>6, <3>1 DEF Track, TypeOK
    <3>2. CASE s \in Sessions BY <2>1, <2>6, <3>2 DEF Track, TypeOK
    <3> QED BY <3>1, <3>2
  <2> DEFINE Rest == /\ st' \in [Tids -> Status] /\ sent' \in [Tids -> Nat]
                     /\ pending' \in Seq(Tids) /\ tracked' \in [Sessions -> SUBSET Tids]
                     /\ window' \in [Slots -> Nat] /\ slot' \in Slots /\ total' \in Nat
                     /\ WindowAccounting'
  <2>7. ASSUME Refuse(nextTid) PROVE Rest
    BY <2>1, <2>7 DEF Refuse, TypeOK, Status, WindowAccounting
  <2>8. ASSUME Enqueue(s, nextTid) PROVE Rest
    <3>1. pending' \in Seq(Tids) BY <2>1, <2>8, AppendProperties DEF Enqueue, TypeOK
    <3>2. tracked' \in [Sessions -> SUBSET Tids] BY <2>6, <2>8 DEF Enqueue
    <3> QED BY <2>1, <2>8, <3>1, <3>2 DEF Enqueue, TypeOK, Status, WindowAccounting
  <2>9. ASSUME SendFirst(s, nextTid) PROVE Rest
    <3>1. window' \in [Slots -> Nat] /\ slot' \in Slots /\ total' \in Nat /\ WindowAccounting'
      BY <2>9, SendAccounting DEF SendFirst
    <3>2. tracked' \in [Sessions -> SUBSET Tids] BY <2>6, <2>9 DEF SendFirst
    <3> QED BY <2>1, <2>9, <3>1, <3>2 DEF SendFirst, TypeOK, Status
  <2>10. Refuse(nextTid) \/ Enqueue(s, nextTid) \/ SendFirst(s, nextTid) BY <1>1 DEF Request
  <2>11. Rest BY <2>7, <2>8, <2>9, <2>10
  <2> HIDE DEF Rest
  <2> QED BY <2>2, <2>3, <2>4, <2>5, <2>11 DEF TypeOK, Rest
<1>2. ASSUME NEW t \in Tids, Response(t) \/ Expire(t) PROVE Accounts'
  <2>1. WindowRecv(Cardinality({t})) BY <1>2 DEF Response, Expire, DestroyRequests
  <2>2. Cardinality({t}) \in Nat BY BatchSize
  <2>3. window' \in [Slots -> Nat] /\ slot' \in Slots /\ total' \in Nat /\ WindowAccounting'
    BY <2>1, <2>2, RecvAccounting
  <2>4. tracked' \in [Sessions -> SUBSET Tids]
    <3>1. Untrack(t) /\ owner[t] \in Sessions \cup {NoSession} BY <1>2 DEF Response, Expire, TypeOK
    <3>2. CASE owner[t] = NoSession BY <3>1, <3>2 DEF Untrack, TypeOK
    <3>3. CASE owner[t] # NoSession BY <3>1, <3>3 DEF Untrack, TypeOK
    <3> QED BY <3>2, <3>3
  <2>6. st' \in [Tids -> Status]
    <3>1. DestroyRequests({t}, "answered") \/ DestroyRequests({t}, "expired") BY <1>2 DEF Response, Expire
    <3> QED BY <3>1 DEF DestroyRequests, TypeOK, Status
  <2>7. calls' \in [Tids -> Nat]
    <3>1. calls' = [calls EXCEPT ![t] = calls[t] + 1] BY <1>2 DEF Response, Expire
    <3> QED BY <3>1 DEF TypeOK
  <2>5. st' \in [Tids -> Status] /\ calls' \in [Tids -> Nat] BY <2>6, <2>7
  <2> QED BY <1>2, <2>3, <2>4, <2>5 DEF Response, Expire, TypeOK
<1>3. ASSUME NEW t \in Tids, Retry(t) PROVE Accounts'
  <2>1. window' \in [Slots -> Nat] /\ slot' \in Slots /\ total' \in Nat /\ WindowAccounting'
    BY <1>3, SendAccounting DEF Retry
  <2> QED BY <1>3, <2>1 DEF Retry, TypeOK
<1>4. CASE DrainTick
  <2>1. /\ Released \in 0 .. Len(pending)
        /\ window' \in [Slots -> Nat] /\ slot' \in Slots /\ total' \in Nat /\ WindowAccounting'
    BY <1>4, DrainAccounting
  <2>2. pending' \in Seq(Tids) BY <1>4, <2>1, SubSeqProperties DEF DrainTick, TypeOK
  <2>3. st' \in [Tids -> Status] /\ sent' \in [Tids -> Nat]
    BY <1>4 DEF DrainTick, TypeOK, Status
  <2> QED BY <1>4, <2>1, <2>2, <2>3 DEF DrainTick, TypeOK
<1>5. ASSUME NEW s \in Sessions, DestroySession(s) PROVE Accounts'
  <2>1. Cancelled(s) \in SUBSET Tids BY DEF Cancelled, TypeOK
  <2>2. WindowRecv(Cardinality(Cancelled(s))) BY <1>5 DEF DestroySession, DestroyRequests
  <2>3. window' \in [Slots -> Nat] /\ slot' \in Slots /\ total' \in Nat /\ WindowAccounting'
    BY <2>1, <2>2, BatchSize, RecvAccounting
  <2>4. st' \in [Tids -> Status]
    BY <1>5 DEF DestroySession, DestroyRequests, TypeOK, Status
  <2> QED BY <1>5, <2>3, <2>4 DEF DestroySession, TypeOK
<1>6. CASE Close
  <2>1. Cardinality({t \in Tids : st[t] = "inflight"}) \in Nat BY BatchSize
  <2>2. window' \in [Slots -> Nat] /\ slot' \in Slots /\ total' \in Nat /\ WindowAccounting'
    BY <1>6, <2>1, RecvAccounting DEF Close
  <2>3. st' \in [Tids -> Status] /\ pending' \in Seq(Tids)
    BY <1>6 DEF Close, TypeOK, Status
  <2> QED BY <1>6, <2>2, <2>3 DEF Close, TypeOK
<1>7. CASE UNCHANGED vars
  BY <1>7 DEF vars, TypeOK, WindowAccounting
<1> QED BY <1>1, <1>2, <1>3, <1>4, <1>5, <1>6, <1>7, CallersAssumption DEF Next

\* The state of the socket keeps its type, and total_ stays the sum of the
\* four buckets of the congestion window: drain() never needs its clamp.
THEOREM WindowAccountingTheorem == Spec => [](TypeOK /\ WindowAccounting)
<1>1. Init => Accounts
  <2> SUFFICES ASSUME Init PROVE TypeOK /\ WindowAccounting BY DEF Accounts
  <2>1. 0 \in 0 .. MaxRetries /\ 0 \in Slots BY RpcAssumption DEF Slots
  <2>2. WindowAccounting BY DEF Init, WindowAccounting, Slots
  <2>3. pending \in Seq(Tids) BY EmptySeq DEF Init
  <2>4. TypeOK BY <2>1, <2>3 DEF Init, TypeOK, Status
  <2> QED BY <2>2, <2>4
<1>2. QED BY <1>1, AccountsStep, PTL DEF Spec, Accounts

--------------------------------------------------------------------------------
(* The queue *)

\* Initially nothing is queued and nothing was sent.
LEMMA QueueInit == Init => QueueExact
BY DEF Init, QueueExact

\* drain_pending takes the first requests of the queue: what it sends was
\* queued, and what stays queued is the rest, in order.
LEMMA DrainSplitsQueue ==
  ASSUME Accounts, QueueExact, DrainTick
  PROVE  /\ \A t \in Tids : Leaves(t) => st[t] = "pending"
         /\ Len(pending') = Len(pending) - Released
         /\ \A i \in 1 .. Len(pending') : pending'[i] = pending[i + Released]
         /\ Released \in 0 .. Len(pending)
         /\ Len(pending) \in Nat
<1>1. Released \in 0 .. Len(pending) BY DrainAccounting DEF Accounts
<1>2. Len(pending) \in Nat /\ pending \in Seq(Tids) BY LenProperties DEF Accounts, TypeOK
<1>3. \A t \in Tids : Leaves(t) => st[t] = "pending" BY <1>1, <1>2 DEF Leaves, QueueExact
<1>4. pending' = SubSeq(pending, Released + 1, Len(pending)) BY DEF DrainTick
<1>5. /\ Len(pending') = Len(pending) - Released
      /\ \A i \in 1 .. Len(pending') : pending'[i] = pending[i + Released]
  BY <1>1, <1>2, <1>4, SubSeqProperties
<1> QED BY <1>1, <1>2, <1>3, <1>5

LEMMA QueueStep == Accounts /\ QueueExact /\ [Next]_vars => QueueExact'
<1> SUFFICES ASSUME Accounts, QueueExact, [Next]_vars PROVE QueueExact'
  OBVIOUS
<1> USE RpcAssumption
<1>0. /\ st \in [Tids -> Status] /\ sent \in [Tids -> Nat]
      /\ pending \in Seq(Tids) /\ Len(pending) \in Nat /\ nextTid \in Tids
  BY LenProperties DEF Accounts, TypeOK
<1>1. ASSUME NEW s \in Sessions \cup {NoSession}, NEW k \in 0 .. MaxRetries, Request(s, k)
      PROVE  QueueExact'
  <2>1. st[nextTid] = "free" /\ sent[nextTid] = 0 BY <1>0, <1>1 DEF Request, QueueExact
  <2>2. \A i \in 1 .. Len(pending) : pending[i] # nextTid BY <1>0, <2>1 DEF QueueExact
  <2>3. CASE Refuse(nextTid) BY <1>0, <2>1, <2>2, <2>3 DEF Refuse, QueueExact
  <2>4. CASE Enqueue(s, nextTid)
    <3>1. /\ Len(pending') = Len(pending) + 1
          /\ \A i \in 1 .. Len(pending) : pending'[i] = pending[i]
          /\ pending'[Len(pending) + 1] = nextTid
      BY <1>0, <2>4, AppendProperties DEF Enqueue
    <3>2. st' = [st EXCEPT ![nextTid] = "pending"] /\ sent' = sent BY <2>4 DEF Enqueue
    <3> DEFINE n == Len(pending)
    <3>3. \A i \in 1 .. n + 1 : i \in 1 .. n \/ i = n + 1 BY <1>0
    <3>4. ASSUME NEW t \in Tids
          PROVE  st'[t] = "pending" <=> \E i \in 1 .. Len(pending') : pending'[i] = t
      <4>1. CASE t = nextTid
        <5>1. n + 1 \in 1 .. Len(pending') BY <1>0, <3>1
        <5> QED BY <1>0, <3>1, <3>2, <4>1, <5>1
      <4>2. CASE t # nextTid
        <5>1. st'[t] = st[t] BY <1>0, <3>2, <4>2
        <5>2. st[t] = "pending" <=> \E i \in 1 .. n : pending[i] = t BY DEF QueueExact
        <5>3. ASSUME NEW i \in 1 .. Len(pending'), pending'[i] = t
              PROVE  i \in 1 .. n /\ pending[i] = t
          BY <3>1, <3>3, <4>2, <5>3
        <5>4. ASSUME NEW i \in 1 .. n, pending[i] = t
              PROVE  i \in 1 .. Len(pending') /\ pending'[i] = t
          BY <1>0, <3>1, <5>4
        <5> QED BY <5>1, <5>2, <5>3, <5>4
      <4> QED BY <4>1, <4>2
    <3>5. ASSUME NEW i \in 1 .. Len(pending'), NEW j \in 1 .. Len(pending'), pending'[i] = pending'[j]
          PROVE  i = j
      <4>1. i \in 1 .. n /\ j \in 1 .. n => i = j BY <3>1, <3>5 DEF QueueExact
      <4>2. (i \in 1 .. n \/ i = n + 1) /\ (j \in 1 .. n \/ j = n + 1) BY <3>1, <3>3
      <4> QED BY <2>2, <3>1, <3>5, <4>1, <4>2
    <3>6. \A t \in Tids : st'[t] \in {"free", "pending", "refused"} => sent'[t] = 0
      BY <1>0, <2>1, <3>2 DEF QueueExact
    <3> QED BY <3>4, <3>5, <3>6 DEF QueueExact
  <2>5. CASE SendFirst(s, nextTid) BY <1>0, <2>1, <2>2, <2>5 DEF SendFirst, QueueExact
  <2> QED BY <1>1, <2>3, <2>4, <2>5 DEF Request
<1>2. ASSUME NEW t \in Tids, Response(t) \/ Expire(t) PROVE QueueExact'
  <2>1. /\ st[t] = "inflight" /\ pending' = pending /\ sent' = sent
        /\ \A u \in Tids : st'[u] = IF u = t THEN st'[t] ELSE st[u]
        /\ st'[t] \in {"answered", "expired"}
    BY <1>2 DEF Response, Expire, DestroyRequests, FindInflight
  <2>2. \A u \in Tids : st'[u] = "pending" <=> st[u] = "pending" BY <2>1
  <2>3. \A u \in Tids : st'[u] \in {"free", "pending", "refused"} => sent'[u] = 0
    BY <2>1 DEF QueueExact
  <2> QED BY <2>1, <2>2, <2>3 DEF QueueExact
<1>3. ASSUME NEW t \in Tids, Retry(t) PROVE QueueExact'
  BY <1>0, <1>3 DEF Retry, QueueExact
<1>4. CASE DrainTick
  <2>1. /\ \A t \in Tids : Leaves(t) => st[t] = "pending"
        /\ Len(pending') = Len(pending) - Released
        /\ \A i \in 1 .. Len(pending') : pending'[i] = pending[i + Released]
        /\ Released \in 0 .. Len(pending)
    BY <1>4, DrainSplitsQueue
  <2>2. \A t \in Tids : st'[t] = (IF Leaves(t) THEN "inflight" ELSE st[t])
                        /\ sent'[t] = (IF Leaves(t) THEN sent[t] + 1 ELSE sent[t])
    BY <1>4 DEF DrainTick
  <2>3. \A i, j \in 1 .. Len(pending') : pending'[i] = pending'[j] => i = j
    BY <1>0, <2>1 DEF QueueExact
  <2>4. ASSUME NEW t \in Tids
        PROVE  st'[t] = "pending" <=> \E i \in 1 .. Len(pending') : pending'[i] = t
    <3>1. ASSUME st'[t] = "pending" PROVE \E i \in 1 .. Len(pending') : pending'[i] = t
      <4>1. ~Leaves(t) /\ st[t] = "pending" BY <2>2, <3>1
      <4>2. PICK i \in 1 .. Len(pending) : pending[i] = t BY <4>1 DEF QueueExact
      <4>3. i > Released BY <1>0, <2>1, <4>1, <4>2 DEF Leaves
      <4>4. i - Released \in 1 .. Len(pending') /\ pending'[i - Released] = t
        BY <1>0, <2>1, <4>2, <4>3
      <4> QED BY <4>4
    <3>2. ASSUME NEW i \in 1 .. Len(pending'), pending'[i] = t PROVE st'[t] = "pending"
      <4>1. i + Released \in 1 .. Len(pending) /\ pending[i + Released] = t
        BY <1>0, <2>1, <3>2
      <4>2. st[t] = "pending" BY <4>1 DEF QueueExact
      <4>3. ~Leaves(t) BY <1>0, <2>1, <4>1 DEF Leaves, QueueExact
      <4> QED BY <2>2, <4>2, <4>3
    <3> QED BY <3>1, <3>2
  <2>5. \A t \in Tids : st'[t] \in {"free", "pending", "refused"} => sent'[t] = 0
    BY <1>0, <2>2 DEF QueueExact
  <2> QED BY <2>3, <2>4, <2>5 DEF QueueExact
<1>5. ASSUME NEW s \in Sessions, DestroySession(s) PROVE QueueExact'
  <2>1. /\ pending' = pending /\ sent' = sent
        /\ \A t \in Tids : \/ st'[t] = st[t]
                           \/ st[t] = "inflight" /\ st'[t] = "cancelled"
    BY <1>5 DEF DestroySession, DestroyRequests, Cancelled, FindInflight
  <2> QED BY <1>0, <2>1 DEF QueueExact
<1>6. CASE Close
  <2>1. /\ pending' = <<>> /\ sent' = sent
        /\ \A t \in Tids : IF st[t] \in {"pending", "inflight"}
                           THEN st'[t] = "cancelled" ELSE st'[t] = st[t]
    BY <1>6 DEF Close, Outstanding
  <2> QED BY <1>0, <2>1 DEF QueueExact
<1>7. CASE UNCHANGED vars BY <1>7 DEF vars, QueueExact
<1> QED BY <1>1, <1>2, <1>3, <1>4, <1>5, <1>6, <1>7, CallersAssumption DEF Next

\* pending_ holds exactly the queued, never sent requests, once each, for every
\* size of the window and of the queue.
THEOREM QueueExactTheorem == Spec => []QueueExact
<1>1. Spec => [](TypeOK /\ WindowAccounting) BY WindowAccountingTheorem
<1>2. QED BY <1>1, QueueInit, QueueStep, PTL DEF Spec, Accounts

--------------------------------------------------------------------------------
(* The promise to callers *)

\* What one step can do to one request, in terms of its status and its
\* callbacks.
Fate(t) ==
  \/ st'[t] = st[t] /\ calls'[t] = calls[t]
  \/ st[t] = "pending" /\ st'[t] = "inflight" /\ calls'[t] = calls[t]
  \/ st[t] = "free" /\ st'[t] \in {"refused", "pending", "inflight"} /\ calls'[t] = calls[t]
  \/ st[t] = "inflight" /\ st'[t] \in {"answered", "expired"} /\ calls'[t] = calls[t] + 1
  \/ st[t] \in {"pending", "inflight"} /\ st'[t] = "cancelled" /\ calls'[t] = calls[t]

LEMMA FateStep ==
  Accounts /\ QueueExact /\ [Next]_vars => \A t \in Tids : Fate(t)
<1> SUFFICES ASSUME Accounts, QueueExact, [Next]_vars, NEW u \in Tids PROVE Fate(u)
  OBVIOUS
<1>0. st \in [Tids -> Status] /\ calls \in [Tids -> Nat] /\ nextTid \in Tids
  BY DEF Accounts, TypeOK
<1>1. ASSUME NEW s \in Sessions \cup {NoSession}, NEW k \in 0 .. MaxRetries, Request(s, k)
      PROVE  Fate(u)
  <2>1. calls' = calls /\ st[nextTid] = "free" BY <1>1 DEF Request
  <2>2. \E o \in {"refused", "pending", "inflight"} : st' = [st EXCEPT ![nextTid] = o]
    BY <1>1 DEF Request, Refuse, Enqueue, SendFirst
  <2> QED BY <1>0, <2>1, <2>2 DEF Fate
<1>2. ASSUME NEW t \in Tids, Response(t) \/ Expire(t) PROVE Fate(u)
  <2>1. /\ st[t] = "inflight" /\ calls' = [calls EXCEPT ![t] = @ + 1]
        /\ \A v \in Tids : st'[v] = IF v = t THEN st'[t] ELSE st[v]
        /\ st'[t] \in {"answered", "expired"}
    BY <1>2 DEF Response, Expire, DestroyRequests, FindInflight
  <2> QED BY <1>0, <2>1 DEF Fate
<1>3. ASSUME NEW t \in Tids, Retry(t) PROVE Fate(u) BY <1>3 DEF Retry, Fate
<1>4. CASE DrainTick
  <2>1. Leaves(u) => st[u] = "pending" BY <1>4, DrainSplitsQueue
  <2> QED BY <1>4, <2>1 DEF DrainTick, Fate
<1>5. ASSUME NEW s \in Sessions, DestroySession(s) PROVE Fate(u)
  BY <1>5 DEF DestroySession, DestroyRequests, Cancelled, FindInflight, Fate
<1>6. CASE Close BY <1>6 DEF Close, Outstanding, Fate
<1>7. CASE UNCHANGED vars BY <1>7 DEF vars, Fate
<1> QED BY <1>1, <1>2, <1>3, <1>4, <1>5, <1>6, <1>7, CallersAssumption DEF Next

\* A request's callbacks run at most once in all, and exactly once if it was
\* answered or expired: late and repeated datagrams and timers add none.
THEOREM CallbackOnceTheorem == Spec => []CallbackOnce
<1>1. Spec => [](TypeOK /\ WindowAccounting) BY WindowAccountingTheorem
<1>2. Spec => []QueueExact BY QueueExactTheorem
<1>3. Init => CallbackOnce BY DEF Init, CallbackOnce
<1>4. Accounts /\ QueueExact /\ CallbackOnce /\ [Next]_vars => CallbackOnce'
  <2> SUFFICES ASSUME Accounts, QueueExact, CallbackOnce, [Next]_vars, NEW t \in Tids
               PROVE  calls'[t] = IF st'[t] \in {"answered", "expired"} THEN 1 ELSE 0
    BY DEF CallbackOnce
  <2>1. Fate(t) BY FateStep
  <2>2. calls[t] = IF st[t] \in {"answered", "expired"} THEN 1 ELSE 0 BY DEF CallbackOnce
  <2> QED BY <2>1, <2>2 DEF Fate
<1>5. QED BY <1>1, <1>2, <1>3, <1>4, PTL DEF Spec, Accounts

--------------------------------------------------------------------------------
(* Retries and Sessions *)

\* on_request_timeout gives up exactly when the budget of sends is used up, and
\* neither the queue nor a drain tick sends a request once too often.
THEOREM RetryBudgetTheorem == Spec => []RetryBudget
<1>1. Spec => [](TypeOK /\ WindowAccounting) BY WindowAccountingTheorem
<1>2. Spec => []QueueExact BY QueueExactTheorem
<1>3. Init => RetryBudget BY DEF Init, RetryBudget
<1>4. Accounts /\ QueueExact /\ RetryBudget /\ [Next]_vars => RetryBudget'
  <2> SUFFICES ASSUME Accounts, QueueExact, RetryBudget, [Next]_vars, NEW u \in Tids
               PROVE  /\ sent'[u] <= retries'[u] + 1
                      /\ st'[u] = "expired" => sent'[u] = retries'[u] + 1
    BY DEF RetryBudget
  <2> DEFINE Goal == /\ sent'[u] <= retries'[u] + 1
                     /\ st'[u] = "expired" => sent'[u] = retries'[u] + 1
  <2>0. /\ st \in [Tids -> Status] /\ sent \in [Tids -> Nat] /\ nextTid \in Tids
        /\ retries \in [Tids -> 0 .. MaxRetries] /\ MaxRetries \in Nat
        /\ sent[u] <= retries[u] + 1
        /\ st[u] = "expired" => sent[u] = retries[u] + 1
        /\ st[u] \in {"free", "pending", "refused"} => sent[u] = 0
    BY RpcAssumption DEF Accounts, TypeOK, QueueExact, RetryBudget
  <2>1. ASSUME NEW s \in Sessions \cup {NoSession}, NEW k \in 0 .. MaxRetries, Request(s, k)
        PROVE  Goal
    <3>1. st[nextTid] = "free" /\ retries' = [retries EXCEPT ![nextTid] = k] BY <2>1 DEF Request
    <3>2. /\ sent' = sent \/ sent' = [sent EXCEPT ![nextTid] = 1]
          /\ \E o \in {"refused", "pending", "inflight"} : st' = [st EXCEPT ![nextTid] = o]
      BY <2>1 DEF Request, Refuse, Enqueue, SendFirst
    <3> QED BY <2>0, <3>1, <3>2
  <2>2. ASSUME NEW t \in Tids, Response(t) PROVE Goal
    BY <2>0, <2>2 DEF Response, DestroyRequests
  <2>3. ASSUME NEW t \in Tids, Expire(t) PROVE Goal
    BY <2>0, <2>3 DEF Expire, DestroyRequests, RetriesLeft
  <2>4. ASSUME NEW t \in Tids, Retry(t) PROVE Goal
    BY <2>0, <2>4 DEF Retry, RetriesLeft
  <2>5. CASE DrainTick
    <3>1. Leaves(u) => st[u] = "pending" BY <2>5, DrainSplitsQueue
    <3> QED BY <2>0, <2>5, <3>1 DEF DrainTick
  <2>6. ASSUME NEW s \in Sessions, DestroySession(s) PROVE Goal
    BY <2>0, <2>6 DEF DestroySession, DestroyRequests
  <2>7. CASE Close BY <2>0, <2>7 DEF Close
  <2>8. CASE UNCHANGED vars BY <2>0, <2>8 DEF vars
  <2> QED BY <2>1, <2>2, <2>3, <2>4, <2>5, <2>6, <2>7, <2>8, CallersAssumption DEF Next
<1>5. QED BY <1>1, <1>2, <1>3, <1>4, PTL DEF Spec, Accounts

\* Of the requests that a Session issued, the ones it remembers are those that
\* are queued or in flight (all but one with id 0): no answer, timeout, drain
\* tick or destruction of another Session leaves a stale id or drops a live one.
THEOREM SessionTracksTheorem == Spec => []SessionTracks
<1> DEFINE Mine(s) == {t \in Tids \ {0} : owner[t] = s /\ st[t] \in {"pending", "inflight"}}
<1>1. Spec => [](TypeOK /\ WindowAccounting) BY WindowAccountingTheorem
<1>2. Spec => []QueueExact BY QueueExactTheorem
<1>3. Init => SessionTracks BY DEF Init, SessionTracks
<1>4. Accounts /\ QueueExact /\ SessionTracks /\ [Next]_vars => SessionTracks'
  <2> SUFFICES ASSUME Accounts, QueueExact, SessionTracks, [Next]_vars,
                      ~closing', NEW r \in Sessions, alive'[r]
               PROVE  tracked'[r] = Mine(r)'
    BY DEF SessionTracks
  <2>0. /\ st \in [Tids -> Status] /\ nextTid \in Tids
        /\ owner \in [Tids -> Sessions \cup {NoSession}]
        /\ tracked \in [Sessions -> SUBSET Tids] /\ alive \in [Sessions -> BOOLEAN]
        /\ NoSession \notin Sessions
    BY RpcAssumption DEF Accounts, TypeOK
  <2>1. ~closing /\ alive[r] => tracked[r] = Mine(r) BY DEF SessionTracks
  <2>2. ASSUME NEW s \in Sessions \cup {NoSession}, NEW k \in 0 .. MaxRetries, Request(s, k)
        PROVE  tracked'[r] = Mine(r)'
    <3>1. /\ st[nextTid] = "free" /\ owner' = [owner EXCEPT ![nextTid] = s]
          /\ tracked[r] = Mine(r)
      BY <2>1, <2>2 DEF Request
    <3>2. CASE Refuse(nextTid) BY <2>0, <3>1, <3>2 DEF Refuse
    <3>3. CASE Enqueue(s, nextTid) \/ SendFirst(s, nextTid)
      <4>1. /\ Track(s, nextTid)
            /\ \E o \in {"pending", "inflight"} : st' = [st EXCEPT ![nextTid] = o]
        BY <3>3 DEF Enqueue, SendFirst
      <4>2. CASE s = r BY <2>0, <3>1, <4>1, <4>2 DEF Track
      <4>3. CASE s # r BY <2>0, <3>1, <4>1, <4>3 DEF Track
      <4> QED BY <4>2, <4>3
    <3> QED BY <2>2, <3>2, <3>3 DEF Request
  <2>3. ASSUME NEW t \in Tids, Response(t) \/ Expire(t) PROVE tracked'[r] = Mine(r)'
    <3>1. /\ st[t] = "inflight" /\ owner' = owner /\ Untrack(t) /\ tracked[r] = Mine(r)
          /\ \A u \in Tids : st'[u] = IF u = t THEN st'[t] ELSE st[u]
          /\ st'[t] \in {"answered", "expired"}
      BY <2>1, <2>3 DEF Response, Expire, DestroyRequests, FindInflight
    <3>2. CASE owner[t] = r BY <2>0, <3>1, <3>2 DEF Untrack
    <3>3. CASE owner[t] # r
      <4>1. tracked'[r] = tracked[r] BY <2>0, <3>1, <3>3 DEF Untrack
      <4>2. Mine(r)' = Mine(r) BY <2>0, <3>1, <3>3
      <4> QED BY <3>1, <4>1, <4>2
    <3> QED BY <3>2, <3>3
  <2>4. ASSUME NEW t \in Tids, Retry(t) PROVE tracked'[r] = Mine(r)'
    BY <2>1, <2>4 DEF Retry
  <2>5. CASE DrainTick
    <3>1. \A u \in Tids : Leaves(u) => st[u] = "pending" BY <2>5, DrainSplitsQueue
    <3>2. /\ tracked[r] = Mine(r) /\ owner' = owner /\ tracked' = tracked
          /\ \A u \in Tids : st'[u] \in {"pending", "inflight"} <=> st[u] \in {"pending", "inflight"}
      BY <2>1, <2>5, <3>1 DEF DrainTick
    <3> QED BY <3>2
  <2>6. ASSUME NEW s \in Sessions, DestroySession(s) PROVE tracked'[r] = Mine(r)'
    <3>1. /\ s # r /\ closing' = closing /\ owner' = owner /\ tracked'[r] = tracked[r]
          /\ tracked[r] = Mine(r) /\ alive[s]
          /\ \A u \in Tids : st'[u] = IF u \in Cancelled(s) THEN "cancelled" ELSE st[u]
      BY <2>0, <2>1, <2>6 DEF DestroySession, DestroyRequests
    <3>2. \A u \in Cancelled(s) : owner[u] = s BY <3>1 DEF SessionTracks, Cancelled
    <3>3. \A u \in Tids : owner[u] = r => st'[u] = st[u] BY <3>1, <3>2
    <3> QED BY <3>1, <3>3
  <2>7. CASE Close BY <2>7 DEF Close
  <2>8. CASE UNCHANGED vars BY <2>1, <2>8 DEF vars
  <2> QED BY <2>2, <2>3, <2>4, <2>5, <2>6, <2>7, <2>8, CallersAssumption DEF Next
<1>5. QED BY <1>1, <1>2, <1>3, <1>4, PTL DEF Spec, Accounts

\* Requests, queue, callbacks, retries and Sessions fit together.
THEOREM RequestInvTheorem == Spec => []RequestInv
BY WindowAccountingTheorem, QueueExactTheorem, CallbackOnceTheorem, RetryBudgetTheorem,
   SessionTracksTheorem, PTL DEF RequestInv

--------------------------------------------------------------------------------
(* Refinement *)

\* RpcSocket implements RequestPromise: through congestion, retries, session
\* teardown and close() a request has one outcome and keeps it.
THEOREM KeepsPromiseTheorem == Spec => KeepsPromise
<1> DEFINE o == [t \in Tids |-> Outcome(t)]
<1>1. Spec => [](TypeOK /\ WindowAccounting) BY WindowAccountingTheorem
<1>2. Spec => []QueueExact BY QueueExactTheorem
<1>3. Init => Promise!Init BY DEF Init, Promise!Init, Outcome
<1>4. Accounts /\ QueueExact /\ [Next]_vars => [Promise!Next]_o
  <2> SUFFICES ASSUME Accounts, QueueExact, [Next]_vars, o' # o PROVE Promise!Next
    OBVIOUS
  <2>1. \A t \in Tids : Fate(t) BY FateStep
  <2>2. st \in [Tids -> Status] BY DEF Accounts, TypeOK
  <2>3. \A t \in Tids : Fate(t) => \/ o'[t] = o[t]
                                   \/ o[t] = "idle" /\ o'[t] \in {"outstanding", "refused"}
                                   \/ o[t] = "outstanding" /\ o'[t] \in {"answered", "expired"}
                                   \/ o[t] = "outstanding" /\ o'[t] = "cancelled"
    BY <2>2 DEF Fate, Outcome, Status
  <2>4. ASSUME NEW u \in Tids, \A t \in Tids \ {u} : st'[t] = st[t] PROVE Promise!Next
    <3>1. o' = [o EXCEPT ![u] = o'[u]] BY <2>4 DEF Outcome
    <3>2. o'[u] # o[u] BY <2>4 DEF Outcome
    <3>3. CASE o[u] = "outstanding" /\ o'[u] = "cancelled"
      <4>1. Promise!Cancel({u}) BY <3>1, <3>3 DEF Promise!Cancel
      <4> QED BY <4>1 DEF Promise!Next
    <3>4. CASE o[u] = "idle" /\ o'[u] \in {"outstanding", "refused"}
      <4>1. Promise!Submit(u, o'[u]) BY <3>1, <3>4 DEF Promise!Submit
      <4> QED BY <3>4, <4>1 DEF Promise!Next, Promise!Outcomes
    <3>5. CASE o[u] = "outstanding" /\ o'[u] \in {"answered", "expired"}
      <4>1. Promise!Complete(u, o'[u]) BY <3>1, <3>5 DEF Promise!Complete
      <4> QED BY <3>5, <4>1 DEF Promise!Next, Promise!Outcomes
    <3> QED BY <2>1, <2>3, <3>2, <3>3, <3>4, <3>5
  <2>5. ASSUME NEW S \in SUBSET Tids, \A t \in S : st[t] \in {"pending", "inflight"},
               \A t \in Tids : st'[t] = IF t \in S THEN "cancelled" ELSE st[t]
        PROVE  Promise!Next
    <3>1. Promise!Cancel(S) BY <2>5 DEF Promise!Cancel, Outcome
    <3> QED BY <3>1 DEF Promise!Next
  <2>6. ASSUME NEW s \in Sessions \cup {NoSession}, NEW k \in 0 .. MaxRetries, Request(s, k)
        PROVE  Promise!Next
    <3>1. nextTid \in Tids BY DEF Accounts, TypeOK
    <3>2. \A t \in Tids \ {nextTid} : st'[t] = st[t]
      BY <2>2, <2>6 DEF Request, Refuse, Enqueue, SendFirst
    <3> QED BY <2>4, <3>1, <3>2
  <2>7. ASSUME NEW t \in Tids, Response(t) \/ Expire(t) PROVE Promise!Next
    <3>1. \A u \in Tids \ {t} : st'[u] = st[u] BY <2>7 DEF Response, Expire, DestroyRequests
    <3> QED BY <2>4, <3>1
  <2>8. ASSUME NEW t \in Tids, Retry(t) PROVE Promise!Next
    BY <2>8 DEF Retry, Outcome
  <2>9. CASE DrainTick
    <3>1. \A t \in Tids : Leaves(t) => st[t] = "pending" BY <2>9, DrainSplitsQueue
    <3>2. \A t \in Tids : o'[t] = o[t] BY <2>9, <3>1 DEF DrainTick, Outcome
    <3> QED BY <3>2
  <2>10. ASSUME NEW s \in Sessions, DestroySession(s) PROVE Promise!Next
    <3>1. Cancelled(s) \in SUBSET Tids BY DEF Cancelled, Accounts, TypeOK
    <3> QED BY <2>5, <2>10, <3>1 DEF DestroySession, DestroyRequests, Cancelled, FindInflight
  <2>11. CASE Close
    <3> DEFINE S == {t \in Tids : st[t] \in {"pending", "inflight"}}
    <3>1. \A t \in Tids : st'[t] = IF t \in S THEN "cancelled" ELSE st[t]
      BY <2>11 DEF Close, Outstanding
    <3> QED BY <2>5, <3>1
  <2>12. CASE UNCHANGED vars BY <2>12 DEF vars, Outcome
  <2> QED BY <2>6, <2>7, <2>8, <2>9, <2>10, <2>11, <2>12, CallersAssumption DEF Next
<1>5. QED BY <1>1, <1>2, <1>3, <1>4, PTL DEF Spec, Accounts, KeepsPromise, Promise!Spec
================================================================================
