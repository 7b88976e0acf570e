------------------------ MODULE ServerSessionsProofs ------------------------
(***************************************************************************)
(* Proofs about ServerSessions, for every set of handshakes and all bounds *)
(* on sessions.  The tables are changed in two ways only: sessions leave   *)
(* (lemma Leaving) or a handshake is decided (lemma Deciding).             *)
(***************************************************************************)
EXTENDS ServerSessions, FiniteSetTheorems, TLAPS

\* A number that is not yet taken, and one whose firewall decision is awaited,
\* has left no trace but its handshake.
Fresh ==
  /\ \A i \in waiting : i < nextId /\ key[i] \in Handshakes
  /\ \A i \in Ids : i >= nextId \/ i \in waiting => raw[i] = "none"

\* With a synchronous firewall every stored session is found by its handshake.
DedupComplete ==
  ~async => waiting = {} /\ \A i \in connections : key[i] \in Handshakes /\ dedup[key[i]] = i

\* suspend() and close() leave no session behind.
StoppedEmpty == status # "open" => connections = {}

\* The inductive invariant.
Sessions ==
  /\ TypeOK
  /\ TablesAgree
  /\ Fresh
  /\ DirectOnce
  /\ DedupExact
  /\ DedupComplete
  /\ StoppedEmpty
  /\ PendingBounded

--------------------------------------------------------------------------------
(* MAX_PENDING_HANDSHAKES *)

LEMMA ConnectionsFinite ==
  ASSUME NEW S \in SUBSET Ids
  PROVE  IsFiniteSet(S)
<1>1. IsFiniteSet(Ids)
  BY FS_Interval, ServerAssumption DEF Ids
<1> QED BY <1>1, FS_Subset

LEMMA SmallerStillBounded ==
  ASSUME TypeOK, PendingBounded, connections' \subseteq connections
  PROVE  PendingBounded'
<1>1. IsFiniteSet(connections)
  BY ConnectionsFinite DEF TypeOK
<1>2. IsFiniteSet(connections') /\ Cardinality(connections') <= Cardinality(connections)
  BY <1>1, FS_Subset
<1> QED BY <1>1, <1>2, FS_CardinalityType, ServerAssumption DEF PendingBounded

LEMMA OneMoreStillBounded ==
  ASSUME TypeOK, HasRoom, NEW i \in Ids, connections' = connections \cup {i}
  PROVE  PendingBounded'
<1>1. IsFiniteSet(connections)
  BY ConnectionsFinite DEF TypeOK
<1>2. Cardinality(connections') <= Cardinality(connections) + 1
  BY <1>1, FS_AddElement, FS_CardinalityType
<1>3. Cardinality(connections) \in Nat /\ Cardinality(connections') \in Nat
  BY <1>1, FS_AddElement, FS_CardinalityType
<1> QED BY <1>2, <1>3, ServerAssumption DEF HasRoom, PendingBounded

--------------------------------------------------------------------------------
(* Handshake deduplication *)

\* Distinct handshakes have distinct live sessions: handshake_dedup_ never
\* outgrows connections_, so on_peer_handshake never empties it.
LEMMA NeverTrimmed ==
  ASSUME Sessions
  PROVE  Trimmed = dedup
<1>1. IsFiniteSet(connections)
  BY ConnectionsFinite DEF Sessions, TypeOK
<1>2. /\ IsFiniteSet(Entries)
      /\ Cardinality(Entries) <= Cardinality(connections)
  <2> DEFINE f == [g \in Entries |-> dedup[g]]
  <2>1. f \in Injection(Entries, connections)
    BY DEF Injection, IsInjective, Entries, Sessions, DedupExact
  <2> QED BY <2>1, <1>1, FS_Injection
<1>3. ~(Cardinality(Entries) > 2 * Cardinality(connections))
  BY <1>1, <1>2, FS_CardinalityType
<1> QED BY <1>3 DEF Trimmed

\* A handshake that is not repeated has no entry.
LEMMA DedupKept ==
  ASSUME Sessions, NEW h \in Handshakes, ~Repeated(h)
  PROVE  KeptDedup(h) = dedup
<1>1. dedup[h] = NoSession
  BY NeverTrimmed DEF Repeated, Sessions, DedupExact
<1>2. [dedup EXCEPT ![h] = NoSession] = dedup
  BY <1>1 DEF Sessions, TypeOK
<1> QED BY <1>2, NeverTrimmed DEF KeptDedup

--------------------------------------------------------------------------------
(* The two ways in which the tables change *)

\* Sessions leave the tables together; their streams are destroyed or go to the
\* application.
LEMMA Leaving ==
  ASSUME Sessions,
         NEW S \in SUBSET connections, NEW owner \in {"application", "destroyed"},
         EndSessions(S, owner),
         direct' = [i \in Ids |-> IF i \in S /\ owner = "application"
                                  THEN direct[i] + 1 ELSE direct[i]],
         status' \in {"open", "suspended", "closed"},
         status' = status \/ S = connections,
         relay' \in [Ids -> {"none", "connecting", "pairing", "over"}],
         relayed' \in [Ids -> Nat],
         UNCHANGED <<async, nextId, key, waiting>>
  PROVE  Sessions'
<1> USE DEF EndSessions, Forget, Sessions
<1>1. TypeOK'
  BY DEF TypeOK
<1>2. TablesAgree'
  BY DEF TypeOK, TablesAgree
<1>3. Fresh'
  BY DEF Fresh, TypeOK, TablesAgree
<1>4. DirectOnce'
  BY DEF DirectOnce, TypeOK, TablesAgree
<1>5. DedupExact'
  BY ServerAssumption DEF DedupExact, TypeOK, Ids
<1>6. DedupComplete'
  BY ServerAssumption DEF DedupComplete, DedupExact, TypeOK, Ids
<1>7. StoppedEmpty'
  BY DEF StoppedEmpty
<1>8. PendingBounded'
  BY SmallerStillBounded DEF TypeOK
<1> QED BY <1>1, <1>2, <1>3, <1>4, <1>5, <1>6, <1>7, <1>8

\* A handshake with a fresh number is decided: stored, connected at once or
\* refused.
LEMMA Deciding ==
  ASSUME Sessions,
         NEW i \in Ids, NEW h \in Handshakes, i >= nextId \/ i \in waiting,
         key' = [key EXCEPT ![i] = h],
         async \/ ~Repeated(h),
         NEW ok \in BOOLEAN, NEW open \in BOOLEAN, NEW viaRelay \in BOOLEAN,
         HandshakeResult(i, dedup, ok, open, viaRelay),
         nextId' \in 0 .. MaxSessions, nextId' >= nextId, i < nextId',
         waiting' = waiting \ {i},
         status = "open", UNCHANGED <<status, async, relayed>>
  PROVE  Sessions'
<1> USE DEF Sessions
<1>0. i \notin connections /\ raw[i] = "none" /\ direct[i] # 1
  BY DEF Fresh, TablesAgree, DirectOnce
<1>k. \A j \in Ids : key'[j] = IF j = i THEN h ELSE key[j]
  BY DEF TypeOK
<1>s. ASSUME ~async'
      PROVE  /\ waiting = {} /\ waiting' = {}
             /\ \A j \in connections : key[j] \in Handshakes /\ dedup[key[j]] = j /\ key[j] # h
  BY <1>s, NeverTrimmed DEF DedupComplete, Repeated
<1>r. \A j \in Ids : j # i => raw'[j] = raw[j]
  BY DEF HandshakeResult, Store, ConnectOpen, TypeOK
<1>f. Fresh'
  <2>1. ASSUME NEW j \in waiting' PROVE j < nextId' /\ key'[j] \in Handshakes
    <3>1. j \in Ids /\ j \in waiting /\ j < nextId /\ key[j] \in Handshakes
      BY <2>1 DEF Fresh, TypeOK
    <3>2. j < nextId'
      BY <3>1, ServerAssumption DEF TypeOK, Ids
    <3> QED BY <1>k, <3>1, <3>2
  <2>2. ASSUME NEW j \in Ids, j >= nextId' \/ j \in waiting' PROVE raw'[j] = "none"
    <3>1. j # i /\ (j >= nextId \/ j \in waiting)
      BY <2>2, ServerAssumption DEF TypeOK, Ids
    <3>2. raw[j] = "none"
      BY <3>1 DEF Fresh
    <3> QED BY <1>r, <3>1, <3>2
  <2> QED BY <2>1, <2>2 DEF Fresh
<1>1. CASE HasRoom /\ ok /\ ~open
  <2> USE <1>0, <1>1 DEF HandshakeResult, Store
  <2>1. TypeOK'
    BY DEF TypeOK
  <2>2. TablesAgree'
    <3>1. \A j \in Ids : raw'[j] = IF j = i THEN "session" ELSE raw[j]
      BY DEF TypeOK
    <3> QED BY <3>1 DEF TablesAgree
  <2>3. Fresh'
    BY <1>f
  <2>4. DirectOnce'
    BY DEF DirectOnce, TypeOK
  <2>d. \A g \in Handshakes : dedup'[g] = IF g = h THEN i ELSE dedup[g]
    BY <1>k DEF TypeOK
  <2>5. DedupExact'
    BY <1>k, <2>d DEF DedupExact, TypeOK
  <2>6. DedupComplete'
    <3> SUFFICES ASSUME ~async', NEW j \in connections'
                 PROVE  waiting' = {} /\ key'[j] \in Handshakes /\ dedup'[key'[j]] = j
      BY <1>s DEF DedupComplete
    <3> QED BY <1>k, <1>s, <2>d DEF TypeOK
  <2>7. StoppedEmpty' /\ PendingBounded'
    BY OneMoreStillBounded DEF StoppedEmpty
  <2> QED BY <2>1, <2>2, <2>3, <2>4, <2>5, <2>6, <2>7
<1>2. CASE HasRoom /\ ok /\ open
  <2> USE <1>0, <1>2 DEF HandshakeResult, ConnectOpen
  <2>1. TypeOK'
    BY DEF TypeOK
  <2>2. TablesAgree'
    BY DEF TypeOK, TablesAgree
  <2>3. Fresh'
    BY <1>f
  <2>4. DirectOnce'
    BY DEF DirectOnce, TypeOK
  <2>5. DedupExact'
    BY <1>k, ServerAssumption DEF DedupExact, TypeOK, Ids
  <2>6. DedupComplete'
    BY <1>k, <1>s DEF DedupComplete, TypeOK
  <2>7. StoppedEmpty' /\ PendingBounded'
    BY DEF StoppedEmpty, PendingBounded
  <2> QED BY <2>1, <2>2, <2>3, <2>4, <2>5, <2>6, <2>7
<1>3. CASE ~(HasRoom /\ ok)
  <2> USE <1>0, <1>3 DEF HandshakeResult
  <2>1. TypeOK' /\ TablesAgree'
    BY DEF TypeOK, TablesAgree
  <2>2. Fresh'
    BY <1>f
  <2>3. DirectOnce'
    BY DEF DirectOnce, TypeOK
  <2>4. DedupExact'
    BY <1>k, ServerAssumption DEF DedupExact, TypeOK, Ids
  <2>5. DedupComplete'
    BY <1>k, <1>s DEF DedupComplete, TypeOK
  <2>6. StoppedEmpty' /\ PendingBounded'
    BY DEF StoppedEmpty, PendingBounded
  <2> QED BY <2>1, <2>2, <2>3, <2>4, <2>5, <2>6
<1> QED BY <1>1, <1>2, <1>3

--------------------------------------------------------------------------------
(* The invariant *)

LEMMA SessionsInit == Init => Sessions
<1> SUFFICES ASSUME Init PROVE Sessions
  OBVIOUS
<1>1. PendingBounded
  BY FS_EmptySet, ServerAssumption DEF Init, PendingBounded
<1> QED BY <1>1, ServerAssumption
           DEF Init, Sessions, TypeOK, TablesAgree, Fresh, DirectOnce, DedupExact, DedupComplete,
               StoppedEmpty, Ids

\* A step that leaves the tables and the streams alone.
LEMMA Untouched ==
  ASSUME Sessions,
         status' \in {"open", "suspended", "closed"}, status' = status \/ status' = "open",
         punchers' \subseteq connections,
         relay' \in [Ids -> {"none", "connecting", "pairing", "over"}],
         UNCHANGED <<async, nextId, key, waiting, connections, dedup, streams, timers, raw,
                     direct, relayed>>
  PROVE  Sessions'
BY DEF Sessions, TypeOK, TablesAgree, Fresh, DirectOnce, DedupExact, DedupComplete, StoppedEmpty,
       PendingBounded

\* One session is cleared, if it is still there.
LEMMA Clearing ==
  ASSUME Sessions, NEW i \in Ids, ClearSession(i),
         relay' \in [Ids -> {"none", "connecting", "pairing", "over"}],
         relayed' \in [Ids -> Nat],
         UNCHANGED <<status, async, nextId, key, waiting, direct>>
  PROVE  Sessions'
<1>1. direct' = [j \in Ids |-> IF j \in {i} \cap connections /\ "destroyed" = "application"
                              THEN direct[j] + 1 ELSE direct[j]]
  BY DEF Sessions, TypeOK
<1> DEFINE S == {i} \cap connections
<1>2. S \in SUBSET connections /\ EndSessions(S, "destroyed")
  BY DEF ClearSession
<1>3. status' \in {"open", "suspended", "closed"}
  BY DEF Sessions, TypeOK
<1> HIDE DEF S
<1> QED BY <1>1, <1>2, <1>3, Leaving DEF S

\* One session is handed to the application.
LEMMA Handing ==
  ASSUME Sessions, NEW i \in connections, HandOver(i),
         UNCHANGED <<status, async, nextId, key, waiting, relay, relayed>>
  PROVE  Sessions'
<1>1. direct' = [j \in Ids |-> IF j \in {i} /\ "application" = "application"
                              THEN direct[j] + 1 ELSE direct[j]]
  BY DEF HandOver, Sessions, TypeOK
<1>2. {i} \in SUBSET connections /\ EndSessions({i}, "application")
  BY DEF HandOver
<1>3. /\ status' \in {"open", "suspended", "closed"}
      /\ relay' \in [Ids -> {"none", "connecting", "pairing", "over"}]
      /\ relayed' \in [Ids -> Nat]
  BY DEF Sessions, TypeOK
<1> QED BY <1>1, <1>2, <1>3, Leaving

\* suspend() and close().
LEMMA Stopping ==
  ASSUME Sessions, NEW s \in {"suspended", "closed"}, Stopped(s),
         UNCHANGED <<async, nextId, key, waiting, relay, direct, relayed>>
  PROVE  Sessions'
<1>1. direct' = [j \in Ids |-> IF j \in connections /\ "destroyed" = "application"
                              THEN direct[j] + 1 ELSE direct[j]]
  BY DEF Sessions, TypeOK
<1>2. connections \in SUBSET connections /\ EndSessions(connections, "destroyed")
  BY DEF Stopped
<1>3. /\ status' \in {"open", "suspended", "closed"}
      /\ relay' \in [Ids -> {"none", "connecting", "pairing", "over"}]
      /\ relayed' \in [Ids -> Nat]
  BY DEF Stopped, Sessions, TypeOK
<1> QED BY <1>1, <1>2, <1>3, Leaving

LEMMA SessionsStep == Sessions /\ [Next]_vars => Sessions'
<1> SUFFICES ASSUME Sessions, [Next]_vars PROVE Sessions'
  OBVIOUS
<1>0. CASE UNCHANGED vars
  BY <1>0 DEF vars, tables, Sessions, TypeOK, TablesAgree, Fresh, DirectOnce, DedupExact,
              DedupComplete, StoppedEmpty, PendingBounded
<1>1. ASSUME NEW h \in Handshakes, NEW ok \in BOOLEAN, NEW open \in BOOLEAN,
             NEW viaRelay \in BOOLEAN, Handshake(h, ok, open, viaRelay)
      PROVE  Sessions'
  <2>1. HandshakeResult(nextId, dedup, ok, open, viaRelay)
    BY <1>1, DedupKept DEF Handshake
  <2>2. /\ nextId \in Ids /\ nextId' \in 0 .. MaxSessions /\ nextId < nextId'
        /\ waiting' = waiting \ {nextId}
    BY <1>1, ServerAssumption DEF Handshake, Sessions, TypeOK, Fresh, Ids
  <2>3. /\ ~Repeated(h) /\ key' = [key EXCEPT ![nextId] = h]
        /\ status = "open" /\ UNCHANGED <<status, async, relayed>>
    BY <1>1 DEF Handshake
  <2>4. nextId >= nextId /\ nextId' >= nextId
    BY <2>2, ServerAssumption DEF Ids
  <2> QED BY <2>1, <2>2, <2>3, <2>4, Deciding
<1>2. ASSUME NEW h \in Handshakes, AskFirewall(h)
      PROVE  Sessions'
  <2>1. dedup' = dedup
    BY <1>2, DedupKept DEF AskFirewall
  <2>2. nextId \in Ids /\ nextId \notin connections
    BY <1>2, ServerAssumption DEF AskFirewall, Sessions, TypeOK, Fresh, TablesAgree, Ids
  <2>3. \A j \in Ids : key'[j] = IF j = nextId THEN h ELSE key[j]
    BY <1>2 DEF AskFirewall, Sessions, TypeOK
  <2>4. TypeOK'
    <3>1. nextId' \in 0 .. MaxSessions /\ waiting' \subseteq Ids
      BY <1>2, <2>2, ServerAssumption DEF AskFirewall, Sessions, TypeOK, Ids
    <3>2. key' \in [Ids -> Handshakes \cup {NoSession}]
      BY <1>2 DEF AskFirewall, Sessions, TypeOK
    <3> QED BY <1>2, <2>1, <3>1, <3>2 DEF AskFirewall, Sessions, TypeOK
  <2>8. TablesAgree' /\ DirectOnce' /\ StoppedEmpty' /\ PendingBounded'
    BY <1>2 DEF AskFirewall, Sessions, TablesAgree, DirectOnce, StoppedEmpty, PendingBounded
  <2>5. Fresh'
    BY <1>2, <2>2, <2>3, ServerAssumption DEF AskFirewall, Sessions, TypeOK, Fresh, Ids
  <2>6. DedupExact'
    BY <1>2, <2>1, <2>2, <2>3 DEF AskFirewall, Sessions, TypeOK, DedupExact
  <2>7. DedupComplete'
    BY <1>2 DEF AskFirewall, DedupComplete
  <2> QED BY <2>4, <2>5, <2>6, <2>7, <2>8 DEF Sessions
<1>3. ASSUME NEW i \in Ids, NEW ok \in BOOLEAN, NEW open \in BOOLEAN, NEW viaRelay \in BOOLEAN,
             FirewallDone(i, ok, open, viaRelay)
      PROVE  Sessions'
  <2>1. /\ i \in waiting /\ key[i] \in Handshakes /\ async /\ i < nextId'
        /\ nextId' \in 0 .. MaxSessions /\ nextId' >= nextId
    BY <1>3, ServerAssumption DEF FirewallDone, Sessions, Fresh, DedupComplete, TypeOK, Ids
  <2>2. /\ key' = [key EXCEPT ![i] = key[i]] /\ waiting' = waiting \ {i}
        /\ UNCHANGED <<status, async, relayed>>
    BY <1>3 DEF FirewallDone, Sessions, TypeOK
  <2>3. CASE status = "open" /\ HandshakeResult(i, dedup, ok, open, viaRelay)
    BY <2>1, <2>2, <2>3, Deciding
  <2>4. CASE UNCHANGED <<tables, raw, relay, direct>>
    <3>1. \A j \in Ids : key'[j] = key[j]
      BY <1>3 DEF FirewallDone
    <3>2. TypeOK' /\ TablesAgree' /\ DirectOnce' /\ DedupExact'
      BY <1>3, <2>4 DEF FirewallDone, tables, Sessions, TypeOK, TablesAgree, DirectOnce, DedupExact
    <3>3. Fresh'
      BY <1>3, <2>4 DEF FirewallDone, Sessions, Fresh, TypeOK
    <3>4. DedupComplete'
      BY <2>1, <2>2 DEF DedupComplete
    <3>5. StoppedEmpty' /\ PendingBounded'
      BY <2>2, <2>4 DEF tables, Sessions, StoppedEmpty, PendingBounded
    <3> QED BY <3>2, <3>3, <3>4, <3>5 DEF Sessions
  <2> QED BY <1>3, <2>3, <2>4 DEF FirewallDone, FirewallMayRun
<1>4. ASSUME NEW i \in Ids, Punch(i)
      PROVE  Sessions'
  <2>1. punchers' \subseteq connections
    BY <1>4 DEF Punch, Sessions, TablesAgree
  <2>2. /\ status' \in {"open", "suspended", "closed"} /\ status' = status
        /\ relay' \in [Ids -> {"none", "connecting", "pairing", "over"}]
    BY <1>4 DEF Punch, Sessions, TypeOK
  <2> QED BY <1>4, <2>1, <2>2, Untouched DEF Punch
<1>5. ASSUME NEW i \in Ids,
             Veto(i) \/ StreamClosed(i) \/ SessionTimeout(i) \/ RelayFailed(i) \/ RelayPaired(i)
      PROVE  Sessions'
  <2>1. /\ relay' \in [Ids -> {"none", "connecting", "pairing", "over"}]
        /\ relayed' \in [Ids -> Nat]
    BY <1>5 DEF Veto, StreamClosed, SessionTimeout, RelayFailed, RelayPaired, Sessions, TypeOK
  <2>2. ClearSession(i) /\ UNCHANGED <<status, async, nextId, key, waiting, direct>>
    BY <1>5 DEF Veto, StreamClosed, SessionTimeout, RelayFailed, RelayPaired
  <2> QED BY <2>1, <2>2, Clearing
<1>6. ASSUME NEW i \in Ids, PuncherConnected(i) \/ FirstPacket(i)
      PROVE  Sessions'
  BY <1>6, Handing DEF PuncherConnected, FirstPacket
<1>7. ASSUME NEW i \in Ids, RelayConnected(i) \/ RelayDropped(i)
      PROVE  Sessions'
  <2>1. /\ punchers' \subseteq connections
        /\ status' \in {"open", "suspended", "closed"} /\ status' = status
        /\ relay' \in [Ids -> {"none", "connecting", "pairing", "over"}]
    BY <1>7 DEF RelayConnected, RelayDropped, tables, Sessions, TypeOK, TablesAgree
  <2>2. UNCHANGED <<async, nextId, key, waiting, connections, dedup, streams, timers, raw,
                    direct, relayed>>
    BY <1>7 DEF RelayConnected, RelayDropped, tables
  <2> QED BY <2>1, <2>2, Untouched
<1>8. CASE Suspend
  BY <1>8, Stopping DEF Suspend
<1>9. CASE Close
  BY <1>9, Stopping DEF Close
<1>10. CASE Resume
  <2>1. /\ punchers' \subseteq connections
        /\ status' \in {"open", "suspended", "closed"} /\ status' = "open"
        /\ relay' \in [Ids -> {"none", "connecting", "pairing", "over"}]
    BY <1>10 DEF Resume, tables, Sessions, TypeOK, TablesAgree
  <2> QED BY <1>10, <2>1, Untouched DEF Resume, tables
<1> QED BY <1>0, <1>1, <1>2, <1>3, <1>4, <1>5, <1>6, <1>7, <1>8, <1>9, <1>10 DEF Next

--------------------------------------------------------------------------------
(* Theorems *)

\* Spec => []Sessions, on which the theorems rest.
THEOREM SessionsTheorem == Spec => []Sessions
BY SessionsInit, SessionsStep, PTL DEF Spec

\* Server: a session is in connections_, session_timers_ and
\* pending_punch_streams_ together or in none of them, and owns its stream
\* exactly that long, whichever of its endings come and in which order.
THEOREM TablesAgreeTheorem == Spec => []TablesAgree
<1>1. Sessions => TablesAgree
  BY DEF Sessions
<1> QED BY <1>1, SessionsTheorem, PTL

\* on_socket: between the puncher, the first packet and the OPEN shortcut a
\* session is handed to the application at most once, with a live stream.
THEOREM DirectOnceTheorem == Spec => []DirectOnce
<1>1. Sessions => DirectOnce
  BY DEF Sessions
<1> QED BY <1>1, SessionsTheorem, PTL

\* on_peer_handshake: an entry of handshake_dedup_ names a live session of that
\* handshake.
THEOREM DedupExactTheorem == Spec => []DedupExact
<1>1. Sessions => DedupExact
  BY DEF Sessions
<1> QED BY <1>1, SessionsTheorem, PTL

\* on_peer_handshake with a synchronous firewall: one session per handshake.
THEOREM OneSessionTheorem == Spec => []OneSessionPerHandshake
<1>1. Sessions => OneSessionPerHandshake
  BY DEF Sessions, DedupComplete, OneSessionPerHandshake
<1> QED BY <1>1, SessionsTheorem, PTL

\* on_handshake_result: MAX_PENDING_HANDSHAKES is kept, also when many firewall
\* decisions come back at once.
THEOREM PendingBoundedTheorem == Spec => []PendingBounded
<1>1. Sessions => PendingBounded
  BY DEF Sessions
<1> QED BY <1>1, SessionsTheorem, PTL

\* close() and suspend(): a stopped server creates no session and reports no
\* direct connection, a closed one no relayed connection either.
THEOREM QuietTheorem == Spec => QuietWhenStopped
<1> DEFINE Quiet == /\ status # "open" => connections' \subseteq connections /\ direct' = direct
                    /\ status = "closed" => relayed' = relayed
<1>1. Sessions /\ [Next]_vars => [Quiet]_vars
  <2> SUFFICES ASSUME Sessions, Next PROVE Quiet
    OBVIOUS
  <2>0. status # "open" => connections = {}
    BY DEF Sessions, StoppedEmpty
  <2>1. CASE \E h \in Handshakes : AskFirewall(h) \/ \E ok, open, viaRelay \in BOOLEAN :
                                     Handshake(h, ok, open, viaRelay)
    BY <2>1 DEF AskFirewall, Handshake
  <2>2. CASE \E i \in Ids, ok, open, viaRelay \in BOOLEAN : FirewallDone(i, ok, open, viaRelay)
    BY <2>2 DEF FirewallDone, FirewallMayRun, tables
  <2>3. CASE \E i \in Ids : Punch(i) \/ Veto(i) \/ PuncherConnected(i) \/ FirstPacket(i)
                            \/ StreamClosed(i) \/ SessionTimeout(i)
    BY <2>0, <2>3 DEF Punch, Veto, PuncherConnected, FirstPacket, StreamClosed, SessionTimeout,
                      ClearSession, EndSessions
  <2>4. CASE \E i \in Ids : RelayConnected(i) \/ RelayFailed(i) \/ RelayDropped(i) \/ RelayPaired(i)
    BY <2>4 DEF RelayConnected, RelayFailed, RelayDropped, RelayPaired, RelayMayRun,
                ClearSession, EndSessions, tables
  <2>5. CASE Suspend \/ Resume \/ Close
    BY <2>5 DEF Suspend, Resume, Close, Stopped, EndSessions, tables
  <2> QED BY <2>1, <2>2, <2>3, <2>4, <2>5 DEF Next
<1>2. [][Quiet]_vars => QuietWhenStopped
  BY PTL DEF QuietWhenStopped
<1> QED BY <1>1, <1>2, SessionsTheorem, PTL DEF Spec
=============================================================================
