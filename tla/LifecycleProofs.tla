--------------------------- MODULE LifecycleProofs ---------------------------
(***************************************************************************)
(* What the checks of Lifecycle find on their scenarios, for every         *)
(* scenario, every number of servers and nodes and every setting: the      *)
(* health monitor's counts, the evidence behind a persistent node, and the *)
(* silence of what was stopped.                                            *)
(***************************************************************************)
EXTENDS Lifecycle, FiniteSetTheorems, TLAPS

-----------------------------------------------------------------------------
(* The health monitor: the ticks of a window that bear a verdict.           *)

Ticks == [responses : Nat, timeouts : Nat, verdict : {"none", "degraded", "healthy"}]

Marked(w, v) == {i \in DOMAIN w : w[i].verdict = v}

\* The marked ticks of a window are finitely many.
LEMMA MarkedFinite ==
  ASSUME NEW w \in Seq(Ticks), NEW v
  PROVE  IsFiniteSet(Marked(w, v)) /\ Cardinality(Marked(w, v)) \in Nat
<1>1. IsFiniteSet(1 .. Len(w)) BY FS_Interval
<1>2. Marked(w, v) \in SUBSET (1 .. Len(w)) BY DEF Marked
<1> QED BY <1>1, <1>2, FS_Subset, FS_CardinalityType

\* A new tick counts where its verdict says so.
LEMMA MarkedAppend ==
  ASSUME NEW w \in Seq(Ticks), NEW t \in Ticks, NEW v
  PROVE  Cardinality(Marked(Append(w, t), v)) = Cardinality(Marked(w, v)) + (IF t.verdict = v THEN 1 ELSE 0)
<1>1. Append(w, t) \in Seq(Ticks) /\ Len(Append(w, t)) = Len(w) + 1
      /\ Append(w, t)[Len(w) + 1] = t /\ \A i \in 1 .. Len(w) : Append(w, t)[i] = w[i]
  OBVIOUS
<1>2. Marked(Append(w, t), v) = Marked(w, v) \cup (IF t.verdict = v THEN {Len(w) + 1} ELSE {})
  BY <1>1 DEF Marked
<1>3. Len(w) + 1 \notin Marked(w, v) BY DEF Marked
<1>4. CASE t.verdict = v BY <1>2, <1>3, <1>4, MarkedFinite, FS_AddElement
<1>5. CASE t.verdict # v BY <1>2, <1>5, MarkedFinite
<1> QED BY <1>4, <1>5

\* The oldest tick takes its verdict with it.
LEMMA MarkedTail ==
  ASSUME NEW w \in Seq(Ticks), w # <<>>, NEW v
  PROVE  Cardinality(Marked(Tail(w), v)) = Cardinality(Marked(w, v)) - (IF Head(w).verdict = v THEN 1 ELSE 0)
<1> DEFINE S == Marked(Tail(w), v)
           T == Marked(w, v) \ {1}
           f == [i \in S |-> i + 1]
<1>1. Tail(w) \in Seq(Ticks) /\ Len(Tail(w)) = Len(w) - 1 /\ \A i \in 1 .. Len(w) - 1 : Tail(w)[i] = w[i + 1]
  OBVIOUS
<1>2. f \in Bijection(S, T)
  <2>1. \A i \in S : i \in 1 .. Len(w) - 1 /\ i + 1 \in T BY <1>1 DEF Marked
  <2>2. \A j \in T : j - 1 \in S /\ j - 1 + 1 = j BY <1>1 DEF Marked
  <2>3. S \subseteq Int BY <2>1
  <2> HIDE DEF S, T
  <2>4. f \in [S -> T] /\ \A i \in S : f[i] = i + 1 BY <2>1
  <2>5. \A i, j \in S : f[i] = f[j] => i = j BY <2>3, <2>4
  <2>6. \A j \in T : \E i \in S : f[i] = j BY <2>2, <2>4
  <2> QED BY <2>4, <2>5, <2>6 DEF Bijection, Injection, Surjection, IsInjective
<1>3. Cardinality(S) = Cardinality(T)
  <2>1. IsFiniteSet(S) BY <1>1, MarkedFinite
  <2> HIDE DEF S, T, f
  <2> QED BY <2>1, <1>2, FS_Bijection DEF ExistsBijection
<1>4. 1 \in Marked(w, v) <=> Head(w).verdict = v BY DEF Marked
<1>5. IsFiniteSet(Marked(w, v)) /\ Cardinality(Marked(w, v)) \in Nat BY MarkedFinite
<1>6. Cardinality(T) = IF 1 \in Marked(w, v) THEN Cardinality(Marked(w, v)) - 1 ELSE Cardinality(Marked(w, v))
  BY <1>5, FS_RemoveElement
<1> QED BY <1>3, <1>4, <1>5, <1>6

Judged(w, n, verdict) == [w EXCEPT ![n].verdict = verdict]

\* A verdict given to a tick that had none.
LEMMA MarkedLast ==
  ASSUME NEW w \in Seq(Ticks), NEW n \in 1 .. Len(w), w[n].verdict = "none",
         NEW verdict \in {"degraded", "healthy"}, NEW v \in {"degraded", "healthy"}
  PROVE  LET x == Judged(w, n, verdict)
         IN  /\ x \in Seq(Ticks) /\ Len(x) = Len(w)
             /\ Cardinality(Marked(x, v)) = Cardinality(Marked(w, v)) + (IF verdict = v THEN 1 ELSE 0)
<1> DEFINE x == Judged(w, n, verdict)
<1>1. w[n] \in Ticks OBVIOUS
<1>2. [w[n] EXCEPT !.verdict = verdict] \in Ticks BY <1>1 DEF Ticks
<1>3. x \in Seq(Ticks) /\ Len(x) = Len(w)
  <2>1. x \in [1 .. Len(w) -> Ticks] BY <1>2 DEF Judged
  <2> HIDE DEF x
  <2> QED BY <2>1
<1>4. x[n].verdict = verdict /\ \A i \in 1 .. Len(w) : i # n => x[i] = w[i] BY <1>1 DEF Ticks, Judged
<1>5. Marked(x, v) = Marked(w, v) \cup (IF verdict = v THEN {n} ELSE {}) BY <1>3, <1>4 DEF Marked
<1>6. n \notin Marked(w, v) BY DEF Marked
<1>7. Cardinality(Marked(x, v)) = Cardinality(Marked(w, v)) + (IF verdict = v THEN 1 ELSE 0)
  <2> HIDE DEF x
  <2>1. CASE verdict = v BY <1>5, <1>6, <2>1, MarkedFinite, FS_AddElement
  <2>2. CASE verdict # v BY <1>5, <2>2, MarkedFinite
  <2> QED BY <2>1, <2>2
<1> QED BY <1>3, <1>7

Monitors == [window : Seq(Ticks), degraded : Nat, healthy : Nat, state : {"online", "offline", "degraded"}]

\* A monitor of the right type whose counts are exact.
Exact(h) == h \in Monitors /\ Len(h.window) <= WindowSize /\ CountsExact(h)

LEMMA ExactMarked ==
  ASSUME NEW h
  PROVE  CountsExact(h) <=> /\ h.degraded = Cardinality(Marked(h.window, "degraded"))
                            /\ h.healthy = Cardinality(Marked(h.window, "healthy"))
BY DEF CountsExact, Marked

\* The first half of update: the oldest tick leaves, the new one has no verdict.
LEMMA RecordExact ==
  ASSUME NEW h, Exact(h), NEW r \in Nat, NEW t \in Nat
  PROVE  LET g == Record(h, r, t)
         IN  Exact(g) /\ (Len(g.window) = WindowSize => g.window[WindowSize].verdict = "none")
<1> DEFINE g == Record(h, r, t)
           new == Snapshot(r, t, "none")
           full == Len(h.window) = WindowSize
           rest == IF full THEN Tail(h.window) ELSE h.window
           leaves(v) == full /\ Head(h.window).verdict = v
<1>1. WindowSize \in Nat \ {0} BY HealthAssumption
<1>2. h.window \in Seq(Ticks) /\ h.degraded \in Nat /\ h.healthy \in Nat BY DEF Exact, Monitors
<1>3. new \in Ticks /\ new.verdict = "none" BY DEF Snapshot, Ticks
<1>4. rest \in Seq(Ticks) /\ Len(rest) < WindowSize BY <1>1, <1>2 DEF Exact
<1>5. \A v : Cardinality(Marked(rest, v)) = Cardinality(Marked(h.window, v)) - (IF leaves(v) THEN 1 ELSE 0)
  <2> SUFFICES ASSUME NEW v
               PROVE  Cardinality(Marked(rest, v)) = Cardinality(Marked(h.window, v)) - (IF leaves(v) THEN 1 ELSE 0)
    OBVIOUS
  <2>1. CASE full
    <3>1. h.window # <<>> BY <1>1, <1>2, <2>1
    <3> QED BY <1>2, <2>1, <3>1, MarkedTail
  <2>2. CASE ~full BY <1>2, <2>2, MarkedFinite
  <2> QED BY <2>1, <2>2
<1>6. /\ g \in [window : {Append(rest, new)}, degraded : {IF leaves("degraded") THEN h.degraded - 1 ELSE h.degraded},
               healthy : {IF leaves("healthy") THEN h.healthy - 1 ELSE h.healthy}, state : {h.state}]
  BY DEF Exact, Monitors, Record, Pushed
<1>a. g.degraded = h.degraded - (IF leaves("degraded") THEN 1 ELSE 0) /\ g.healthy = h.healthy - (IF leaves("healthy") THEN 1 ELSE 0)
      /\ g.window = Append(rest, new)
  BY <1>2, <1>6
<1>b. /\ Cardinality(Marked(rest, "degraded")) = Cardinality(Marked(h.window, "degraded")) - (IF leaves("degraded") THEN 1 ELSE 0)
      /\ Cardinality(Marked(rest, "healthy")) = Cardinality(Marked(h.window, "healthy")) - (IF leaves("healthy") THEN 1 ELSE 0)
  BY <1>5
<1> HIDE DEF new, rest, leaves, g
<1>7. /\ Append(rest, new) \in Seq(Ticks) /\ Len(Append(rest, new)) = Len(rest) + 1
      /\ Append(rest, new)[Len(rest) + 1] = new
  BY <1>3, <1>4
<1>8. \A v \in {"degraded", "healthy"} : Cardinality(Marked(Append(rest, new), v)) = Cardinality(Marked(rest, v))
                                         /\ Cardinality(Marked(rest, v)) \in Nat
  BY <1>3, <1>4, MarkedAppend, MarkedFinite
<1>9. /\ h.degraded = Cardinality(Marked(h.window, "degraded"))
      /\ h.healthy = Cardinality(Marked(h.window, "healthy"))
  BY ExactMarked DEF Exact
<1>10. g.degraded = Cardinality(Marked(g.window, "degraded")) /\ g.degraded \in Nat
  BY <1>a, <1>b, <1>8, <1>9
<1>11. g.healthy = Cardinality(Marked(g.window, "healthy")) /\ g.healthy \in Nat
  BY <1>a, <1>b, <1>8, <1>9
<1>12. h.state \in {"online", "offline", "degraded"} BY DEF Exact, Monitors
<1>13. g \in Monitors BY <1>6, <1>7, <1>10, <1>11, <1>12 DEF Monitors
<1>14. Len(g.window) <= WindowSize BY <1>1, <1>4, <1>6, <1>7
<1>15. Len(g.window) = WindowSize => g.window[WindowSize].verdict = "none"
  BY <1>3, <1>4, <1>6, <1>7
<1> QED BY <1>10, <1>11, <1>13, <1>14, <1>15, ExactMarked DEF Exact, g

\* The verdict of the newest tick of a full window is counted once.
LEMMA ClassifyExact ==
  ASSUME NEW h, Exact(h), Len(h.window) = WindowSize, h.window[WindowSize].verdict = "none"
  PROVE  Exact(Classify(h))
<1> DEFINE g == Classify(h)
           bad == h.window[WindowSize].timeouts > h.window[WindowSize].responses
           verdict == IF bad THEN "degraded" ELSE "healthy"
           w == Judged(h.window, WindowSize, verdict)
<1>1. WindowSize \in 1 .. Len(h.window) BY HealthAssumption
<1>2. h.window \in Seq(Ticks) /\ h.degraded \in Nat /\ h.healthy \in Nat BY DEF Exact, Monitors
<1>3. g \in [window : {w}, degraded : {IF bad THEN h.degraded + 1 ELSE h.degraded},
             healthy : {IF bad THEN h.healthy ELSE h.healthy + 1}, state : {h.state}]
  BY DEF Exact, Monitors, Classify, Judged
<1>4. verdict \in {"degraded", "healthy"} /\ (verdict = "degraded" <=> bad) /\ (verdict = "healthy" <=> ~bad) OBVIOUS
<1> HIDE DEF bad, verdict
<1>5. /\ w \in Seq(Ticks) /\ Len(w) = Len(h.window)
      /\ \A v \in {"degraded", "healthy"} :
           Cardinality(Marked(w, v)) = Cardinality(Marked(h.window, v)) + (IF verdict = v THEN 1 ELSE 0)
  BY <1>1, <1>2, <1>4, MarkedLast
<1>a. g.window = w /\ g.degraded = h.degraded + (IF bad THEN 1 ELSE 0) /\ g.healthy = h.healthy + (IF bad THEN 0 ELSE 1)
  BY <1>2, <1>3
<1> HIDE DEF w, g
<1>6. /\ h.degraded = Cardinality(Marked(h.window, "degraded"))
      /\ h.healthy = Cardinality(Marked(h.window, "healthy"))
  BY ExactMarked DEF Exact
<1>7. g.degraded = Cardinality(Marked(g.window, "degraded")) /\ g.degraded \in Nat
  BY <1>2, <1>a, <1>4, <1>5, <1>6
<1>8. g.healthy = Cardinality(Marked(g.window, "healthy")) /\ g.healthy \in Nat
  BY <1>2, <1>a, <1>4, <1>5, <1>6
<1>9. h.state \in {"online", "offline", "degraded"} BY DEF Exact, Monitors
<1>10. g \in Monitors BY <1>3, <1>5, <1>7, <1>8, <1>9 DEF Monitors
<1>11. Len(g.window) <= WindowSize BY <1>3, <1>5, HealthAssumption
<1> QED BY <1>7, <1>8, <1>10, <1>11, ExactMarked DEF Exact, g

\* HealthMonitor::update keeps the counts exact, whether or not it judges the tick.
LEMMA UpdateExact ==
  ASSUME NEW h, Exact(h), NEW r \in Nat, NEW t \in Nat
  PROVE  Exact(MonitorUpdate(h, r, t))
<1>1. ASSUME NEW g, Exact(g) PROVE Exact(Judge(g))
  <2>1. \E st \in {"online", "offline", "degraded"} : Judge(g) = [g EXCEPT !.state = st]
    BY <1>1 DEF Judge, Exact, Monitors
  <2> QED BY <1>1, <2>1 DEF Exact, Monitors, CountsExact
<1>2. Exact(Record(h, r, t)) BY RecordExact
<1>3. CASE Evaluates(Record(h, r, t))
  <2>1. Exact(Classify(Record(h, r, t))) BY <1>3, RecordExact, ClassifyExact DEF Evaluates
  <2> QED BY <1>1, <1>3, <2>1 DEF MonitorUpdate
<1> QED BY <1>2, <1>3 DEF MonitorUpdate

-----------------------------------------------------------------------------
(* Records by their fields, and what a bind does to the node.               *)

DhtFields == {"bound", "suspended", "destroyed", "watching", "boot", "bootstrapped", "hook", "refreshes"}
SockFields == {"ticking", "closing", "ephemeral", "firewalled", "refresh", "stable"}
ProbeFields == {"running", "expected", "replied"}

HasFields(r, F) == DOMAIN r = F /\ r = [f \in F |-> r[f]]

\* The records of the node.
Records == HasFields(dht, DhtFields) /\ HasFields(sock, SockFields) /\ HasFields(probe, ProbeFields)

\* The node as the invariants see it is left alone, save for what a bind may change
\* while the socket is open.
BindOnly ==
  /\ HasFields(dht', DhtFields) /\ HasFields(sock', SockFields)
  /\ dht'.destroyed = dht.destroyed
  /\ sock'.closing = sock.closing /\ sock'.ephemeral = sock.ephemeral
  /\ sock.closing => dht'.watching = dht.watching /\ sock'.ticking = sock.ticking

LEMMA Refreshing ==
  ASSUME HasFields(dht, DhtFields)
  PROVE  /\ HasFields(Refreshed(dht), DhtFields)
         /\ Refreshed(dht).destroyed = dht.destroyed /\ Refreshed(dht).watching = dht.watching
<1>1. HasFields(Refreshed(dht), DhtFields) BY DEF Refreshed, HasFields
<1> QED BY <1>1 DEF Refreshed, HasFields, DhtFields

LEMMA Binding ==
  ASSUME Records, EnsureBound
  PROVE  BindOnly
<1>1. CASE UNCHANGED <<dht, sock>> BY <1>1 DEF BindOnly, Records
<1>2. CASE BindSockets /\ ~UNCHANGED <<dht, sock>>
  <2> DEFINE d == [dht EXCEPT !.bound = TRUE, !.boot = scenario.boot]
  <2>1. /\ ~sock.closing
        /\ dht' = [d EXCEPT !.watching = TRUE] \/ dht' = d
        /\ sock' = [sock EXCEPT !.ticking = TRUE]
    BY <1>2 DEF BindSockets, WatcherStarted
  <2>2. HasFields(d, DhtFields) /\ HasFields(sock', SockFields) BY <2>1 DEF Records, HasFields
  <2>3. d.destroyed = dht.destroyed BY DEF Records, HasFields, DhtFields
  <2> HIDE DEF d
  <2>4. HasFields(dht', DhtFields) BY <2>1, <2>2 DEF HasFields
  <2>5. dht'.destroyed = dht.destroyed BY <2>1, <2>2, <2>3 DEF HasFields, DhtFields
  <2>6. sock'.closing = sock.closing /\ sock'.ephemeral = sock.ephemeral
    BY <2>1 DEF Records, HasFields, SockFields
  <2> QED BY <2>1, <2>2, <2>4, <2>5, <2>6 DEF BindOnly
<1> QED BY <1>1, <1>2 DEF EnsureBound

-----------------------------------------------------------------------------
(* The node: its socket, health monitor and firewall probe.                 *)

\* A destroyed node has closed its socket and stopped its timers, watcher and probe.
Halted == dht.destroyed => /\ sock.closing /\ ~sock.ticking /\ ~dht.watching /\ ~probe.running
                           /\ forwards \subseteq late

\* The hosts a running probe counts have reached the server socket since it began.
Evidence == IsFiniteSet(heard) /\ (probe.running => probe.replied \subseteq heard) /\ PersistentEvidence

\* The inductive invariant of the node.
NodeInv == scenario \in Scenarios /\ Exact(health) /\ Records /\ Halted /\ Evidence

LEMMA NodeInit == Init => NodeInv
<1> SUFFICES ASSUME Init PROVE NodeInv OBVIOUS
<1>1. Exact(health)
  <2>1. health \in Monitors /\ health.window = <<>> /\ health.degraded = 0 /\ health.healthy = 0
    BY DEF Init, NewMonitor, Monitors
  <2>2. \A v : Marked(<<>>, v) = {} BY DEF Marked
  <2>3. CountsExact(health) BY <2>1, <2>2, FS_EmptySet, ExactMarked
  <2>4. Len(health.window) <= WindowSize BY <2>1, HealthAssumption
  <2> QED BY <2>1, <2>3, <2>4 DEF Exact
<1>2. Records
  <2>1. HasFields(dht, DhtFields) BY DEF Init, HasFields, DhtFields
  <2>2. HasFields(sock, SockFields) BY DEF Init, HasFields, SockFields
  <2>3. HasFields(probe, ProbeFields) BY DEF Init, HasFields, ProbeFields
  <2> QED BY <2>1, <2>2, <2>3 DEF Records
<1>3. Halted /\ ~probe.running /\ sock.ephemeral BY DEF Init, Halted
<1>4. Evidence BY <1>3, FS_EmptySet DEF Init, Evidence, PersistentEvidence
<1> QED BY <1>1, <1>2, <1>3, <1>4 DEF Init, NodeInv

LEMMA NodeQuiet ==
  ASSUME NodeInv, BindOnly, UNCHANGED <<scenario, health, probe, forwards, late, heard>>
  PROVE  NodeInv'
<1>1. Records' BY DEF NodeInv, Records, BindOnly
<1>2. Halted' BY DEF NodeInv, Halted, BindOnly
<1>3. Evidence' BY DEF NodeInv, Evidence, PersistentEvidence, BindOnly
<1> QED BY <1>1, <1>2, <1>3 DEF NodeInv

\* finish_firewall_probe: whatever it decides, it has counted hosts that were heard.
LEMMA NodeFinish ==
  ASSUME NodeInv, NEW p, HasFields(p, ProbeFields), p.replied \subseteq heard', IsFiniteSet(heard'), heard \subseteq heard',
         p.expected = probe.expected, FinishProbe(p), ~dht.destroyed,
         UNCHANGED <<scenario, health, forwards, late>>
  PROVE  NodeInv'
<1>1. HasFields(probe', ProbeFields) BY DEF FinishProbe, HasFields
<1>2. ~probe'.running /\ probe'.expected = probe.expected BY DEF FinishProbe, HasFields, ProbeFields
<1>3. Cardinality(heard) <= Cardinality(heard') /\ Cardinality(heard) \in Nat /\ Cardinality(heard') \in Nat
  BY FS_Subset, FS_CardinalityType DEF NodeInv, Evidence
<1>4. Cardinality(p.replied) <= Cardinality(heard') /\ Cardinality(p.replied) \in Nat
  BY FS_Subset, FS_CardinalityType
<1>5. ProbeQuorum \in Nat BY LifecycleAssumption
<1>6. CASE StaysEphemeral
  <2>1. HasFields(sock', SockFields) BY <1>6 DEF StaysEphemeral, NodeInv, Records, HasFields
  <2>2. sock'.ephemeral = sock.ephemeral BY <1>6 DEF StaysEphemeral, NodeInv, Records, HasFields, SockFields
  <2>3. Records' /\ ~dht'.destroyed BY <1>1, <1>6, <2>1 DEF StaysEphemeral, NodeInv, Records
  <2>4. PersistentEvidence' BY <1>2, <1>3, <1>5, <2>2 DEF NodeInv, Evidence, PersistentEvidence
  <2> QED BY <1>2, <2>3, <2>4 DEF NodeInv, Evidence, Halted
<1>7. CASE BecomePersistent /\ ~(Cardinality(p.replied) < ProbeThreshold(p))
  <2>1. HasFields(sock', SockFields) BY <1>7 DEF BecomePersistent, NodeInv, Records, HasFields
  <2>2. HasFields(dht', DhtFields) /\ ~dht'.destroyed
    BY <1>7, Refreshing DEF BecomePersistent, NodeInv, Records
  <2>3. PersistentEvidence'
    <3>1. Cardinality(p.replied) >= ProbeThreshold(p) BY <1>4, <1>5, <1>7 DEF ProbeThreshold
    <3>2. Cardinality(heard') >= ProbeThreshold(p) BY <1>3, <1>4, <1>5, <3>1 DEF ProbeThreshold
    <3>3. ProbeThreshold(p) = (IF probe'.expected >= ProbeMax THEN ProbeQuorum ELSE 1) BY <1>2 DEF ProbeThreshold
    <3> QED BY <3>2, <3>3 DEF PersistentEvidence
  <2> QED BY <1>1, <1>2, <2>1, <2>2, <2>3 DEF NodeInv, Records, Evidence, Halted
<1> QED BY <1>6, <1>7 DEF FinishProbe

\* background_tick: health first, then perhaps a refresh and a new probe.
LEMMA NodeTick ==
  ASSUME NodeInv, BackgroundTick
  PROVE  NodeInv'
<1> PICK sample \in scenario.samples, nat \in scenario.nat :
      /\ Call("tick") /\ sock.ticking
      /\ health' = MonitorUpdate(health, sample.responses, sample.timeouts)
      /\ dht' = Refreshed(dht) \/ dht' = dht
      /\ probe' = ProbeStarted(nat)
      /\ sock' = [sock EXCEPT !.refresh = Countdown(@, RefreshTicks),
                              !.stable = IF ~sock.ephemeral THEN @
                                         ELSE IF probe.running /\ @ <= 1 THEN 0 ELSE Countdown(@, StableTicks)]
      /\ heard' = IF probe'.running /\ ~probe.running THEN {} ELSE heard
      /\ UNCHANGED <<forwards, late>>
  BY DEF BackgroundTick
<1>1. scenario' = scenario BY DEF Call
<1>2. Exact(health')
  <2>1. sample.responses \in Nat /\ sample.timeouts \in Nat BY LifecycleAssumption DEF NodeInv
  <2> QED BY <2>1, UpdateExact DEF NodeInv
<1>3. ~dht.destroyed BY DEF NodeInv, Halted
<1>4. HasFields(dht', DhtFields) /\ ~dht'.destroyed BY <1>3, Refreshing DEF NodeInv, Records
<1>5. HasFields(sock', SockFields) BY DEF NodeInv, Records, HasFields
<1>6. sock'.ephemeral = sock.ephemeral BY DEF NodeInv, Records, HasFields, SockFields
<1>7. CASE ~ChecksPersistent(nat)
  <2>1. UNCHANGED <<probe, heard>> BY <1>7 DEF ProbeStarted
  <2> QED BY <1>1, <1>2, <1>4, <1>5, <1>6, <2>1 DEF NodeInv, Records, Halted, Evidence, PersistentEvidence
<1>8. CASE ChecksPersistent(nat)
  <2>1. probe' = [running |-> nat.nodes > 0, expected |-> nat.nodes, replied |-> {}] BY <1>8 DEF ProbeStarted
  <2>2. HasFields(probe', ProbeFields) BY <2>1 DEF HasFields, ProbeFields
  <2>3. IsFiniteSet(heard') BY FS_EmptySet DEF NodeInv, Evidence
  <2>4. probe'.replied \subseteq heard' BY <2>1
  <2>5. sock'.ephemeral BY <1>6, <1>8 DEF ChecksPersistent
  <2> QED BY <1>1, <1>2, <1>4, <1>5, <2>2, <2>3, <2>4, <2>5 DEF NodeInv, Records, Halted, Evidence, PersistentEvidence
<1> QED BY <1>7, <1>8

\* on_recv_server and the probe's timer.
LEMMA NodeProbe ==
  ASSUME NodeInv, (\E h \in scenario.hosts : ServerSocketPacket(h)) \/ ProbeTimeout
  PROVE  NodeInv'
<1>1. ASSUME NEW h \in scenario.hosts, ServerSocketPacket(h) PROVE NodeInv'
  <2> DEFINE p == [probe EXCEPT !.replied = @ \cup {h}]
  <2>1. /\ ~sock.closing /\ UNCHANGED <<scenario, health, forwards, late>> /\ heard' = heard \cup {h}
        /\ \/ UNCHANGED <<probe, dht, sock>> /\ ~probe.running
           \/ probe.running /\ FinishProbe(p)
           \/ probe.running /\ probe' = p /\ UNCHANGED <<dht, sock>>
    BY <1>1 DEF ServerSocketPacket, Call
  <2>2. ~dht.destroyed BY <2>1 DEF NodeInv, Halted
  <2>3. HasFields(p, ProbeFields) BY DEF NodeInv, Records, HasFields
  <2>4. p.replied = probe.replied \cup {h} /\ p.expected = probe.expected /\ p.running = probe.running
    BY DEF NodeInv, Records, HasFields, ProbeFields
  <2>5. IsFiniteSet(heard') /\ heard \subseteq heard' BY <2>1, FS_AddElement DEF NodeInv, Evidence
  <2> HIDE DEF p
  <2>6. probe.running => p.replied \subseteq heard' BY <2>1, <2>4 DEF NodeInv, Evidence
  <2>7. Cardinality(heard) <= Cardinality(heard') /\ Cardinality(heard) \in Nat /\ Cardinality(heard') \in Nat
    BY <2>5, FS_Subset, FS_CardinalityType DEF NodeInv, Evidence
  <2>8. ProbeQuorum \in Nat BY LifecycleAssumption
  <2>9. CASE probe.running /\ FinishProbe(p) BY <2>1, <2>2, <2>3, <2>4, <2>5, <2>6, <2>9, NodeFinish
  <2>10. CASE UNCHANGED <<dht, sock>> /\ (UNCHANGED probe \/ (probe.running /\ probe' = p)) /\ (probe'.running => probe.running)
    <3>1. HasFields(probe', ProbeFields) /\ probe'.expected = probe.expected BY <2>3, <2>4, <2>10 DEF NodeInv, Records
    <3>2. PersistentEvidence' BY <2>7, <2>8, <2>10, <3>1 DEF NodeInv, Evidence, PersistentEvidence
    <3>3. probe'.running => probe'.replied \subseteq heard' BY <2>4, <2>5, <2>6, <2>10 DEF NodeInv, Evidence
    <3> QED BY <2>1, <2>2, <2>5, <2>10, <3>1, <3>2, <3>3 DEF NodeInv, Records, Halted, Evidence
  <2> QED BY <2>1, <2>9, <2>10
<1>2. CASE ProbeTimeout
  <2>1. probe.running /\ FinishProbe(probe) /\ UNCHANGED <<scenario, health, forwards, late, heard>>
    BY <1>2 DEF ProbeTimeout
  <2>2. ~dht.destroyed /\ probe.replied \subseteq heard BY <2>1 DEF NodeInv, Halted, Evidence
  <2>3. HasFields(probe, ProbeFields) /\ IsFiniteSet(heard) BY DEF NodeInv, Records, Evidence
  <2> QED BY <2>1, <2>2, <2>3, NodeFinish
<1> QED BY <1>1, <1>2

\* Suspend, resume and destroy.
LEMMA NodeStops ==
  ASSUME NodeInv, Suspend \/ Resume \/ Destroy
  PROVE  NodeInv'
<1>1. CASE Suspend \/ Resume
  <2>1. /\ UNCHANGED <<scenario, health, probe, forwards, late, heard>>
        /\ dht' = [dht EXCEPT !.suspended = TRUE] \/ dht' = [dht EXCEPT !.suspended = FALSE]
        /\ sock' = [sock EXCEPT !.ticking = FALSE] \/ sock' = [sock EXCEPT !.ticking = ~sock.closing]
    BY <1>1 DEF Suspend, Resume, Call
  <2>2. HasFields(dht', DhtFields) /\ HasFields(sock', SockFields) BY <2>1 DEF NodeInv, Records, HasFields
  <2>3. dht'.destroyed = dht.destroyed /\ dht'.watching = dht.watching
    BY <2>1 DEF NodeInv, Records, HasFields, DhtFields
  <2>4. sock'.closing = sock.closing /\ sock'.ephemeral = sock.ephemeral /\ (sock.closing => ~sock'.ticking)
    BY <2>1 DEF NodeInv, Records, HasFields, SockFields
  <2> QED BY <2>1, <2>2, <2>3, <2>4 DEF NodeInv, Records, Halted, Evidence, PersistentEvidence
<1>2. CASE Destroy
  <2> DEFINE d == [dht EXCEPT !.destroyed = TRUE, !.refreshes = 0]
  <2>1. /\ UNCHANGED <<scenario, health, late, heard>>
        /\ dht' = [d EXCEPT !.watching = FALSE]
        /\ sock' = [sock EXCEPT !.ticking = FALSE, !.closing = TRUE]
        /\ probe' = [probe EXCEPT !.running = FALSE]
        /\ forwards' = {}
    BY <1>2 DEF Destroy, Call, WatcherStopped
  <2>2. HasFields(d, DhtFields) BY DEF NodeInv, Records, HasFields
  <2> HIDE DEF d
  <2>3. HasFields(dht', DhtFields) /\ HasFields(sock', SockFields) /\ HasFields(probe', ProbeFields)
    BY <2>1, <2>2 DEF NodeInv, Records, HasFields
  <2>4. ~dht'.watching BY <2>1, <2>2 DEF HasFields, DhtFields
  <2>5. sock'.closing /\ ~sock'.ticking /\ sock'.ephemeral = sock.ephemeral
    BY <2>1 DEF NodeInv, Records, HasFields, SockFields
  <2>6. ~probe'.running /\ probe'.expected = probe.expected
    BY <2>1 DEF NodeInv, Records, HasFields, ProbeFields
  <2> QED BY <2>1, <2>3, <2>4, <2>5, <2>6 DEF NodeInv, Records, Halted, Evidence, PersistentEvidence
<1> QED BY <1>1, <1>2

\* Every other step leaves the node's own state alone, save for a bind or for the walks
\* of the table, and the router's entries.
LEMMA NodeStep == NodeInv /\ [Next]_vars => NodeInv'
<1> SUFFICES ASSUME NodeInv, [Next]_vars PROVE NodeInv' OBVIOUS
<1>1. ASSUME Bind \/ ConnectEntry \/ \E s \in Servers : CreateServer(s) PROVE NodeInv'
  <2>1. UNCHANGED <<scenario, health, probe, forwards, late, heard>> /\ (UNCHANGED <<dht, sock>> \/ EnsureBound)
    BY <1>1 DEF Bind, ConnectEntry, CreateServer, Call
  <2>2. BindOnly BY <2>1, Binding DEF NodeInv, Records, BindOnly
  <2> QED BY <2>1, <2>2, NodeQuiet
<1>2. ASSUME OnBootstrapped \/ BootstrapDone \/ RefreshDone PROVE NodeInv'
  <2>1. /\ UNCHANGED <<scenario, health, sock, probe, forwards, late, heard>>
        /\ \/ dht' = [dht EXCEPT !.hook = ~dht.bootstrapped]
           \/ dht' = [dht EXCEPT !.boot = "none", !.bootstrapped = TRUE, !.hook = FALSE]
           \/ dht' = [dht EXCEPT !.refreshes = @ - 1]
    BY <1>2 DEF OnBootstrapped, BootstrapDone, RefreshDone, Call
  <2>2. HasFields(dht', DhtFields) BY <2>1 DEF NodeInv, Records, HasFields
  <2>3. dht'.destroyed = dht.destroyed /\ dht'.watching = dht.watching
    BY <2>1 DEF NodeInv, Records, HasFields, DhtFields
  <2>4. BindOnly BY <2>1, <2>2, <2>3 DEF BindOnly, NodeInv, Records
  <2> QED BY <2>1, <2>4, NodeQuiet
<1>3. ASSUME NEW s \in Servers, Listen(s) \/ Close(s) PROVE NodeInv'
  <2>1. /\ UNCHANGED <<scenario, dht, sock, health, probe, heard>>
        /\ late \subseteq late'
        /\ dht.destroyed /\ forwards \subseteq late => forwards' \subseteq late'
    BY <1>3 DEF Listen, Close, Call
  <2> QED BY <2>1 DEF NodeInv, Records, Halted, Evidence, PersistentEvidence
<1>4. ASSUME \/ \E s \in Servers : RefreshServer(s) \/ SuspendServer(s) \/ ResumeServer(s) \/ Timer(s)
             \/ NetworkChange \/ Progress \/ VisitRefused \/ UNCHANGED vars
      PROVE  NodeInv'
  <2>1. UNCHANGED <<scenario, dht, sock, health, probe, forwards, late, heard>>
    BY <1>4 DEF RefreshServer, SuspendServer, ResumeServer, Timer, NetworkChange, Progress, VisitRefused, vars, lifeVars, Call
  <2> QED BY <2>1 DEF NodeInv, Records, Halted, Evidence, PersistentEvidence
<1> QED BY <1>1, <1>2, <1>3, <1>4, NodeTick, NodeProbe, NodeStops DEF Next

\* The inductive invariant of the node: health, probe and what destroy() leaves.
THEOREM NodeTheorem == Spec => []NodeInv
BY NodeInit, NodeStep, PTL DEF Spec

\* The counts of degraded and healthy ticks are those of the window, whatever ticks
\* have passed through it and whichever were judged (HealthMonitor::update).
THEOREM HealthExactTheorem == Spec => []HealthExact
<1>1. NodeInv => HealthExact BY DEF NodeInv, Exact, HealthExact
<1> QED BY <1>1, NodeTheorem, PTL

\* A node is persistent only after enough hosts have reached its server socket since
\* the probe began (finish_firewall_probe).
THEOREM PersistentEvidenceTheorem == Spec => []PersistentEvidence
<1>1. NodeInv => PersistentEvidence BY DEF NodeInv, Evidence
<1> QED BY <1>1, NodeTheorem, PTL

-----------------------------------------------------------------------------
(* Announcers.                                                              *)

AnnFields == {"object", "running", "alive", "updating", "reannounced", "active", "relays", "cycle"}

\* An announcer that was never made has begun no walk, and one that was made and does
\* not run has lost its sentinel.
Sensible(a) ==
  /\ HasFields(a, AnnFields)
  /\ a.object \in Nat /\ a.cycle \in Nat
  /\ a.object = 0 => ~a.running /\ a.cycle = 0
  /\ a.alive /\ ~a.running => a.object = 0

\* b is the same announcer later: nothing stopped or started it.
Later(a, b) == Sensible(b) /\ b.object = a.object /\ b.running = a.running /\ b.alive = a.alive

LEMMA LaterItself == \A a : Sensible(a) => Later(a, a)
BY DEF Later

LEMMA LaterTwice == \A a, b, c : Later(a, b) /\ Later(b, c) => Later(a, c)
BY DEF Later

\* A change of flags and relay lists alone.
LEMMA LaterFlags ==
  ASSUME NEW a, Sensible(a), NEW b, HasFields(b, AnnFields),
         b.object = a.object, b.running = a.running, b.alive = a.alive, b.cycle = a.cycle
  PROVE  Later(a, b)
BY DEF Later, Sensible

\* update(): only a running announcer begins a cycle.
LEMMA LaterUpdate ==
  ASSUME NEW a, Sensible(a)
  PROVE  Later(a, Update(a)) /\ Later(a, Refresh(a))
<1> DEFINE b == [a EXCEPT !.updating = TRUE, !.cycle = @ + 1]
<1>1. HasFields(b, AnnFields) BY DEF Sensible, HasFields
<1>2. b.object = a.object /\ b.running = a.running /\ b.alive = a.alive /\ b.cycle = a.cycle + 1
  BY DEF Sensible, HasFields, AnnFields
<1>3. Update(a) = a \/ (a.running /\ Update(a) = b) BY DEF Update
<1> HIDE DEF b
<1>4. a.running => Later(a, b) BY <1>1, <1>2 DEF Later, Sensible
<1>5. Later(a, Update(a)) BY <1>3, <1>4, LaterItself
<1> QED BY <1>5, LaterItself DEF Refresh

\* notify_online()
LEMMA LaterNotified ==
  ASSUME NEW a, Sensible(a)
  PROVE  Later(a, NotifyOnline(a))
<1> DEFINE b == [a EXCEPT !.reannounced = FALSE, !.active = {}, !.relays = {}, !.updating = FALSE]
<1>1. HasFields(b, AnnFields) BY DEF Sensible, HasFields
<1>2. b.object = a.object /\ b.running = a.running /\ b.alive = a.alive /\ b.cycle = a.cycle
  BY DEF Sensible, HasFields, AnnFields
<1>3. NotifyOnline(a) = a \/ NotifyOnline(a) = Update(b) BY DEF NotifyOnline
<1> HIDE DEF b
<1>4. Later(a, b) BY <1>1, <1>2, LaterFlags
<1>5. Later(b, Update(b)) BY <1>4, LaterUpdate DEF Later
<1> QED BY <1>3, <1>4, <1>5, LaterItself, LaterTwice

\* The done callback of a walk, with build_relays().
LEMMA LaterDone ==
  ASSUME NEW a, Sensible(a)
  PROVE  Later(a, CycleDone(a))
<1> DEFINE b == [a EXCEPT !.updating = FALSE]
           c == [b EXCEPT !.relays = b.active]
           d == [c EXCEPT !.reannounced = TRUE]
<1>1. HasFields(b, AnnFields) BY DEF Sensible, HasFields
<1>2. b.object = a.object /\ b.running = a.running /\ b.alive = a.alive /\ b.cycle = a.cycle
  BY DEF Sensible, HasFields, AnnFields
<1>3. CycleDone(a) = b \/ CycleDone(a) = c \/ CycleDone(a) = Update(d) BY DEF CycleDone, BuildRelays
<1> HIDE DEF b
<1>4. Later(a, b) BY <1>1, <1>2, LaterFlags
<1>5. Sensible(b) BY <1>4 DEF Later
<1>6. HasFields(c, AnnFields) BY <1>1 DEF HasFields
<1>7. c.object = b.object /\ c.running = b.running /\ c.alive = b.alive /\ c.cycle = b.cycle
  BY <1>1 DEF HasFields, AnnFields
<1> HIDE DEF c
<1>8. Later(b, c) BY <1>5, <1>6, <1>7, LaterFlags
<1>9. Sensible(c) BY <1>8 DEF Later
<1>10. HasFields(d, AnnFields) BY <1>6 DEF HasFields
<1>11. d.object = c.object /\ d.running = c.running /\ d.alive = c.alive /\ d.cycle = c.cycle
  BY <1>6 DEF HasFields, AnnFields
<1> HIDE DEF d
<1>12. Later(c, d) BY <1>9, <1>10, <1>11, LaterFlags
<1>13. Later(d, Update(d)) BY <1>12, LaterUpdate DEF Later
<1> QED BY <1>3, <1>4, <1>8, <1>12, <1>13, LaterTwice

\* The acknowledgement of an ANNOUNCE.
LEMMA LaterKept ==
  ASSUME NEW a, Sensible(a), NEW relay
  PROVE  Later(a, KeepRelay(a, relay))
<1>1. PICK x : KeepRelay(a, relay) = a \/ KeepRelay(a, relay) = [a EXCEPT !.active = x]
  <2> DEFINE known == {r \in a.active : r.node = relay.node}
  <2>1. \/ KeepRelay(a, relay) = a
        \/ KeepRelay(a, relay) = [a EXCEPT !.active = (a.active \ known) \cup {relay}]
        \/ KeepRelay(a, relay) = [a EXCEPT !.active = a.active \cup {relay}]
    BY DEF KeepRelay
  <2> QED BY <2>1
<1> DEFINE b == [a EXCEPT !.active = x]
<1>2. HasFields(b, AnnFields) BY DEF Sensible, HasFields
<1>3. b.object = a.object /\ b.running = a.running /\ b.alive = a.alive /\ b.cycle = a.cycle
  BY DEF Sensible, HasFields, AnnFields
<1>4. KeepRelay(a, relay) = a \/ KeepRelay(a, relay) = b BY <1>1
<1> HIDE DEF b
<1>5. Later(a, b) BY <1>2, <1>3, LaterFlags
<1> QED BY <1>4, <1>5, LaterItself

\* stop(): whatever ran has stopped, and its sentinel is gone.
LEMMA Stopping ==
  ASSUME NEW a, Sensible(a)
  PROVE  Sensible(StopImpl(a)) /\ StopImpl(a).object = a.object /\ ~StopImpl(a).running
<1> DEFINE b == [a EXCEPT !.running = FALSE, !.alive = FALSE, !.updating = FALSE, !.active = {}, !.relays = {}]
<1>1. HasFields(b, AnnFields) BY DEF Sensible, HasFields
<1>2. b.object = a.object /\ ~b.running /\ ~b.alive /\ b.cycle = a.cycle BY DEF Sensible, HasFields, AnnFields
<1>3. StopImpl(a) = IF a.running THEN b ELSE a BY DEF StopImpl
<1> HIDE DEF b
<1>4. Sensible(b) BY <1>1, <1>2 DEF Sensible
<1> QED BY <1>2, <1>3, <1>4

\* start(), on a new object or on one that was stopped.
LEMMA Starting ==
  ASSUME NEW a, HasFields(a, AnnFields), a.object \in Nat \ {0}, a.cycle \in Nat
  PROVE  Sensible(Start(a)) /\ Start(a).object = a.object
<1> DEFINE b == [a EXCEPT !.running = TRUE]
<1>1. HasFields(b, AnnFields) BY DEF HasFields
<1>2. b.object = a.object /\ b.running /\ b.cycle = a.cycle BY DEF HasFields, AnnFields
<1>3. Start(a) = IF a.running THEN a ELSE Update(b) BY DEF Start
<1> HIDE DEF b
<1>4. Sensible(b) BY <1>1, <1>2 DEF Sensible
<1>5. CASE a.running BY <1>3, <1>5 DEF Sensible
<1>6. CASE ~a.running BY <1>2, <1>3, <1>4, <1>6, LaterUpdate DEF Later
<1> QED BY <1>5, <1>6

\* A new object, and what close() leaves.
LEMMA Making ==
  ASSUME NEW n \in Nat
  PROVE  /\ HasFields(Created(n), AnnFields) /\ Created(n).object = n /\ Created(n).cycle = 0 /\ ~Created(n).running
         /\ Sensible([Created(n) EXCEPT !.alive = FALSE]) /\ [Created(n) EXCEPT !.alive = FALSE].object = n
         /\ ~[Created(n) EXCEPT !.alive = FALSE].running
<1>1. HasFields(Created(n), AnnFields) /\ Created(n).object = n /\ Created(n).cycle = 0 /\ ~Created(n).running
  BY DEF HasFields, AnnFields, Created
<1> DEFINE b == [Created(n) EXCEPT !.alive = FALSE]
<1>2. HasFields(b, AnnFields) BY <1>1 DEF HasFields
<1>3. b.object = n /\ b.cycle = 0 /\ ~b.running /\ ~b.alive BY <1>1 DEF HasFields, AnnFields
<1> HIDE DEF b
<1>4. Sensible(b) BY <1>2, <1>3 DEF Sensible
<1> QED BY <1>1, <1>3, <1>4 DEF b

WalkSet == [server : Servers, object : Nat \ {0}, cycle : Nat, unasked : SUBSET Nodes, stuck : BOOLEAN]

\* Walks are begun by announcers that were made.
LEMMA BegunTyped ==
  ASSUME NEW after, \A s \in Servers : Sensible(ann[s]) /\ Sensible(after[s])
  PROVE  Begun(after) \subseteq WalkSet
<1> SUFFICES ASSUME NEW s \in Servers,
                    NEW c \in (IF after[s].object = ann[s].object THEN ann[s].cycle + 1 ELSE 1) .. after[s].cycle
             PROVE  [server |-> s, object |-> after[s].object, cycle |-> c, unasked |-> Nodes, stuck |-> FALSE] \in WalkSet
  BY DEF Begun
<1>1. ann[s].cycle \in Nat /\ after[s].cycle \in Nat /\ after[s].object \in Nat BY DEF Sensible
<1>2. c \in Nat /\ after[s].cycle # 0 BY <1>1
<1>3. after[s].object # 0 BY <1>2 DEF Sensible
<1> QED BY <1>1, <1>2, <1>3 DEF WalkSet

-----------------------------------------------------------------------------
(* Servers and their announcers.                                            *)

SrvFields == {"created", "listening", "closed", "suspended"}

\* One server: it has an announcer if it listens; unless it was told to listen after
\* a stop, it does not listen once closed, and its announcer rests once it was stopped.
OnServer(s) ==
  /\ Sensible(ann[s]) /\ HasFields(srv[s], SrvFields)
  /\ srv[s].listening => ann[s].object # 0
  /\ s \notin late => /\ srv[s].closed => ~srv[s].listening
                      /\ srv[s].suspended \/ srv[s].closed => ~ann[s].running

\* The inductive invariant of servers, announcers and walks.
AnnounceInv ==
  /\ HasFields(ann, Servers) /\ HasFields(srv, Servers) /\ walks \subseteq WalkSet
  /\ \A s \in Servers : OnServer(s)

LEMMA AnnounceInit == Init => AnnounceInv
<1> SUFFICES ASSUME Init PROVE AnnounceInv OBVIOUS
<1>1. HasFields(ann, Servers) /\ HasFields(srv, Servers) /\ walks = {} BY DEF Init, AnnouncerInit, HasFields
<1> SUFFICES ASSUME NEW s \in Servers PROVE OnServer(s) BY <1>1 DEF AnnounceInv
<1>2. ann[s] = Created(0) BY DEF Init, AnnouncerInit
<1>3. Sensible(ann[s])
  <2>1. HasFields(Created(0), AnnFields) /\ Created(0).object = 0 /\ Created(0).cycle = 0 /\ ~Created(0).running
    BY 0 \in Nat, Making
  <2> QED BY <1>2, <2>1 DEF Sensible
<1>4. srv[s] = [created |-> FALSE, listening |-> FALSE, closed |-> FALSE, suspended |-> FALSE] BY DEF Init
<1>5. HasFields(srv[s], SrvFields) BY <1>4 DEF HasFields, SrvFields
<1> QED BY <1>3, <1>4, <1>5 DEF OnServer

\* Steps in which announcers change but none starts or stops.
LEMMA AnnounceLater ==
  ASSUME AnnounceInv, UNCHANGED srv, late \subseteq late', HasFields(ann', Servers),
         \A s \in Servers : Later(ann[s], ann'[s]), walks' \subseteq WalkSet \cup Begun(ann')
  PROVE  AnnounceInv'
<1>1. \A s \in Servers : Sensible(ann[s]) /\ Sensible(ann'[s]) BY DEF AnnounceInv, OnServer, Later
<1>2. Begun(ann') \subseteq WalkSet BY <1>1, BegunTyped
<1>3. ASSUME NEW s \in Servers PROVE OnServer(s)' BY <1>3 DEF AnnounceInv, OnServer, Later
<1>4. walks' \subseteq WalkSet BY <1>2
<1> QED BY <1>3, <1>4 DEF AnnounceInv

\* Walks, requests, pings and the timers of an announcer.
LEMMA AnnounceProgress ==
  ASSUME AnnounceInv, Progress \/ VisitRefused \/ \E s \in Servers : Timer(s)
  PROVE  AnnounceInv'
<1>1. UNCHANGED <<srv, late>> BY DEF Progress, VisitRefused, Timer, lifeVars
<1>2. \A s \in Servers : Sensible(ann[s]) BY DEF AnnounceInv, OnServer
<1>3. ASSUME NEW t, NEW b, ann' = [ann EXCEPT ![t] = b], t \in Servers => Later(ann[t], b),
             walks' \subseteq WalkSet \cup Begun(ann')
      PROVE  AnnounceInv'
  <2>1. HasFields(ann', Servers) BY <1>3 DEF AnnounceInv, HasFields
  <2>2. \A s \in Servers : ann'[s] = IF s = t THEN b ELSE ann[s] BY <1>3 DEF AnnounceInv, HasFields
  <2>3. \A s \in Servers : Later(ann[s], ann'[s]) BY <1>2, <1>3, <2>2, LaterItself
  <2> QED BY <1>1, <1>3, <2>1, <2>3, AnnounceLater
<1>4. ASSUME UNCHANGED ann, walks' \subseteq WalkSet \cup Begun(ann') PROVE AnnounceInv'
  BY <1>1, <1>2, <1>4, LaterItself, AnnounceLater DEF AnnounceInv
<1>5. ASSUME NEW w \in walks, NEW n \in Nodes, WalkReply(w, n, Port) PROVE AnnounceInv'
  <2>1. w \in WalkSet BY DEF AnnounceInv
  <2>2. [w EXCEPT !.unasked = @ \ {n}] \in WalkSet BY <2>1 DEF WalkSet
  <2>3. walks' \subseteq WalkSet BY <1>5, <2>2 DEF WalkReply, Asked, AnnounceInv
  <2> QED BY <1>4, <1>5, <2>3 DEF WalkReply
<1>6. ASSUME NEW w \in walks, WalkDone(w) PROVE AnnounceInv'
  <2>1. walks' \subseteq WalkSet \cup Begun(ann') BY <1>6 DEF WalkDone, AnnounceInv
  <2>2. ann' = ann \/ ann' = [ann EXCEPT ![w.server] = CycleDone(ann[w.server])] BY <1>6 DEF WalkDone
  <2> QED BY <1>2, <1>3, <1>4, <2>1, <2>2, LaterDone
<1>7. ASSUME NEW r, AnnounceAcked(r) \/ AnnounceTimeout(r) PROVE AnnounceInv'
  <2>1. walks' \subseteq WalkSet \cup Begun(ann') BY <1>7 DEF AnnounceAcked, AnnounceTimeout, AnnounceInv
  <2>2. ann' = ann \/ ann' = [ann EXCEPT ![r.server] = KeepRelay(ann[r.server], [node |-> r.node, port |-> r.port])]
    BY <1>7 DEF AnnounceAcked, AnnounceTimeout
  <2> QED BY <1>2, <1>3, <1>4, <2>1, <2>2, LaterKept
<1>8. ASSUME NEW p, PingResult(p) PROVE AnnounceInv'
  <2>1. walks' \subseteq WalkSet \cup Begun(ann') BY <1>8 DEF PingResult, AnnounceInv
  <2>2. ann' = ann \/ ann' = [ann EXCEPT ![p.server] = Refresh(ann[p.server])] BY <1>8 DEF PingResult
  <2> QED BY <1>2, <1>3, <1>4, <2>1, <2>2, LaterUpdate
<1>9. ASSUME NEW s \in Servers, BgTimer(s) PROVE AnnounceInv'
  <2>1. walks' \subseteq WalkSet \cup Begun(ann') BY <1>9 DEF BgTimer, AnnounceInv
  <2>2. ann' = [ann EXCEPT ![s] = Update(ann[s])] BY <1>9 DEF BgTimer
  <2> QED BY <1>2, <1>3, <2>1, <2>2, LaterUpdate
<1>10. ASSUME NEW s \in Servers, PingRelays(s) PROVE AnnounceInv'
  BY <1>4, <1>10 DEF PingRelays, AnnounceInv
<1>11. ASSUME NEW w \in walks, NEW n \in Nodes, WalkRefused(w, n) PROVE AnnounceInv'
  <2>1. w \in WalkSet BY DEF AnnounceInv
  <2>2. [w EXCEPT !.unasked = @ \ {n}, !.stuck = TRUE] \in WalkSet BY <2>1 DEF WalkSet
  <2>3. walks' \subseteq WalkSet BY <1>11, <2>2 DEF WalkRefused, AnnounceInv
  <2> QED BY <1>4, <1>11, <2>3 DEF WalkRefused
<1> QED BY <1>5, <1>6, <1>7, <1>8, <1>9, <1>10, <1>11 DEF Progress, VisitRefused, Timer

\* Events that reach the announcers of listening servers.
LEMMA AnnounceEvents ==
  ASSUME AnnounceInv,
         \/ NetworkChange \/ BackgroundTick \/ ProbeTimeout
         \/ \E s \in Servers : RefreshServer(s)
         \/ \E h \in scenario.hosts : ServerSocketPacket(h)
  PROVE  AnnounceInv'
<1>1. \A s \in Servers : Sensible(ann[s]) BY DEF AnnounceInv, OnServer
<1>2. ASSUME NEW as, HasFields(as, Servers), \A s \in Servers : Later(ann[s], as[s]), Announcers(as), UNCHANGED <<srv, late>>
      PROVE  AnnounceInv'
  <2>1. ann' = as /\ walks' \subseteq WalkSet \cup Begun(ann') BY <1>2 DEF Announcers, AnnounceInv
  <2> QED BY <1>2, <2>1, AnnounceLater
<1>3. ASSUME UNCHANGED <<ann, walks, srv, late>> PROVE AnnounceInv'
  <2>1. walks' \subseteq WalkSet \cup Begun(ann') BY <1>3 DEF AnnounceInv
  <2> QED BY <1>1, <1>3, <2>1, LaterItself, AnnounceLater DEF AnnounceInv
<1>4. HasFields(ann, Servers) /\ \A s \in Servers : Later(ann[s], ann[s]) BY <1>1, LaterItself DEF AnnounceInv
<1>5. ASSUME NEW as, HasFields(as, Servers), \A s \in Servers : Later(ann[s], as[s]), NEW h
      PROVE  HasFields(NetworkUpdate(as, h), Servers) /\ \A s \in Servers : Later(ann[s], NetworkUpdate(as, h)[s])
  <2>1. \A s \in Servers : Later(as[s], NotifyOnline(as[s])) BY <1>5, LaterNotified DEF Later
  <2>2. \A s \in Servers : NetworkUpdate(as, h)[s] = as[s] \/ NetworkUpdate(as, h)[s] = NotifyOnline(as[s])
    BY DEF NetworkUpdate
  <2>3. HasFields(NetworkUpdate(as, h), Servers) BY DEF HasFields, NetworkUpdate
  <2> QED BY <1>5, <2>1, <2>2, <2>3, LaterTwice
<1>6. CASE NetworkChange
  <2> DEFINE refreshed == [s \in Servers |-> IF srv[s].suspended THEN ann[s] ELSE Refresh(ann[s])]
  <2>1. HasFields(refreshed, Servers) BY DEF HasFields
  <2>2. \A s \in Servers : Later(ann[s], refreshed[s]) BY <1>1, LaterItself, LaterUpdate
  <2>3. Announcers(NetworkUpdate(refreshed, health)) /\ UNCHANGED <<srv, late>> BY <1>6 DEF NetworkChange, lifeVars
  <2> HIDE DEF refreshed
  <2> QED BY <1>2, <1>5, <2>1, <2>2, <2>3
<1>7. CASE BackgroundTick
  <2>1. PICK h : (Announcers(NetworkUpdate(ann, h)) \/ Announcers(ann)) /\ UNCHANGED <<srv, late>>
    BY <1>7 DEF BackgroundTick
  <2> QED BY <1>2, <1>4, <1>5, <2>1
<1>8. ASSUME NEW s \in Servers, RefreshServer(s) PROVE AnnounceInv'
  <2> DEFINE as == [ann EXCEPT ![s] = Refresh(ann[s])]
  <2>1. HasFields(as, Servers) /\ \A t \in Servers : as[t] = IF t = s THEN Refresh(ann[t]) ELSE ann[t]
    BY DEF HasFields, AnnounceInv
  <2>2. Announcers(as) /\ UNCHANGED <<srv, late>> BY <1>8 DEF RefreshServer, lifeVars
  <2> HIDE DEF as
  <2>3. \A t \in Servers : Later(ann[t], as[t]) BY <1>1, <2>1, LaterItself, LaterUpdate
  <2> QED BY <1>2, <2>1, <2>2, <2>3
<1>9. ASSUME NEW p, FinishProbe(p), UNCHANGED <<srv, late>> PROVE AnnounceInv'
  <2> DEFINE as == [s \in Servers |-> IF NotifiesOnline(s) THEN NotifyOnline(ann[s]) ELSE ann[s]]
  <2>1. HasFields(as, Servers) BY DEF HasFields
  <2>2. \A s \in Servers : Later(ann[s], as[s]) BY <1>1, LaterItself, LaterNotified
  <2>3. UNCHANGED <<ann, walks>> \/ Announcers(as) BY <1>9 DEF FinishProbe, StaysEphemeral, BecomePersistent
  <2> HIDE DEF as
  <2> QED BY <1>2, <1>3, <1>9, <2>1, <2>2, <2>3
<1>10. CASE ProbeTimeout BY <1>9, <1>10 DEF ProbeTimeout
<1>11. ASSUME NEW h \in scenario.hosts, ServerSocketPacket(h) PROVE AnnounceInv'
  <2>1. UNCHANGED <<srv, late>> /\ (UNCHANGED <<ann, walks>> \/ \E p : FinishProbe(p))
    BY <1>11 DEF ServerSocketPacket
  <2> QED BY <1>3, <1>9, <2>1
<1> QED BY <1>6, <1>7, <1>8, <1>10, <1>11

\* Walks of announcers that have just been changed.
LEMMA AnnounceMade ==
  ASSUME AnnounceInv, HasFields(ann', Servers), HasFields(srv', Servers), \A s \in Servers : OnServer(s)',
         walks' \subseteq walks \cup Begun(ann')
  PROVE  AnnounceInv'
<1>1. \A s \in Servers : Sensible(ann[s]) /\ Sensible(ann'[s]) BY DEF AnnounceInv, OnServer
<1>2. Begun(ann') \subseteq WalkSet BY <1>1, BegunTyped
<1> QED BY <1>2 DEF AnnounceInv

\* listen(): a new object; a server that was stopped before is one of `late`.
LEMMA AnnounceListen ==
  ASSUME AnnounceInv, NEW s \in Servers, Listen(s)
  PROVE  AnnounceInv'
<1>1. Sensible(ann[s]) /\ HasFields(srv[s], SrvFields) BY DEF AnnounceInv, OnServer
<1> DEFINE a == Start(Created(ann[s].object + 1))
           r == [srv[s] EXCEPT !.listening = TRUE]
<1>2. /\ ann' = [ann EXCEPT ![s] = a] /\ srv' = [srv EXCEPT ![s] = r] /\ walks' \subseteq walks \cup Begun(ann')
      /\ late' = IF srv[s].closed \/ srv[s].suspended \/ dht.destroyed THEN late \cup {s} ELSE late
  BY DEF Listen, Announcers
<1>3. Sensible(a) /\ a.object # 0
  <2>1. ann[s].object + 1 \in Nat \ {0} BY <1>1 DEF Sensible
  <2>2. HasFields(Created(ann[s].object + 1), AnnFields) /\ Created(ann[s].object + 1).object = ann[s].object + 1
        /\ Created(ann[s].object + 1).cycle = 0
    BY <2>1, Making
  <2> QED BY <2>1, <2>2, Starting
<1>4. HasFields(r, SrvFields) BY <1>1 DEF HasFields
<1>5. r.closed = srv[s].closed /\ r.suspended = srv[s].suspended BY <1>1 DEF HasFields, SrvFields
<1> HIDE DEF a, r
<1>6. HasFields(ann', Servers) /\ HasFields(srv', Servers) BY <1>2 DEF AnnounceInv, HasFields
<1>7. \A t \in Servers : ann'[t] = (IF t = s THEN a ELSE ann[t]) /\ srv'[t] = (IF t = s THEN r ELSE srv[t])
  BY <1>2 DEF AnnounceInv, HasFields
<1>8. ASSUME NEW t \in Servers PROVE OnServer(t)'
  <2>1. CASE t = s BY <1>2, <1>3, <1>4, <1>5, <1>7, <2>1 DEF OnServer
  <2>2. CASE t # s BY <1>2, <1>7, <2>2 DEF AnnounceInv, OnServer
  <2> QED BY <2>1, <2>2
<1> QED BY <1>2, <1>6, <1>8, AnnounceMade

\* close() and destroy(): the object is dropped and its sentinel with it.
LEMMA AnnounceClose ==
  ASSUME AnnounceInv, NEW S \in SUBSET Servers, srv' = ClosedServers(S), ann' = ClosedAnnouncers(S),
         UNCHANGED late, walks' \subseteq walks \cup Begun(ann')
  PROVE  AnnounceInv'
<1>1. HasFields(ann', Servers) /\ HasFields(srv', Servers) BY DEF HasFields, ClosedServers, ClosedAnnouncers
<1>2. ASSUME NEW t \in Servers PROVE OnServer(t)'
  <2>1. CASE t \notin S
    <3>1. ann'[t] = ann[t] /\ srv'[t] = srv[t] BY <2>1 DEF ClosedServers, ClosedAnnouncers
    <3> QED BY <3>1 DEF AnnounceInv, OnServer
  <2>2. CASE t \in S
    <3> DEFINE r == [srv[t] EXCEPT !.closed = TRUE, !.listening = FALSE]
    <3>1. ann'[t] = [Created(ann[t].object) EXCEPT !.alive = FALSE] /\ srv'[t] = r
      BY <2>2 DEF ClosedServers, ClosedAnnouncers
    <3>2. Sensible(ann[t]) /\ HasFields(srv[t], SrvFields) BY DEF AnnounceInv, OnServer
    <3>3. Sensible(ann'[t]) /\ ~ann'[t].running
      <4>1. ann[t].object \in Nat BY <3>2 DEF Sensible
      <4> QED BY <3>1, <4>1, Making
    <3>4. HasFields(r, SrvFields) BY <3>2 DEF HasFields
    <3>5. ~r.listening BY <3>2 DEF HasFields, SrvFields
    <3> HIDE DEF r
    <3> QED BY <3>1, <3>3, <3>4, <3>5 DEF OnServer
  <2> QED BY <2>1, <2>2
<1> QED BY <1>1, <1>2, AnnounceMade

\* Server::suspend and HyperDHT::suspend.
LEMMA AnnounceSuspend ==
  ASSUME AnnounceInv, NEW S \in SUBSET Servers, SuspendServers(S), UNCHANGED late
  PROVE  AnnounceInv'
<1> DEFINE active == {s \in S : srv[s].created /\ ~srv[s].suspended}
<1>1. /\ srv' = [s \in Servers |-> IF s \in active THEN [srv[s] EXCEPT !.suspended = TRUE] ELSE srv[s]]
      /\ ann' = [s \in Servers |-> IF s \in active THEN StopImpl(ann[s]) ELSE ann[s]]
      /\ walks' \subseteq walks \cup Begun(ann')
  BY DEF SuspendServers, SuspendedServers, Announcers
<1> HIDE DEF active
<1>2. HasFields(ann', Servers) /\ HasFields(srv', Servers) BY <1>1 DEF HasFields
<1>3. ASSUME NEW t \in Servers PROVE OnServer(t)'
  <2>1. Sensible(ann[t]) /\ HasFields(srv[t], SrvFields) BY DEF AnnounceInv, OnServer
  <2>2. CASE t \notin active
    <3>1. ann'[t] = ann[t] /\ srv'[t] = srv[t] BY <1>1, <2>2
    <3> QED BY <3>1 DEF AnnounceInv, OnServer
  <2>3. CASE t \in active
    <3> DEFINE r == [srv[t] EXCEPT !.suspended = TRUE]
    <3>1. ann'[t] = StopImpl(ann[t]) /\ srv'[t] = r BY <1>1, <2>3
    <3>2. Sensible(ann'[t]) /\ ~ann'[t].running /\ ann'[t].object = ann[t].object BY <2>1, <3>1, Stopping
    <3>3. HasFields(r, SrvFields) BY <2>1 DEF HasFields
    <3>4. r.listening = srv[t].listening /\ r.closed = srv[t].closed BY <2>1 DEF HasFields, SrvFields
    <3> HIDE DEF r
    <3> QED BY <3>1, <3>2, <3>3, <3>4 DEF AnnounceInv, OnServer
  <2> QED BY <2>2, <2>3
<1> QED BY <1>1, <1>2, <1>3, AnnounceMade

\* Server::resume and HyperDHT::resume: the object it has starts again, and a closed
\* server has none to start unless it was told to listen.
LEMMA AnnounceResume ==
  ASSUME AnnounceInv, NEW S \in SUBSET Servers, ResumeServers(S), UNCHANGED late
  PROVE  AnnounceInv'
<1> DEFINE paused == {s \in S : srv[s].suspended}
<1>1. /\ srv' = [s \in Servers |-> IF s \in paused THEN [srv[s] EXCEPT !.suspended = FALSE] ELSE srv[s]]
      /\ ann' = [s \in Servers |-> IF s \in paused /\ srv[s].listening THEN Start(ann[s]) ELSE ann[s]]
      /\ walks' \subseteq walks \cup Begun(ann')
  BY DEF ResumeServers, Announcers
<1> HIDE DEF paused
<1>2. HasFields(ann', Servers) /\ HasFields(srv', Servers) BY <1>1 DEF HasFields
<1>3. ASSUME NEW t \in Servers PROVE OnServer(t)'
  <2>1. Sensible(ann[t]) /\ HasFields(srv[t], SrvFields) BY DEF AnnounceInv, OnServer
  <2>2. CASE t \notin paused
    <3>1. ann'[t] = ann[t] /\ srv'[t] = srv[t] BY <1>1, <2>2
    <3> QED BY <3>1 DEF AnnounceInv, OnServer
  <2>3. CASE t \in paused
    <3> DEFINE r == [srv[t] EXCEPT !.suspended = FALSE]
    <3>1. srv'[t] = r /\ ann'[t] = IF srv[t].listening THEN Start(ann[t]) ELSE ann[t] BY <1>1, <2>3
    <3>2. HasFields(r, SrvFields) BY <2>1 DEF HasFields
    <3>3. r.listening = srv[t].listening /\ r.closed = srv[t].closed /\ ~r.suspended BY <2>1 DEF HasFields, SrvFields
    <3> HIDE DEF r
    <3>4. CASE srv[t].listening
      <4>1. ann[t].object # 0 BY <3>4 DEF AnnounceInv, OnServer
      <4>2. Sensible(ann'[t]) /\ ann'[t].object # 0 BY <2>1, <3>1, <3>4, <4>1, Starting DEF Sensible
      <4> QED BY <3>1, <3>2, <3>3, <3>4, <4>2 DEF AnnounceInv, OnServer
    <3>5. CASE ~srv[t].listening BY <3>1, <3>2, <3>3, <3>5 DEF AnnounceInv, OnServer
    <3> QED BY <3>4, <3>5
  <2> QED BY <2>2, <2>3
<1> QED BY <1>1, <1>2, <1>3, AnnounceMade

LEMMA AnnounceStep == AnnounceInv /\ [Next]_vars => AnnounceInv'
<1> SUFFICES ASSUME AnnounceInv, [Next]_vars PROVE AnnounceInv' OBVIOUS
<1>1. ASSUME Bind \/ ConnectEntry \/ OnBootstrapped \/ BootstrapDone \/ RefreshDone \/ UNCHANGED vars PROVE AnnounceInv'
  <2>1. UNCHANGED <<ann, walks, srv, late>>
    BY <1>1 DEF Bind, ConnectEntry, OnBootstrapped, BootstrapDone, RefreshDone, vars, lifeVars, announcerVars
  <2> QED BY <2>1 DEF AnnounceInv, OnServer
<1>2. ASSUME NEW s \in Servers, CreateServer(s) PROVE AnnounceInv'
  <2> DEFINE r == [srv[s] EXCEPT !.created = TRUE]
  <2>1. UNCHANGED <<ann, walks, late>> /\ srv' = [srv EXCEPT ![s] = r] BY <1>2 DEF CreateServer, announcerVars
  <2>2. HasFields(srv[s], SrvFields) BY DEF AnnounceInv, OnServer
  <2>3. HasFields(r, SrvFields) BY <2>2 DEF HasFields
  <2>4. r.listening = srv[s].listening /\ r.closed = srv[s].closed /\ r.suspended = srv[s].suspended
    BY <2>2 DEF HasFields, SrvFields
  <2> HIDE DEF r
  <2>5. HasFields(srv', Servers) /\ \A t \in Servers : srv'[t] = IF t = s THEN r ELSE srv[t]
    BY <2>1 DEF AnnounceInv, HasFields
  <2>6. \A t \in Servers : OnServer(t)' BY <2>1, <2>3, <2>4, <2>5 DEF AnnounceInv, OnServer
  <2> QED BY <2>1, <2>5, <2>6 DEF AnnounceInv
<1>3. ASSUME NEW s \in Servers, Close(s) PROVE AnnounceInv'
  <2>1. /\ {s} \in SUBSET Servers /\ srv' = ClosedServers({s}) /\ ann' = ClosedAnnouncers({s}) /\ UNCHANGED late
        /\ walks' \subseteq walks \cup Begun(ann')
    BY <1>3 DEF Close, Announcers
  <2> QED BY <2>1, AnnounceClose
<1>4. CASE Destroy
  <2> DEFINE open == {s \in Servers : Closes(s)}
  <2>1. /\ open \in SUBSET Servers /\ srv' = ClosedServers(open) /\ ann' = ClosedAnnouncers(open) /\ UNCHANGED late
        /\ walks' \subseteq walks \cup Begun(ann')
    BY <1>4 DEF Destroy
  <2> HIDE DEF open
  <2> QED BY <2>1, AnnounceClose
<1>5. ASSUME NEW s \in Servers, SuspendServer(s) PROVE AnnounceInv'
  BY <1>5, {s} \in SUBSET Servers, AnnounceSuspend DEF SuspendServer
<1>6. ASSUME NEW s \in Servers, ResumeServer(s) PROVE AnnounceInv'
  BY <1>6, {s} \in SUBSET Servers, AnnounceResume DEF ResumeServer
<1>7. CASE Suspend BY <1>7, Servers \in SUBSET Servers, AnnounceSuspend DEF Suspend
<1>8. CASE Resume BY <1>8, Servers \in SUBSET Servers, AnnounceResume DEF Resume
<1> QED BY <1>1, <1>2, <1>3, <1>4, <1>5, <1>6, <1>7, <1>8, AnnounceListen, AnnounceProgress, AnnounceEvents DEF Next

\* The inductive invariant of servers, announcers and walks.
THEOREM AnnounceTheorem == Spec => []AnnounceInv
BY AnnounceInit, AnnounceStep, PTL DEF Spec

\* What was stopped stays stopped: no announcer of a suspended or closed server runs and
\* no walk begun for it can still touch it, unless it was told to listen afterwards; a
\* destroyed node has no timer, watcher or probe (Server::close, suspend, HyperDHT::destroy).
THEOREM StoppedTheorem == Spec => []StoppedStaysStopped
<1>1. NodeInv /\ AnnounceInv => StoppedStaysStopped
  <2> SUFFICES ASSUME NodeInv, AnnounceInv PROVE StoppedStaysStopped OBVIOUS
  <2>1. ASSUME NEW s \in Servers \ late, srv[s].suspended \/ srv[s].closed
        PROVE  ~ann[s].running /\ \A w \in walks : w.server = s => ~MayTouch(w)
    <3>1. ~ann[s].running /\ (ann[s].alive => ann[s].object = 0) BY <2>1 DEF AnnounceInv, OnServer, Sensible
    <3>2. \A w \in walks : w.object # 0 BY DEF AnnounceInv, WalkSet
    <3> QED BY <3>1, <3>2 DEF MayTouch
  <2>2. dht.destroyed => ~sock.ticking /\ ~dht.watching /\ ~probe.running /\ forwards \subseteq late
    BY DEF NodeInv, Halted
  <2> QED BY <2>1, <2>2 DEF StoppedStaysStopped
<1> QED BY <1>1, NodeTheorem, AnnounceTheorem, PTL
=============================================================================
