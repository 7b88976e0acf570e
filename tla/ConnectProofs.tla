---------------------------- MODULE ConnectProofs ----------------------------
(***************************************************************************)
(* Proofs about Connect and Holepunch, for every number of relays, pings,  *)
(* attempts, polls and rounds; and about SecretStream, the stream that the *)
(* connection carries, for every number of messages and size of counter.   *)
(***************************************************************************)
EXTENDS Connect, SecretStream, FiniteSetTheorems, SequenceTheorems, TLAPS

PuncherFields == {"connected", "punching", "destroyed", "timer", "round", "probes_left", "local", "remote"}
PuncherRecord(p) == DOMAIN p = PuncherFields /\ p = [f \in PuncherFields |-> p[f]]

PunchFields ==
  {"begun", "completed", "result", "pool", "relayPing", "relaySeen", "others", "sampled", "fw", "frozen",
   "sampling_done", "r1", "r2", "told", "server", "token", "retried", "wait", "sleeper", "puncher"}

PunchRecord(h) == DOMAIN h = PunchFields /\ h = [f \in PunchFields |-> h[f]]

FieldsTyped(h) == h.wait \in Int /\ h.fw \in Classes /\ PuncherRecord(h.puncher)

\* A punch is at Round 1, waits for samples, sleeps or has sent Round 2, and only
\* one of these; from the first sleep on its own class is known.
OnePhase(h) ==
  /\ h.r1 # Idle => h.wait <= 0 /\ h.sleeper = "none" /\ h.told = "none"
  /\ h.wait > 0 => h.sleeper = "none" /\ h.told = "none"
  /\ h.sleeper # "none" => h.told = "none"
  /\ h.sleeper # "none" \/ h.told # "none" => h.fw # "unknown" /\ h.puncher.local # "unknown"
  /\ h.told # "unknown"
  /\ h.puncher.punching => h.told # "none" /\ h.puncher.local # "random"

Settled(h) ==
  h.completed =>
    /\ ~h.puncher.timer /\ ~h.puncher.punching
    /\ h.wait = 0 /\ h.sleeper = "none"
    /\ h.pool = IF h.result = "ok" THEN "kept" ELSE "closed"

PunchInv(h) == PunchRecord(h) /\ FieldsTyped(h) /\ OnePhase(h) /\ Settled(h)

-----------------------------------------------------------------------------
(* The operations of a punch.                                              *)

LEMMA NewPunch == PunchInv(NoPunch) /\ PunchInv(HolepunchConnect)
<1>1. PunchInv(NoPunch)
  <2>0. PunchRecord(NoPunch) BY DEF NoPunch, PunchRecord, PunchFields
  <2>1. FieldsTyped(NoPunch) BY DEF NoPunch, NewPuncher, FieldsTyped, PuncherRecord, PuncherFields, Classes
  <2>2. OnePhase(NoPunch) /\ Settled(NoPunch) BY DEF NoPunch, NewPuncher, OnePhase, Settled, Idle
  <2> QED BY <2>0, <2>1, <2>2 DEF PunchInv
<1>2. PunchInv(HolepunchConnect)
  <2> DEFINE b == [NoPunch EXCEPT !.begun = TRUE, !.pool = "open"]
             d == Discover(b)
             q == [d.puncher EXCEPT !.local = d.fw]
             r == [d EXCEPT !.r1 = Sent, !.puncher.local = d.fw]
  <2>0. HolepunchConnect = r BY DEF HolepunchConnect, RunRound1
  <2>1. PunchRecord(b) /\ b.completed = FALSE /\ b.wait = 0 /\ b.sleeper = "none" /\ b.told = "none"
        /\ b.fw = "unknown" /\ b.puncher = NewPuncher /\ b.server = "none"
    <3>1. PunchRecord(b) BY <1>1 DEF PunchInv, PunchRecord
    <3> QED BY <3>1 DEF NoPunch
  <2> HIDE DEF b
  <2>2. PunchRecord(d) /\ d.completed = FALSE /\ d.wait = 0 /\ d.sleeper = "none" /\ d.told = "none"
        /\ d.fw = "unknown" /\ d.puncher = NewPuncher /\ d.server = "none"
    <3>1. PunchRecord(d) BY <2>1 DEF PunchRecord, Discover
    <3> QED BY <2>1, <3>1 DEF PunchRecord, PunchFields, Discover
  <2> HIDE DEF d
  <2>3. PuncherRecord(q) /\ ~q.punching BY <2>2 DEF NewPuncher, PuncherRecord, PuncherFields
  <2>4. r = [d EXCEPT !.r1 = Sent, !.puncher = q] OBVIOUS
  <2> HIDE DEF q, r
  <2>6. PunchRecord(r) BY <2>2, <2>4 DEF PunchRecord
  <2>7. /\ r.completed = FALSE /\ r.wait = 0 /\ r.sleeper = "none" /\ r.told = "none" /\ r.puncher = q
        /\ r.fw = "unknown" /\ r.server = "none" /\ r.r1 = Sent
    BY <2>2, <2>4 DEF PunchRecord, PunchFields
  <2>8. FieldsTyped(r) BY <2>3, <2>7 DEF FieldsTyped, Classes
  <2>9. OnePhase(r) /\ Settled(r) BY <2>3, <2>7 DEF OnePhase, Settled
  <2> QED BY <2>0, <2>6, <2>8, <2>9 DEF PunchInv
<1> QED BY <1>1, <1>2

LEMMA DestroyedPuncher ==
  ASSUME NEW p, PuncherRecord(p)
  PROVE  PuncherRecord(Destroyed(p)) /\ ~Destroyed(p).timer /\ ~Destroyed(p).punching /\ Destroyed(p).local = p.local
<1>1. PuncherRecord(Destroyed(p)) BY DEF PuncherRecord, Destroyed
<1>2. ~Destroyed(p).timer /\ ~Destroyed(p).punching /\ Destroyed(p).local = p.local
  BY DEF PuncherRecord, PuncherFields, Destroyed
<1> QED BY <1>1, <1>2

LEMMA CompleteInv ==
  ASSUME NEW h, PunchInv(h), NEW r \in {"ok", "fail"}
  PROVE  PunchInv(Complete(h, r))
<1>1. CASE h.completed BY <1>1 DEF Complete
<1>2. CASE ~h.completed
  <2> DEFINE p == Destroyed(h.puncher)
             g == [h EXCEPT !.completed = TRUE, !.result = r, !.sleeper = "none", !.wait = 0, !.puncher = Destroyed(@)]
  <2>1. PuncherRecord(p) /\ ~p.timer /\ ~p.punching /\ p.local = h.puncher.local
    BY DestroyedPuncher DEF PunchInv, FieldsTyped
  <2>2. Complete(h, r) = IF r = "fail" THEN ClosePool(g) ELSE [g EXCEPT !.pool = "kept"] BY <1>2 DEF Complete
  <2>3. g = [h EXCEPT !.completed = TRUE, !.result = r, !.sleeper = "none", !.wait = 0, !.puncher = p] OBVIOUS
  <2> HIDE DEF p, g
  <2>4. PunchRecord(g) BY <2>3 DEF PunchInv, PunchRecord
  <2>5. /\ g.completed = TRUE /\ g.result = r /\ g.sleeper = "none" /\ g.wait = 0 /\ g.puncher = p
        /\ g.told = h.told /\ g.fw = h.fw /\ g.r1 = h.r1 /\ g.server = h.server
    BY <2>3 DEF PunchInv, PunchRecord, PunchFields
  <2> DEFINE k == [g EXCEPT !.pool = "kept"]
             c == ClosePool(g)
  <2>6. PunchRecord(k) /\ PunchRecord(c) BY <2>4 DEF PunchRecord, ClosePool
  <2>7. /\ k.completed = TRUE /\ k.result = r /\ k.sleeper = "none" /\ k.wait = 0 /\ k.puncher = p
        /\ k.told = h.told /\ k.fw = h.fw /\ k.r1 = h.r1 /\ k.server = h.server /\ k.pool = "kept"
    BY <2>4, <2>5 DEF PunchRecord, PunchFields
  <2>8. /\ c.completed = TRUE /\ c.result = r /\ c.sleeper = "none" /\ c.wait = 0 /\ c.puncher = p
        /\ c.told = h.told /\ c.fw = h.fw /\ c.r1 = Idle /\ c.server = h.server /\ c.pool = "closed"
    BY <2>4, <2>5 DEF PunchRecord, PunchFields, ClosePool
  <2> HIDE DEF k, c
  <2>9. FieldsTyped(k) /\ FieldsTyped(c) BY <2>1, <2>7, <2>8 DEF PunchInv, FieldsTyped
  <2>10. r # "fail" => OnePhase(k) /\ Settled(k) BY <2>1, <2>7 DEF PunchInv, OnePhase, Settled
  <2>11. r = "fail" => OnePhase(c) /\ Settled(c) BY <2>1, <2>8 DEF PunchInv, OnePhase, Settled
  <2> QED BY <2>2, <2>6, <2>9, <2>10, <2>11 DEF PunchInv, k, c
<1> QED BY <1>1, <1>2

\* o differs from h in what neither phase nor outcome depends on, in a request
\* of Round 1 that is over, or in a class that is known better.
Alike(h, o) ==
  /\ PunchRecord(o)
  /\ o.completed = h.completed /\ o.result = h.result /\ o.pool = h.pool
  /\ o.wait = h.wait /\ o.sleeper = h.sleeper /\ o.told = h.told /\ o.puncher = h.puncher
  /\ o.r1 # Idle => h.r1 # Idle
  /\ o.fw = h.fw \/ o.fw \in Classes \ {"unknown"}

LEMMA AlikeInv ==
  ASSUME NEW h, PunchInv(h), NEW o, Alike(h, o)
  PROVE  PunchInv(o)
<1>1. FieldsTyped(o) BY DEF PunchInv, FieldsTyped, Alike
<1>2. OnePhase(o) BY DEF PunchInv, OnePhase, Alike
<1>3. Settled(o) BY DEF PunchInv, Settled, Alike
<1> QED BY <1>1, <1>2, <1>3 DEF PunchInv, Alike

LEMMA AlikeTrans ==
  ASSUME NEW h, NEW o, NEW p, Alike(h, o), Alike(o, p)
  PROVE  Alike(h, p)
BY DEF Alike

LEMMA SampledAlike ==
  ASSUME NEW h, PunchRecord(h), NEW g \in Sampled(h)
  PROVE  Alike(h, g)
<1>1. PICK c \in IF h.frozen THEN {h.fw} ELSE ClassAfter(h.fw, h.sampled + 1) : g = [h EXCEPT !.sampled = @ + 1, !.fw = c]
  BY DEF Sampled
<1>2. c = h.fw \/ c \in Classes \ {"unknown"}
  <2>1. CASE h.frozen BY <1>1, <2>1
  <2>2. CASE ~h.frozen
    <3>1. c \in ClassAfter(h.fw, h.sampled + 1) BY <1>1, <2>2
    <3> QED BY <3>1 DEF ClassAfter, Classes
  <2> QED BY <2>1, <2>2
<1>3. PunchRecord(g) BY <1>1 DEF PunchRecord
<1>4. /\ g.completed = h.completed /\ g.result = h.result /\ g.pool = h.pool /\ g.wait = h.wait /\ g.sleeper = h.sleeper
      /\ g.told = h.told /\ g.puncher = h.puncher /\ g.r1 = h.r1 /\ g.fw = c
  BY <1>1 DEF PunchRecord, PunchFields
<1> QED BY <1>2, <1>3, <1>4 DEF Alike

LEMMA RelaySampledAlike ==
  ASSUME NEW h, PunchRecord(h), NEW g \in RelaySampled(h)
  PROVE  Alike(h, g)
<1>1. CASE h.relaySeen
  <2>1. g = h BY <1>1 DEF RelaySampled
  <2> QED BY <2>1 DEF Alike
<1>2. CASE ~h.relaySeen
  <2>1. PICK s \in Sampled(h) : g = [s EXCEPT !.relaySeen = TRUE] BY <1>2 DEF RelaySampled
  <2>2. Alike(h, s) BY SampledAlike
  <2>3. PunchRecord(s) BY <2>2 DEF Alike
  <2>4. PunchRecord(g) BY <2>1, <2>3 DEF PunchRecord
  <2>5. Alike(s, g) BY <2>1, <2>3, <2>4 DEF Alike, PunchRecord, PunchFields
  <2> QED BY <2>2, <2>5, AlikeTrans
<1> QED BY <1>1, <1>2

\* A ping that is answered or lost.
LEMMA PingOverAlike ==
  ASSUME NEW h, PunchRecord(h)
  PROVE  /\ Alike(h, Finish([h EXCEPT !.relayPing = FALSE]))
         /\ Alike(h, Finish([h EXCEPT !.others = @ - 1]))
<1> DEFINE a == [h EXCEPT !.relayPing = FALSE]
           b == [h EXCEPT !.others = @ - 1]
<1>1. PunchRecord(a) /\ PunchRecord(b) BY DEF PunchRecord
<1>2. Alike(h, a) /\ Alike(h, b) BY <1>1 DEF Alike, PunchRecord, PunchFields
<1> HIDE DEF a, b
<1>3. ASSUME NEW g, PunchRecord(g) PROVE Alike(g, Finish(g))
  <2>1. PunchRecord(Finish(g)) BY <1>3 DEF PunchRecord, Finish
  <2> QED BY <1>3, <2>1 DEF Alike, PunchRecord, PunchFields, Finish
<1>4. Alike(h, Finish(a)) /\ Alike(h, Finish(b)) BY <1>1, <1>2, <1>3, AlikeTrans
<1> QED BY <1>4 DEF a, b

\* Another puncher in the same phase.
LEMMA PuncherInv ==
  ASSUME NEW h, PunchInv(h), ~h.completed, NEW p, PuncherRecord(p), p.local = h.puncher.local,
         p.punching => h.told # "none" /\ p.local # "random",
         NEW o, o = [h EXCEPT !.puncher = p]
  PROVE  PunchInv(o) /\ ~o.completed
<1>1. PunchRecord(o) BY DEF PunchInv, PunchRecord
<1>2. /\ o.completed = h.completed /\ o.wait = h.wait /\ o.sleeper = h.sleeper
      /\ o.told = h.told /\ o.puncher = p /\ o.r1 = h.r1 /\ o.fw = h.fw
  BY DEF PunchInv, PunchRecord, PunchFields
<1>3. FieldsTyped(o) BY <1>2 DEF PunchInv, FieldsTyped
<1>4. OnePhase(o) BY <1>2 DEF PunchInv, OnePhase
<1>5. Settled(o) BY <1>2 DEF Settled
<1> QED BY <1>1, <1>2, <1>3, <1>4, <1>5 DEF PunchInv

LEMMA AbortInv ==
  ASSUME NEW h, PunchInv(h), ~h.completed
  PROVE  PunchInv(Abort(h))
<1> DEFINE p == Destroyed(h.puncher)
           o == [h EXCEPT !.puncher = p]
<1>1. PuncherRecord(p) /\ ~p.punching /\ p.local = h.puncher.local BY DestroyedPuncher DEF PunchInv, FieldsTyped
<1>2. Abort(h) = Complete(o, "fail") BY DEF Abort
<1> HIDE DEF p
<1>3. PunchInv(o) BY <1>1, PuncherInv
<1> QED BY <1>2, <1>3, CompleteInv

LEMMA ConsistentProbeInv ==
  ASSUME NEW h, PunchInv(h), ~h.completed
  PROVE  PunchInv(ConsistentProbe(h))
<1>0. PuncherRecord(h.puncher) /\ PunchRecord(h) BY DEF PunchInv, FieldsTyped
<1> DEFINE over == ~h.puncher.punching \/ h.puncher.connected \/ h.puncher.round >= Rounds
<1>1. CASE over /\ h.puncher.punching /\ ~h.puncher.connected
  <2>1. ConsistentProbe(h) = Abort(h) BY <1>1 DEF ConsistentProbe
  <2> QED BY <2>1, AbortInv
<1>2. CASE over /\ ~(h.puncher.punching /\ ~h.puncher.connected)
  <2> DEFINE p == [h.puncher EXCEPT !.timer = FALSE]
             o == [h EXCEPT !.puncher.timer = FALSE]
  <2>1. ConsistentProbe(h) = o BY <1>2 DEF ConsistentProbe
  <2>2. o = [h EXCEPT !.puncher = p] OBVIOUS
  <2>3. PuncherRecord(p) BY <1>0 DEF PuncherRecord
  <2>4. p.local = h.puncher.local /\ p.punching = h.puncher.punching BY <1>0 DEF PuncherRecord, PuncherFields
  <2> HIDE DEF p, o
  <2>5. p.punching => h.told # "none" /\ p.local # "random" BY <2>4 DEF PunchInv, OnePhase
  <2> QED BY <2>1, <2>2, <2>3, <2>4, <2>5, PuncherInv
<1>3. CASE ~over
  <2> DEFINE p == [h.puncher EXCEPT !.round = @ + 1, !.timer = TRUE]
             o == [h EXCEPT !.puncher.round = @ + 1, !.puncher.timer = TRUE]
  <2>1. ConsistentProbe(h) = o BY <1>3 DEF ConsistentProbe
  <2>2. o = [h EXCEPT !.puncher = p] BY <1>0 DEF PunchRecord, PunchFields, PuncherRecord, PuncherFields
  <2>3. PuncherRecord(p) BY <1>0 DEF PuncherRecord
  <2>4. p.local = h.puncher.local /\ p.punching = h.puncher.punching BY <1>0 DEF PuncherRecord, PuncherFields
  <2> HIDE DEF p, o
  <2>5. p.punching => h.told # "none" /\ p.local # "random" BY <2>4 DEF PunchInv, OnePhase
  <2> QED BY <2>1, <2>2, <2>3, <2>4, <2>5, PuncherInv
<1> QED BY <1>1, <1>2, <1>3

LEMMA RandomProbesInv ==
  ASSUME NEW h, PunchInv(h), ~h.completed
  PROVE  PunchInv(RandomProbes(h))
<1> DEFINE p == [h.puncher EXCEPT !.probes_left = @ - 1, !.timer = TRUE]
           o == RandomProbes(h)
<1>0. PuncherRecord(h.puncher) /\ PunchRecord(h) BY DEF PunchInv, FieldsTyped
<1>1. o = [h EXCEPT !.puncher = p] BY <1>0 DEF RandomProbes, PunchRecord, PunchFields, PuncherRecord, PuncherFields
<1>2. PuncherRecord(p) BY <1>0 DEF PuncherRecord
<1>3. p.local = h.puncher.local /\ p.punching = h.puncher.punching BY <1>0 DEF PuncherRecord, PuncherFields
<1> HIDE DEF p, o
<1>4. p.punching => h.told # "none" /\ p.local # "random" BY <1>3 DEF PunchInv, OnePhase
<1>5. PunchInv(o) BY <1>1, <1>2, <1>3, <1>4, PuncherInv
<1> QED BY <1>5 DEF o

LEMMA PunchOpInv ==
  ASSUME NEW h, PunchInv(h), ~h.completed, h.told # "none"
  PROVE  PunchInv(Punch(h))
<1>0. PuncherRecord(h.puncher) /\ PunchRecord(h) BY DEF PunchInv, FieldsTyped
<1> DEFINE p == [h.puncher EXCEPT !.punching = TRUE, !.round = 0]
           q == [h.puncher EXCEPT !.punching = TRUE, !.probes_left = Probes]
           a == [h EXCEPT !.puncher.punching = TRUE, !.puncher.round = 0]
           b == [h EXCEPT !.puncher.punching = TRUE, !.puncher.probes_left = Probes]
<1>1. CASE h.puncher.connected \/ h.puncher.local = "random" BY <1>1 DEF Punch
<1>2. CASE ~(h.puncher.connected \/ h.puncher.local = "random")
  <2>1. Punch(h) = IF h.puncher.remote # "random" THEN ConsistentProbe(a) ELSE RandomProbes(b) BY <1>2 DEF Punch
  <2>2. a = [h EXCEPT !.puncher = p] BY <1>0 DEF PunchRecord, PunchFields, PuncherRecord, PuncherFields
  <2>3. b = [h EXCEPT !.puncher = q] BY <1>0 DEF PunchRecord, PunchFields, PuncherRecord, PuncherFields
  <2>4. PuncherRecord(p) /\ PuncherRecord(q) BY <1>0 DEF PuncherRecord
  <2>5. p.local = h.puncher.local /\ q.local = h.puncher.local BY <1>0 DEF PuncherRecord, PuncherFields
  <2>6. p.local # "random" /\ q.local # "random" BY <1>2, <2>5
  <2> HIDE DEF p, q, a, b
  <2>7. PunchInv(a) /\ ~a.completed BY <2>2, <2>4, <2>5, <2>6, PuncherInv
  <2>8. PunchInv(b) /\ ~b.completed BY <2>3, <2>4, <2>5, <2>6, PuncherInv
  <2> QED BY <2>1, <2>7, <2>8, ConsistentProbeInv, RandomProbesInv
<1> QED BY <1>1, <1>2

\* A punch in no phase: what it waited for has just come.
Free(h) == h.r1 = Idle /\ h.wait <= 0 /\ h.sleeper = "none" /\ h.told = "none"

LEMMA RunRound1Inv ==
  ASSUME NEW h, PunchInv(h), Free(h), ~h.completed
  PROVE  PunchInv(RunRound1(h))
<1> DEFINE p == [h.puncher EXCEPT !.local = h.fw]
           o == RunRound1(h)
<1>0. PuncherRecord(h.puncher) /\ PunchRecord(h) BY DEF PunchInv, FieldsTyped
<1>1. o = [h EXCEPT !.r1 = Sent, !.puncher = p] BY DEF RunRound1
<1>2. PuncherRecord(p) BY <1>0 DEF PuncherRecord
<1>3. p.punching = h.puncher.punching BY <1>0 DEF PuncherRecord, PuncherFields
<1> HIDE DEF p, o
<1>4. PunchRecord(o) BY <1>0, <1>1 DEF PunchRecord
<1>5. /\ o.completed = h.completed /\ o.wait = h.wait /\ o.sleeper = h.sleeper /\ o.told = h.told /\ o.puncher = p
      /\ o.fw = h.fw
  BY <1>0, <1>1 DEF PunchRecord, PunchFields
<1>6. FieldsTyped(o) BY <1>2, <1>5 DEF PunchInv, FieldsTyped
<1>7. OnePhase(o) /\ Settled(o) BY <1>3, <1>5 DEF PunchInv, OnePhase, Settled, Free
<1>8. PunchInv(o) BY <1>4, <1>6, <1>7 DEF PunchInv
<1> QED BY <1>8 DEF o

LEMMA SendRound2Inv ==
  ASSUME NEW h, PunchInv(h), Free(h), ~h.completed, h.fw # "unknown", h.puncher.local # "unknown"
  PROVE  PunchInv(SendRound2(h))
<1> DEFINE o == [h EXCEPT !.frozen = TRUE, !.told = h.fw, !.r2 = Sent]
<1>0. PunchRecord(h) BY DEF PunchInv
<1>1. SendRound2(h) = Punch(o) BY DEF SendRound2
<1>2. PunchRecord(o) BY <1>0 DEF PunchRecord
<1>3. /\ o.completed = h.completed /\ o.wait = h.wait /\ o.sleeper = h.sleeper /\ o.told = h.fw
      /\ o.puncher = h.puncher /\ o.r1 = h.r1 /\ o.fw = h.fw
  BY <1>0 DEF PunchRecord, PunchFields
<1> HIDE DEF o
<1>4. FieldsTyped(o) BY <1>3 DEF PunchInv, FieldsTyped
<1>5. OnePhase(o) /\ Settled(o) BY <1>3, <1>4 DEF PunchInv, OnePhase, Settled, Free, FieldsTyped
<1>6. PunchInv(o) /\ ~o.completed /\ o.told # "none" BY <1>2, <1>3, <1>4, <1>5 DEF PunchInv, FieldsTyped, Classes
<1> QED BY <1>1, <1>6, PunchOpInv

\* A punch that waits or sleeps anew, with the puncher p.
LEMMA RestsInv ==
  ASSUME NEW h, PunchInv(h), h.r1 = Idle, h.told = "none", ~h.completed,
         NEW p, PuncherRecord(p), ~p.punching,
         NEW o, PunchRecord(o), o.completed = h.completed, o.r1 = h.r1, o.told = h.told,
         o.wait \in Int, o.fw \in Classes, o.wait > 0 => o.sleeper = "none", o.puncher = p,
         o.sleeper # "none" => o.fw # "unknown" /\ p.local # "unknown"
  PROVE  PunchInv(o)
<1>1. FieldsTyped(o) BY DEF FieldsTyped
<1>2. OnePhase(o) BY DEF OnePhase
<1>3. Settled(o) BY DEF Settled
<1> QED BY <1>1, <1>2, <1>3 DEF PunchInv

LEMMA ProceedInv ==
  ASSUME NEW h, PunchInv(h), h.r1 = Idle, h.sleeper = "none", h.told = "none", ~h.completed
  PROVE  PunchInv(Proceed(h))
<1> DEFINE remote == IF h.server = "unknown" THEN "consistent" ELSE h.server
           p == [h.puncher EXCEPT !.local = h.fw, !.remote = remote]
           g == [h EXCEPT !.wait = 0, !.puncher.local = h.fw, !.puncher.remote = remote]
<1>0. PuncherRecord(h.puncher) /\ PunchRecord(h) BY DEF PunchInv, FieldsTyped
<1>1. \/ Unstable(g.puncher) /\ Proceed(h) = Complete(g, "fail")
      \/ ~Unstable(g.puncher) /\ Proceed(h) = [g EXCEPT !.retried = TRUE, !.sleeper = "retry"]
      \/ ~Unstable(g.puncher) /\ Proceed(h) = [g EXCEPT !.sleeper = "pause"]
  BY DEF Proceed
<1> HIDE DEF remote
<1>2. g = [h EXCEPT !.wait = 0, !.puncher = p] BY <1>0 DEF PunchRecord, PunchFields, PuncherRecord, PuncherFields
<1>3. PuncherRecord(p) BY <1>0 DEF PuncherRecord
<1>4. p.punching = h.puncher.punching /\ p.local = h.fw BY <1>0 DEF PuncherRecord, PuncherFields
<1>5. ~p.punching BY <1>4 DEF PunchInv, OnePhase
<1> HIDE DEF p, g
<1>6. PunchRecord(g) BY <1>0, <1>2 DEF PunchRecord
<1>7. /\ g.completed = h.completed /\ g.wait = 0 /\ g.sleeper = "none" /\ g.told = "none"
      /\ g.puncher = p /\ g.r1 = h.r1 /\ g.fw = h.fw
  BY <1>0, <1>2 DEF PunchRecord, PunchFields
<1>8. PunchInv(g) BY <1>3, <1>5, <1>6, <1>7, RestsInv DEF PunchInv, FieldsTyped
<1>9. CASE Proceed(h) = Complete(g, "fail") BY <1>8, <1>9, CompleteInv
<1>10. ASSUME ~Unstable(g.puncher), NEW o,
              \/ o = [g EXCEPT !.retried = TRUE, !.sleeper = "retry"]
              \/ o = [g EXCEPT !.sleeper = "pause"]
       PROVE  PunchInv(o)
  <2>1. p.local # "unknown" BY <1>7, <1>10 DEF Unstable
  <2>2. PunchRecord(o) BY <1>6, <1>10 DEF PunchRecord
  <2>3. /\ o.completed = h.completed /\ o.wait = 0 /\ o.told = "none" /\ o.puncher = p /\ o.r1 = h.r1 /\ o.fw = h.fw
    BY <1>6, <1>7, <1>10 DEF PunchRecord, PunchFields
  <2>4. o.fw \in Classes BY <2>3 DEF PunchInv, FieldsTyped
  <2> QED BY <1>3, <1>4, <1>5, <2>1, <2>2, <2>3, <2>4, RestsInv
<1> QED BY <1>1, <1>9, <1>10

-----------------------------------------------------------------------------
(* The steps of a punch.                                                   *)

LEMMA PingsInv ==
  ASSUME PunchInv(hp), PingAnswered \/ PingLost
  PROVE  PunchInv(hp')
<1>0. PunchRecord(hp) BY DEF PunchInv
<1>1. \E g : Alike(hp, g) /\ (hp' = Finish([g EXCEPT !.relayPing = FALSE]) \/ hp' = Finish([g EXCEPT !.others = @ - 1]))
  <2>1. ASSUME NEW g \in RelaySampled(hp), hp' = Finish([g EXCEPT !.relayPing = FALSE]) PROVE <1>1!:
    BY <1>0, <2>1, RelaySampledAlike
  <2>2. ASSUME NEW g \in Sampled(hp), hp' = Finish([g EXCEPT !.others = @ - 1]) PROVE <1>1!:
    BY <1>0, <2>2, SampledAlike
  <2>3. Alike(hp, hp) BY <1>0 DEF Alike
  <2>4. CASE PingAnswered BY <2>1, <2>2, <2>4 DEF PingAnswered
  <2>5. CASE PingLost BY <2>3, <2>5 DEF PingLost
  <2> QED BY <2>4, <2>5
<1>2. PICK g : Alike(hp, g) /\ (hp' = Finish([g EXCEPT !.relayPing = FALSE]) \/ hp' = Finish([g EXCEPT !.others = @ - 1]))
  BY <1>1
<1>3. PunchRecord(g) BY <1>2 DEF Alike
<1>4. Alike(g, hp') BY <1>2, <1>3, PingOverAlike
<1> QED BY <1>2, <1>4, AlikeTrans, AlikeInv

LEMMA OnRound1ResponseInv ==
  ASSUME PunchInv(hp), OnRound1Response
  PROVE  PunchInv(hp')
<1> DEFINE i == [hp EXCEPT !.r1 = Idle]
<1>0. PunchRecord(hp) BY DEF PunchInv
<1>1. PunchRecord(i) BY <1>0 DEF PunchRecord
<1>2. Alike(hp, i) /\ i.r1 = Idle BY <1>0, <1>1 DEF Alike, PunchRecord, PunchFields
<1>3. PICK g \in RelaySampled(i) :
        \/ hp' = Complete(g, "fail")
        \/ hp' = Complete(g, "ok")
        \/ \E fw \in Classes, token \in BOOLEAN :
             LET s == [g EXCEPT !.server = fw, !.token = token]
             IN  hp' = IF g.completed THEN g ELSE IF Enough(g) THEN Proceed(s) ELSE [s EXCEPT !.wait = Polls]
  BY DEF OnRound1Response
<1> HIDE DEF i
<1>4. Alike(i, g) BY <1>1, RelaySampledAlike
<1>5. Alike(hp, g) BY <1>2, <1>4, AlikeTrans
<1>6. PunchInv(g) /\ g.r1 = Idle /\ g.told = "none" /\ g.sleeper = "none"
  <2>1. hp.told = "none" /\ hp.sleeper = "none" BY DEF OnRound1Response, PunchInv, OnePhase
  <2>2. PunchInv(g) BY <1>5, AlikeInv
  <2> QED BY <1>2, <1>4, <1>5, <2>1, <2>2 DEF Alike
<1>7. CASE hp' = Complete(g, "fail") \/ hp' = Complete(g, "ok") BY <1>6, <1>7, CompleteInv
<1>8. ASSUME NEW fw \in Classes, NEW token \in BOOLEAN, NEW s, s = [g EXCEPT !.server = fw, !.token = token],
             hp' = IF g.completed THEN g ELSE IF Enough(g) THEN Proceed(s) ELSE [s EXCEPT !.wait = Polls]
      PROVE  PunchInv(hp')
  <2>0. PunchRecord(g) BY <1>6 DEF PunchInv
  <2>1. PunchRecord(s) BY <1>8, <2>0 DEF PunchRecord
  <2>2. Alike(g, s) /\ s.r1 = g.r1 BY <1>8, <2>0, <2>1 DEF Alike, PunchRecord, PunchFields
  <2>3. PunchInv(s) BY <1>6, <2>2, AlikeInv
  <2>4. s.r1 = Idle /\ s.told = "none" /\ s.sleeper = "none" /\ s.completed = g.completed BY <1>6, <2>2 DEF Alike
  <2>5. CASE g.completed BY <1>6, <1>8, <2>5
  <2>6. CASE ~g.completed /\ Enough(g)
    <3>1. hp' = Proceed(s) BY <1>8, <2>6
    <3> QED BY <2>3, <2>4, <2>6, <3>1, ProceedInv
  <2>7. CASE ~g.completed /\ ~Enough(g)
    <3> DEFINE o == [s EXCEPT !.wait = Polls]
    <3>1. hp' = o BY <1>8, <2>7
    <3>2. Polls \in Int BY HolepunchAssumption
    <3>3. PunchRecord(o) BY <2>1 DEF PunchRecord
    <3>4. /\ o.completed = s.completed /\ o.wait = Polls /\ o.sleeper = "none" /\ o.told = s.told
          /\ o.puncher = s.puncher /\ o.r1 = s.r1 /\ o.fw = s.fw
      BY <2>1, <2>4 DEF PunchRecord, PunchFields
    <3> HIDE DEF o
    <3>5. PuncherRecord(s.puncher) /\ s.fw \in Classes /\ ~s.puncher.punching BY <2>3, <2>4 DEF PunchInv, FieldsTyped, OnePhase
    <3>6. PunchInv(o) BY <2>3, <2>4, <2>7, <3>2, <3>3, <3>4, <3>5, RestsInv
    <3> QED BY <3>1, <3>6
  <2> QED BY <2>5, <2>6, <2>7
<1> QED BY <1>3, <1>7, <1>8

LEMMA OnRound1TimeoutInv ==
  ASSUME PunchInv(hp), OnRound1Timeout
  PROVE  PunchInv(hp')
<1> DEFINE a == [hp EXCEPT !.r1 = @ - 1]
           b == [hp EXCEPT !.r1 = Idle]
<1>0. PunchRecord(hp) /\ hp.r1 # Idle BY DEF PunchInv, OnRound1Timeout
<1>1. PunchRecord(a) /\ PunchRecord(b) BY <1>0 DEF PunchRecord
<1>2. Alike(hp, a) /\ Alike(hp, b) BY <1>0, <1>1 DEF Alike, PunchRecord, PunchFields
<1>3. hp' = a \/ hp' = Complete(b, "fail") BY DEF OnRound1Timeout
<1> HIDE DEF a, b
<1> QED BY <1>2, <1>3, AlikeInv, CompleteInv

LEMMA PollSamplerInv ==
  ASSUME PunchInv(hp), PollSampler
  PROVE  PunchInv(hp')
<1>0. PunchRecord(hp) /\ hp.wait > 0 /\ hp.wait \in Int /\ PuncherRecord(hp.puncher) /\ hp.fw \in Classes
  BY DEF PunchInv, FieldsTyped, PollSampler
<1>1. hp.r1 = Idle /\ hp.sleeper = "none" /\ hp.told = "none" /\ ~hp.completed /\ ~hp.puncher.punching
  BY <1>0 DEF PunchInv, OnePhase, Settled
<1>2. CASE Enough(hp) \/ hp.wait = 1
  <2>1. hp' = Proceed(hp) BY <1>2 DEF PollSampler
  <2> QED BY <1>1, <2>1, ProceedInv
<1>3. CASE ~(Enough(hp) \/ hp.wait = 1)
  <2> DEFINE o == [hp EXCEPT !.wait = @ - 1]
  <2>1. hp' = o BY <1>3 DEF PollSampler
  <2>2. PunchRecord(o) BY <1>0 DEF PunchRecord
  <2>3. /\ o.completed = hp.completed /\ o.wait = hp.wait - 1 /\ o.sleeper = "none" /\ o.told = hp.told
        /\ o.puncher = hp.puncher /\ o.r1 = hp.r1 /\ o.fw = hp.fw
    BY <1>0, <1>1 DEF PunchRecord, PunchFields
  <2> HIDE DEF o
  <2>4. o.wait \in Int BY <1>0, <2>3
  <2>5. PunchInv(o) BY <1>0, <1>1, <2>2, <2>3, <2>4, RestsInv
  <2> QED BY <2>1, <2>5
<1> QED BY <1>2, <1>3

LEMMA SleeperFiresInv ==
  ASSUME PunchInv(hp), SleeperFires
  PROVE  PunchInv(hp')
<1> DEFINE g == [hp EXCEPT !.sleeper = "none"]
<1>0. PunchRecord(hp) /\ hp.sleeper # "none" /\ hp.wait \in Int /\ PuncherRecord(hp.puncher) /\ hp.fw \in Classes
  BY DEF PunchInv, FieldsTyped, SleeperFires
<1>1. /\ hp.r1 = Idle /\ hp.wait <= 0 /\ hp.told = "none" /\ ~hp.completed /\ ~hp.puncher.punching
      /\ hp.fw # "unknown" /\ hp.puncher.local # "unknown"
  BY <1>0 DEF PunchInv, OnePhase, Settled
<1>2. PunchRecord(g) BY <1>0 DEF PunchRecord
<1>3. /\ g.completed = hp.completed /\ g.wait = hp.wait /\ g.sleeper = "none" /\ g.told = hp.told
      /\ g.puncher = hp.puncher /\ g.r1 = hp.r1 /\ g.fw = hp.fw
  BY <1>0 DEF PunchRecord, PunchFields
<1>4. hp' = RunRound1(g) \/ hp' = SendRound2(g) BY DEF SleeperFires
<1> HIDE DEF g
<1>5. g.wait \in Int /\ g.fw \in Classes BY <1>0, <1>3
<1>6. PunchInv(g) BY <1>0, <1>1, <1>2, <1>3, <1>5, RestsInv
<1>7. Free(g) /\ ~g.completed BY <1>1, <1>3 DEF Free
<1>8. g.fw # "unknown" /\ g.puncher.local # "unknown" BY <1>1, <1>3
<1> QED BY <1>4, <1>6, <1>7, <1>8, RunRound1Inv, SendRound2Inv

LEMMA Round2Inv ==
  ASSUME PunchInv(hp), OnRound2Response \/ OnRound2Timeout
  PROVE  PunchInv(hp')
<1> DEFINE a == [hp EXCEPT !.r2 = Idle]
           b == [hp EXCEPT !.r2 = @ - 1]
<1>0. PunchRecord(hp) BY DEF PunchInv
<1>1. PunchRecord(a) /\ PunchRecord(b) BY <1>0 DEF PunchRecord
<1>2. Alike(hp, a) /\ Alike(hp, b) BY <1>0, <1>1 DEF Alike, PunchRecord, PunchFields
<1>3. hp' = a \/ hp' = b \/ hp' = Complete(a, "fail") BY DEF OnRound2Response, OnRound2Timeout
<1> HIDE DEF a, b
<1> QED BY <1>2, <1>3, AlikeInv, CompleteInv

LEMMA OnPunchTimerInv ==
  ASSUME PunchInv(hp), OnPunchTimer
  PROVE  PunchInv(hp')
<1>1. ~hp.completed BY DEF OnPunchTimer, PunchInv, Settled
<1>2. hp' = RandomProbes(hp) \/ hp' = ConsistentProbe(hp) BY DEF OnPunchTimer
<1> QED BY <1>1, <1>2, RandomProbesInv, ConsistentProbeInv

LEMMA ProbeArrivesInv ==
  ASSUME PunchInv(hp), ProbeArrives
  PROVE  PunchInv(hp')
<1> DEFINE p == [hp.puncher EXCEPT !.connected = TRUE, !.punching = FALSE]
           o == [hp EXCEPT !.puncher.connected = TRUE, !.puncher.punching = FALSE]
<1>0. PuncherRecord(hp.puncher) /\ PunchRecord(hp) BY DEF PunchInv, FieldsTyped
<1>1. ~hp.completed BY DEF ProbeArrives, PunchInv, Settled
<1>2. hp' = Complete(o, "ok") BY DEF ProbeArrives
<1>3. o = [hp EXCEPT !.puncher = p] BY <1>0 DEF PunchRecord, PunchFields, PuncherRecord, PuncherFields
<1>4. PuncherRecord(p) BY <1>0 DEF PuncherRecord
<1>5. p.local = hp.puncher.local /\ ~p.punching BY <1>0 DEF PuncherRecord, PuncherFields
<1> HIDE DEF p, o
<1>6. PunchInv(o) BY <1>1, <1>3, <1>4, <1>5, PuncherInv
<1> QED BY <1>2, <1>6, CompleteInv

LEMMA PunchStepInv ==
  ASSUME PunchInv(hp), PunchStep
  PROVE  PunchInv(hp')
BY PingsInv, OnRound1ResponseInv, OnRound1TimeoutInv, PollSamplerInv, SleeperFiresInv, Round2Inv, OnPunchTimerInv,
   ProbeArrivesInv
DEF PunchStep

-----------------------------------------------------------------------------
(* The connect.                                                            *)

ConnFields ==
  {"begun", "found", "route", "query", "in_flight", "refused", "started", "pending", "relays", "cached", "hs", "cached_fw",
   "relay", "lan", "punch", "completed", "result", "raw"}
ConnRecord(c) == DOMAIN c = ConnFields /\ c = [f \in ConnFields |-> c[f]]

Counts(c) ==
  /\ c.in_flight \in 0 .. Parallel /\ c.started \in Nat /\ c.pending \in Nat
  /\ c.refused \in 0 .. c.in_flight
  /\ c.relays \subseteq Relays /\ c.cached \subseteq Relays

Known(c) == Cardinality(c.cached) + Cardinality(c.relays)

\* The outcome and the raw stream go together, and there is none before the end.
Delivered(c) ==
  /\ c.raw = "handed" <=> c.result = "ok"
  /\ ~c.completed => c.result = "none" /\ c.raw # "handed"

\* Until a handshake wins, each relay that is known has been tried or waits.
Tried(c) ==
  /\ c.hs => c.found
  /\ ~c.hs => c.in_flight <= c.started
  /\ ~c.hs /\ ~c.completed => c.started + c.pending = Known(c)
  /\ ~c.found => c.relays = {} /\ c.cached = {}

GaveUp(c) ==
  c.result \in {"not_found", "failed"} =>
    c.started = Known(c) /\ c.in_flight = 0 /\ c.query = "done" /\ ~c.hs

ConnInv(c) == ConnRecord(c) /\ Counts(c) /\ Delivered(c) /\ Tried(c) /\ GaveUp(c)

\* A step from c to o that keeps the invariant.
Fits(c, o) == ConnInv(o) /\ o.begun = c.begun

LEMMA KnownTyped ==
  ASSUME NEW c, Counts(c)
  PROVE  Cardinality(c.cached) \in Nat /\ Cardinality(c.relays) \in Nat /\ Known(c) \in Nat
<1>1. IsFiniteSet(c.cached) /\ IsFiniteSet(c.relays) BY ConnectAssumption, FS_Subset DEF Counts
<1>2. Cardinality(c.cached) \in Nat /\ Cardinality(c.relays) \in Nat BY <1>1, FS_CardinalityType
<1> QED BY <1>2 DEF Known

LEMMA FailFits ==
  ASSUME NEW c, ConnInv(c), NEW err \in {"not_found", "failed", "no_addresses", "punch_failed"},
         ~c.completed /\ err \in {"not_found", "failed"}
           => c.started = Known(c) /\ c.in_flight = 0 /\ c.query = "done" /\ ~c.hs
  PROVE  Fits(c, Fail(c, err))
<1>1. CASE c.completed BY <1>1 DEF Fail, Fits
<1>2. CASE ~c.completed
  <2> DEFINE o == [c EXCEPT !.completed = TRUE, !.result = err]
  <2>0. Fail(c, err) = o BY <1>2 DEF Fail
  <2>1. ConnRecord(o) BY DEF ConnInv, ConnRecord
  <2>2. /\ o.completed = TRUE /\ o.result = err /\ o.raw = c.raw /\ o.begun = c.begun /\ o.in_flight = c.in_flight /\ o.refused = c.refused
        /\ o.started = c.started /\ o.pending = c.pending /\ o.relays = c.relays /\ o.cached = c.cached
        /\ o.hs = c.hs /\ o.found = c.found /\ o.query = c.query
    BY DEF ConnInv, ConnRecord, ConnFields
  <2> HIDE DEF o
  <2>3. Counts(o) /\ Known(o) = Known(c) BY <2>2 DEF ConnInv, Counts, Known
  <2>4. Delivered(o) BY <1>2, <2>2 DEF ConnInv, Delivered
  <2>5. Tried(o) BY <2>2 DEF ConnInv, Tried
  <2>6. GaveUp(o) BY <1>2, <2>2, <2>3 DEF GaveUp
  <2> QED BY <2>0, <2>1, <2>2, <2>3, <2>4, <2>5, <2>6 DEF ConnInv, Fits
<1> QED BY <1>1, <1>2

LEMMA SucceedFits ==
  ASSUME NEW c, ConnInv(c), ~c.completed
  PROVE  Fits(c, Succeed(c))
<1> DEFINE t == [c EXCEPT !.raw = "handed"]
           o == [t EXCEPT !.completed = TRUE, !.result = "ok"]
<1>0. Succeed(c) = o BY DEF Succeed
<1>1. ConnRecord(t) BY DEF ConnInv, ConnRecord
<1>2. ConnRecord(o) BY <1>1 DEF ConnRecord
<1>3. /\ o.completed = TRUE /\ o.result = "ok" /\ o.raw = "handed" /\ o.begun = c.begun /\ o.in_flight = c.in_flight /\ o.refused = c.refused
      /\ o.started = c.started /\ o.pending = c.pending /\ o.relays = c.relays /\ o.cached = c.cached
      /\ o.hs = c.hs /\ o.found = c.found
  BY DEF ConnInv, ConnRecord, ConnFields
<1> HIDE DEF o
<1>4. Counts(o) BY <1>3 DEF ConnInv, Counts
<1>5. Delivered(o) BY <1>3 DEF Delivered
<1>6. Tried(o) BY <1>3 DEF ConnInv, Tried
<1>7. GaveUp(o) BY <1>3 DEF GaveUp
<1> QED BY <1>0, <1>2, <1>3, <1>4, <1>5, <1>6, <1>7 DEF ConnInv, Fits

\* o differs from c in what the outcome does not depend on, or in a query that ends,
\* or that begins while the connect is under way.
ConnAlike(c, o) ==
  /\ ConnRecord(o)
  /\ o.completed = c.completed /\ o.result = c.result /\ o.raw = c.raw /\ o.begun = c.begun
  /\ o.in_flight = c.in_flight /\ o.refused = c.refused /\ o.started = c.started /\ o.pending = c.pending
  /\ o.relays = c.relays /\ o.cached = c.cached /\ o.hs = c.hs /\ o.found = c.found
  /\ o.query = c.query \/ o.query = "done" \/ ~c.completed

LEMMA ConnAlikeFits ==
  ASSUME NEW c, ConnInv(c), NEW o, ConnAlike(c, o)
  PROVE  Fits(c, o)
<1>1. Counts(o) /\ Known(o) = Known(c) BY DEF ConnInv, Counts, Known, ConnAlike
<1>2. Delivered(o) BY DEF ConnInv, Delivered, ConnAlike
<1>3. Tried(o) BY <1>1 DEF ConnInv, Tried, ConnAlike
<1>4. GaveUp(o) BY <1>1 DEF ConnInv, GaveUp, Delivered, ConnAlike
<1> QED BY <1>1, <1>2, <1>3, <1>4 DEF ConnInv, Fits, ConnAlike

LEMMA FitsTrans ==
  ASSUME NEW c, NEW o, NEW p, Fits(c, o), Fits(o, p)
  PROVE  Fits(c, p)
BY DEF Fits

\* Handshakes for n relays, d of which are new and the others waited.
LEMMA FireFits ==
  ASSUME NEW c, ConnRecord(c), Counts(c), Delivered(c), alive, ~c.completed, ~c.hs, NEW n \in Nat, NEW free \in Nat,
         c.in_flight + n <= Parallel, c.in_flight <= c.started,
         c.started + n + c.pending = Known(c), ~c.found => c.relays = {} /\ c.cached = {}
  PROVE  Fits(c, FireHandshake(c, n, free)) /\ FireHandshake(c, n, free).query = c.query
<1> DEFINE k == IF free < n THEN n - free ELSE 0
           o == [c EXCEPT !.in_flight = @ + n, !.started = @ + n, !.refused = @ + k]
<1>0. FireHandshake(c, n, free) = o BY DEF FireHandshake
<1>9. k \in 0 .. n OBVIOUS
<1> HIDE DEF k
<1>1. ConnRecord(o) BY DEF ConnRecord
<1>2. /\ o.completed = c.completed /\ o.result = c.result /\ o.raw = c.raw /\ o.begun = c.begun
      /\ o.in_flight = c.in_flight + n /\ o.started = c.started + n /\ o.pending = c.pending /\ o.refused = c.refused + k
      /\ o.relays = c.relays /\ o.cached = c.cached /\ o.hs = c.hs /\ o.found = c.found /\ o.query = c.query
  BY DEF ConnRecord, ConnFields
<1> HIDE DEF o
<1>3. Counts(o) BY <1>2, <1>9, ConnectAssumption DEF Counts
<1>4. Known(o) = Known(c) BY <1>2 DEF Known
<1>5. Delivered(o) BY <1>2 DEF Delivered
<1>6. Tried(o) BY <1>2, <1>3, <1>4 DEF Tried, Counts
<1>7. GaveUp(o) BY <1>2 DEF GaveUp, Delivered
<1> QED BY <1>0, <1>1, <1>2, <1>3, <1>5, <1>6, <1>7 DEF ConnInv, Fits

LEMMA CheckExhaustionFits ==
  ASSUME NEW c, ConnInv(c)
  PROVE  Fits(c, CheckExhaustion(c))
<1>0. c.in_flight \in Nat /\ c.started \in Nat /\ c.pending \in Nat /\ Known(c) \in Nat
  BY KnownTyped, ConnectAssumption DEF ConnInv, Counts
<1>1. CASE c.completed \/ c.in_flight > 0 \/ c.pending > 0 \/ c.query # "done" \/ c.hs
  BY <1>1 DEF CheckExhaustion, Fits
<1>2. CASE ~(c.completed \/ c.in_flight > 0 \/ c.pending > 0 \/ c.query # "done" \/ c.hs)
  <2>1. CheckExhaustion(c) = Fail(c, "failed") BY <1>2 DEF CheckExhaustion
  <2>2. c.in_flight = 0 /\ c.pending = 0 /\ c.started + c.pending = Known(c) BY <1>0, <1>2 DEF ConnInv, Tried
  <2>3. c.started = Known(c) BY <1>0, <2>2
  <2> QED BY <1>2, <2>1, <2>2, <2>3, FailFits
<1> QED BY <1>1, <1>2

LEMMA RoomFits ==
  ASSUME NEW c, Counts(c), NEW n \in Nat
  PROVE  Room(c, n) \in Nat /\ Room(c, n) <= n /\ c.in_flight + Room(c, n) <= Parallel
BY ConnectAssumption DEF Room, Counts

LEMMA TryNextRelayFits ==
  ASSUME NEW c, ConnInv(c), alive, NEW free \in Nat
  PROVE  Fits(c, TryNextRelay(c, free))
<1>1. CASE c.completed \/ c.hs BY <1>1 DEF TryNextRelay, Fits
<1>2. CASE ~(c.completed \/ c.hs)
  <2> DEFINE n == Room(c, c.pending)
             d == [c EXCEPT !.pending = @ - n]
             f == FireHandshake(d, n, free)
  <2>0. TryNextRelay(c, free) = CheckExhaustion(f) BY <1>2 DEF TryNextRelay
  <2>1. Counts(c) /\ c.pending \in Nat /\ c.started \in Nat /\ c.in_flight \in Nat /\ Known(c) \in Nat
    BY KnownTyped, ConnectAssumption DEF ConnInv, Counts
  <2>2. n \in Nat /\ n <= c.pending /\ c.in_flight + n <= Parallel BY <2>1, RoomFits
  <2> HIDE DEF n
  <2>3. ConnRecord(d) BY DEF ConnInv, ConnRecord
  <2>4. /\ d.completed = c.completed /\ d.result = c.result /\ d.raw = c.raw /\ d.begun = c.begun
        /\ d.in_flight = c.in_flight /\ d.refused = c.refused /\ d.started = c.started /\ d.pending = c.pending - n
        /\ d.relays = c.relays /\ d.cached = c.cached /\ d.hs = c.hs /\ d.found = c.found
    BY DEF ConnInv, ConnRecord, ConnFields
  <2> HIDE DEF d
  <2>5. Counts(d) /\ Known(d) = Known(c) BY <2>1, <2>2, <2>4 DEF Counts, Known
  <2>6. Delivered(d) BY <2>4 DEF ConnInv, Delivered
  <2>7. /\ d.started + n + d.pending = Known(d) /\ d.in_flight <= d.started
        /\ d.in_flight + n <= Parallel /\ (~d.found => d.relays = {} /\ d.cached = {})
    <3>1. /\ c.started + c.pending = Known(c) /\ c.in_flight <= c.started
          /\ (~c.found => c.relays = {} /\ c.cached = {})
      BY <1>2 DEF ConnInv, Tried
    <3> QED BY <2>1, <2>2, <2>4, <2>5, <3>1
  <2>8. ~d.completed /\ ~d.hs BY <1>2, <2>4
  <2>9. Fits(d, f) BY <2>2, <2>3, <2>5, <2>6, <2>7, <2>8, FireFits
  <2> HIDE DEF f
  <2>10. Fits(f, CheckExhaustion(f)) BY <2>9, CheckExhaustionFits DEF Fits
  <2> QED BY <2>0, <2>4, <2>9, <2>10 DEF Fits
<1> QED BY <1>1, <1>2

\* n relays more are known, and each of them is tried or waits.
LEMMA OfferFits ==
  ASSUME NEW c, ConnRecord(c), Counts(c), Delivered(c), alive, ~c.completed, ~c.hs, NEW n \in Nat, NEW free \in Nat,
         c.in_flight <= c.started, c.started + c.pending + n = Known(c), c.found \/ (c.relays = {} /\ c.cached = {})
  PROVE  Fits(c, Offer(c, n, free))
<1> DEFINE m == Room(c, n)
           d == [c EXCEPT !.pending = @ + (n - m)]
<1>0. Offer(c, n, free) = FireHandshake(d, m, free) BY DEF Offer
<1>1. c.pending \in Nat /\ c.started \in Nat /\ c.in_flight \in Nat /\ Known(c) \in Nat
  BY KnownTyped, ConnectAssumption DEF Counts
<1>2. m \in Nat /\ m <= n /\ c.in_flight + m <= Parallel BY RoomFits
<1> HIDE DEF m
<1>3. ConnRecord(d) BY DEF ConnRecord
<1>4. /\ d.completed = c.completed /\ d.result = c.result /\ d.raw = c.raw /\ d.begun = c.begun
      /\ d.in_flight = c.in_flight /\ d.refused = c.refused /\ d.started = c.started /\ d.pending = c.pending + (n - m)
      /\ d.relays = c.relays /\ d.cached = c.cached /\ d.hs = c.hs /\ d.found = c.found
  BY DEF ConnRecord, ConnFields
<1> HIDE DEF d
<1>5. Counts(d) /\ Known(d) = Known(c) BY <1>1, <1>2, <1>4 DEF Counts, Known
<1>6. Delivered(d) BY <1>4 DEF Delivered
<1>7. /\ d.started + m + d.pending = Known(d) /\ d.in_flight <= d.started
      /\ d.in_flight + m <= Parallel /\ (~d.found => d.relays = {} /\ d.cached = {})
  BY <1>1, <1>2, <1>4, <1>5
<1>8. Fits(d, FireHandshake(d, m, free)) BY <1>2, <1>3, <1>4, <1>5, <1>6, <1>7, FireFits
<1> QED BY <1>0, <1>4, <1>8 DEF Fits

LEMMA StartFindPeerFits ==
  ASSUME NEW c, ConnInv(c)
  PROVE  Fits(c, StartFindPeer(c))
<1>1. CASE c.completed \/ ~alive BY <1>1 DEF StartFindPeer, Fits
<1>2. CASE ~(c.completed \/ ~alive)
  <2> DEFINE o == [c EXCEPT !.query = "running"]
  <2>1. ConnRecord(o) BY DEF ConnInv, ConnRecord
  <2>2. ConnAlike(c, o) BY <1>2, <2>1 DEF ConnAlike, ConnInv, ConnRecord, ConnFields
  <2>3. StartFindPeer(c) = o BY <1>2 DEF StartFindPeer
  <2> QED BY <2>2, <2>3, ConnAlikeFits
<1> QED BY <1>1, <1>2

\* What the proofs keep: both records, and nothing happens before do_connect.
Whole ==
  /\ PunchInv(hp) /\ ConnInv(conn)
  /\ ~conn.begun => conn = NewConn /\ hp = NoPunch /\ alive

LEMMA NewConnInv == ConnInv(NewConn)
<1>1. ConnRecord(NewConn) BY DEF NewConn, ConnRecord, ConnFields
<1>2. Counts(NewConn) BY ConnectAssumption DEF NewConn, Counts
<1>3. Known(NewConn) = 0 BY FS_EmptySet DEF NewConn, Known
<1>4. Delivered(NewConn) BY DEF NewConn, Delivered
<1>5. Tried(NewConn) BY <1>3 DEF NewConn, Tried
<1>6. GaveUp(NewConn) BY DEF NewConn, GaveUp
<1> QED BY <1>1, <1>2, <1>4, <1>5, <1>6 DEF ConnInv

LEMMA InitWhole == Init => Whole
BY NewConnInv, NewPunch DEF Init, Whole

\* A step of the connect alone.
LEMMA FitsWhole ==
  ASSUME Whole, conn.begun, Fits(conn, conn'), PunchInv(hp')
  PROVE  Whole'
BY DEF Whole, Fits

LEMMA DoConnectWhole ==
  ASSUME Whole, DoConnect
  PROVE  Whole'
<1> DEFINE c == [conn EXCEPT !.begun = TRUE, !.raw = "own"]
<1>0. conn = NewConn /\ alive /\ UNCHANGED hp /\ PunchInv(hp) BY DEF Whole, DoConnect
<1>1. ConnRecord(c) BY DEF Whole, ConnInv, ConnRecord
<1>2. /\ c.begun = TRUE /\ c.raw = "own" /\ c.result = "none" /\ c.completed = FALSE /\ c.in_flight = 0 /\ c.refused = 0 /\ c.started = 0
      /\ c.pending = 0 /\ c.relays = {} /\ c.cached = {} /\ c.hs = FALSE /\ c.query = "off"
  BY <1>0 DEF NewConn
<1>3. \/ \E route \in {"asked", "refused"} : conn' = [c EXCEPT !.found = TRUE, !.route = route]
      \/ \E cached \in SUBSET Relays, free \in 0 .. Parallel :
           LET f == [c EXCEPT !.found = cached # {}, !.cached = cached]
           IN  conn' = StartFindPeer(Offer(f, Cardinality(cached), free))
  BY DEF DoConnect
<1> HIDE DEF c
<1>4. ASSUME NEW route \in {"asked", "refused"}, conn' = [c EXCEPT !.found = TRUE, !.route = route]
      PROVE  Whole'
  <2> DEFINE o == [c EXCEPT !.found = TRUE, !.route = route]
  <2>1. ConnRecord(o) BY <1>1 DEF ConnRecord
  <2>2. /\ o.begun = TRUE /\ o.raw = "own" /\ o.result = "none" /\ o.completed = FALSE /\ o.in_flight = 0 /\ o.refused = 0 /\ o.started = 0
        /\ o.pending = 0 /\ o.relays = {} /\ o.cached = {} /\ o.hs = FALSE /\ o.found = TRUE
    BY <1>1, <1>2 DEF ConnRecord, ConnFields
  <2> HIDE DEF o
  <2>3. Counts(o) BY <2>2, ConnectAssumption DEF Counts
  <2>4. Known(o) = 0 BY <2>2, FS_EmptySet DEF Known
  <2>5. Delivered(o) /\ Tried(o) /\ GaveUp(o) BY <2>2, <2>4 DEF Delivered, Tried, GaveUp
  <2>6. ConnInv(o) BY <2>1, <2>3, <2>5 DEF ConnInv
  <2>7. conn' = o BY <1>4 DEF o
  <2> QED BY <1>0, <2>2, <2>6, <2>7 DEF Whole
<1>5. ASSUME NEW cached \in SUBSET Relays, NEW free \in 0 .. Parallel, NEW f, f = [c EXCEPT !.found = cached # {}, !.cached = cached],
             conn' = StartFindPeer(Offer(f, Cardinality(cached), free))
      PROVE  Whole'
  <2> DEFINE b == cached # {}
  <2>1. ConnRecord(f) BY <1>1, <1>5 DEF ConnRecord
  <2>2. /\ f.begun = TRUE /\ f.raw = "own" /\ f.result = "none" /\ f.completed = FALSE /\ f.in_flight = 0 /\ f.refused = 0 /\ f.started = 0
        /\ f.pending = 0 /\ f.relays = {} /\ f.cached = cached /\ f.hs = FALSE
    BY <1>1, <1>2, <1>5 DEF ConnRecord, ConnFields
  <2>3. f.found = b BY <1>1, <1>5 DEF ConnRecord, ConnFields
  <2>4. Counts(f) BY <2>2, ConnectAssumption DEF Counts
  <2>5. Cardinality(cached) \in Nat /\ Known(f) = Cardinality(cached)
    <3>1. Cardinality(f.cached) \in Nat BY <2>4, KnownTyped
    <3> QED BY <2>2, <3>1, FS_EmptySet DEF Known
  <2>6. Delivered(f) BY <2>2 DEF Delivered
  <2>7. f.found \/ (f.relays = {} /\ f.cached = {}) BY <2>2, <2>3
  <2>8. f.in_flight <= f.started /\ f.started + f.pending + Cardinality(cached) = Known(f) /\ ~f.completed /\ ~f.hs
    BY <2>2, <2>5
  <2>9. Fits(f, Offer(f, Cardinality(cached), free)) BY <1>0, <2>1, <2>4, <2>5, <2>6, <2>7, <2>8, OfferFits
  <2>10. Fits(f, conn') BY <1>5, <2>9, StartFindPeerFits DEF Fits
  <2> QED BY <1>0, <2>2, <2>10 DEF Whole, Fits
<1> QED BY <1>3, <1>4, <1>5

LEMMA OnReplyFits ==
  ASSUME Whole, NEW r \in Relays, OnReply(r)
  PROVE  Fits(conn, conn')
<1> DEFINE c == [conn EXCEPT !.found = TRUE, !.relays = @ \cup {r}]
<1>0. ConnInv(conn) /\ alive /\ r \notin conn.relays /\ ~conn.completed /\ ~conn.hs
      /\ \E free \in 0 .. 1 : conn' = Offer(c, 1, free)
  BY DEF Whole, OnReply
<1>1. ConnRecord(c) BY <1>0 DEF ConnInv, ConnRecord
<1>2. /\ c.completed = conn.completed /\ c.result = conn.result /\ c.raw = conn.raw /\ c.begun = conn.begun
      /\ c.in_flight = conn.in_flight /\ c.refused = conn.refused /\ c.started = conn.started /\ c.pending = conn.pending
      /\ c.relays = conn.relays \cup {r} /\ c.cached = conn.cached /\ c.hs = conn.hs /\ c.found = TRUE
  BY <1>0 DEF ConnInv, ConnRecord, ConnFields
<1> HIDE DEF c
<1>3. Counts(c) BY <1>0, <1>2 DEF ConnInv, Counts
<1>4. Known(c) = Known(conn) + 1
  <2>1. IsFiniteSet(conn.relays) BY <1>0, ConnectAssumption, FS_Subset DEF ConnInv, Counts
  <2>2. Cardinality(c.relays) = Cardinality(conn.relays) + 1 BY <1>0, <1>2, <2>1, FS_AddElement
  <2>3. Cardinality(conn.cached) \in Nat /\ Cardinality(conn.relays) \in Nat BY <1>0, KnownTyped DEF ConnInv
  <2> QED BY <1>2, <2>2, <2>3 DEF Known
<1>5. Delivered(c) BY <1>0, <1>2 DEF ConnInv, Delivered
<1>6. /\ conn.started + conn.pending = Known(conn) /\ conn.in_flight <= conn.started
      /\ conn.started \in Nat /\ conn.pending \in Nat /\ Known(conn) \in Nat
  BY <1>0, KnownTyped DEF ConnInv, Tried, Counts
<1>7. c.started + c.pending + 1 = Known(c) /\ c.in_flight <= c.started BY <1>2, <1>4, <1>6
<1>8. ASSUME NEW free \in 0 .. 1 PROVE Fits(c, Offer(c, 1, free)) BY <1>0, <1>1, <1>2, <1>3, <1>5, <1>7, OfferFits
<1> QED BY <1>0, <1>2, <1>8 DEF Fits

LEMMA QueryDoneFits ==
  ASSUME Whole, QueryDone
  PROVE  Fits(conn, conn')
<1> DEFINE c == [conn EXCEPT !.query = "done"]
<1>0. ConnInv(conn) /\ conn' = OnQueryDone(c) BY DEF Whole, QueryDone
<1>1. ConnRecord(c) BY <1>0 DEF ConnInv, ConnRecord
<1>2. ConnAlike(conn, c) /\ c.query = "done" BY <1>0, <1>1 DEF ConnAlike, ConnInv, ConnRecord, ConnFields
<1> HIDE DEF c
<1>3. Fits(conn, c) /\ ConnInv(c) BY <1>0, <1>2, ConnAlikeFits DEF Fits
<1>4. CASE c.completed BY <1>0, <1>3, <1>4 DEF OnQueryDone
<1>5. CASE ~c.completed /\ ~c.found /\ c.started = 0
  <2>1. conn' = Fail(c, "not_found") BY <1>0, <1>5 DEF OnQueryDone
  <2>2. ~c.hs /\ c.relays = {} /\ c.cached = {} /\ c.in_flight <= 0 /\ c.in_flight \in 0 .. Parallel
    BY <1>3, <1>5 DEF ConnInv, Tried, Counts
  <2>3. Known(c) = 0 /\ c.in_flight = 0 BY <2>2, FS_EmptySet, ConnectAssumption DEF Known
  <2>4. Fits(c, Fail(c, "not_found")) BY <1>2, <1>3, <1>5, <2>2, <2>3, FailFits
  <2> QED BY <1>3, <2>1, <2>4, FitsTrans
<1>6. CASE ~c.completed /\ ~(~c.found /\ c.started = 0)
  <2>1. conn' = CheckExhaustion(c) BY <1>0, <1>6 DEF OnQueryDone
  <2> QED BY <1>3, <2>1, CheckExhaustionFits, FitsTrans
<1> QED BY <1>4, <1>5, <1>6

LEMMA VisitRefusedFits ==
  ASSUME Whole, VisitRefused
  PROVE  Fits(conn, conn')
<1> DEFINE o == [conn EXCEPT !.query = "stuck"]
<1>0. ConnInv(conn) /\ conn' = o /\ conn.query = "running" BY DEF Whole, VisitRefused
<1>1. ConnRecord(o) BY <1>0 DEF ConnInv, ConnRecord
<1>2. /\ o.completed = conn.completed /\ o.result = conn.result /\ o.raw = conn.raw /\ o.begun = conn.begun
      /\ o.in_flight = conn.in_flight /\ o.refused = conn.refused /\ o.started = conn.started /\ o.pending = conn.pending
      /\ o.relays = conn.relays /\ o.cached = conn.cached /\ o.hs = conn.hs /\ o.found = conn.found
  BY <1>0 DEF ConnInv, ConnRecord, ConnFields
<1> HIDE DEF o
<1>3. Counts(o) /\ Known(o) = Known(conn) BY <1>0, <1>2 DEF ConnInv, Counts, Known
<1>4. Delivered(o) BY <1>0, <1>2 DEF ConnInv, Delivered
<1>5. Tried(o) BY <1>0, <1>2, <1>3 DEF ConnInv, Tried
<1>6. GaveUp(o) BY <1>0, <1>2 DEF ConnInv, GaveUp
<1> QED BY <1>0, <1>1, <1>2, <1>3, <1>4, <1>5, <1>6 DEF ConnInv, Fits

LEMMA OnHandshakeSuccessFits ==
  ASSUME NEW c, ConnInv(c), ~c.completed,
         NEW open \in BOOLEAN, NEW addrs \in BOOLEAN, NEW holepunch \in BOOLEAN, NEW relay \in BOOLEAN, NEW lan \in BOOLEAN
  PROVE  Fits(c, OnHandshakeSuccess(c, open, addrs, holepunch, relay, lan))
<1> DEFINE a == [c EXCEPT !.relay = "connecting"]
           d == IF relay THEN a ELSE c
           x == lan /\ addrs
           p == [d EXCEPT !.lan = x, !.punch = TRUE]
           o == OnHandshakeSuccess(c, open, addrs, holepunch, relay, lan)
<1>1. o = Succeed(c) \/ o = Succeed(d) \/ o = Fail(d, "no_addresses") \/ o = p BY DEF OnHandshakeSuccess
<1>2. Fits(c, d) /\ d.completed = c.completed
  <2>1. ConnRecord(a) BY DEF ConnInv, ConnRecord
  <2>2. ConnAlike(c, a) BY <2>1 DEF ConnAlike, ConnInv, ConnRecord, ConnFields
  <2>3. Fits(c, c) BY DEF Fits
  <2>4. Fits(c, a) /\ a.completed = c.completed BY <2>2, ConnAlikeFits DEF ConnAlike
  <2> HIDE DEF a
  <2> QED BY <2>3, <2>4
<1> HIDE DEF d, x, o
<1>3. Fits(d, p)
  <2>0. ConnInv(d) BY <1>2 DEF Fits
  <2>1. ConnRecord(p) BY <2>0 DEF ConnInv, ConnRecord
  <2>2. ConnAlike(d, p) BY <2>0, <2>1 DEF ConnAlike, ConnInv, ConnRecord, ConnFields
  <2> QED BY <2>0, <2>2, ConnAlikeFits
<1> HIDE DEF p
<1>4. ConnInv(d) /\ ~d.completed BY <1>2 DEF Fits
<1>5. Fits(d, Succeed(d)) /\ Fits(c, Succeed(c)) /\ Fits(d, Fail(d, "no_addresses")) BY <1>4, SucceedFits, FailFits
<1>6. Fits(c, o) BY <1>1, <1>2, <1>3, <1>5, FitsTrans
<1> QED BY <1>6 DEF o

LEMMA WonFits ==
  ASSUME NEW c, ConnInv(c), ~c.completed, NEW o \in Won(c)
  PROVE  Fits(c, o)
<1> DEFINE w == [c EXCEPT !.hs = TRUE, !.pending = 0, !.found = TRUE, !.started = 0, !.relays = {}, !.cached = {}]
<1>1. PICK op \in BOOLEAN, a \in BOOLEAN, h \in BOOLEAN, r \in BOOLEAN, l \in BOOLEAN : o = OnHandshakeSuccess(w, op, a, h, r, l)
  BY DEF Won
<1>2. ConnRecord(w) BY DEF ConnInv, ConnRecord
<1>3. /\ w.completed = c.completed /\ w.result = c.result /\ w.raw = c.raw /\ w.begun = c.begun
      /\ w.in_flight = c.in_flight /\ w.refused = c.refused /\ w.started = 0 /\ w.pending = 0
      /\ w.relays = {} /\ w.cached = {} /\ w.hs = TRUE /\ w.found = TRUE
  BY DEF ConnInv, ConnRecord, ConnFields
<1> HIDE DEF w
<1>4. Counts(w) BY <1>3 DEF ConnInv, Counts
<1>5. Delivered(w) BY <1>3 DEF ConnInv, Delivered
<1>6. Tried(w) BY <1>3 DEF Tried
<1>7. GaveUp(w) BY <1>3 DEF ConnInv, Delivered, GaveUp
<1>8. ConnInv(w) BY <1>2, <1>4, <1>5, <1>6, <1>7 DEF ConnInv
<1>9. Fits(w, o) BY <1>1, <1>3, <1>8, OnHandshakeSuccessFits
<1> QED BY <1>3, <1>9 DEF Fits

LEMMA MaybePunchInv ==
  ASSUME PunchInv(hp), MaybePunch
  PROVE  PunchInv(hp')
BY NewPunch DEF MaybePunch

LEMMA HandshakeDoneFits ==
  ASSUME Whole, HandshakeDone
  PROVE  Fits(conn, conn') /\ PunchInv(hp')
<1> DEFINE c == [conn EXCEPT !.in_flight = @ - 1]
<1>0. ConnInv(conn) /\ PunchInv(hp) /\ alive /\ conn.in_flight > conn.refused /\ MaybePunch BY DEF Whole, HandshakeDone
<1>1. (\E free \in 0 .. Parallel : conn' = TryNextRelay(c, free)) \/ (~c.completed /\ conn' \in Won(c)) BY DEF HandshakeDone
<1>2. ConnRecord(c) BY <1>0 DEF ConnInv, ConnRecord
<1>3. /\ c.completed = conn.completed /\ c.result = conn.result /\ c.raw = conn.raw /\ c.begun = conn.begun
      /\ c.in_flight = conn.in_flight - 1 /\ c.refused = conn.refused /\ c.started = conn.started /\ c.pending = conn.pending
      /\ c.relays = conn.relays /\ c.cached = conn.cached /\ c.hs = conn.hs /\ c.found = conn.found
  BY <1>0 DEF ConnInv, ConnRecord, ConnFields
<1> HIDE DEF c
<1>4. Counts(c) /\ Known(c) = Known(conn) BY <1>0, <1>3, ConnectAssumption DEF ConnInv, Counts, Known
<1>5. Delivered(c) BY <1>0, <1>3 DEF ConnInv, Delivered
<1>6. Tried(c) BY <1>0, <1>3, <1>4, ConnectAssumption DEF ConnInv, Tried, Counts
<1>7. GaveUp(c)
  <2>1. conn.in_flight # 0 BY <1>0 DEF ConnInv, Counts
  <2> QED BY <1>0, <1>3, <2>1 DEF ConnInv, GaveUp
<1>8. ConnInv(c) BY <1>2, <1>4, <1>5, <1>6, <1>7 DEF ConnInv
<1>9. Fits(c, conn')
  <2>1. ASSUME NEW free \in 0 .. Parallel PROVE Fits(c, TryNextRelay(c, free))
    <3>1. free \in Nat BY ConnectAssumption
    <3> QED BY <1>0, <1>8, <3>1, TryNextRelayFits
  <2> QED BY <1>1, <1>8, <2>1, WonFits
<1> QED BY <1>0, <1>3, <1>9, MaybePunchInv DEF Fits

LEMMA RouteDoneFits ==
  ASSUME Whole, RouteDone
  PROVE  Fits(conn, conn') /\ PunchInv(hp')
<1> DEFINE c == [conn EXCEPT !.route = "off"]
<1>0. ConnInv(conn) /\ PunchInv(hp) /\ MaybePunch BY DEF Whole, RouteDone
<1>1. conn' = StartFindPeer(c) \/ conn' = c \/ (~c.completed /\ conn' \in Won(c)) BY DEF RouteDone
<1>2. ConnRecord(c) BY <1>0 DEF ConnInv, ConnRecord
<1>3. ConnAlike(conn, c) BY <1>0, <1>2 DEF ConnAlike, ConnInv, ConnRecord, ConnFields
<1> HIDE DEF c
<1>4. Fits(conn, c) /\ ConnInv(c) /\ Fits(c, c) BY <1>0, <1>3, ConnAlikeFits DEF Fits
<1>5. Fits(c, conn') BY <1>1, <1>4, StartFindPeerFits, WonFits
<1> QED BY <1>0, <1>4, <1>5, FitsTrans, MaybePunchInv

\* The paths that race after the handshake.
LEMMA RacesFit ==
  ASSUME Whole, OnFirewall \/ LanPong \/ RelayConnected \/ RelayPaired \/ RelayPairFailed
  PROVE  Fits(conn, conn')
<1>0. ConnInv(conn) /\ ConnRecord(conn) BY DEF Whole, ConnInv
<1>1. CASE OnFirewall
  <2> DEFINE o == [conn EXCEPT !.cached_fw = TRUE]
  <2>1. ~conn.completed /\ (conn' = Succeed(conn) \/ conn' = o) BY <1>1 DEF OnFirewall
  <2>2. ConnRecord(o) BY <1>0 DEF ConnRecord
  <2>3. ConnAlike(conn, o) BY <1>0, <2>2 DEF ConnAlike, ConnRecord, ConnFields
  <2> HIDE DEF o
  <2> QED BY <1>0, <2>1, <2>3, SucceedFits, ConnAlikeFits
<1>2. CASE LanPong
  <2> DEFINE c == [conn EXCEPT !.lan = FALSE]
  <2>1. conn' = c \/ (~c.completed /\ conn' = Succeed(c)) BY <1>2 DEF LanPong
  <2>2. ConnRecord(c) BY <1>0 DEF ConnRecord
  <2>3. ConnAlike(conn, c) BY <1>0, <2>2 DEF ConnAlike, ConnRecord, ConnFields
  <2> HIDE DEF c
  <2>4. Fits(conn, c) /\ ConnInv(c) BY <1>0, <2>3, ConnAlikeFits DEF Fits
  <2> QED BY <2>1, <2>4, SucceedFits, FitsTrans
<1>3. CASE RelayConnected \/ RelayPairFailed \/ RelayPaired
  <2> DEFINE c == [conn EXCEPT !.relay = "off"]
             d == [conn EXCEPT !.relay = "pairing"]
  <2>1. conn' = c \/ conn' = d \/ (~c.completed /\ conn' = Succeed(c))
    BY <1>3 DEF RelayConnected, RelayPairFailed, RelayPaired
  <2>2. ConnRecord(c) /\ ConnRecord(d) BY <1>0 DEF ConnRecord
  <2>3. ConnAlike(conn, c) /\ ConnAlike(conn, d) BY <1>0, <2>2 DEF ConnAlike, ConnRecord, ConnFields
  <2> HIDE DEF c, d
  <2>4. Fits(conn, c) /\ ConnInv(c) /\ Fits(conn, d) BY <1>0, <2>3, ConnAlikeFits DEF Fits
  <2> QED BY <2>1, <2>4, SucceedFits, FitsTrans
<1> QED BY <1>1, <1>2, <1>3

LEMMA PunchingFits ==
  ASSUME Whole, Punching
  PROVE  Fits(conn, conn') /\ PunchInv(hp')
<1>0. ConnInv(conn) /\ Fits(conn, conn) BY DEF Whole, Fits
<1>1. PunchInv(hp') BY PunchStepInv DEF Whole, Punching
<1>2. conn' = conn \/ conn' = OnPunchDone(conn, hp'.result) BY DEF Punching
<1>3. ASSUME NEW r PROVE Fits(conn, OnPunchDone(conn, r))
  <2>1. OnPunchDone(conn, r) = conn \/ (~conn.completed /\ OnPunchDone(conn, r) \in {Fail(conn, "punch_failed"), Succeed(conn)})
    BY DEF OnPunchDone
  <2>2. Fits(conn, Fail(conn, "punch_failed")) BY <1>0, FailFits
  <2> QED BY <1>0, <2>1, <2>2, SucceedFits
<1> QED BY <1>0, <1>1, <1>2, <1>3

\* Before do_connect there is nothing else to happen.
LEMMA NothingBefore ==
  ASSUME Whole, [Next]_vars, ~DoConnect, ~UNCHANGED vars
  PROVE  conn.begun
<1> SUFFICES ASSUME ~conn.begun PROVE FALSE OBVIOUS
<1>1. conn = NewConn /\ hp = NoPunch BY DEF Whole
<1>2. /\ conn.query = "off" /\ conn.in_flight = 0 /\ conn.refused = 0 /\ conn.route = "off" /\ conn.lan = FALSE /\ conn.relay = "off"
  BY <1>1 DEF NewConn
<1>3. /\ hp.relayPing = FALSE /\ hp.others = 0 /\ hp.r1 = Idle /\ hp.r2 = Idle /\ hp.wait = 0
      /\ hp.sleeper = "none" /\ hp.begun = FALSE /\ hp.puncher = NewPuncher
  BY <1>1 DEF NoPunch
<1>4. ~hp.puncher.timer BY <1>3 DEF NewPuncher
<1>5. ~Punching
  BY <1>3, <1>4 DEF Punching, PunchStep, PingAnswered, PingLost, OnRound1Response, OnRound1Timeout, PollSampler,
     SleeperFires, OnRound2Response, OnRound2Timeout, OnPunchTimer, ProbeArrives
<1>6. ~QueryDone /\ ~VisitRefused /\ ~HandshakeDone /\ ~RouteDone /\ ~OnFirewall /\ ~LanPong /\ ~DestroyDht
  BY <1>2 DEF QueryDone, VisitRefused, HandshakeDone, RouteDone, OnFirewall, LanPong, DestroyDht
<1>7. ~RelayConnected /\ ~RelayPaired /\ ~RelayPairFailed /\ \A r \in Relays : ~OnReply(r)
  BY <1>2 DEF RelayConnected, RelayPaired, RelayPairFailed, OnReply
<1> QED BY <1>5, <1>6, <1>7 DEF Next

LEMMA NextWhole == Whole /\ [Next]_vars => Whole'
<1> SUFFICES ASSUME Whole, [Next]_vars PROVE Whole' OBVIOUS
<1>1. CASE DoConnect BY <1>1, DoConnectWhole
<1>2. CASE UNCHANGED vars BY <1>2 DEF vars, Whole
<1>3. CASE ~DoConnect /\ ~UNCHANGED vars
  <2>0. conn.begun /\ PunchInv(hp) /\ ConnInv(conn) BY <1>3, NothingBefore DEF Whole
  <2>1. ASSUME NEW r \in Relays, OnReply(r) PROVE Whole'
    BY <2>0, <2>1, OnReplyFits, FitsWhole DEF OnReply
  <2>2. CASE QueryDone BY <2>0, <2>2, QueryDoneFits, FitsWhole DEF QueryDone
  <2>8. CASE VisitRefused BY <2>0, <2>8, VisitRefusedFits, FitsWhole DEF VisitRefused
  <2>3. CASE HandshakeDone BY <2>0, <2>3, HandshakeDoneFits, FitsWhole
  <2>4. CASE RouteDone BY <2>0, <2>4, RouteDoneFits, FitsWhole
  <2>5. CASE OnFirewall \/ LanPong \/ RelayConnected \/ RelayPaired \/ RelayPairFailed
    <3>1. hp' = hp BY <2>5 DEF OnFirewall, LanPong, RelayConnected, RelayPaired, RelayPairFailed
    <3> QED BY <2>0, <2>5, <3>1, RacesFit, FitsWhole
  <2>6. CASE Punching BY <2>0, <2>6, PunchingFits, FitsWhole
  <2>7. CASE DestroyDht
    <3>1. conn' = conn /\ hp' = hp BY <2>7 DEF DestroyDht
    <3> QED BY <2>0, <3>1, FitsWhole DEF Fits
  <2> QED BY <1>3, <2>1, <2>2, <2>3, <2>4, <2>5, <2>6, <2>7, <2>8 DEF Next
<1> QED BY <1>1, <1>2, <1>3

LEMMA WholeIsSafe == Whole => StreamDelivered /\ FailsOnlyExhausted /\ PunchSettles
<1> SUFFICES ASSUME Whole PROVE StreamDelivered /\ FailsOnlyExhausted /\ PunchSettles OBVIOUS
<1>1. StreamDelivered BY DEF Whole, ConnInv, Delivered, StreamDelivered
<1>2. FailsOnlyExhausted
  <2>1. conn.in_flight = 0 => conn.refused = 0 BY DEF Whole, ConnInv, Counts
  <2> QED BY <2>1 DEF Whole, ConnInv, GaveUp, Known, FailsOnlyExhausted
<1>3. OnePhase(hp) /\ Settled(hp) BY DEF Whole, PunchInv
<1>4. PunchSettles BY <1>3 DEF OnePhase, Settled, PunchSettles, Unstable
<1> QED BY <1>1, <1>2, <1>4

\* The inductive invariant of a connect and its punch, for every race of their paths.
THEOREM WholeTheorem == Spec => []Whole
BY InitWhole, NextWhole, PTL DEF Spec

\* The raw stream goes to the caller exactly when the connect reports success,
\* whichever of firewall packet, LAN ping, relay and punch comes first or later.
THEOREM StreamDeliveredTheorem == Spec => []StreamDelivered
BY WholeTheorem, WholeIsSafe, PTL

\* A connect gives up on its relays only after each that was found or remembered
\* was tried and failed and none was refused, for any number of relays and of handshakes at a time.
THEOREM FailsOnlyExhaustedTheorem == Spec => []FailsOnlyExhausted
BY WholeTheorem, WholeIsSafe, PTL

\* A punch that is over leaves nothing armed and its socket where the outcome says;
\* Round 2 is never sent with an unknown class, nor probing begun in vain.
THEOREM PunchSettlesTheorem == Spec => []PunchSettles
BY WholeTheorem, WholeIsSafe, PTL

-----------------------------------------------------------------------------
(***************************************************************************)
(* The secret stream over the connection.  Frames that are on their way    *)
(* continue what an end has got, up to what the other has written, until   *)
(* the end is destroyed; a header is the first frame and is sent once.     *)
(***************************************************************************)

DuplexFields ==
  {"started", "attached", "partial", "header_sent", "header_received", "connected", "ended", "eof", "destroyed",
   "closed", "pending"}

DuplexRecord(d) == DOMAIN d = DuplexFields /\ d = [f \in DuplexFields |-> d[f]]

\* One end by itself: callbacks come from start() to the close, which is an end's last.
EndInv(d) ==
  /\ DuplexRecord(d)
  /\ d.attached => d.started
  /\ d.closed => d.started /\ ~d.attached /\ d.destroyed
  /\ d.connected => d.header_sent /\ d.pending = <<>>

\* Every message of s comes before every message of t.
Before(s, t) == \A i \in DOMAIN s, j \in DOMAIN t : s[i] > 0 /\ t[j] > 0 => s[i] < t[j]

\* What end e with record d has got, of the n messages its peer p wrote.
GotInv(e, got, n) ==
  /\ got \in Seq(Int)
  /\ \A i \in DOMAIN got : got[i] \in 0 .. n
  /\ Rising(got) /\ NoGap(got)
  /\ e \in KeepAlive => \A i \in DOMAIN got : got[i] # 0

\* What is still on the way, w, begins with the header and nothing else does;
HeaderInv(d, p, w) ==
  /\ ~p.started => w = <<>> /\ ~d.header_received
  /\ \A i \in DOMAIN w : w[i] = Header => i = 1 /\ ~d.header_received
  /\ p.header_sent => d.header_received
  /\ ~d.destroyed =>
       /\ ~d.header_received /\ w # <<>> => w[1] = Header
       /\ p.started /\ ~p.destroyed => d.header_received \/ w # <<>>

\* and, until the end is destroyed, it continues what was got up to what was written.
WayInv(d, w, got, n) ==
  ~d.destroyed =>
    /\ Rising(w) /\ Before(got, w)
    /\ 1 .. n \subseteq Range(got) \cup Range(w)

FlowInv(e, d, p, w, out, n) ==
  /\ n \in Nat
  /\ out \in Seq(Int) /\ d.pending \in Seq(Int)
  /\ w \in Seq(Int) /\ \A i \in DOMAIN w : w[i] \in -2 .. n
  /\ GotInv(e, out \o d.pending, n)
  /\ HeaderInv(d, p, w)
  /\ WayInv(d, w, out \o d.pending, n)

NonceFields == {"counter", "used", "reused"}
NonceRecord(c) == DOMAIN c = NonceFields /\ c = [f \in NonceFields |-> c[f]]

\* The counter has not wrapped, or the stream it serves is destroyed.
NonceInv(d, c) ==
  /\ NonceRecord(c)
  /\ c.counter \in 0 .. (Nonces - 1) /\ ~c.reused
  /\ d.destroyed \/ c.used \subseteq 1 .. c.counter

StreamShape ==
  /\ DOMAIN dup = Ends /\ dup = [x \in Ends |-> dup[x]]
  /\ DOMAIN wire = Ends /\ wire = [x \in Ends |-> wire[x]]
  /\ DOMAIN written = Ends /\ written = [x \in Ends |-> written[x]]
  /\ DOMAIN delivered = Ends /\ delivered = [x \in Ends |-> delivered[x]]
  /\ DOMAIN nonces = Ends /\ nonces = [x \in Ends |-> nonces[x]]

StreamInv ==
  /\ StreamShape
  /\ \A e \in Ends :
       /\ EndInv(dup[e])
       /\ FlowInv(e, dup[e], dup[Other(e)], wire[e], delivered[e], written[Other(e)])
       /\ NonceInv(dup[e], nonces[e])

LEMMA Joined ==
  ASSUME NEW a \in Seq(Int), NEW b \in Seq(Int)
  PROVE  /\ a \o b \in Seq(Int) /\ Len(a \o b) = Len(a) + Len(b)
         /\ Len(a) \in Nat /\ Len(b) \in Nat
         /\ DOMAIN a = 1 .. Len(a) /\ DOMAIN b = 1 .. Len(b)
         /\ DOMAIN (a \o b) = 1 .. (Len(a) + Len(b))
         /\ \A i \in 1 .. Len(a) : (a \o b)[i] = a[i]
         /\ \A i \in 1 .. Len(b) : (a \o b)[Len(a) + i] = b[i]
OBVIOUS

LEMMA JoinedEmpty == ASSUME NEW a \in Seq(Int) PROVE a \o <<>> = a
OBVIOUS

LEMMA JoinedAppend ==
  ASSUME NEW a \in Seq(Int), NEW b \in Seq(Int), NEW f \in Int
  PROVE  a \o Append(b, f) = Append(a \o b, f)
<1>1. Append(b, f) \in Seq(Int) /\ Len(Append(b, f)) = Len(b) + 1 /\ a \o b \in Seq(Int) OBVIOUS
<1>2. Len(a \o Append(b, f)) = Len(a) + Len(b) + 1 /\ Len(Append(a \o b, f)) = Len(a) + Len(b) + 1
  BY <1>1
<1>3. a \o Append(b, f) \in Seq(Int) /\ Append(a \o b, f) \in Seq(Int) BY <1>1
<1>4. ASSUME NEW i \in 1 .. (Len(a) + Len(b) + 1) PROVE (a \o Append(b, f))[i] = Append(a \o b, f)[i]
  <2>1. CASE i <= Len(a) BY <2>1, <1>1
  <2>2. CASE i > Len(a) /\ i <= Len(a) + Len(b) BY <2>2, <1>1
  <2>3. CASE i = Len(a) + Len(b) + 1 BY <2>3, <1>1
  <2> QED BY <2>1, <2>2, <2>3
<1> QED BY <1>2, <1>3, <1>4, SeqEqual

\* What an application keeps of a queue it loses is still in order and whole.
LEMMA GotPrefix ==
  ASSUME NEW e, NEW a \in Seq(Int), NEW b \in Seq(Int), NEW n \in Nat, GotInv(e, a \o b, n)
  PROVE  GotInv(e, a \o <<>>, n)
<1> DEFINE g == a \o b
<1>1. /\ g \in Seq(Int) /\ Len(a) \in Nat /\ Len(b) \in Nat
      /\ DOMAIN a = 1 .. Len(a) /\ DOMAIN g = 1 .. (Len(a) + Len(b))
      /\ \A i \in 1 .. Len(a) : g[i] = a[i]
  BY Joined
<1>2. GotInv(e, g, n) OBVIOUS
<1> HIDE DEF g
<1>3. a \o <<>> = a BY JoinedEmpty
<1>4. \A i \in DOMAIN a : a[i] \in 0 .. n /\ (e \in KeepAlive => a[i] # 0)
  BY <1>1, <1>2 DEF GotInv
<1>5. Rising(a) BY <1>1, <1>2 DEF GotInv, Rising
<1>6. ASSUME NEW i \in DOMAIN a, NEW x \in 1 .. a[i] PROVE \E j \in DOMAIN a : a[j] = x
  <2>1. PICK j \in DOMAIN g : g[j] = x
    <3>1. i \in DOMAIN g /\ g[i] = a[i] BY <1>1
    <3> QED BY <3>1, <1>2 DEF GotInv, NoGap, Range
  <2>2. CASE j <= Len(a) BY <2>1, <2>2, <1>1
  <2>3. CASE j > Len(a)
    <3>1. i \in DOMAIN g /\ g[i] = a[i] /\ i < j /\ a[i] \in Int /\ x \in Int BY <1>1, <1>4, <2>3
    <3>0. g[i] > 0 /\ g[j] > 0 BY <3>1, <2>1
    <3>2. g[i] < g[j] BY <3>0, <3>1, <2>1, <1>2 DEF GotInv, Rising, Empty
    <3> QED BY <3>1, <3>2, <2>1
  <2> QED BY <2>2, <2>3, <1>1
<1>7. NoGap(a) BY <1>6 DEF NoGap, Range
<1> QED BY <1>3, <1>4, <1>5, <1>7 DEF GotInv

LEMMA GotMore ==
  ASSUME NEW e, NEW got, NEW n \in Nat, GotInv(e, got, n)
  PROVE  GotInv(e, got, n + 1)
BY DEF GotInv

LEMMA TailFacts ==
  ASSUME NEW w \in Seq(Int), w # <<>>
  PROVE  /\ Len(w) \in Nat \ {0} /\ DOMAIN w = 1 .. Len(w)
         /\ Tail(w) \in Seq(Int) /\ Len(Tail(w)) = Len(w) - 1 /\ DOMAIN Tail(w) = 1 .. (Len(w) - 1)
         /\ \A i \in 1 .. (Len(w) - 1) : Tail(w)[i] = w[i + 1]
OBVIOUS

LEMMA AppendFacts ==
  ASSUME NEW w \in Seq(Int), NEW f \in Int
  PROVE  /\ Len(w) \in Nat /\ DOMAIN w = 1 .. Len(w)
         /\ Append(w, f) \in Seq(Int) /\ DOMAIN Append(w, f) = 1 .. (Len(w) + 1)
         /\ Append(w, f)[Len(w) + 1] = f
         /\ \A i \in 1 .. Len(w) : Append(w, f)[i] = w[i]
         /\ Append(w, f) # <<>>
OBVIOUS

\* A frame that is read and is no message changes nothing of the order.
LEMMA WayDrop ==
  ASSUME NEW w \in Seq(Int), w # <<>>, NEW got \in Seq(Int), NEW n \in Nat,
         w[1] <= 0, Rising(w), Before(got, w), 1 .. n \subseteq Range(got) \cup Range(w)
  PROVE  Rising(Tail(w)) /\ Before(got, Tail(w)) /\ 1 .. n \subseteq Range(got) \cup Range(Tail(w))
<1> DEFINE t == Tail(w)
<1>1. /\ Len(w) \in Nat \ {0} /\ DOMAIN w = 1 .. Len(w) /\ DOMAIN t = 1 .. (Len(w) - 1)
      /\ \A i \in 1 .. (Len(w) - 1) : t[i] = w[i + 1]
  BY TailFacts
<1> HIDE DEF t
<1>2. Rising(t)
  <2>1. ASSUME NEW i \in DOMAIN t, NEW j \in DOMAIN t, i < j, t[i] > 0, t[j] > 0 PROVE t[i] < t[j]
    <3>1. i + 1 \in DOMAIN w /\ j + 1 \in DOMAIN w /\ i + 1 < j + 1 /\ t[i] = w[i + 1] /\ t[j] = w[j + 1] BY <2>1, <1>1
    <3> QED BY <3>1, <2>1 DEF Rising, Empty
  <2> QED BY <2>1 DEF Rising, Empty
<1>3. Before(got, t)
  <2>1. ASSUME NEW i \in DOMAIN got, NEW j \in DOMAIN t PROVE j + 1 \in DOMAIN w /\ t[j] = w[j + 1] BY <1>1
  <2> QED BY <2>1 DEF Before
<1>4. ASSUME NEW x \in 1 .. n PROVE x \in Range(got) \cup Range(t)
  <2>1. CASE x \in Range(got) BY <2>1
  <2>2. CASE x \in Range(w)
    <3>1. PICK i \in DOMAIN w : w[i] = x BY <2>2 DEF Range
    <3>2. i # 1 BY <3>1
    <3>3. i - 1 \in DOMAIN t /\ t[i - 1] = x BY <3>1, <3>2, <1>1
    <3> QED BY <3>3 DEF Range
  <2> QED BY <2>1, <2>2
<1> QED BY <1>2, <1>3, <1>4 DEF t

\* A message that is read is the next one.
LEMMA WayTake ==
  ASSUME NEW e, NEW w \in Seq(Int), w # <<>>, NEW got, NEW n \in Nat, NEW f, f = w[1], f \in 0 .. n,
         e \in KeepAlive => f # 0,
         GotInv(e, got, n), Rising(w), Before(got, w), 1 .. n \subseteq Range(got) \cup Range(w)
  PROVE  /\ GotInv(e, Append(got, f), n)
         /\ Rising(Tail(w)) /\ Before(Append(got, f), Tail(w))
         /\ 1 .. n \subseteq Range(Append(got, f)) \cup Range(Tail(w))
<1> DEFINE t == Tail(w)
           g == Append(got, f)
<1>0. got \in Seq(Int) /\ f \in Int BY DEF GotInv
<1>1. /\ Len(w) \in Nat \ {0} /\ DOMAIN w = 1 .. Len(w) /\ DOMAIN t = 1 .. (Len(w) - 1)
      /\ \A i \in 1 .. (Len(w) - 1) : t[i] = w[i + 1]
  BY TailFacts
<1>2. /\ Len(got) \in Nat /\ DOMAIN got = 1 .. Len(got) /\ g \in Seq(Int) /\ DOMAIN g = 1 .. (Len(got) + 1)
      /\ g[Len(got) + 1] = f /\ \A i \in 1 .. Len(got) : g[i] = got[i]
  BY <1>0, AppendFacts
<1> HIDE DEF t, g
<1>3. Rising(t)
  <2>1. ASSUME NEW i \in DOMAIN t, NEW j \in DOMAIN t, i < j, t[i] > 0, t[j] > 0 PROVE t[i] < t[j]
    <3>1. i + 1 \in DOMAIN w /\ j + 1 \in DOMAIN w /\ i + 1 < j + 1 /\ t[i] = w[i + 1] /\ t[j] = w[j + 1] BY <2>1, <1>1
    <3> QED BY <3>1, <2>1 DEF Rising, Empty
  <2> QED BY <2>1 DEF Rising, Empty
<1>4. Before(g, t)
  <2>1. ASSUME NEW i \in DOMAIN g, NEW j \in DOMAIN t, g[i] > 0, t[j] > 0 PROVE g[i] < t[j]
    <3>1. t[j] = w[j + 1] /\ j + 1 \in DOMAIN w /\ j + 1 > 1 /\ 1 \in DOMAIN w BY <1>1
    <3>2. CASE i = Len(got) + 1 BY <2>1, <3>1, <3>2, <1>2 DEF Rising, Empty
    <3>3. CASE i # Len(got) + 1
      <4>1. i \in DOMAIN got /\ g[i] = got[i] BY <3>3, <1>2
      <4> QED BY <4>1, <3>1, <2>1 DEF Before
    <3> QED BY <3>2, <3>3
  <2> QED BY <2>1 DEF Before
<1>5. ASSUME NEW x \in 1 .. n PROVE (\E i \in DOMAIN g : g[i] = x) \/ (\E j \in DOMAIN t : t[j] = x)
  <2>1. CASE x \in Range(got)
    <3>1. PICK i \in DOMAIN got : got[i] = x BY <2>1 DEF Range
    <3> QED BY <3>1, <1>2
  <2>2. CASE x \in Range(w)
    <3>1. PICK i \in DOMAIN w : w[i] = x BY <2>2 DEF Range
    <3>2. CASE i = 1 BY <3>1, <3>2, <1>2
    <3>3. CASE i # 1
      <4>1. i - 1 \in DOMAIN t /\ t[i - 1] = x BY <3>1, <3>3, <1>1
      <4> QED BY <4>1
    <3> QED BY <3>2, <3>3
  <2> QED BY <2>1, <2>2
<1>6. 1 .. n \subseteq Range(g) \cup Range(t) BY <1>5 DEF Range
<1>7. \A i \in DOMAIN g : g[i] \in 0 .. n /\ (e \in KeepAlive => g[i] # 0) BY <1>2 DEF GotInv
<1>8. Rising(g)
  <2>1. ASSUME NEW i \in DOMAIN g, NEW j \in DOMAIN g, i < j, g[i] > 0, g[j] > 0 PROVE g[i] < g[j]
    <3>1. i \in DOMAIN got /\ g[i] = got[i] /\ 1 \in DOMAIN w BY <2>1, <1>2, <1>1
    <3>2. CASE j = Len(got) + 1 BY <2>1, <3>1, <3>2, <1>2 DEF Before
    <3>3. CASE j # Len(got) + 1
      <4>1. j \in DOMAIN got /\ g[j] = got[j] BY <3>3, <1>2
      <4> QED BY <4>1, <3>1, <2>1 DEF GotInv, Rising, Empty
    <3> QED BY <3>2, <3>3
  <2> QED BY <2>1 DEF Rising, Empty
<1>9. ASSUME NEW i \in DOMAIN g, NEW x \in 1 .. g[i] PROVE \E k \in DOMAIN g : g[k] = x
  <2>0. g[i] \in 0 .. n /\ x \in 1 .. n BY <1>7
  <2>1. SUFFICES ASSUME NEW j \in DOMAIN t, t[j] = x PROVE FALSE BY <2>0, <1>5
  <2>2. t[j] > 0 /\ g[i] > 0 BY <2>0, <2>1
  <2>3. g[i] < t[j] BY <2>2, <1>4 DEF Before
  <2> QED BY <2>0, <2>1, <2>3
<1>10. NoGap(g) BY <1>9 DEF NoGap, Range
<1>11. GotInv(e, g, n) BY <1>2, <1>7, <1>8, <1>10 DEF GotInv
<1> QED BY <1>3, <1>4, <1>6, <1>11 DEF t, g

\* A frame that is sent: a message continues the order, another leaves it alone.
LEMMA WaySend ==
  ASSUME NEW w \in Seq(Int), NEW got \in Seq(Int), NEW n \in Nat, NEW f \in Int, NEW m,
         \/ f <= 0 /\ m = n
         \/ f = n + 1 /\ m = n + 1,
         \A i \in DOMAIN w : w[i] \in -2 .. n, \A i \in DOMAIN got : got[i] \in 0 .. n,
         Rising(w), Before(got, w), 1 .. n \subseteq Range(got) \cup Range(w)
  PROVE  /\ Rising(Append(w, f)) /\ Before(got, Append(w, f))
         /\ 1 .. m \subseteq Range(got) \cup Range(Append(w, f))
<1> DEFINE v == Append(w, f)
<1>1. /\ Len(w) \in Nat /\ DOMAIN w = 1 .. Len(w) /\ DOMAIN v = 1 .. (Len(w) + 1)
      /\ v[Len(w) + 1] = f /\ \A i \in 1 .. Len(w) : v[i] = w[i]
  BY AppendFacts
<1> HIDE DEF v
<1>2. Rising(v)
  <2>1. ASSUME NEW i \in DOMAIN v, NEW j \in DOMAIN v, i < j, v[i] > 0, v[j] > 0 PROVE v[i] < v[j]
    <3>1. i \in DOMAIN w /\ v[i] = w[i] /\ w[i] <= n BY <2>1, <1>1
    <3>2. CASE j = Len(w) + 1 BY <2>1, <3>1, <3>2, <1>1
    <3>3. CASE j # Len(w) + 1
      <4>1. j \in DOMAIN w /\ v[j] = w[j] BY <3>3, <1>1
      <4> QED BY <4>1, <3>1, <2>1 DEF Rising, Empty
    <3> QED BY <3>2, <3>3
  <2> QED BY <2>1 DEF Rising, Empty
<1>3. Before(got, v)
  <2>1. ASSUME NEW i \in DOMAIN got, NEW j \in DOMAIN v, got[i] > 0, v[j] > 0 PROVE got[i] < v[j]
    <3>2. CASE j = Len(w) + 1 BY <2>1, <3>2, <1>1
    <3>3. CASE j # Len(w) + 1
      <4>1. j \in DOMAIN w /\ v[j] = w[j] BY <3>3, <1>1
      <4> QED BY <4>1, <2>1 DEF Before
    <3> QED BY <3>2, <3>3
  <2> QED BY <2>1 DEF Before
<1>4. ASSUME NEW x \in 1 .. m PROVE x \in Range(got) \cup Range(v)
  <2>1. CASE x \in 1 .. n
    <3>1. CASE x \in Range(got) BY <3>1
    <3>2. CASE x \in Range(w)
      <4>1. PICK i \in DOMAIN w : w[i] = x BY <3>2 DEF Range
      <4>2. i \in DOMAIN v /\ v[i] = x BY <4>1, <1>1
      <4> QED BY <4>2 DEF Range
    <3> QED BY <2>1, <3>1, <3>2
  <2>2. CASE x = f
    <3>1. Len(w) + 1 \in DOMAIN v /\ v[Len(w) + 1] = x BY <2>2, <1>1
    <3> QED BY <3>1 DEF Range
  <2> QED BY <2>1, <2>2
<1> QED BY <1>2, <1>3, <1>4 DEF v

-----------------------------------------------------------------------------
(* One end's steps, seen by what it receives and by what it sends.         *)

LEMMA FlowKeep ==
  ASSUME NEW e, NEW d, NEW p, NEW w, NEW out, NEW n, FlowInv(e, d, p, w, out, n), NEW d2, NEW o2,
         d2.header_received = d.header_received, d.destroyed => d2.destroyed,
         o2 \in Seq(Int), d2.pending \in Seq(Int),
         \/ o2 \o d2.pending = out \o d.pending
         \/ d2.destroyed /\ GotInv(e, o2 \o d2.pending, n)
  PROVE  FlowInv(e, d2, p, w, o2, n)
<1>1. GotInv(e, o2 \o d2.pending, n) BY DEF FlowInv
<1>2. HeaderInv(d2, p, w) BY DEF FlowInv, HeaderInv
<1>3. WayInv(d2, w, o2 \o d2.pending, n) BY DEF FlowInv, WayInv
<1> QED BY <1>1, <1>2, <1>3 DEF FlowInv

LEMMA FlowPeer ==
  ASSUME NEW e, NEW d, NEW p, NEW w, NEW out, NEW n, FlowInv(e, d, p, w, out, n), NEW p2,
         p2.started = p.started, p.destroyed => p2.destroyed,
         p2.header_sent => p.header_sent \/ d.header_received
  PROVE  FlowInv(e, d, p2, w, out, n)
<1>1. HeaderInv(d, p2, w) BY DEF FlowInv, HeaderInv
<1> QED BY <1>1 DEF FlowInv

\* What a step that sends nothing leaves of an end for the other to rely on.
Onward(d, d2) ==
  /\ d2.started = d.started /\ d2.attached = d.attached /\ d2.closed = d.closed
  /\ d2.header_sent = d.header_sent
  /\ d.destroyed => d2.destroyed

LEMMA FireInv ==
  ASSUME NEW e, NEW d, NEW p, NEW w, NEW out, NEW n, EndInv(d), FlowInv(e, d, p, w, out, n), NEW s,
         s = MaybeFireConnect([d |-> d, out |-> out])
  PROVE  EndInv(s.d) /\ FlowInv(e, s.d, p, w, s.out, n) /\ Onward(d, s.d)
<1>1. CASE d.connected \/ ~(d.header_sent /\ d.header_received)
  <2>1. s.d = d /\ s.out = out BY <1>1 DEF MaybeFireConnect
  <2> QED BY <2>1 DEF Onward
<1>2. CASE ~d.connected /\ d.header_sent /\ d.header_received
  <2> DEFINE d2 == [d EXCEPT !.connected = TRUE, !.pending = <<>>]
             o2 == IF d.destroyed THEN out ELSE out \o d.pending
  <2>1. s.d = d2 /\ s.out = o2 BY <1>2 DEF MaybeFireConnect
  <2>2. DuplexRecord(d2) BY DEF EndInv, DuplexRecord
  <2>3. /\ d2.connected = TRUE /\ d2.pending = <<>> /\ d2.header_received = d.header_received
        /\ d2.header_sent = d.header_sent /\ d2.destroyed = d.destroyed /\ d2.started = d.started
        /\ d2.attached = d.attached /\ d2.closed = d.closed
    BY DEF EndInv, DuplexRecord, DuplexFields
  <2> HIDE DEF d2
  <2>4. EndInv(d2) BY <1>2, <2>2, <2>3 DEF EndInv
  <2>5. out \in Seq(Int) /\ d.pending \in Seq(Int) /\ n \in Nat /\ GotInv(e, out \o d.pending, n) /\ <<>> \in Seq(Int)
    BY DEF FlowInv
  <2>6. out \o d.pending \in Seq(Int) BY <2>5
  <2>7. CASE d.destroyed
    <3>1. GotInv(e, out \o <<>>, n) BY <2>5, GotPrefix
    <3>2. FlowInv(e, d2, p, w, out, n) BY <2>3, <2>5, <2>7, <3>1, FlowKeep
    <3> QED BY <2>1, <2>3, <2>4, <2>7, <3>2 DEF Onward
  <2>8. CASE ~d.destroyed
    <3>1. (out \o d.pending) \o <<>> = out \o d.pending BY <2>6, JoinedEmpty
    <3>2. FlowInv(e, d2, p, w, out \o d.pending, n) BY <2>3, <2>5, <2>6, <3>1, FlowKeep
    <3> QED BY <2>1, <2>3, <2>4, <2>8, <3>2 DEF Onward
  <2> QED BY <2>7, <2>8
<1> QED BY <1>1, <1>2

LEMMA TailHeader ==
  ASSUME NEW d, NEW p, NEW w \in Seq(Int), w # <<>>, HeaderInv(d, p, w), NEW d2,
         d2.header_received \/ d2.destroyed, d.header_received => d2.header_received
  PROVE  HeaderInv(d2, p, Tail(w))
<1>1. p.started BY DEF HeaderInv
<1>2. \A i \in DOMAIN Tail(w) : i + 1 \in DOMAIN w /\ i + 1 # 1 /\ Tail(w)[i] = w[i + 1] BY TailFacts
<1>3. \A i \in DOMAIN Tail(w) : Tail(w)[i] # Header BY <1>2 DEF HeaderInv
<1>4. p.header_sent => d2.header_received BY DEF HeaderInv
<1> QED BY <1>1, <1>3, <1>4 DEF HeaderInv

LEMMA TailBounds ==
  ASSUME NEW w \in Seq(Int), w # <<>>, NEW n, \A i \in DOMAIN w : w[i] \in -2 .. n
  PROVE  Tail(w) \in Seq(Int) /\ \A i \in DOMAIN Tail(w) : Tail(w)[i] \in -2 .. n
BY TailFacts

\* A frame read that is no message for the application.
LEMMA FlowDrop ==
  ASSUME NEW e, NEW d, NEW p, NEW w, NEW out, NEW n, FlowInv(e, d, p, w, out, n), w # <<>>, NEW d2,
         d.destroyed \/ w[1] <= 0,
         d2.pending = d.pending, d2.destroyed = d.destroyed,
         d2.header_received \/ d2.destroyed, d.header_received => d2.header_received
  PROVE  FlowInv(e, d2, p, Tail(w), out, n)
<1>1. w \in Seq(Int) /\ n \in Nat /\ out \o d.pending \in Seq(Int) BY DEF FlowInv, GotInv
<1>2. HeaderInv(d2, p, Tail(w)) BY <1>1, TailHeader DEF FlowInv
<1>3. WayInv(d2, Tail(w), out \o d2.pending, n)
  <2>1. CASE d.destroyed BY <2>1 DEF WayInv
  <2>2. CASE ~d.destroyed
    <3>1. /\ Rising(w) /\ Before(out \o d.pending, w)
          /\ 1 .. n \subseteq Range(out \o d.pending) \cup Range(w)
      BY <2>2 DEF FlowInv, WayInv
    <3> QED BY <1>1, <2>2, <3>1, WayDrop DEF WayInv
  <2> QED BY <2>1, <2>2
<1>4. Tail(w) \in Seq(Int) /\ \A i \in DOMAIN Tail(w) : Tail(w)[i] \in -2 .. n BY <1>1, TailBounds DEF FlowInv
<1> QED BY <1>2, <1>3, <1>4 DEF FlowInv

\* A message read, handed on or queued.
LEMMA FlowTake ==
  ASSUME NEW e, NEW d, NEW p, NEW w, NEW out, NEW n, FlowInv(e, d, p, w, out, n), w # <<>>, NEW d2, NEW o2,
         ~d.destroyed, d.header_received, w[1] # Eof, e \in KeepAlive => w[1] # 0,
         d2.header_received, o2 \in Seq(Int), d2.pending \in Seq(Int),
         o2 \o d2.pending = Append(out \o d.pending, w[1])
  PROVE  FlowInv(e, d2, p, Tail(w), o2, n)
<1> DEFINE g == out \o d.pending
           f == w[1]
<1>1. w \in Seq(Int) /\ n \in Nat /\ GotInv(e, g, n) BY DEF FlowInv
<1>2. f \in 0 .. n
  <2>1. 1 \in DOMAIN w BY <1>1
  <2>2. w[1] \in -2 .. n /\ w[1] # -1 BY <2>1 DEF FlowInv, HeaderInv, Header
  <2> QED BY <1>1, <2>2 DEF Eof
<1>3. Rising(w) /\ Before(g, w) /\ 1 .. n \subseteq Range(g) \cup Range(w) BY DEF FlowInv, WayInv
<1> HIDE DEF g
<1>4. /\ GotInv(e, Append(g, f), n)
      /\ Rising(Tail(w)) /\ Before(Append(g, f), Tail(w))
      /\ 1 .. n \subseteq Range(Append(g, f)) \cup Range(Tail(w))
  BY <1>1, <1>2, <1>3, WayTake
<1>5. o2 \o d2.pending = Append(g, f) BY DEF g
<1> HIDE DEF f
<1>6. GotInv(e, o2 \o d2.pending, n) /\ WayInv(d2, Tail(w), o2 \o d2.pending, n) BY <1>4, <1>5 DEF WayInv
<1>7. HeaderInv(d2, p, Tail(w)) BY <1>1, TailHeader DEF FlowInv
<1>8. Tail(w) \in Seq(Int) /\ \A i \in DOMAIN Tail(w) : Tail(w)[i] \in -2 .. n BY <1>1, TailBounds DEF FlowInv
<1> QED BY <1>1, <1>6, <1>7, <1>8 DEF FlowInv

\* handle_frame, for any frame the peer may have sent.
LEMMA ReadInv ==
  ASSUME NEW e, NEW d, NEW p, NEW w, NEW out, NEW n, EndInv(d), FlowInv(e, d, p, w, out, n),
         w # <<>>, w[1] # Eof, NEW s, s = ExtractFrame(e, [d |-> d, out |-> out], w[1])
  PROVE  EndInv(s.d) /\ FlowInv(e, s.d, p, Tail(w), s.out, n) /\ Onward(d, s.d) /\ s = [d |-> s.d, out |-> s.out]
<1> DEFINE f == w[1]
           s0 == [d |-> d, out |-> out]
<1>0. /\ w \in Seq(Int) /\ n \in Nat /\ out \in Seq(Int) /\ d.pending \in Seq(Int) /\ s0.d = d /\ s0.out = out
      /\ f \in Int
  <2>1. w \in Seq(Int) /\ 1 \in DOMAIN w BY DEF FlowInv
  <2> QED BY <2>1 DEF FlowInv
<1>1. CASE d.destroyed
  <2>1. s = s0 /\ s.d = d /\ s.out = out BY <1>1 DEF ExtractFrame
  <2>2. FlowInv(e, d, p, Tail(w), out, n) BY <1>1, FlowDrop
  <2> QED BY <2>1, <2>2 DEF Onward
<1>2. CASE ~d.destroyed /\ ~d.header_received
  <2> DEFINE d1 == [d EXCEPT !.header_received = TRUE]
  <2>1. s = MaybeFireConnect([d |-> d1, out |-> out])
    BY <1>2 DEF ExtractFrame, HandleFrame
  <2>2. DuplexRecord(d1) BY DEF EndInv, DuplexRecord
  <2>3. /\ d1.connected = d.connected /\ d1.pending = d.pending /\ d1.header_received = TRUE
        /\ d1.header_sent = d.header_sent /\ d1.destroyed = d.destroyed /\ d1.started = d.started
        /\ d1.attached = d.attached /\ d1.closed = d.closed
    BY DEF EndInv, DuplexRecord, DuplexFields
  <2> HIDE DEF d1
  <2>4. EndInv(d1) BY <2>2, <2>3 DEF EndInv
  <2>5. w[1] = -1 BY <1>2 DEF FlowInv, HeaderInv, Header
  <2>6. FlowInv(e, d1, p, Tail(w), out, n) BY <2>3, <2>5, FlowDrop
  <2>7. EndInv(s.d) /\ FlowInv(e, s.d, p, Tail(w), s.out, n) /\ Onward(d1, s.d)
    BY <2>1, <2>4, <2>6, FireInv
  <2>8. Onward(d, s.d) BY <2>3, <2>7 DEF Onward
  <2>9. s = [d |-> s.d, out |-> s.out] BY <2>1 DEF MaybeFireConnect
  <2> QED BY <2>7, <2>8, <2>9
<1>3. CASE ~d.destroyed /\ d.header_received /\ Swallowed(e, f)
  <2>1. s = s0 /\ s.d = d /\ s.out = out BY <1>3 DEF ExtractFrame, HandleFrame
  <2>2. f = 0 BY <1>3 DEF Swallowed, Empty
  <2>3. FlowInv(e, d, p, Tail(w), out, n) BY <1>3, <2>2, FlowDrop
  <2> QED BY <2>1, <2>3 DEF Onward
<1>4. CASE ~d.destroyed /\ d.header_received /\ ~Swallowed(e, f) /\ d.connected
  <2> DEFINE o2 == Append(out, f)
  <2>1. s = [d |-> d, out |-> o2] /\ s.d = d /\ s.out = o2
    BY <1>4 DEF ExtractFrame, HandleFrame
  <2>2. e \in KeepAlive => f # 0 BY <1>4 DEF Swallowed, Empty
  <2>3. d.pending = <<>> BY <1>4 DEF EndInv
  <2>4. o2 \in Seq(Int) /\ o2 \o <<>> = o2 /\ out \o <<>> = out BY <1>0, AppendFacts, JoinedEmpty
  <2>5. o2 \o d.pending = Append(out \o d.pending, f) BY <2>3, <2>4
  <2> HIDE DEF o2
  <2>6. FlowInv(e, d, p, Tail(w), o2, n) BY <1>0, <1>4, <2>2, <2>4, <2>5, FlowTake
  <2> QED BY <2>1, <2>6 DEF Onward
<1>5. CASE ~d.destroyed /\ d.header_received /\ ~Swallowed(e, f) /\ ~d.connected
  <2> DEFINE b == Append(d.pending, f)
             q == [d EXCEPT !.pending = b]
             d2 == IF Len(q.pending) > MaxPending THEN DestroyedDuplex(q) ELSE q
  <2>1. s = [d |-> d2, out |-> out] /\ s.d = d2 /\ s.out = out
    BY <1>5 DEF ExtractFrame, HandleFrame
  <2>2. e \in KeepAlive => f # 0 BY <1>5 DEF Swallowed, Empty
  <2>3. b \in Seq(Int) /\ out \o b = Append(out \o d.pending, f) BY <1>0, AppendFacts, JoinedAppend
  <2> HIDE DEF b
  <2>4. DuplexRecord(q) BY DEF EndInv, DuplexRecord
  <2>5. /\ q.connected = d.connected /\ q.pending = b /\ q.header_received = d.header_received
        /\ q.header_sent = d.header_sent /\ q.destroyed = d.destroyed /\ q.started = d.started
        /\ q.attached = d.attached /\ q.closed = d.closed
    BY DEF EndInv, DuplexRecord, DuplexFields
  <2> HIDE DEF q
  <2> DEFINE x == DestroyedDuplex(q)
  <2>6. DuplexRecord(x) BY <2>4 DEF DestroyedDuplex, DuplexRecord
  <2>7. /\ x.connected = d.connected /\ x.pending = b /\ x.header_received = d.header_received
        /\ x.header_sent = d.header_sent /\ x.destroyed = TRUE /\ x.started = d.started
        /\ x.attached = d.attached /\ x.closed = d.closed
    BY <2>4, <2>5 DEF DestroyedDuplex, DuplexRecord, DuplexFields
  <2>8. d2 = q \/ d2 = x OBVIOUS
  <2> HIDE DEF x, d2
  <2>9. /\ DuplexRecord(d2) /\ d2.connected = d.connected /\ d2.pending = b /\ d2.header_received = d.header_received
        /\ d2.header_sent = d.header_sent /\ d2.started = d.started
        /\ d2.attached = d.attached /\ d2.closed = d.closed
    BY <2>4, <2>5, <2>6, <2>7, <2>8
  <2>10. EndInv(d2) BY <1>5, <2>9 DEF EndInv
  <2>11. FlowInv(e, d2, p, Tail(w), out, n) BY <1>0, <1>5, <2>2, <2>3, <2>9, FlowTake
  <2> QED BY <1>5, <2>1, <2>9, <2>10, <2>11 DEF Onward
<1> QED BY <1>1, <1>2, <1>3, <1>4, <1>5

\* A frame after the header, from an end that may send.
LEMMA FlowSend ==
  ASSUME NEW e, NEW d, NEW p, NEW w, NEW out, NEW n, FlowInv(e, d, p, w, out, n), NEW p2, NEW f \in Int, NEW m,
         p2.started, p.header_sent \/ (p.started /\ ~p.destroyed), p2.header_sent = p.header_sent,
         (f \in {-2, 0} /\ m = n) \/ (f = n + 1 /\ m = n + 1)
  PROVE  FlowInv(e, d, p2, Append(w, f), out, m)
<1> DEFINE v == Append(w, f)
           g == out \o d.pending
<1>1. w \in Seq(Int) /\ n \in Nat /\ m \in Nat /\ g \in Seq(Int) BY DEF FlowInv, GotInv
<1>2. /\ Len(w) \in Nat /\ DOMAIN w = 1 .. Len(w) /\ v \in Seq(Int) /\ DOMAIN v = 1 .. (Len(w) + 1)
      /\ v[Len(w) + 1] = f /\ \A i \in 1 .. Len(w) : v[i] = w[i] /\ v # <<>>
  BY <1>1, AppendFacts
<1>3. GotInv(e, g, m) BY <1>1, GotMore DEF FlowInv
<1>4. WayInv(d, v, g, m)
  <2>1. CASE d.destroyed BY <2>1 DEF WayInv
  <2>2. CASE ~d.destroyed
    <3>1. Rising(w) /\ Before(g, w) /\ 1 .. n \subseteq Range(g) \cup Range(w)
      BY <2>2 DEF FlowInv, WayInv
    <3>2. (\A i \in DOMAIN w : w[i] \in -2 .. n) /\ (\A i \in DOMAIN g : g[i] \in 0 .. n) BY DEF FlowInv, GotInv
    <3>3. (f <= 0 /\ m = n) \/ (f = n + 1 /\ m = n + 1) OBVIOUS
    <3> HIDE DEF g
    <3> QED BY <1>1, <3>1, <3>2, <3>3, WaySend DEF WayInv
  <2> QED BY <2>1, <2>2
<1>5. \A i \in DOMAIN v : v[i] \in -2 .. m BY <1>1, <1>2 DEF FlowInv
<1> HIDE DEF v, g
<1>6. HeaderInv(d, p2, v)
  <2>1. \A i \in DOMAIN v : v[i] = Header => i = 1 /\ ~d.header_received
    <3>1. f # -1 BY <1>1
    <3>2. \A i \in DOMAIN v : (i \in DOMAIN w /\ v[i] = w[i]) \/ v[i] = f BY <1>2
    <3> QED BY <3>1, <3>2 DEF FlowInv, HeaderInv, Header
  <2>2. ~d.destroyed /\ ~d.header_received => v[1] = Header
    <3>1. ~d.destroyed /\ ~d.header_received => w # <<>> /\ w[1] = Header BY DEF FlowInv, HeaderInv
    <3>2. w # <<>> => 1 \in 1 .. Len(w) BY <1>1
    <3> QED BY <1>2, <3>1, <3>2
  <2>3. v # <<>> BY <1>1, AppendFacts DEF v
  <2>4. p2.header_sent => d.header_received BY DEF FlowInv, HeaderInv
  <2> QED BY <2>1, <2>2, <2>3, <2>4 DEF HeaderInv
<1> QED BY <1>1, <1>2, <1>3, <1>4, <1>5, <1>6 DEF FlowInv, v, g

\* The header, sent once.
LEMMA FlowStart ==
  ASSUME NEW e, NEW d, NEW p, NEW w, NEW out, NEW n, FlowInv(e, d, p, w, out, n), NEW p2,
         ~p.started, p2.started, p2.header_sent = p.header_sent
  PROVE  FlowInv(e, d, p2, Append(w, Header), out, n) /\ (p2.destroyed => FlowInv(e, d, p2, w, out, n))
<1> DEFINE v == Append(w, Header)
           g == out \o d.pending
<1>1. w = <<>> /\ ~d.header_received BY DEF FlowInv, HeaderInv
<1>2. w \in Seq(Int) /\ n \in Nat /\ g \in Seq(Int) BY DEF FlowInv, GotInv
<1>3. v \in Seq(Int) /\ DOMAIN v = {1} /\ v[1] = -1 /\ v # <<>>
  <2>1. v = <<-1>> BY <1>1 DEF Header
  <2> QED BY <2>1
<1>4. WayInv(d, v, g, n)
  <2>1. CASE d.destroyed BY <2>1 DEF WayInv
  <2>2. CASE ~d.destroyed
    <3>1. Rising(w) /\ Before(g, w) /\ 1 .. n \subseteq Range(g) \cup Range(w)
      BY <2>2 DEF FlowInv, WayInv
    <3>2. (\A i \in DOMAIN w : w[i] \in -2 .. n) /\ (\A i \in DOMAIN g : g[i] \in 0 .. n) BY DEF FlowInv, GotInv
    <3>3. Header \in Int /\ Header <= 0 BY DEF Header
    <3> HIDE DEF g
    <3> QED BY <1>2, <3>1, <3>2, <3>3, WaySend DEF WayInv
  <2> QED BY <2>1, <2>2
<1> HIDE DEF v
<1>5. HeaderInv(d, p2, v) BY <1>1, <1>3 DEF FlowInv, HeaderInv, Header
<1>6. FlowInv(e, d, p2, v, out, n)
  <2>1. \A i \in DOMAIN v : v[i] \in -2 .. n BY <1>2, <1>3
  <2> QED BY <1>3, <1>4, <1>5, <2>1 DEF FlowInv
<1>7. p2.destroyed => HeaderInv(d, p2, w) BY <1>1 DEF FlowInv, HeaderInv
<1> QED BY <1>6, <1>7 DEF FlowInv, v

-----------------------------------------------------------------------------
(* The steps of a stream.                                                  *)

LEMMA OtherEnd ==
  ASSUME NEW e \in Ends
  PROVE  /\ Other(e) \in Ends /\ Other(e) # e
         /\ Other(Other(e)) = e /\ Ends = {e, Other(e)}
<1>1. PICK a \in Ends, b \in Ends : a # b /\ Ends = {a, b} BY StreamAssumption
<1>2. ASSUME NEW x \in Ends PROVE Other(x) \in Ends /\ Other(x) # x
  <2>1. \E o \in Ends : o # x BY <1>1
  <2> QED BY <2>1 DEF Other
<1> QED BY <1>1, <1>2

LEMMA StreamStep ==
  ASSUME StreamInv, NEW e \in Ends, NEW o, o = Other(e), StreamShape',
         dup'[o] = dup[o], nonces'[o] = nonces[o], delivered'[o] = delivered[o], written'[o] = written[o],
         EndInv(dup'[e]), NonceInv(dup'[e], nonces'[e]),
         FlowInv(e, dup'[e], dup[o], wire'[e], delivered'[e], written[o]),
         FlowInv(o, dup[o], dup'[e], wire'[o], delivered[o], written'[e])
  PROVE  StreamInv'
<1>1. o \in Ends /\ Other(o) = e /\ Ends = {e, o} BY OtherEnd
<1>2. EndInv(dup'[o]) /\ NonceInv(dup'[o], nonces'[o]) BY <1>1 DEF StreamInv
<1>3. /\ FlowInv(e, dup'[e], dup'[Other(e)], wire'[e], delivered'[e], written'[Other(e)])
      /\ FlowInv(o, dup'[o], dup'[Other(o)], wire'[o], delivered'[o], written'[Other(o)])
  BY <1>1
<1>4. \A x \in Ends : x = e \/ x = o BY <1>1
<1> QED BY <1>2, <1>3, <1>4 DEF StreamInv

LEMMA StreamAt ==
  ASSUME StreamInv, NEW e \in Ends, NEW o, o = Other(e)
  PROVE  /\ StreamShape /\ o \in Ends /\ o # e
         /\ EndInv(dup[e]) /\ EndInv(dup[o]) /\ NonceInv(dup[e], nonces[e])
         /\ FlowInv(e, dup[e], dup[o], wire[e], delivered[e], written[o])
         /\ FlowInv(o, dup[o], dup[e], wire[o], delivered[o], written[e])
<1>1. o \in Ends /\ o # e /\ Other(o) = e BY OtherEnd
<1>2. FlowInv(o, dup[o], dup[Other(o)], wire[o], delivered[o], written[Other(o)]) BY <1>1 DEF StreamInv
<1> QED BY <1>1, <1>2 DEF StreamInv

\* The records the steps make.
LEMMA DestroyedEnd ==
  ASSUME NEW d, EndInv(d), NEW d2, d2 = DestroyedDuplex(d)
  PROVE  /\ EndInv(d2) /\ Onward(d, d2) /\ d2.destroyed
         /\ d2.header_received = d.header_received /\ d2.pending = d.pending
<1>1. DuplexRecord(d2) BY DEF EndInv, DuplexRecord, DestroyedDuplex
<1>2. /\ d2.connected = d.connected /\ d2.pending = d.pending /\ d2.header_received = d.header_received
      /\ d2.header_sent = d.header_sent /\ d2.destroyed = TRUE /\ d2.started = d.started
      /\ d2.attached = d.attached /\ d2.closed = d.closed
  BY DEF EndInv, DuplexRecord, DuplexFields, DestroyedDuplex
<1> QED BY <1>1, <1>2 DEF EndInv, Onward

LEMMA StartedEnd ==
  ASSUME NEW d, EndInv(d), ~d.started, NEW d2, d2 = Started(d)
  PROVE  /\ EndInv(d2) /\ d2.started /\ d2.destroyed = d.destroyed
         /\ d2.header_received = d.header_received /\ d2.pending = d.pending /\ d2.header_sent = d.header_sent
<1>1. DuplexRecord(d2) BY DEF EndInv, DuplexRecord, Started
<1>2. /\ d2.connected = d.connected /\ d2.pending = d.pending /\ d2.header_received = d.header_received
      /\ d2.header_sent = d.header_sent /\ d2.destroyed = d.destroyed /\ d2.started = TRUE
      /\ d2.attached = TRUE /\ d2.closed = d.closed
  BY DEF EndInv, DuplexRecord, DuplexFields, Started
<1> QED BY <1>1, <1>2 DEF EndInv

\* A step that touches what no one relies on: bytes of a frame, the ends of stream.
MarkedEnd(d, d2) ==
  /\ DuplexRecord(d2)
  /\ d2.connected = d.connected /\ d2.pending = d.pending /\ d2.header_received = d.header_received
  /\ d2.header_sent = d.header_sent /\ d2.destroyed = d.destroyed /\ d2.started = d.started
  /\ d2.attached = d.attached /\ d2.closed = d.closed

LEMMA MarkedInv ==
  ASSUME NEW d, EndInv(d), NEW d2, MarkedEnd(d, d2)
  PROVE  EndInv(d2) /\ Onward(d, d2)
BY DEF EndInv, MarkedEnd, Onward

LEMMA Marks ==
  ASSUME NEW d, DuplexRecord(d), NEW b
  PROVE  /\ MarkedEnd(d, [d EXCEPT !.partial = b])
         /\ MarkedEnd(d, [d EXCEPT !.ended = TRUE])
         /\ MarkedEnd(d, [d EXCEPT !.eof = TRUE])
         /\ MarkedEnd(d, [d EXCEPT !.eof = TRUE, !.ended = TRUE])
<1> DEFINE p == [d EXCEPT !.partial = b]
           q == [d EXCEPT !.ended = TRUE]
           r == [d EXCEPT !.eof = TRUE]
           s == [d EXCEPT !.eof = TRUE, !.ended = TRUE]
<1>1. DuplexRecord(p) /\ DuplexRecord(q) /\ DuplexRecord(r) /\ DuplexRecord(s) BY DEF DuplexRecord
<1>2. MarkedEnd(d, p) BY <1>1 DEF MarkedEnd, DuplexRecord, DuplexFields
<1>3. MarkedEnd(d, q) BY <1>1 DEF MarkedEnd, DuplexRecord, DuplexFields
<1>4. MarkedEnd(d, r) BY <1>1 DEF MarkedEnd, DuplexRecord, DuplexFields
<1>5. MarkedEnd(d, s) BY <1>1 DEF MarkedEnd, DuplexRecord, DuplexFields
<1> QED BY <1>2, <1>3, <1>4, <1>5

\* A function that changes at one end, or at both.
LEMMA ChangeAt ==
  ASSUME NEW f, DOMAIN f = Ends, f = [x \in Ends |-> f[x]], NEW e \in Ends, NEW o \in Ends, o # e, NEW v,
         NEW g, g = [f EXCEPT ![e] = v]
  PROVE  DOMAIN g = Ends /\ g = [x \in Ends |-> g[x]] /\ g[e] = v /\ g[o] = f[o]
OBVIOUS

\* Any step that leaves the nonces alone and destroys nothing back to life keeps them.
LEMMA NonceKeep ==
  ASSUME NEW d, NEW d2, NEW c, NonceInv(d, c), d.destroyed => d2.destroyed
  PROVE  NonceInv(d2, c)
BY DEF NonceInv

LEMMA StartStep ==
  ASSUME StreamInv, NEW e \in Ends, Start(e) \/ StartFails(e)
  PROVE  StreamInv'
<1> DEFINE o == Other(e)
           s == Started(dup[e])
<1>1. /\ StreamShape /\ o \in Ends /\ o # e
      /\ EndInv(dup[e]) /\ EndInv(dup[o]) /\ NonceInv(dup[e], nonces[e])
      /\ FlowInv(e, dup[e], dup[o], wire[e], delivered[e], written[o])
      /\ FlowInv(o, dup[o], dup[e], wire[o], delivered[o], written[e])
  BY StreamAt
<1>2. written' = written /\ delivered' = delivered /\ nonces' = nonces /\ ~dup[e].started
  BY DEF Start, StartFails
<1>3. /\ EndInv(s) /\ s.started /\ s.destroyed = dup[e].destroyed
      /\ s.header_received = dup[e].header_received /\ s.pending = dup[e].pending /\ s.header_sent = dup[e].header_sent
  BY <1>1, <1>2, StartedEnd
<1>4. CASE Start(e)
  <2>1. dup' = [dup EXCEPT ![e] = s] /\ wire' = [wire EXCEPT ![o] = Append(wire[o], Header)]
    BY <1>4 DEF Start, Submit
  <2> HIDE DEF s, o
  <2>2. dup'[e] = s /\ dup'[o] = dup[o] /\ DOMAIN dup' = Ends /\ dup' = [x \in Ends |-> dup'[x]]
    BY <1>1, <2>1, ChangeAt DEF StreamShape
  <2>3. /\ wire'[o] = Append(wire[o], Header) /\ wire'[e] = wire[e]
        /\ DOMAIN wire' = Ends /\ wire' = [x \in Ends |-> wire'[x]]
    BY <1>1, <2>1, ChangeAt DEF StreamShape
  <2>4. StreamShape' BY <1>1, <1>2, <2>2, <2>3 DEF StreamShape
  <2>5. FlowInv(o, dup[o], s, Append(wire[o], Header), delivered[o], written[e])
    BY <1>1, <1>2, <1>3, FlowStart
  <2>6. FlowInv(e, s, dup[o], wire[e], delivered[e], written[o])
    <3>1. delivered[e] \in Seq(Int) /\ dup[e].pending \in Seq(Int) BY <1>1 DEF FlowInv
    <3> QED BY <1>1, <1>3, <3>1, FlowKeep
  <2>7. NonceInv(s, nonces[e]) BY <1>1, <1>3, NonceKeep
  <2> QED BY <1>2, <1>3, <2>2, <2>3, <2>4, <2>5, <2>6, <2>7, StreamStep DEF o
<1>5. CASE StartFails(e)
  <2> DEFINE z == DestroyedDuplex(s)
  <2>1. dup' = [dup EXCEPT ![e] = z] /\ wire' = wire
    BY <1>5 DEF StartFails
  <2> HIDE DEF s, o
  <2>0. EndInv(z) /\ Onward(s, z) /\ z.destroyed /\ z.header_received = s.header_received /\ z.pending = s.pending
    BY <1>3, DestroyedEnd
  <2> HIDE DEF z
  <2>2. dup'[e] = z /\ dup'[o] = dup[o] /\ DOMAIN dup' = Ends /\ dup' = [x \in Ends |-> dup'[x]]
    BY <1>1, <2>1, ChangeAt DEF StreamShape
  <2>4. StreamShape' BY <1>1, <1>2, <2>1, <2>2 DEF StreamShape
  <2>5. FlowInv(o, dup[o], z, wire[o], delivered[o], written[e])
    BY <1>1, <1>2, <1>3, <2>0, FlowStart DEF Onward
  <2>6. FlowInv(e, z, dup[o], wire[e], delivered[e], written[o])
    <3>1. delivered[e] \in Seq(Int) /\ dup[e].pending \in Seq(Int) BY <1>1 DEF FlowInv
    <3> QED BY <1>1, <1>3, <2>0, <3>1, FlowKeep
  <2>7. NonceInv(z, nonces[e]) BY <1>1, <2>0, NonceKeep
  <2> QED BY <1>2, <2>0, <2>1, <2>2, <2>4, <2>5, <2>6, <2>7, StreamStep DEF o
<1> QED BY <1>4, <1>5

\* A step of one end that takes what is on its way, or nothing, and sends nothing.
LEMMA LocalStep ==
  ASSUME StreamInv, NEW e \in Ends, NEW o, o = Other(e), NEW d2, EndInv(d2),
         d2.started = dup[e].started, dup[e].destroyed => d2.destroyed,
         d2.header_sent => dup[e].header_sent \/ dup[o].header_received,
         dup' = [dup EXCEPT ![e] = d2], written' = written, NEW v, wire' = [wire EXCEPT ![e] = v],
         NEW out, delivered' = [delivered EXCEPT ![e] = out],
         nonces' = nonces, FlowInv(e, d2, dup[o], v, out, written[o])
  PROVE  StreamInv'
<1>1. /\ StreamShape /\ o \in Ends /\ o # e /\ NonceInv(dup[e], nonces[e])
      /\ FlowInv(o, dup[o], dup[e], wire[o], delivered[o], written[e])
  BY StreamAt
<1>2. dup'[e] = d2 /\ dup'[o] = dup[o] /\ DOMAIN dup' = Ends /\ dup' = [x \in Ends |-> dup'[x]]
  BY <1>1, ChangeAt DEF StreamShape
<1>3. /\ delivered'[e] = out /\ delivered'[o] = delivered[o]
      /\ DOMAIN delivered' = Ends /\ delivered' = [x \in Ends |-> delivered'[x]]
  BY <1>1, ChangeAt DEF StreamShape
<1>4. wire'[e] = v /\ wire'[o] = wire[o] /\ DOMAIN wire' = Ends /\ wire' = [x \in Ends |-> wire'[x]]
  BY <1>1, ChangeAt DEF StreamShape
<1>5. StreamShape' BY <1>1, <1>2, <1>3, <1>4 DEF StreamShape
<1>6. FlowInv(o, dup[o], d2, wire[o], delivered[o], written[e]) BY <1>1, FlowPeer
<1>7. NonceInv(d2, nonces[e]) BY <1>1, NonceKeep
<1> QED BY <1>2, <1>3, <1>4, <1>5, <1>6, <1>7, StreamStep

LEMMA SameFunction ==
  ASSUME StreamShape, NEW e \in Ends
  PROVE  wire = [wire EXCEPT ![e] = wire[e]] /\ delivered = [delivered EXCEPT ![e] = delivered[e]]
BY DEF StreamShape

LEMMA AckStep ==
  ASSUME StreamInv, NEW e \in Ends, HeaderAcked(e)
  PROVE  StreamInv'
<1> DEFINE o == Other(e)
           d == [dup[e] EXCEPT !.header_sent = TRUE]
           s == MaybeFireConnect([d |-> d, out |-> delivered[e]])
<1>1. /\ StreamShape /\ o \in Ends /\ EndInv(dup[e])
      /\ FlowInv(e, dup[e], dup[o], wire[e], delivered[e], written[o])
  BY StreamAt
<1>2. /\ dup[o].header_received /\ dup' = [dup EXCEPT ![e] = s.d] /\ delivered' = [delivered EXCEPT ![e] = s.out]
      /\ wire' = wire /\ written' = written /\ nonces' = nonces
  BY DEF HeaderAcked
<1> HIDE DEF o
<1>3. DuplexRecord(d) BY <1>1 DEF EndInv, DuplexRecord
<1>4. /\ d.connected = dup[e].connected /\ d.pending = dup[e].pending /\ d.header_received = dup[e].header_received
      /\ d.header_sent = TRUE /\ d.destroyed = dup[e].destroyed /\ d.started = dup[e].started
      /\ d.attached = dup[e].attached /\ d.closed = dup[e].closed
  BY <1>1 DEF EndInv, DuplexRecord, DuplexFields
<1> HIDE DEF d
<1>5. EndInv(d) BY <1>1, <1>3, <1>4 DEF EndInv
<1>6. FlowInv(e, d, dup[o], wire[e], delivered[e], written[o])
  <2>1. delivered[e] \in Seq(Int) /\ dup[e].pending \in Seq(Int) BY <1>1 DEF FlowInv
  <2> QED BY <1>1, <1>4, <2>1, FlowKeep
<1>7. EndInv(s.d) /\ FlowInv(e, s.d, dup[o], wire[e], s.out, written[o]) /\ Onward(d, s.d)
  BY <1>5, <1>6, FireInv
<1>8. wire' = [wire EXCEPT ![e] = wire[e]] BY <1>1, <1>2, SameFunction
<1> HIDE DEF s
<1>9. s.d.started = dup[e].started /\ (dup[e].destroyed => s.d.destroyed) BY <1>4, <1>7 DEF Onward
<1> QED BY <1>2, <1>7, <1>8, <1>9, LocalStep DEF o

LEMMA TimeoutStep ==
  ASSUME StreamInv, NEW e \in Ends, OnTimeout(e) \/ OnUdxClose(e)
  PROVE  StreamInv'
<1> DEFINE o == Other(e)
<1>1. /\ StreamShape /\ o \in Ends /\ EndInv(dup[e])
      /\ FlowInv(e, dup[e], dup[o], wire[e], delivered[e], written[o])
  BY StreamAt
<1>2. wire' = wire /\ written' = written /\ nonces' = nonces /\ delivered' = delivered
  BY DEF OnTimeout, OnUdxClose
<1>3. wire' = [wire EXCEPT ![e] = wire[e]] /\ delivered' = [delivered EXCEPT ![e] = delivered[e]]
  BY <1>1, <1>2, SameFunction
<1>4. /\ delivered[e] \in Seq(Int) /\ dup[e].pending \in Seq(Int) /\ written[o] \in Nat
      /\ GotInv(e, delivered[e] \o dup[e].pending, written[o])
  BY <1>1 DEF FlowInv
<1>5. CASE OnTimeout(e)
  <2> DEFINE z == DestroyedDuplex(dup[e])
  <2>1. dup' = [dup EXCEPT ![e] = z] BY <1>5 DEF OnTimeout
  <2> HIDE DEF o
  <2>2. EndInv(z) /\ Onward(dup[e], z) /\ z.destroyed /\ z.header_received = dup[e].header_received
        /\ z.pending = dup[e].pending
    BY <1>1, DestroyedEnd
  <2> HIDE DEF z
  <2>3. FlowInv(e, z, dup[o], wire[e], delivered[e], written[o]) BY <1>1, <1>4, <2>2, FlowKeep
  <2>4. z.started = dup[e].started /\ (z.header_sent => dup[e].header_sent) BY <2>2 DEF Onward
  <2> QED BY <1>2, <1>3, <2>1, <2>2, <2>3, <2>4, LocalStep DEF o
<1>6. CASE OnUdxClose(e)
  <2> DEFINE a == [dup[e] EXCEPT !.attached = FALSE]
             z == Closed(a)
  <2>1. dup' = [dup EXCEPT ![e] = z] /\ dup[e].attached BY <1>6 DEF OnUdxClose
  <2> HIDE DEF o
  <2>2. DuplexRecord(a) BY <1>1 DEF EndInv, DuplexRecord
  <2>3. /\ a.connected = dup[e].connected /\ a.header_received = dup[e].header_received
        /\ a.header_sent = dup[e].header_sent /\ a.started = dup[e].started /\ a.attached = FALSE
    BY <1>1 DEF EndInv, DuplexRecord, DuplexFields
  <2> HIDE DEF a
  <2>4. DuplexRecord(z) BY <2>2 DEF DuplexRecord, Closed
  <2>5. /\ z.connected = dup[e].connected /\ z.header_received = dup[e].header_received
        /\ z.header_sent = dup[e].header_sent /\ z.started = dup[e].started /\ z.attached = FALSE
        /\ z.destroyed = TRUE /\ z.closed = TRUE /\ z.pending = <<>>
    BY <2>2, <2>3 DEF DuplexRecord, DuplexFields, Closed
  <2> HIDE DEF z
  <2>6. EndInv(z) BY <1>1, <2>1, <2>4, <2>5 DEF EndInv
  <2>7. GotInv(e, delivered[e] \o <<>>, written[o]) /\ <<>> \in Seq(Int) BY <1>4, GotPrefix
  <2>8. FlowInv(e, z, dup[o], wire[e], delivered[e], written[o]) BY <1>1, <1>4, <2>5, <2>7, FlowKeep
  <2> QED BY <1>2, <1>3, <2>1, <2>5, <2>6, <2>8, LocalStep DEF o
<1> QED BY <1>5, <1>6

LEMMA Rest ==
  ASSUME NEW w \in Seq(Int)
  PROVE  /\ SubSeq(w, 1, Len(w)) = w
         /\ Len(w) >= 1 => w # <<>> /\ SubSeq(w, 2, Len(w)) = Tail(w)
         /\ Len(w) >= 2 => Tail(w) # <<>> /\ Tail(w)[1] = w[2] /\ SubSeq(w, 3, Len(w)) = Tail(Tail(w))
<1>1. SubSeq(w, 1, Len(w)) = w OBVIOUS
<1>2. Len(w) >= 1 => w # <<>> /\ SubSeq(w, 2, Len(w)) = Tail(w) OBVIOUS
<1>3. ASSUME Len(w) >= 2 PROVE Tail(w) # <<>> /\ Tail(w)[1] = w[2] /\ SubSeq(w, 3, Len(w)) = Tail(Tail(w))
  <2>0. Len(w) \in Nat OBVIOUS
  <2>1. w # <<>> /\ Tail(w) \in Seq(Int) /\ Len(Tail(w)) = Len(w) - 1 /\ Tail(w)[1] = w[2] BY <1>3
  <2>2. Tail(w) # <<>>
    <3>1. Len(Tail(w)) # 0 BY <1>3, <2>0, <2>1
    <3> DEFINE u == Tail(w)
    <3>2. Len(u) # 0 BY <3>1
    <3> HIDE DEF u
    <3>3. u # <<>> BY <3>2
    <3> QED BY <3>3 DEF u
  <2>3. /\ Tail(Tail(w)) \in Seq(Int) /\ Len(Tail(Tail(w))) = Len(w) - 2
        /\ \A i \in 1 .. (Len(w) - 2) : Tail(Tail(w))[i] = w[i + 2]
    <3>1. Len(w) \in Nat OBVIOUS
    <3>2. /\ Tail(Tail(w)) \in Seq(Int) /\ Len(Tail(Tail(w))) = Len(w) - 2
          /\ \A i \in 1 .. (Len(w) - 2) : Tail(Tail(w))[i] = Tail(w)[i + 1] BY <2>1, <2>2, <3>1, TailFacts
    <3>3. \A i \in 1 .. (Len(w) - 2) : i + 1 \in 1 .. (Len(w) - 1) /\ Tail(w)[i + 1] = w[i + 1 + 1] BY <2>1, <3>1, TailFacts
    <3> QED BY <3>1, <3>2, <3>3
  <2>4. /\ SubSeq(w, 3, Len(w)) \in Seq(Int) /\ Len(SubSeq(w, 3, Len(w))) = Len(w) - 2
        /\ \A i \in 1 .. (Len(w) - 2) : SubSeq(w, 3, Len(w))[i] = w[i + 2]
    <3>1. \A i \in 3 .. Len(w) : w[i] \in Int BY <2>0
    <3>3. Len(SubSeq(w, 3, Len(w))) = IF 3 <= Len(w) THEN Len(w) - 3 + 1 ELSE 0
      BY <2>0, <3>1, SubSeqProperties
    <3>4. Len(SubSeq(w, 3, Len(w))) = Len(w) - 2
      <4> DEFINE k == Len(SubSeq(w, 3, Len(w)))
                 l == Len(w)
      <4>1. k = (IF 3 <= l THEN l - 3 + 1 ELSE 0) /\ l \in Nat /\ l >= 2 BY <1>3, <2>0, <3>3
      <4> HIDE DEF k, l
      <4>2. k = l - 2 BY <4>1
      <4> QED BY <4>2 DEF k, l
    <3>5. /\ SubSeq(w, 3, Len(w)) \in Seq(Int)
          /\ \A i \in 1 .. Len(w) - 3 + 1 : SubSeq(w, 3, Len(w))[i] = w[3 + i - 1]
      BY <2>0, <3>1, SubSeqProperties
    <3>6. \A i \in 1 .. (Len(w) - 2) : i \in 1 .. Len(w) - 3 + 1 /\ 3 + i - 1 = i + 2 BY <2>0
    <3> QED BY <3>4, <3>5, <3>6
  <2> DEFINE u == Tail(Tail(w))
             z == SubSeq(w, 3, Len(w))
  <2> HIDE DEF u, z
  <2>5. u \in Seq(Int) /\ z \in Seq(Int) /\ Len(u) = Len(z) /\ \A i \in 1 .. Len(u) : u[i] = z[i] BY <2>0, <2>3, <2>4 DEF u, z
  <2>6. u = z BY <2>5, SeqEqual
  <2> QED BY <2>1, <2>2, <2>6 DEF u, z
<1> QED BY <1>1, <1>2, <1>3

LEMMA ReadStep ==
  ASSUME StreamInv, NEW e \in Ends, NEW n \in 0 .. 2, NEW b, OnUdxRead(e, n, b)
  PROVE  StreamInv'
<1> DEFINE o == Other(e)
           d == [dup[e] EXCEPT !.partial = b]
           w == wire[e]
           m == written[o]
           s0 == [d |-> d, out |-> delivered[e]]
           s1 == IF n = 0 THEN s0 ELSE ExtractFrame(e, s0, w[1])
           s == IF n < 2 THEN s1 ELSE ExtractFrame(e, s1, w[2])
           v == SubSeq(w, n + 1, Len(w))
<1>1. /\ StreamShape /\ o \in Ends /\ EndInv(dup[e])
      /\ FlowInv(e, dup[e], dup[o], w, delivered[e], m)
  BY StreamAt
<1>2. /\ dup' = [dup EXCEPT ![e] = s.d] /\ delivered' = [delivered EXCEPT ![e] = s.out]
      /\ wire' = [wire EXCEPT ![e] = v] /\ written' = written /\ nonces' = nonces
      /\ n \in 0 .. Len(w) /\ \A i \in 1 .. n : w[i] # Eof
  BY DEF OnUdxRead
<1>3. w \in Seq(Int) /\ Len(w) \in Nat BY <1>1 DEF FlowInv
<1>4. MarkedEnd(dup[e], d) BY <1>1, Marks DEF EndInv
<1> HIDE DEF o, w, d, m
<1>5. EndInv(d) /\ Onward(dup[e], d) BY <1>1, <1>4, MarkedInv
<1>6. FlowInv(e, d, dup[o], w, delivered[e], m)
  <2>1. delivered[e] \in Seq(Int) /\ dup[e].pending \in Seq(Int) BY <1>1 DEF FlowInv
  <2> QED BY <1>1, <1>4, <2>1, FlowKeep DEF MarkedEnd
<1>7. s0.d = d /\ s0.out = delivered[e] OBVIOUS
<1> DEFINE Good(t, x) == EndInv(t.d) /\ FlowInv(e, t.d, dup[o], x, t.out, m) /\ Onward(dup[e], t.d)
                         /\ t = [d |-> t.d, out |-> t.out]
<1>8. Good(s0, w) BY <1>5, <1>6, <1>7
<1>9. ASSUME NEW t, NEW x, Good(t, x), x # <<>>, x[1] # Eof
      PROVE  Good(ExtractFrame(e, t, x[1]), Tail(x))
  <2> DEFINE r == ExtractFrame(e, t, x[1])
  <2>1. r = ExtractFrame(e, [d |-> t.d, out |-> t.out], x[1]) BY <1>9
  <2> HIDE DEF r
  <2>2. EndInv(r.d) /\ FlowInv(e, r.d, dup[o], Tail(x), r.out, m) /\ Onward(t.d, r.d) /\ r = [d |-> r.d, out |-> r.out]
    BY <1>9, <2>1, ReadInv
  <2>3. Onward(dup[e], r.d) BY <1>9, <2>2 DEF Onward
  <2> QED BY <2>2, <2>3 DEF r
<1> HIDE DEF Good, s0
<1>10. Good(s, v)
  <2>1. CASE n = 0
    <3>1. s = s0 /\ v = w BY <1>3, <2>1, Rest
    <3> QED BY <1>8, <3>1
  <2>2. CASE n = 1
    <3>1. Len(w) >= 1 /\ w[1] # Eof BY <1>2, <1>3, <2>2
    <3>2. s = ExtractFrame(e, s0, w[1]) /\ v = Tail(w) /\ w # <<>> BY <1>3, <2>2, <3>1, Rest
    <3> HIDE DEF s1, s, v
    <3> QED BY <1>8, <1>9, <3>1, <3>2
  <2>3. CASE n = 2
    <3>1. Len(w) >= 2 /\ w[1] # Eof /\ w[2] # Eof BY <1>2, <1>3, <2>3
    <3>2. s1 = ExtractFrame(e, s0, w[1]) /\ w # <<>> BY <1>3, <2>3, <3>1, Rest
    <3>3. Good(s1, Tail(w)) BY <1>8, <1>9, <3>1, <3>2
    <3>4. s = ExtractFrame(e, s1, w[2]) BY <2>3
    <3>0. v = SubSeq(w, 3, Len(w)) BY <2>3
    <3>5. v = Tail(Tail(w)) /\ Tail(w) # <<>> /\ Tail(w)[1] = w[2] BY <1>3, <3>0, <3>1, Rest
    <3> HIDE DEF s1, s, v
    <3> QED BY <1>9, <3>1, <3>3, <3>4, <3>5
  <2> QED BY <2>1, <2>2, <2>3
<1> HIDE DEF s, v
<1>11. /\ EndInv(s.d) /\ FlowInv(e, s.d, dup[o], v, s.out, m) /\ s.d.started = dup[e].started
       /\ (dup[e].destroyed => s.d.destroyed) /\ (s.d.header_sent => dup[e].header_sent)
  BY <1>10 DEF Good, Onward
<1> QED BY <1>2, <1>11, LocalStep DEF o, m

\* End e is left with d2, and frame f, the m-th message or none, is sent.
FrameSent(e, d2, f, m) ==
  /\ MarkedEnd(dup[e], d2) /\ dup' = [dup EXCEPT ![e] = d2]
  /\ delivered' = delivered /\ nonces' = nonces /\ written' = [written EXCEPT ![e] = m]
  /\ dup[e].started /\ ~dup[e].destroyed
  /\ (f \in {-2, 0} /\ m = written[e]) \/ (f = written[e] + 1 /\ m = written[e] + 1)
  /\ DOMAIN wire' = Ends /\ wire' = [x \in Ends |-> wire'[x]]
  /\ wire'[Other(e)] = Append(wire[Other(e)], f)
  /\ FlowInv(e, d2, dup[Other(e)], wire'[e], delivered[e], written[Other(e)])

LEMMA SendStep ==
  ASSUME StreamInv, NEW e \in Ends, NEW d2, NEW f, NEW m, FrameSent(e, d2, f, m)
  PROVE  StreamInv'
<1> DEFINE o == Other(e)
<1>1. /\ StreamShape /\ o \in Ends /\ o # e /\ EndInv(dup[e]) /\ NonceInv(dup[e], nonces[e])
      /\ FlowInv(o, dup[o], dup[e], wire[o], delivered[o], written[e])
  BY StreamAt
<1>2. /\ MarkedEnd(dup[e], d2) /\ dup' = [dup EXCEPT ![e] = d2]
      /\ delivered' = delivered /\ nonces' = nonces /\ written' = [written EXCEPT ![e] = m]
      /\ dup[e].started /\ ~dup[e].destroyed
      /\ (f \in {-2, 0} /\ m = written[e]) \/ (f = written[e] + 1 /\ m = written[e] + 1)
      /\ DOMAIN wire' = Ends /\ wire' = [x \in Ends |-> wire'[x]]
      /\ wire'[o] = Append(wire[o], f)
      /\ FlowInv(e, d2, dup[o], wire'[e], delivered[e], written[o])
  BY DEF FrameSent
<1>3. f \in Int
  <2>1. written[e] \in Nat BY <1>1 DEF FlowInv
  <2> QED BY <1>2, <2>1
<1>4. StreamInv /\ e \in Ends /\ o = Other(e) OBVIOUS
<1> HIDE DEF o
<1>5. dup'[e] = d2 /\ dup'[o] = dup[o] /\ DOMAIN dup' = Ends /\ dup' = [x \in Ends |-> dup'[x]]
  BY <1>1, <1>2, ChangeAt DEF StreamShape
<1>6. /\ written'[e] = m /\ written'[o] = written[o]
      /\ DOMAIN written' = Ends /\ written' = [x \in Ends |-> written'[x]]
  BY <1>1, <1>2, ChangeAt DEF StreamShape
<1>7. StreamShape' BY <1>1, <1>2, <1>5, <1>6 DEF StreamShape
<1>8. EndInv(d2) /\ d2.started /\ d2.header_sent = dup[e].header_sent /\ (dup[e].destroyed => d2.destroyed)
  BY <1>1, <1>2, MarkedInv DEF MarkedEnd
<1>9. FlowInv(o, dup[o], d2, Append(wire[o], f), delivered[o], m) BY <1>1, <1>2, <1>3, <1>8, FlowSend
<1>10. NonceInv(d2, nonces[e]) BY <1>1, <1>8, NonceKeep
<1>11. /\ delivered'[o] = delivered[o] /\ delivered'[e] = delivered[e] /\ nonces'[o] = nonces[o] /\ nonces'[e] = nonces[e]
  BY <1>2
<1>12. FlowInv(e, dup'[e], dup[o], wire'[e], delivered'[e], written[o]) BY <1>2, <1>5, <1>11
<1>13. FlowInv(o, dup[o], dup'[e], wire'[o], delivered[o], written'[e]) BY <1>2, <1>5, <1>6, <1>9
<1>14. EndInv(dup'[e]) /\ NonceInv(dup'[e], nonces'[e]) BY <1>5, <1>8, <1>10, <1>11
<1> QED BY ONLY <1>4, <1>5, <1>6, <1>7, <1>11, <1>12, <1>13, <1>14, StreamStep

LEMMA WriteStep ==
  ASSUME StreamInv, NEW e \in Ends, Write(e) \/ OnKeepalive(e) \/ End(e)
  PROVE  StreamInv'
<1> DEFINE o == Other(e)
<1>1. /\ StreamShape /\ o \in Ends /\ o # e /\ EndInv(dup[e])
      /\ FlowInv(e, dup[e], dup[o], wire[e], delivered[e], written[o])
      /\ FlowInv(o, dup[o], dup[e], wire[o], delivered[o], written[e])
  BY StreamAt
<1>2. delivered' = delivered /\ nonces' = nonces /\ ~dup[e].destroyed
  BY DEF Write, OnKeepalive, End, Writable
<1>3. dup[e].connected => dup[e].started
  <2>1. dup[e].header_sent => dup[e].started BY <1>1 DEF FlowInv, HeaderInv
  <2> QED BY <1>1, <2>1 DEF EndInv
<1>4. dup[e].started BY <1>3 DEF Write, OnKeepalive, End, Writable
<1>5. written[e] \in Nat /\ DuplexRecord(dup[e]) BY <1>1 DEF FlowInv, EndInv
<1>6. dup = [dup EXCEPT ![e] = dup[e]] /\ written = [written EXCEPT ![e] = written[e]] BY <1>1 DEF StreamShape
<1>7. MarkedEnd(dup[e], dup[e]) BY <1>5 DEF MarkedEnd
<1>8. ASSUME NEW d2, MarkedEnd(dup[e], d2) PROVE FlowInv(e, d2, dup[o], wire[e], delivered[e], written[o])
  <2>1. delivered[e] \in Seq(Int) /\ dup[e].pending \in Seq(Int) BY <1>1 DEF FlowInv
  <2> HIDE DEF o
  <2> QED BY <1>1, <1>8, <2>1, FlowKeep DEF MarkedEnd
<1>9. ASSUME NEW f, wire' = [wire EXCEPT ![o] = Append(wire[o], f)]
      PROVE  /\ wire'[e] = wire[e] /\ wire'[o] = Append(wire[o], f)
             /\ DOMAIN wire' = Ends /\ wire' = [x \in Ends |-> wire'[x]]
  <2> HIDE DEF o
  <2> QED BY <1>1, <1>9, ChangeAt DEF StreamShape
<1>10. CASE Write(e)
  <2>1. /\ dup' = [dup EXCEPT ![e] = dup[e]] /\ written' = [written EXCEPT ![e] = written[e] + 1]
        /\ wire' = [wire EXCEPT ![o] = Append(wire[o], written[e] + 1)]
    BY <1>6, <1>10 DEF Write, Submit
  <2>2. FrameSent(e, dup[e], written[e] + 1, written[e] + 1)
    BY <1>2, <1>4, <1>7, <1>8, <1>9, <2>1 DEF FrameSent
  <2> QED BY <2>2, SendStep
<1>11. CASE OnKeepalive(e)
  <2>1. /\ dup' = [dup EXCEPT ![e] = dup[e]] /\ written' = [written EXCEPT ![e] = written[e]]
        /\ wire' = [wire EXCEPT ![o] = Append(wire[o], 0)]
    BY <1>6, <1>11 DEF OnKeepalive, Submit, Empty
  <2>2. /\ wire'[e] = wire[e] /\ wire'[o] = Append(wire[o], 0)
        /\ DOMAIN wire' = Ends /\ wire' = [x \in Ends |-> wire'[x]]
    BY <1>9, <2>1
  <2>3. 0 \in {-2, 0} /\ FlowInv(e, dup[e], dup[o], wire'[e], delivered[e], written[o]) BY <1>1, <2>2
  <2>4. FrameSent(e, dup[e], 0, written[e]) BY ONLY <1>2, <1>4, <1>7, <2>1, <2>2, <2>3 DEF FrameSent
  <2> QED BY <2>4, SendStep
<1>12. CASE End(e)
  <2> DEFINE d2 == [dup[e] EXCEPT !.ended = TRUE]
  <2>1. /\ dup' = [dup EXCEPT ![e] = d2] /\ written' = [written EXCEPT ![e] = written[e]]
        /\ wire' = [wire EXCEPT ![o] = Append(wire[o], -2)]
    BY <1>6, <1>12 DEF End, Submit, Eof
  <2>2. MarkedEnd(dup[e], d2) BY <1>5, Marks
  <2> HIDE DEF d2
  <2>3. /\ wire'[e] = wire[e] /\ wire'[o] = Append(wire[o], -2)
        /\ DOMAIN wire' = Ends /\ wire' = [x \in Ends |-> wire'[x]]
    BY <1>9, <2>1
  <2>4. -2 \in {-2, 0} /\ FlowInv(e, d2, dup[o], wire'[e], delivered[e], written[o]) BY <1>8, <2>2, <2>3
  <2>5. FrameSent(e, d2, -2, written[e]) BY ONLY <1>2, <1>4, <2>1, <2>2, <2>3, <2>4 DEF FrameSent
  <2> QED BY <2>5, SendStep
<1> QED BY <1>10, <1>11, <1>12

LEMMA EofStep ==
  ASSUME StreamInv, NEW e \in Ends, OnUdxEof(e)
  PROVE  StreamInv'
<1> DEFINE o == Other(e)
           w == wire[e]
<1>1. /\ StreamShape /\ o \in Ends /\ o # e /\ EndInv(dup[e])
      /\ FlowInv(e, dup[e], dup[o], w, delivered[e], written[o])
      /\ FlowInv(o, dup[o], dup[e], wire[o], delivered[o], written[e])
  BY StreamAt
<1>2. /\ delivered' = delivered /\ written' = written /\ nonces' = nonces /\ dup[e].attached /\ w # <<>> /\ Head(w) = -2
  BY DEF OnUdxEof, Eof
<1>3. DuplexRecord(dup[e]) /\ dup[e].started BY <1>1, <1>2 DEF EndInv
<1>4. w[1] = -2
  <2>1. w \in Seq(Int) BY <1>1 DEF FlowInv
  <2> QED BY <1>2, <2>1
<1>5. dup[e].header_received \/ dup[e].destroyed BY <1>1, <1>2, <1>4 DEF FlowInv, HeaderInv, Header
<1>6. delivered' = [delivered EXCEPT ![e] = delivered[e]] /\ written' = [written EXCEPT ![e] = written[e]]
  BY <1>1, <1>2 DEF StreamShape
<1>7. ASSUME NEW d2, MarkedEnd(dup[e], d2) PROVE FlowInv(e, d2, dup[o], Tail(w), delivered[e], written[o])
  <2>1. /\ d2.pending = dup[e].pending /\ d2.destroyed = dup[e].destroyed
        /\ d2.header_received = dup[e].header_received
    BY <1>7 DEF MarkedEnd
  <2>2. w[1] <= 0 BY <1>4
  <2> HIDE DEF o, w
  <2> QED BY <1>1, <1>2, <1>5, <2>1, <2>2, FlowDrop
<1>8. CASE dup[e].ended \/ dup[e].destroyed
  <2> DEFINE d2 == [dup[e] EXCEPT !.eof = TRUE]
  <2>1. dup' = [dup EXCEPT ![e] = d2] /\ wire' = [wire EXCEPT ![e] = Tail(w)] BY <1>8 DEF OnUdxEof
  <2>2. MarkedEnd(dup[e], d2) BY <1>3, Marks
  <2> HIDE DEF d2, w, o
  <2>3. EndInv(d2) /\ Onward(dup[e], d2) BY <1>1, <2>2, MarkedInv
  <2>4. d2.started = dup[e].started /\ (dup[e].destroyed => d2.destroyed) /\ (d2.header_sent => dup[e].header_sent)
    BY <2>3 DEF Onward
  <2>5. FlowInv(e, d2, dup[o], Tail(w), delivered[e], written[o]) BY <1>7, <2>2
  <2>6. o = Other(e) /\ StreamInv BY DEF o
  <2> QED BY ONLY e \in Ends, <1>2, <1>6, <2>1, <2>3, <2>4, <2>5, <2>6, LocalStep
<1>9. CASE ~dup[e].ended /\ ~dup[e].destroyed
  <2> DEFINE d2 == [dup[e] EXCEPT !.eof = TRUE, !.ended = TRUE]
  <2>1. dup' = [dup EXCEPT ![e] = d2] /\ wire' = [wire EXCEPT ![e] = Tail(wire[e]), ![o] = Append(@, -2)]
    BY <1>9 DEF OnUdxEof, Eof
  <2>2. MarkedEnd(dup[e], d2) BY <1>3, Marks
  <2>3. /\ wire'[e] = Tail(w) /\ wire'[o] = Append(wire[o], -2)
        /\ DOMAIN wire' = Ends /\ wire' = [x \in Ends |-> wire'[x]]
    BY <1>1, <2>1 DEF StreamShape
  <2> HIDE DEF d2, w, o
  <2>4. FlowInv(e, d2, dup[o], Tail(w), delivered[e], written[o]) BY <1>7, <2>2
  <2>6. -2 \in {-2, 0} /\ FlowInv(e, d2, dup[o], wire'[e], delivered[e], written[o]) BY <2>3, <2>4
  <2>5. FrameSent(e, d2, -2, written[e]) BY ONLY <1>2, <1>3, <1>6, <1>9, <2>1, <2>2, <2>3, <2>6 DEF FrameSent, o
  <2> QED BY <2>5, SendStep
<1> QED BY <1>8, <1>9

\* The counter steps through each value once before it is back at the first.
LEMMA NonceStep ==
  ASSUME NEW c \in 0 .. (Nonces - 1), Nonces \in Nat \ {0}
  PROVE  /\ (c + 1) % Nonces = IF c + 1 = Nonces THEN 0 ELSE c + 1
         /\ (c + 1) % Nonces \in 0 .. (Nonces - 1)
OBVIOUS

LEMMA UdpStep ==
  ASSUME StreamInv, NEW e \in Ends, SendUdp(e)
  PROVE  StreamInv'
<1> DEFINE o == Other(e)
           c == nonces[e]
           k == NextNonce(e)
<1>1. /\ StreamShape /\ o \in Ends /\ o # e /\ EndInv(dup[e]) /\ NonceInv(dup[e], c)
      /\ FlowInv(e, dup[e], dup[o], wire[e], delivered[e], written[o])
      /\ FlowInv(o, dup[o], dup[e], wire[o], delivered[o], written[e])
  BY StreamAt
<1>2. wire' = wire /\ delivered' = delivered /\ written' = written /\ ~dup[e].destroyed BY DEF SendUdp
<1>3. Nonces \in Nat \ {0} /\ c.counter \in 0 .. (Nonces - 1) BY <1>1, StreamAssumption DEF NonceInv
<1>4. k = (IF c.counter + 1 = Nonces THEN 0 ELSE c.counter + 1) /\ k \in 0 .. (Nonces - 1)
  BY <1>3, NonceStep DEF NextNonce
<1>5. o = Other(e) /\ StreamInv OBVIOUS
<1>6. CASE k = 0
  <2> DEFINE z == DestroyedDuplex(dup[e])
             y == [c EXCEPT !.counter = 0]
  <2>1. dup' = [dup EXCEPT ![e] = z] /\ nonces' = [nonces EXCEPT ![e] = y]
    BY <1>6 DEF SendUdp
  <2>2. NonceRecord(y) BY <1>1 DEF NonceInv, NonceRecord
  <2>3. y.counter = 0 /\ y.reused = c.reused BY <1>1 DEF NonceInv, NonceRecord, NonceFields
  <2> HIDE DEF y, o, c
  <2>4. EndInv(z) /\ Onward(dup[e], z) /\ z.destroyed /\ z.header_received = dup[e].header_received
        /\ z.pending = dup[e].pending
    BY <1>1, DestroyedEnd
  <2> HIDE DEF z
  <2>5. NonceInv(z, y) BY <1>1, <1>3, <2>2, <2>3, <2>4 DEF NonceInv
  <2>6. dup'[e] = z /\ dup'[o] = dup[o] /\ DOMAIN dup' = Ends /\ dup' = [x \in Ends |-> dup'[x]]
    BY <1>1, <2>1, ChangeAt DEF StreamShape
  <2>7. nonces'[e] = y /\ nonces'[o] = nonces[o] /\ DOMAIN nonces' = Ends /\ nonces' = [x \in Ends |-> nonces'[x]]
    BY <1>1, <2>1, ChangeAt DEF StreamShape
  <2>8. StreamShape' BY <1>1, <1>2, <2>6, <2>7 DEF StreamShape
  <2>9. FlowInv(e, z, dup[o], wire[e], delivered[e], written[o])
    <3>1. delivered[e] \in Seq(Int) /\ dup[e].pending \in Seq(Int) BY <1>1 DEF FlowInv
    <3> QED BY <1>1, <2>4, <3>1, FlowKeep
  <2>10. FlowInv(o, dup[o], z, wire[o], delivered[o], written[e]) BY <1>1, <2>4, FlowPeer DEF Onward
  <2> QED BY ONLY e \in Ends, <1>2, <1>5, <2>4, <2>5, <2>6, <2>7, <2>8, <2>9, <2>10, StreamStep
<1>7. CASE k # 0
  <2> DEFINE y == [counter |-> k, used |-> c.used \cup {k}, reused |-> k \in c.used]
  <2>1. dup' = dup /\ nonces' = [nonces EXCEPT ![e] = y]
    BY <1>7 DEF SendUdp
  <2>2. NonceRecord(y) BY DEF NonceRecord, NonceFields
  <2>3. y.counter = k /\ y.used = c.used \cup {k} /\ (y.reused <=> k \in c.used) OBVIOUS
  <2>4. k = c.counter + 1 BY <1>4, <1>7
  <2>5. c.used \subseteq 1 .. c.counter BY <1>1, <1>2 DEF NonceInv
  <2> HIDE DEF y, o, c, k
  <2>6. NonceInv(dup[e], y)
    <3>1. k \notin c.used BY <1>3, <2>4, <2>5
    <3>2. y.used \subseteq 1 .. y.counter BY <1>3, <2>3, <2>4, <2>5
    <3> QED BY <1>4, <2>2, <2>3, <3>1, <3>2 DEF NonceInv
  <2>7. nonces'[e] = y /\ nonces'[o] = nonces[o] /\ DOMAIN nonces' = Ends /\ nonces' = [x \in Ends |-> nonces'[x]]
    BY <1>1, <2>1, ChangeAt DEF StreamShape
  <2>8. StreamShape' BY <1>1, <1>2, <2>1, <2>7 DEF StreamShape
  <2> QED BY ONLY e \in Ends, <1>1, <1>2, <1>5, <2>1, <2>6, <2>7, <2>8, StreamStep
<1> QED BY <1>6, <1>7

LEMMA StreamInitInv == StreamInit => StreamInv
<1> SUFFICES ASSUME StreamInit PROVE StreamInv OBVIOUS
<1>1. StreamShape BY DEF StreamInit, StreamShape
<1>2. ASSUME NEW e \in Ends, NEW o \in Ends
      PROVE  EndInv(dup[e]) /\ FlowInv(e, dup[e], dup[o], wire[e], delivered[e], written[o]) /\ NonceInv(dup[e], nonces[e])
  <2> DEFINE d == NewDuplex
             c == NewNonces
  <2>1. dup[e] = d /\ dup[o] = d /\ wire[e] = <<>> /\ delivered[e] = <<>> /\ written[o] = 0 /\ nonces[e] = c
    BY DEF StreamInit
  <2>2. DuplexRecord(d) BY DEF NewDuplex, DuplexRecord, DuplexFields
  <2>3. ~d.started /\ ~d.attached /\ ~d.header_sent /\ ~d.header_received /\ ~d.connected /\ ~d.closed /\ d.pending = <<>>
    BY DEF NewDuplex
  <2>4. NonceRecord(c) BY DEF NewNonces, NonceRecord, NonceFields
  <2>5. c.counter = 0 /\ c.used = {} /\ ~c.reused BY DEF NewNonces
  <2> HIDE DEF d, c
  <2>6. EndInv(d) BY <2>2, <2>3 DEF EndInv
  <2>7. NonceInv(d, c) BY <2>4, <2>5, StreamAssumption DEF NonceInv
  <2> DEFINE g == <<>> \o d.pending
  <2>8. g = <<>> /\ g \in Seq(Int) /\ DOMAIN g = {} BY <2>3
  <2> HIDE DEF g
  <2>9. GotInv(e, g, 0) BY <2>8 DEF GotInv, Rising, NoGap, Range
  <2>10. <<>> \in Seq(Int) /\ DOMAIN <<>> = {} OBVIOUS
  <2>11. HeaderInv(d, d, <<>>) BY <2>3, <2>10 DEF HeaderInv
  <2>12. WayInv(d, <<>>, g, 0)
    <3>1. 1 .. 0 = {} OBVIOUS
    <3> QED BY <2>8, <2>10, <3>1 DEF WayInv, Rising, Before
  <2>13. FlowInv(e, d, d, <<>>, <<>>, 0) BY <2>3, <2>9, <2>10, <2>11, <2>12 DEF FlowInv, g
  <2> QED BY <2>1, <2>6, <2>7, <2>13
<1> QED BY <1>1, <1>2, OtherEnd DEF StreamInv

LEMMA StreamNextInv == StreamInv /\ [StreamNext]_streamVars => StreamInv'
<1> SUFFICES ASSUME StreamInv, [StreamNext]_streamVars PROVE StreamInv' OBVIOUS
<1>1. CASE UNCHANGED streamVars BY <1>1 DEF streamVars, StreamInv, StreamShape
<1>2. ASSUME NEW e \in Ends, Start(e) \/ StartFails(e) PROVE StreamInv' BY <1>2, StartStep
<1>3. ASSUME NEW e \in Ends, HeaderAcked(e) PROVE StreamInv' BY <1>3, AckStep
<1>4. ASSUME NEW e \in Ends, NEW n \in 0 .. 2, NEW p \in BOOLEAN, OnUdxRead(e, n, p) PROVE StreamInv'
  BY <1>4, ReadStep
<1>5. ASSUME NEW e \in Ends, OnUdxEof(e) PROVE StreamInv' BY <1>5, EofStep
<1>6. ASSUME NEW e \in Ends, Write(e) \/ OnKeepalive(e) \/ End(e) PROVE StreamInv'
  BY <1>6, WriteStep
<1>7. ASSUME NEW e \in Ends, OnTimeout(e) \/ OnUdxClose(e) PROVE StreamInv' BY <1>7, TimeoutStep
<1>8. ASSUME NEW e \in Ends, SendUdp(e) PROVE StreamInv' BY <1>8, UdpStep
<1> QED BY <1>1, <1>2, <1>3, <1>4, <1>5, <1>6, <1>7, <1>8 DEF StreamNext

LEMMA StreamIsSafe == StreamInv => InOrder /\ NonceFresh
<1> SUFFICES ASSUME StreamInv, NEW e \in Ends
             PROVE  /\ ~nonces[e].reused
                    /\ LET got == delivered[e] \o dup[e].pending
                       IN  /\ Rising(got) /\ NoGap(got)
                           /\ Range(got) \subseteq 0 .. written[Other(e)]
                           /\ e \in KeepAlive => Empty \notin Range(got)
  BY DEF InOrder, NonceFresh
<1> DEFINE got == delivered[e] \o dup[e].pending
<1>1. ~nonces[e].reused BY DEF StreamInv, NonceInv
<1>2. GotInv(e, got, written[Other(e)]) BY DEF StreamInv, FlowInv
<1> HIDE DEF got
<1>3. Range(got) \subseteq 0 .. written[Other(e)] BY <1>2 DEF GotInv, Range
<1>4. e \in KeepAlive => Empty \notin Range(got) BY <1>2 DEF GotInv, Range, Empty
<1> QED BY <1>1, <1>2, <1>3, <1>4 DEF GotInv, got

\* A closed end takes no step at all, and the other end's steps leave it alone.
LEMMA ClosedStays ==
  ASSUME StreamInv, [StreamNext]_streamVars, NEW e \in Ends, dup[e].closed
  PROVE  dup'[e] = dup[e] /\ delivered'[e] = delivered[e]
<1>1. /\ DOMAIN dup = Ends /\ DOMAIN delivered = Ends /\ dup[e].started /\ ~dup[e].attached /\ dup[e].destroyed
  BY DEF StreamInv, StreamShape, EndInv
<1>2. CASE UNCHANGED streamVars BY <1>2 DEF streamVars
<1>3. ASSUME NEW x \in Ends,
             \/ Start(x) \/ StartFails(x) \/ HeaderAcked(x) \/ OnUdxEof(x)
             \/ Write(x) \/ OnKeepalive(x) \/ OnTimeout(x) \/ End(x)
             \/ OnUdxClose(x) \/ SendUdp(x)
             \/ \E n \in 0 .. 2, p \in BOOLEAN : OnUdxRead(x, n, p)
      PROVE  dup'[e] = dup[e] /\ delivered'[e] = delivered[e]
  <2>1. CASE x = e
    <3>1. ~Start(e) /\ ~StartFails(e) /\ ~HeaderAcked(e) /\ ~OnUdxEof(e)
      BY <1>1 DEF Start, StartFails, HeaderAcked, OnUdxEof
    <3>2. ~Write(e) /\ ~OnKeepalive(e) /\ ~OnTimeout(e) /\ ~End(e) /\ ~OnUdxClose(e)
          /\ ~SendUdp(e)
      BY <1>1 DEF Write, OnKeepalive, OnTimeout, End, OnUdxClose, SendUdp,
         Writable, TimerRuns
    <3>3. \A n \in 0 .. 2, p \in BOOLEAN : ~OnUdxRead(e, n, p) BY <1>1 DEF OnUdxRead
    <3> QED BY <1>3, <2>1, <3>1, <3>2, <3>3
  <2>2. CASE x # e
    <3>1. ASSUME Start(x) \/ StartFails(x) \/ OnUdxEof(x) \/ Write(x)
                 \/ OnKeepalive(x) \/ OnTimeout(x) \/ End(x) \/ OnUdxClose(x)
                 \/ SendUdp(x)
          PROVE  dup'[e] = dup[e] /\ delivered'[e] = delivered[e]
      <4>1. delivered' = delivered
        BY <3>1 DEF Start, StartFails, OnUdxEof, Write, OnKeepalive,
           OnTimeout, End, OnUdxClose, SendUdp
      <4>2. \E v : dup' = [dup EXCEPT ![x] = v]
        <5>1. dup = [dup EXCEPT ![x] = dup[x]] BY DEF StreamInv, StreamShape
        <5> QED BY <3>1, <5>1 DEF Start, StartFails, OnUdxEof, Write, OnKeepalive,
           OnTimeout, End, OnUdxClose, SendUdp
      <4> QED BY <1>1, <2>2, <4>1, <4>2
    <3>2. ASSUME HeaderAcked(x) PROVE dup'[e] = dup[e] /\ delivered'[e] = delivered[e]
      BY <1>1, <2>2, <3>2 DEF HeaderAcked
    <3>3. ASSUME NEW n \in 0 .. 2, NEW p \in BOOLEAN, OnUdxRead(x, n, p)
          PROVE  dup'[e] = dup[e] /\ delivered'[e] = delivered[e]
      BY <1>1, <2>2, <3>3 DEF OnUdxRead
    <3> QED BY <1>3, <3>1, <3>2, <3>3
  <2> QED BY <2>1, <2>2
<1> QED BY <1>2, <1>3 DEF StreamNext

\* The inductive invariant of a secret stream, whatever the ends' timers and bounds:
\* what is got and what is on its way make up what was written.
THEOREM StreamTheorem == StreamSpec => []StreamInv
BY StreamInitInv, StreamNextInv, PTL DEF StreamSpec

\* Messages reach the application in order, whole and once, however header,
\* acknowledgement, queue, keepalive and destruction interleave.
THEOREM InOrderTheorem == StreamSpec => []InOrder
BY StreamTheorem, StreamIsSafe, PTL

\* No nonce seals two unordered messages of a stream, for any size of the counter.
THEOREM NonceFreshTheorem == StreamSpec => []NonceFresh
BY StreamTheorem, StreamIsSafe, PTL

\* Nothing reaches the application after the close callback, for every
\* interleaving of acknowledgements, reads and timers.
THEOREM CloseIsLastTheorem == StreamSpec => CloseIsLast
<1>1. StreamInv /\ [StreamNext]_streamVars
      => [\A e \in Ends : dup[e].closed => dup'[e].closed /\ delivered'[e] = delivered[e]
                                          /\ dup'[e].connected = dup[e].connected]_streamVars
  BY ClosedStays
<1> QED BY <1>1, StreamTheorem, PTL DEF StreamSpec, CloseIsLast
==============================================================================
