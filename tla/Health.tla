------------------------------- MODULE Health -------------------------------
(***************************************************************************)
(* HealthMonitor as a value: the last WindowSize ticks, newest last, the   *)
(* counts of degraded and healthy ticks kept beside them, and the state.   *)
(***************************************************************************)
EXTENDS Naturals, Sequences, FiniteSetsExt

CONSTANTS
  WindowSize,     \* WINDOW_SIZE
  IdleThreshold   \* IDLE_THRESHOLD

ASSUME HealthAssumption == WindowSize \in Nat \ {0} /\ IdleThreshold \in Nat

NewMonitor == [window |-> <<>>, degraded |-> 0, healthy |-> 0, state |-> "online"]

TotalResponses(h) == MapThenSumSet(LAMBDA i : h.window[i].responses, DOMAIN h.window)
TotalTimeouts(h) == MapThenSumSet(LAMBDA i : h.window[i].timeouts, DOMAIN h.window)

Evaluates(h) ==
  Len(h.window) = WindowSize /\ TotalResponses(h) + TotalTimeouts(h) >= IdleThreshold

Snapshot(responses, timeouts, verdict) == [responses |-> responses, timeouts |-> timeouts, verdict |-> verdict]

Pushed(window, snapshot) == Append(IF Len(window) = WindowSize THEN Tail(window) ELSE window, snapshot)

\* A window whose oldest tick keeps counting.
Record_Keeps(h, responses, timeouts) ==
  [h EXCEPT !.window = Pushed(@, Snapshot(responses, timeouts, "none"))]

\* update, first half: the new tick takes the place of the oldest one.
Record(h, responses, timeouts) ==
  LET leaves(verdict) == Len(h.window) = WindowSize /\ Head(h.window).verdict = verdict IN
  [h EXCEPT !.window = Pushed(@, Snapshot(responses, timeouts, "none")),
            !.degraded = IF leaves("degraded") THEN @ - 1 ELSE @,
            !.healthy = IF leaves("healthy") THEN @ - 1 ELSE @]

\* A tick is degraded when more than half of its requests timed out.
Classify(h) ==
  LET last == h.window[WindowSize]
      bad == last.timeouts > last.responses IN
  [h EXCEPT !.window[WindowSize].verdict = IF bad THEN "degraded" ELSE "healthy",
            !.degraded = IF bad THEN @ + 1 ELSE @,
            !.healthy = IF bad THEN @ ELSE @ + 1]

\* update, second half: neither all degraded nor all healthy keeps the state.
Judge(h) ==
  [h EXCEPT !.state =
     CASE TotalResponses(h) = 0 -> "offline"
       [] TotalResponses(h) > 0 /\ h.degraded = WindowSize -> "degraded"
       [] TotalResponses(h) > 0 /\ h.healthy = WindowSize -> "online"
       [] OTHER -> @]

MonitorUpdate(h, responses, timeouts) ==
  LET recorded == Record(h, responses, timeouts) IN
  IF Evaluates(recorded) THEN Judge(Classify(recorded)) ELSE recorded

IsOnline(h) == h.state # "offline"

\* The counts are those of the ticks in the window, however many ticks have
\* passed through it and whichever of them were not judged (update).
CountsExact(h) ==
  /\ h.degraded = Cardinality({i \in DOMAIN h.window : h.window[i].verdict = "degraded"})
  /\ h.healthy = Cardinality({i \in DOMAIN h.window : h.window[i].verdict = "healthy"})
=============================================================================
