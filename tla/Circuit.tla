------------------------------- MODULE Circuit -------------------------------
(***************************************************************************)
(* The circuit breaker of internal/limiter/circuit.go as a value: a record *)
(* with the fields of circuitBreaker, and one operator per method.  Every  *)
(* method holds c.mu from start to end, so each operator is one atomic     *)
(* step of the specifications that use it.                                 *)
(*                                                                         *)
(* Time.  openedAt and probeStartedAt are only ever read through           *)
(* now().Sub(t) compared with OpenDuration, so the record keeps the two    *)
(* ages instead, saturated at OpenDuration.                                *)
(***************************************************************************)
EXTENDS Naturals, Sequences, FiniteSets

CONSTANTS
    Window,        \* CircuitConfig.Window
    MinSamples,    \* CircuitConfig.MinSamples
    FailNum,       \* CircuitConfig.FailureThreshold, as the fraction
    FailDen,       \* FailNum / FailDen
    OpenDuration   \* CircuitConfig.OpenDuration, in ticks

\* What newCircuitBreaker accepts.
ASSUME CircuitConfig ==
    /\ Window \in Nat \ {0}
    /\ MinSamples \in 1..Window
    /\ FailDen \in Nat \ {0}
    /\ FailNum \in 1..FailDen
    /\ OpenDuration \in Nat \ {0}

CircuitClosed == "closed"
CircuitHalfOpen == "halfopen"
CircuitOpen == "open"

CircuitState == {CircuitClosed, CircuitHalfOpen, CircuitOpen}

Breaker == [state : CircuitState,
            openAge : 0..OpenDuration,
            probeActive : BOOLEAN,
            probeAge : 0..OpenDuration,
            events : Seq(BOOLEAN)]

\* A zero time.Time is older than any OpenDuration.
NewBreaker == [state |-> CircuitClosed,
               openAge |-> OpenDuration,
               probeActive |-> FALSE,
               probeAge |-> OpenDuration,
               events |-> <<>>]

Older(age) == IF age < OpenDuration THEN age + 1 ELSE age

\* One tick of the clock as c.now() sees it.
Aged(c) == [c EXCEPT !.openAge = Older(@), !.probeAge = Older(@)]

-----------------------------------------------------------------------------

Ready(c) ==
    \/ c.state = CircuitClosed
    \/ c.state = CircuitOpen /\ c.openAge >= OpenDuration
    \/ c.state = CircuitHalfOpen /\ (~c.probeActive \/ c.probeAge >= OpenDuration)

\* The switch at the head of allow(): an open breaker whose time is up turns
\* half-open before the probe is considered.
HalfOpened(c) ==
    IF c.state = CircuitOpen /\ c.openAge >= OpenDuration
      THEN [c EXCEPT !.state = CircuitHalfOpen, !.probeActive = FALSE]
      ELSE c

\* Seeded fault: an unresolved probe never expires.
AllowsUnexpired(c) ==
    LET h == HalfOpened(c)
    IN  h.state = CircuitClosed \/ (h.state = CircuitHalfOpen /\ ~h.probeActive)

\* What allow() returns.
Allows(c) ==
    LET h == HalfOpened(c)
    IN  \/ h.state = CircuitClosed
        \/ /\ h.state = CircuitHalfOpen
           /\ ~(h.probeActive /\ h.probeAge < OpenDuration)

\* Seeded fault: allow() does not mark the probe it admits.
AfterAllowUnmarked(c) == HalfOpened(c)

\* The breaker allow() leaves behind.
AfterAllow(c) ==
    LET h == HalfOpened(c)
    IN  IF h.state = CircuitHalfOpen /\ Allows(c)
          THEN [h EXCEPT !.probeActive = TRUE, !.probeAge = 0]
          ELSE h

AfterCancelProbe(c) ==
    IF c.state = CircuitHalfOpen THEN [c EXCEPT !.probeActive = FALSE] ELSE c

-----------------------------------------------------------------------------

\* Seeded fault: the probe of the half-open period is not cleared.
OpenedProbeKept(c) == [c EXCEPT !.state = CircuitOpen, !.openAge = 0, !.events = <<>>]

Opened(c) == [c EXCEPT !.state = CircuitOpen,
                       !.openAge = 0,
                       !.probeActive = FALSE,
                       !.events = <<>>]

Closed(c) == [c EXCEPT !.state = CircuitClosed,
                       !.probeActive = FALSE,
                       !.events = <<>>]

\* The last Window elements of s.
Trim(s) ==
    IF Len(s) > Window THEN SubSeq(s, Len(s) - Window + 1, Len(s)) ELSE s

Failures(s) == Cardinality({i \in DOMAIN s : ~s[i]})

\* Seeded fault: the threshold itself does not trip the breaker.
UnhealthyAbove(s) ==
    /\ Len(s) >= MinSamples
    /\ Failures(s) * FailDen > FailNum * Len(s)

\* failures / len >= FailureThreshold, once there are MinSamples events.
Unhealthy(s) ==
    /\ Len(s) >= MinSamples
    /\ Failures(s) * FailDen >= FailNum * Len(s)

AfterRecordClosed(c, success) ==
    LET s == Trim(Append(c.events, success))
    IN  IF Unhealthy(s) THEN Opened(c) ELSE [c EXCEPT !.events = s]

AfterRecord(c, success) ==
    CASE c.state = CircuitHalfOpen -> IF success THEN Closed(c) ELSE Opened(c)
      [] c.state = CircuitClosed   -> AfterRecordClosed(c, success)
      [] OTHER                     -> c

=============================================================================
