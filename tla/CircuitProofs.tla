---------------------------- MODULE CircuitProofs ----------------------------
(***************************************************************************)
(* What the methods of the breaker do to it, for every configuration       *)
(* newCircuitBreaker accepts.                                              *)
(***************************************************************************)
EXTENDS Circuit, FiniteSetTheorems, TLAPS

\* ready() and allow() agree: Allow never passes the early ready() check only
\* to be refused by allow() on the same breaker at the same time.
THEOREM ReadyIffAllows ==
    ASSUME NEW c \in Breaker
    PROVE  Ready(c) <=> Allows(c)
BY CircuitConfig
   DEF Ready, Allows, HalfOpened, Breaker, CircuitState, CircuitClosed,
       CircuitHalfOpen, CircuitOpen

\* A new breaker has an empty window.
LEMMA NewBreakerType == NewBreaker \in Breaker /\ NewBreaker.events = <<>>
BY CircuitConfig
   DEF NewBreaker, Breaker, CircuitState, CircuitClosed

\* The passage of time changes ages only.
LEMMA AgedType ==
    ASSUME NEW c \in Breaker
    PROVE  /\ Aged(c) \in Breaker
           /\ Aged(c).state = c.state
           /\ Aged(c).probeActive = c.probeActive
           /\ Aged(c).events = c.events
<1>1. \A age \in 0..OpenDuration : Older(age) \in 0..OpenDuration
  BY CircuitConfig DEF Older
<1> QED BY <1>1 DEF Aged, Breaker

\* What allow() does to the breaker.
LEMMA AfterAllowType ==
    ASSUME NEW c \in Breaker
    PROVE  /\ AfterAllow(c) \in Breaker
           /\ AfterAllow(c).events = c.events
           /\ AfterAllow(c).state = CircuitClosed <=> c.state = CircuitClosed
           /\ ~Allows(c) => AfterAllow(c) = c
           /\ Allows(c) /\ c.state # CircuitClosed
                => /\ AfterAllow(c).state = CircuitHalfOpen
                   /\ AfterAllow(c).probeActive
           /\ c.state = CircuitClosed => AfterAllow(c) = c
<1>1. HalfOpened(c) \in Breaker /\ HalfOpened(c).events = c.events
  BY DEF HalfOpened, Breaker, CircuitState, CircuitHalfOpen
<1>2. AfterAllow(c) \in Breaker /\ AfterAllow(c).events = c.events
  <2>1. 0 \in 0..OpenDuration
    BY CircuitConfig
  <2>2. CASE HalfOpened(c).state = CircuitHalfOpen /\ Allows(c)
    BY <1>1, <2>1, <2>2 DEF AfterAllow, Breaker
  <2>3. CASE ~(HalfOpened(c).state = CircuitHalfOpen /\ Allows(c))
    BY <1>1, <2>3 DEF AfterAllow
  <2> QED BY <2>2, <2>3
<1> QED
  BY <1>1, <1>2, CircuitConfig
     DEF AfterAllow, HalfOpened, Allows, Breaker, CircuitState,
         CircuitClosed, CircuitHalfOpen, CircuitOpen

\* cancelProbe touches the probe mark only, and only of a half-open breaker.
LEMMA AfterCancelProbeType ==
    ASSUME NEW c \in Breaker
    PROVE  /\ AfterCancelProbe(c) \in Breaker
           /\ AfterCancelProbe(c).events = c.events
           /\ AfterCancelProbe(c).state = c.state
           /\ c.state = CircuitHalfOpen => ~AfterCancelProbe(c).probeActive
           /\ c.state # CircuitHalfOpen => AfterCancelProbe(c) = c
BY DEF AfterCancelProbe, Breaker

\* Trimming keeps a sequence of results of at most Window elements.
LEMMA TrimType ==
    ASSUME NEW s \in Seq(BOOLEAN)
    PROVE  Trim(s) \in Seq(BOOLEAN) /\ Len(Trim(s)) <= Window
<1>1. CASE Len(s) > Window
  <2>1. Len(s) - Window + 1 \in 1..(Len(s) + 1) /\ Len(s) \in 0..Len(s)
    BY <1>1, CircuitConfig
  <2>2. /\ SubSeq(s, Len(s) - Window + 1, Len(s)) \in Seq(BOOLEAN)
        /\ Len(SubSeq(s, Len(s) - Window + 1, Len(s))) = Window
    BY <1>1, <2>1, CircuitConfig
  <2> QED BY <1>1, <2>2, CircuitConfig DEF Trim
<1>2. CASE ~(Len(s) > Window)
  BY <1>2, CircuitConfig DEF Trim
<1> QED BY <1>1, <1>2

\* The count of failed results in a window is a number.
LEMMA FailuresType ==
    ASSUME NEW s \in Seq(BOOLEAN)
    PROVE  Failures(s) \in Nat
<1>1. IsFiniteSet(DOMAIN s)
  BY FS_Interval
<1> QED BY <1>1, FS_Subset, FS_CardinalityType DEF Failures

\* ClosedIsHealthy of one breaker value.
Healthy(c) ==
    c.state = CircuitClosed /\ Len(c.events) >= MinSamples
      => Failures(c.events) * FailDen < FailNum * Len(c.events)

\* openLocked empties the window and drops the probe mark.
LEMMA OpenedType ==
    ASSUME NEW c \in Breaker
    PROVE  /\ Opened(c) \in Breaker
           /\ Opened(c).state = CircuitOpen
           /\ ~Opened(c).probeActive
           /\ Opened(c).events = <<>>
<1>1. 0 \in 0..OpenDuration /\ <<>> \in Seq(BOOLEAN) /\ CircuitOpen \in CircuitState
  BY CircuitConfig DEF CircuitState
<1>2. Opened(c) \in Breaker
  BY <1>1 DEF Opened, Breaker
<1> QED BY <1>2 DEF Opened, Breaker

\* closeLocked empties the window and drops the probe mark.
LEMMA ClosedType ==
    ASSUME NEW c \in Breaker
    PROVE  /\ Closed(c) \in Breaker
           /\ Closed(c).state = CircuitClosed
           /\ ~Closed(c).probeActive
           /\ Closed(c).events = <<>>
<1>1. <<>> \in Seq(BOOLEAN) /\ CircuitClosed \in CircuitState
  BY DEF CircuitState
<1>2. Closed(c) \in Breaker
  BY <1>1 DEF Closed, Breaker
<1> QED BY <1>2 DEF Closed, Breaker

\* An empty window is a healthy one: MinSamples is positive.
LEMMA EmptyHealthy ==
    ASSUME NEW c, c.events = <<>>
    PROVE  Healthy(c) /\ Len(c.events) <= Window
BY CircuitConfig DEF Healthy

\* A result recorded by a closed breaker either trips it or leaves a healthy
\* window of at most Window results.
LEMMA AfterRecordClosedType ==
    ASSUME NEW c \in Breaker, NEW success \in BOOLEAN,
           c.state = CircuitClosed, ~c.probeActive
    PROVE  LET b == AfterRecordClosed(c, success)
           IN  /\ b \in Breaker
               /\ Len(b.events) <= Window
               /\ b.state \in {CircuitClosed, CircuitOpen}
               /\ ~b.probeActive
               /\ Healthy(b)
<1> DEFINE s == Trim(Append(c.events, success))
           b == AfterRecordClosed(c, success)
<1>1. c.events \in Seq(BOOLEAN)
  BY DEF Breaker
<1>2. Append(c.events, success) \in Seq(BOOLEAN)
  BY <1>1
<1>3. s \in Seq(BOOLEAN) /\ Len(s) <= Window
  BY <1>2, TrimType
<1>4. CASE Unhealthy(s)
  <2>1. b = Opened(c)
    BY <1>4 DEF AfterRecordClosed
  <2> QED BY <2>1, OpenedType, EmptyHealthy
<1>5. CASE ~Unhealthy(s)
  <2>1. b = [c EXCEPT !.events = s]
    BY <1>5 DEF AfterRecordClosed
  <2>2. b \in Breaker /\ b.events = s /\ b.state = CircuitClosed /\ ~b.probeActive
    BY <2>1, <1>3 DEF Breaker
  <2>3. Failures(s) \in Nat /\ Len(s) \in Nat
    BY <1>3, FailuresType
  <2>4. Len(s) >= MinSamples => Failures(s) * FailDen < FailNum * Len(s)
    <3> DEFINE x == Failures(s) * FailDen
               y == FailNum * Len(s)
    <3>1. x \in Nat /\ y \in Nat
      BY <2>3, CircuitConfig
    <3>2. Len(s) >= MinSamples => ~(x >= y)
      BY <1>5 DEF Unhealthy
    <3> HIDE DEF x, y
    <3>3. Len(s) >= MinSamples => x < y
      BY <3>1, <3>2
    <3> QED BY <3>3 DEF x, y
  <2>5. Healthy(b)
    BY <2>2, <2>4 DEF Healthy
  <2> QED BY <2>2, <2>5, <1>3
<1> QED BY <1>4, <1>5

\* A result leaves no probe behind and never leaves the breaker half-open.
LEMMA AfterRecordType ==
    ASSUME NEW c \in Breaker, NEW success \in BOOLEAN,
           Len(c.events) <= Window,
           c.probeActive => c.state = CircuitHalfOpen
    PROVE  LET b == AfterRecord(c, success)
           IN  /\ b \in Breaker
               /\ Len(b.events) <= Window
               /\ b.state \in {CircuitClosed, CircuitOpen}
               /\ ~b.probeActive
               /\ Healthy(b)
<1>0. CircuitHalfOpen # CircuitClosed /\ CircuitOpen # CircuitClosed /\ CircuitOpen # CircuitHalfOpen
  BY DEF CircuitHalfOpen, CircuitClosed, CircuitOpen
<1>1. CASE c.state = CircuitHalfOpen
  <2>1. AfterRecord(c, success) = IF success THEN Closed(c) ELSE Opened(c)
    BY <1>1, <1>0 DEF AfterRecord
  <2> QED BY <2>1, OpenedType, ClosedType, EmptyHealthy
<1>2. CASE c.state = CircuitClosed
  <2>1. AfterRecord(c, success) = AfterRecordClosed(c, success)
    BY <1>2, <1>0 DEF AfterRecord
  <2>2. ~c.probeActive
    BY <1>2, <1>0
  <2> QED BY <2>1, <2>2, <1>2, AfterRecordClosedType
<1>3. CASE c.state = CircuitOpen
  <2>1. AfterRecord(c, success) = c
    BY <1>3, <1>0 DEF AfterRecord
  <2>2. Healthy(c)
    BY <1>3, <1>0 DEF Healthy
  <2> QED BY <2>1, <2>2, <1>3, <1>0
<1> QED BY <1>1, <1>2, <1>3 DEF Breaker, CircuitState

=============================================================================
