---------------------------- MODULE AdmissionProofs ---------------------------
(***************************************************************************)
(* What Allow decides by.  The breaker, for every configuration            *)
(* newCircuitBreaker accepts and any number of overlapping calls; the      *)
(* quotas of a player, the rate window and the token budget, for every     *)
(* limit, window, budget and number of requests.                           *)
(***************************************************************************)
EXTENDS CircuitBreaker, Quota, CircuitProofs

-----------------------------------------------------------------------------
(* The breaker                                                             *)

\* How the bookkeeping of probes follows the state of the breaker: outside the
\* half-open state there are none, and in an undisturbed half-open period a
\* cleared flag means that the probe has been resolved.
Period ==
    /\ cb.state # CircuitHalfOpen => probes = {} /\ ~disturbed
    /\ ~disturbed /\ ~cb.probeActive => probes = {}

BreakerInv ==
    /\ TypeOK
    /\ ClosedIsHealthy
    /\ ProbeOwned
    /\ SingleProbeUndisturbed
    /\ Period

\* Any set of probes is finite: there are finitely many calls.
LEMMA ProbesFinite ==
    ASSUME NEW P \in SUBSET Call
    PROVE  IsFiniteSet(P) /\ Cardinality(P) \in Nat
BY CallAssumption, FS_Subset, FS_CardinalityType

\* A new breaker satisfies the invariant.
LEMMA InitBreakerInv == Init => BreakerInv
<1> SUFFICES ASSUME Init PROVE BreakerInv
  OBVIOUS
<1>1. cb \in Breaker /\ cb.events = <<>> /\ ~cb.probeActive
  BY NewBreakerType DEF Init, NewBreaker
<1>2. Healthy(cb) /\ Len(cb.events) <= Window
  BY <1>1, EmptyHealthy
<1>3. Cardinality({}) = 0
  BY FS_EmptySet
<1>4. TypeOK
  BY <1>1, <1>2, Zenon DEF Init, TypeOK
<1>5. ClosedIsHealthy
  BY <1>2 DEF ClosedIsHealthy, Healthy
<1>6. SingleProbeUndisturbed
  BY <1>3 DEF Init, SingleProbeUndisturbed
<1>7. ProbeOwned /\ Period
  BY <1>1 DEF Init, ProbeOwned, Period
<1> QED BY <1>4, <1>5, <1>6, <1>7 DEF BreakerInv

\* A call that is resolved as b preserves the invariant when b is a healthy
\* breaker without a probe, and half-open only if it was before.
LEMMA ResolveBreakerInv ==
    ASSUME BreakerInv, NEW c \in Call, NEW b \in Breaker,
           Len(b.events) <= Window,
           Healthy(b),
           ~b.probeActive,
           b.state = CircuitHalfOpen => cb.state = CircuitHalfOpen,
           Resolve(c, b)
    PROVE  BreakerInv'
<1>1. TypeOK'
  BY DEF BreakerInv, TypeOK, Resolve
<1>2. ClosedIsHealthy' /\ ProbeOwned'
  <2>1. cb' = b
    BY DEF Resolve
  <2>2. ~cb'.probeActive
    BY <2>1
  <2> QED BY <2>1, <2>2 DEF Healthy, ClosedIsHealthy, ProbeOwned
<1>3. CASE b.state = CircuitHalfOpen
  <2>1. ~disturbed' => ~disturbed /\ c \in probes /\ probes' = probes \ {c}
    BY <1>3, Zenon DEF Resolve, BreakerInv, TypeOK
  <2>2. ~disturbed' => probes' = {}
    <3> SUFFICES ASSUME ~disturbed' PROVE probes' = {}
      OBVIOUS
    <3>1. Cardinality(probes) <= 1 /\ c \in probes /\ IsFiniteSet(probes)
      BY <2>1, ProbesFinite DEF BreakerInv, SingleProbeUndisturbed, TypeOK
    <3>2. Cardinality(probes \ {c}) = Cardinality(probes) - 1 /\ IsFiniteSet(probes \ {c})
      BY <3>1, FS_RemoveElement
    <3>3. Cardinality(probes \ {c}) = 0
      BY <3>1, <3>2, FS_CardinalityType
    <3> QED BY <2>1, <3>2, <3>3, FS_EmptySet, ZenonT(60)
  <2>3. SingleProbeUndisturbed'
    <3>1. ~disturbed' => Cardinality(probes') = 0
      BY <2>2, FS_EmptySet, Zenon
    <3> QED BY <3>1 DEF SingleProbeUndisturbed
  <2>4. Period'
    BY <1>3, <2>2 DEF Period, Resolve
  <2> QED BY <1>1, <1>2, <2>3, <2>4 DEF BreakerInv
<1>4. CASE b.state # CircuitHalfOpen
  <2>1. probes' = {} /\ ~disturbed'
    BY <1>4, Zenon DEF Resolve
  <2>2. SingleProbeUndisturbed' /\ Period'
    BY <2>1, FS_EmptySet DEF SingleProbeUndisturbed, Period
  <2> QED BY <1>1, <1>2, <2>2 DEF BreakerInv
<1> QED BY <1>3, <1>4

\* allow() preserves the invariant: an admitted call is the only probe, or it
\* replaces one that expired.
LEMMA AdmitBreakerInv ==
    ASSUME BreakerInv, NEW c \in Call, Admit(c)
    PROVE  BreakerInv'
<1> USE DEF BreakerInv
<1>1. cb \in Breaker /\ cb' = AfterAllow(cb) /\ disturbed' = disturbed
  BY DEF TypeOK, Admit
<1>2. CASE ~Allows(cb)
  <2>1. cb' = cb
    BY <1>1, <1>2, AfterAllowType
  <2>2. UNCHANGED vars
    BY <1>1, <1>2, <2>1 DEF Admit, vars
  <2> QED
    BY <2>2 DEF vars, TypeOK, ClosedIsHealthy, ProbeOwned, SingleProbeUndisturbed, Period
<1>3. CASE Allows(cb) /\ cb.state = CircuitClosed
  <2>1. cb' = cb /\ probes' = {} /\ stale' = stale /\ admitted' = admitted \cup {c}
    BY <1>1, <1>3, AfterAllowType DEF Admit, CircuitClosed, CircuitHalfOpen
  <2>2. probes = {} /\ ~disturbed
    BY <1>3 DEF Period, CircuitClosed, CircuitHalfOpen
  <2> QED
    BY <1>1, <2>1, <2>2 DEF TypeOK, ClosedIsHealthy, ProbeOwned, SingleProbeUndisturbed, Period
<1>4. CASE Allows(cb) /\ cb.state # CircuitClosed
  <2>1. /\ cb' \in Breaker
        /\ cb'.events = cb.events
        /\ cb'.state = CircuitHalfOpen
        /\ cb'.probeActive
    BY <1>1, <1>4, AfterAllowType
  <2>2. /\ stale' = stale
        /\ admitted' = admitted \cup {c}
        /\ probes' = IF cb.probeActive THEN {c} ELSE probes \cup {c}
    BY <1>4, <2>1 DEF Admit
  <2>3. TypeOK'
    BY <1>1, <2>1, <2>2 DEF TypeOK
  <2>4. ClosedIsHealthy' /\ ProbeOwned' /\ Period'
    BY <2>1, <2>2 DEF ClosedIsHealthy, ProbeOwned, Period, CircuitClosed, CircuitHalfOpen
  <2>5. ~disturbed => probes' = {c}
    BY <2>2 DEF Period
  <2>6. SingleProbeUndisturbed'
    BY <1>1, <2>5, FS_Singleton DEF SingleProbeUndisturbed
  <2> QED BY <2>3, <2>4, <2>6
<1> QED BY <1>2, <1>3, <1>4

\* Every step preserves the invariant.
LEMMA NextBreakerInv == BreakerInv /\ [Next]_vars => BreakerInv'
<1> SUFFICES ASSUME BreakerInv, [Next]_vars PROVE BreakerInv'
  OBVIOUS
<1>0. /\ cb \in Breaker
      /\ Len(cb.events) <= Window
      /\ cb.probeActive => cb.state = CircuitHalfOpen
      /\ Healthy(cb)
  BY DEF BreakerInv, TypeOK, ProbeOwned, ClosedIsHealthy, Healthy
<1>1. ASSUME NEW c \in Call, Admit(c) PROVE BreakerInv'
  BY <1>1, AdmitBreakerInv
<1>2. ASSUME NEW c \in Call, NEW success \in BOOLEAN, Resolve(c, AfterRecord(cb, success))
      PROVE  BreakerInv'
  <2>1. CircuitHalfOpen \notin {CircuitClosed, CircuitOpen}
    BY DEF CircuitClosed, CircuitHalfOpen, CircuitOpen
  <2>2. /\ AfterRecord(cb, success) \in Breaker
        /\ Len(AfterRecord(cb, success).events) <= Window
        /\ AfterRecord(cb, success).state # CircuitHalfOpen
        /\ ~AfterRecord(cb, success).probeActive
        /\ Healthy(AfterRecord(cb, success))
    BY <1>0, <2>1, AfterRecordType
  <2> QED BY <1>2, <2>2, ResolveBreakerInv
<1>3. ASSUME NEW c \in Call, CancelProbe(c) PROVE BreakerInv'
  <2>1. /\ AfterCancelProbe(cb) \in Breaker
        /\ AfterCancelProbe(cb).events = cb.events
        /\ AfterCancelProbe(cb).state = cb.state
        /\ ~AfterCancelProbe(cb).probeActive
    BY <1>0, AfterCancelProbeType
  <2>2. Healthy(AfterCancelProbe(cb))
    BY <1>0, <2>1 DEF Healthy
  <2> QED BY <1>0, <1>3, <2>1, <2>2, ResolveBreakerInv, Zenon DEF CancelProbe
<1>4. CASE Tick
  <2>1. /\ cb' \in Breaker
        /\ cb'.state = cb.state
        /\ cb'.probeActive = cb.probeActive
        /\ cb'.events = cb.events
        /\ UNCHANGED <<admitted, probes, stale, disturbed>>
    BY <1>0, <1>4, AgedType DEF Tick
  <2> QED
    BY <2>1 DEF BreakerInv, TypeOK, ClosedIsHealthy, ProbeOwned, SingleProbeUndisturbed, Period
<1>5. CASE UNCHANGED vars
  BY <1>5 DEF vars, BreakerInv, TypeOK, ClosedIsHealthy, ProbeOwned, SingleProbeUndisturbed, Period
<1> QED
  BY <1>1, <1>2, <1>3, <1>4, <1>5, Zenon DEF Next, RecordSuccess, RecordFailure

\* The invariant behind the four theorems below: what record(), allow(), cancelProbe()
\* and time keep true of the breaker.
THEOREM InductiveInvariant == Spec => []BreakerInv
BY InitBreakerInv, NextBreakerInv, PTL DEF Spec

\* The breaker record keeps its shape and its window never exceeds Window.
THEOREM TypeCorrect == Spec => []TypeOK
<1>1. BreakerInv => TypeOK
  BY DEF BreakerInv
<1> QED BY <1>1, InductiveInvariant, PTL

\* For every configuration the results a closed breaker remembers stay below
\* the threshold that record() trips on.
THEOREM ClosedIsAlwaysHealthy == Spec => []ClosedIsHealthy
<1>1. BreakerInv => ClosedIsHealthy
  BY DEF BreakerInv
<1> QED BY <1>1, InductiveInvariant, PTL

\* A probeActive flag always has a live owner, so it can be cleared.
THEOREM ProbeNeverStranded == Spec => []ProbeOwned
<1>1. BreakerInv => ProbeOwned
  BY DEF BreakerInv
<1> QED BY <1>1, InductiveInvariant, PTL

\* Two probes of one half-open period need the resolution of a call that is not
\* a probe of that period.
THEOREM SingleProbeWhileUndisturbed == Spec => []SingleProbeUndisturbed
<1>1. BreakerInv => SingleProbeUndisturbed
  BY DEF BreakerInv
<1> QED BY <1>1, InductiveInvariant, PTL

-----------------------------------------------------------------------------
(* The quotas                                                              *)

\* The constants, one by one.
LEMMA Constants ==
    /\ IsFiniteSet(Req)
    /\ Limit \in Nat \ {0} /\ RateWindow \in Nat \ {0}
    /\ TokenBudget \in Nat /\ DayLength \in Nat \ {0}
    /\ MaxDelay \in Nat /\ MaxSkew \in Nat /\ MaxTokens \in Nat /\ MaxTime \in Nat
    /\ MaxRetries \in Nat /\ MaxRuns = MaxRetries + 1 /\ MaxRuns \in Nat \ {0}
  BY QuotaConfig DEF MaxRuns

\* The day of a time: it does not go back.
LEMMA DayMonotonic ==
    ASSUME NEW a \in Nat, NEW b \in Nat, a <= b
    PROVE  DayOf(a) \in Nat /\ DayOf(b) \in Nat /\ DayOf(a) <= DayOf(b)
  BY Constants DEF DayOf

\* A member is new: its number is not in use with its stamp.
LEMMA MemberIsNew ==
    ASSUME IsFiniteSet(zset), IsFiniteSet(passed), NEW t
    PROVE  /\ member(t) \notin zset \cup passed
           /\ member(t)[1] = t /\ member(t)[2] \in Nat
           /\ member(t) = <<t, member(t)[2]>>
<1> DEFINE U == zset \cup passed
           n == Cardinality(U)
<1>1. IsFiniteSet(U) /\ n \in Nat
  BY FS_Union, FS_CardinalityType, Zenon
<1>2. \E i \in 0..n : <<t, i>> \notin U
  <2> SUFFICES ASSUME \A i \in 0..n : <<t, i>> \in U PROVE FALSE
    OBVIOUS
  <2> DEFINE f == [i \in 0..n |-> <<t, i>>]
  <2> HIDE DEF U, n
  <2>1. f \in [0..n -> U]
    OBVIOUS
  <2>2. IsFiniteSet(0..n) /\ Cardinality(0..n) = n + 1
    BY <1>1, FS_Interval
  <2>3. Cardinality(U) < Cardinality(0..n)
    BY <1>1, <2>2 DEF n
  <2> HIDE DEF f
  <2>4. PICK x \in 0..n, y \in 0..n : x # y /\ f[x] = f[y]
    BY <1>1, <2>1, <2>2, <2>3, FS_PigeonHole
  <2> QED BY <2>4 DEF f
<1> DEFINE i == CHOOSE i \in 0..n : <<t, i>> \notin U
<1>3. i \in 0..n /\ <<t, i>> \notin U
  <2> HIDE DEF U, n
  <2> QED BY <1>2
<1>4. member(t) = <<t, i>>
  BY DEF member
<1> HIDE DEF U, n, i
<1>5. <<t, i>>[1] = t /\ <<t, i>>[2] = i /\ i \in Nat
  BY <1>1, <1>3
<1>6. member(t) \notin U
  BY <1>3, <1>4, Zenon
<1> QED BY <1>4, <1>5, <1>6 DEF U

-----------------------------------------------------------------------------
(* Types                                                                   *)

\* A call is under way only while the script is to run, and its TTL is positive
\* (durationUntilNextUTCDay).
CallsOK ==
    \A r \in Req : IF pc[r] = "record" THEN call[r].ttl > 0 ELSE call[r].runs = 0

TypeInv ==
    /\ QuotaTypeOK
    /\ CallsOK
    /\ IsFiniteSet(zset) /\ IsFiniteSet(passed)

\* What a request takes from its clock is a stamp, and its day has a counter.
LEMMA ClockIsStamp ==
    ASSUME QuotaTypeOK, NEW r \in Req
    PROVE  /\ now \in Nat /\ 0 \in Stamps /\ ahead[r] \in 0..MaxSkew
           /\ clock(r) \in Stamps /\ clock(r) \in Nat
           /\ mark[r] \in Nat /\ mark[r] <= clock(r)
           /\ DayOf(clock(r)) \in Nat /\ DayOf(mark[r]) \in Nat
           /\ DayOf(mark[r]) <= DayOf(clock(r)) /\ DayOf(mark[r]) \in Days
<1>1. /\ now \in Nat /\ now <= MaxTime /\ ahead[r] \in 0..MaxSkew
      /\ mark[r] \in Stamps /\ mark[r] <= clock(r)
  BY Constants DEF QuotaTypeOK
<1>2. /\ 0 \in Stamps /\ clock(r) \in Stamps /\ clock(r) \in Nat /\ mark[r] \in Nat
      /\ MaxTime + MaxSkew \in Nat /\ mark[r] <= MaxTime + MaxSkew
  BY <1>1, Constants DEF clock, Stamps
<1>3. /\ DayOf(clock(r)) \in Nat /\ DayOf(mark[r]) \in Nat
      /\ DayOf(mark[r]) <= DayOf(clock(r))
  BY <1>1, <1>2, DayMonotonic
<1>4. DayOf(MaxTime + MaxSkew) \in Nat /\ DayOf(mark[r]) <= DayOf(MaxTime + MaxSkew)
  BY <1>2, DayMonotonic
<1>5. DayOf(mark[r]) \in Days
  BY <1>3, <1>4 DEF Days
<1> QED BY <1>1, <1>2, <1>3, <1>5, Zenon

\* The purge leaves a part of the window, and the window with one more member
\* is within the limit when it was not full (rateLimitScript).
LEMMA PurgedFits ==
    ASSUME TypeInv, NEW t \in Stamps
    PROVE  /\ Purged(t) \subseteq zset /\ IsFiniteSet(Purged(t))
           /\ Cardinality(Purged(t)) <= Limit
           /\ ~Full(t) => LET z == Purged(t) \cup {member(t)}
                          IN  /\ IsFiniteSet(z) /\ Cardinality(z) <= Limit
                              /\ z \subseteq Members
<1>1. Purged(t) \in SUBSET zset
  BY DEF Purged
<1>2. IsFiniteSet(Purged(t)) /\ Cardinality(Purged(t)) <= Cardinality(zset)
  BY <1>1, FS_Subset DEF TypeInv
<1>3. /\ Cardinality(Purged(t)) \in Nat /\ Cardinality(zset) \in Nat
      /\ Cardinality(zset) <= Limit /\ Limit \in Nat
  BY <1>2, FS_CardinalityType, Constants DEF TypeInv, QuotaTypeOK
<1>4. member(t) \in Members
  <2>1. member(t) = <<t, member(t)[2]>> /\ member(t)[2] \in Nat
    BY MemberIsNew DEF TypeInv
  <2> QED BY <2>1 DEF Members
<1>5. ASSUME ~Full(t)
      PROVE  LET z == Purged(t) \cup {member(t)}
             IN  /\ IsFiniteSet(z) /\ Cardinality(z) <= Limit
                 /\ z \subseteq Members
  <2>1. IsFiniteSet(Purged(t) \cup {member(t)})
        /\ Cardinality(Purged(t) \cup {member(t)}) <= Cardinality(Purged(t)) + 1
    BY <1>2, <1>3, FS_AddElement
  <2>2. Cardinality(Purged(t)) < Limit
    BY <1>3, <1>5 DEF Full
  <2>3. Cardinality(Purged(t) \cup {member(t)}) \in Nat
    BY <2>1, FS_CardinalityType
  <2>4. Purged(t) \cup {member(t)} \subseteq Members
    BY <1>1, <1>4 DEF TypeInv, QuotaTypeOK
  <2> QED BY <1>3, <2>1, <2>2, <2>3, <2>4
<1> QED BY <1>1, <1>2, <1>3, <1>5

PC == {"idle", "look", "checked", "sent", "running", "keyed", "record"}

\* Where the requests are and what they remember.
RequestsOK ==
    /\ ahead \in [Req -> 0..MaxSkew]
    /\ pc \in [Req -> PC] /\ mark \in [Req -> Stamps]
    /\ \A r \in Req : mark[r] <= clock(r)

\* The counters of the budget and their TTLs.
CountersOK ==
    /\ spent \in [Days -> Nat] /\ left \in [Days -> 0..DayLength]
    /\ \A d \in Days : left[d] = 0 => spent[d] = 0

\* What a request's move does to it, to the clocks and to the others.
LEMMA OneMoves ==
    ASSUME QuotaTypeOK, NEW r \in Req, NEW from, NEW to, NEW m, Goto(r, from, to, m)
    PROVE  /\ pc[r] = from /\ pc'[r] = to /\ mark'[r] = m
           /\ now' = now /\ ahead' = ahead
           /\ \A q \in Req : clock(q)' = clock(q)
           /\ \A q \in Req : q # r => pc'[q] = pc[q] /\ mark'[q] = mark[q]
  BY DEF Goto, QuotaTypeOK, clock

\* A request that moves on keeps the types.
LEMMA GotoKeepsTypes ==
    ASSUME QuotaTypeOK, NEW r \in Req, NEW from, NEW to \in PC, NEW m \in Stamps,
           Goto(r, from, to, m), m <= clock(r)
    PROVE  RequestsOK' /\ now' \in 0..MaxTime
<1>1. pc' \in [Req -> PC] /\ mark' \in [Req -> Stamps]
  BY DEF QuotaTypeOK, Goto, PC
<1>2. ahead' \in [Req -> 0..MaxSkew] /\ now' \in 0..MaxTime
  BY DEF QuotaTypeOK, Goto
<1>3. ASSUME NEW q \in Req PROVE mark'[q] <= clock(q)'
  <2>1. mark[q] <= clock(q) /\ clock(q)' = clock(q)
    BY OneMoves, Zenon DEF QuotaTypeOK
  <2>2. mark'[q] = IF q = r THEN m ELSE mark[q]
    BY OneMoves
  <2> QED BY <2>1, <2>2, Zenon
<1> QED BY <1>1, <1>2, <1>3, Zenon DEF RequestsOK

\* A request that moves on and has no call under way keeps those of the others.
LEMMA GotoKeepsCalls ==
    ASSUME QuotaTypeOK, CallsOK, NEW r \in Req, NEW from, NEW to, NEW m,
           Goto(r, from, to, m),
           \/ from # "record" /\ to # "record" /\ call' = call
           \/ to # "record" /\ call' = [call EXCEPT ![r] = NoCall]
    PROVE  CallsOK' /\ call' \in [Req -> Calls]
<1>1. NoCall \in Calls /\ NoCall.runs = 0
  BY Constants DEF NoCall, Calls
<1>2. call \in [Req -> Calls]
  BY DEF QuotaTypeOK
<1>3. call' \in [Req -> Calls]
  BY <1>1, <1>2, Zenon
<1>4. call'[r].runs = 0 /\ pc'[r] # "record"
  <2>1. pc[r] = from /\ pc'[r] = to
    BY OneMoves
  <2> QED BY <1>1, <1>2, <2>1, Zenon DEF CallsOK
<1>5. \A q \in Req : q # r => call'[q] = call[q] /\ pc'[q] = pc[q]
  BY <1>2, OneMoves
<1> QED BY <1>3, <1>4, <1>5, Zenon DEF CallsOK

\* The time to the next midnight is positive and at most a day.
LEMMA UntilMidnight ==
    ASSUME NEW t \in Nat
    PROVE  /\ durationUntilNextUTCDay(t) \in 1..DayLength
           /\ t + durationUntilNextUTCDay(t) = (DayOf(t) + 1) * DayLength
<1>1. t % DayLength \in 0..(DayLength - 1) /\ t \div DayLength \in Nat
  BY Constants
<1>2. t = DayLength * (t \div DayLength) + (t % DayLength)
  BY Constants
<1> QED BY <1>1, <1>2, Constants DEF durationUntilNextUTCDay, DayOf

\* The window never exceeds the limit, no request uses the key of a day to come,
\* and a counter has a TTL (rateLimitScript, budgetKey, recordBudgetScript).
LEMMA TypeInvHolds == QuotaSpec => []TypeInv
<1>1. QuotaInit => TypeInv
  <2> SUFFICES ASSUME QuotaInit PROVE TypeInv
    OBVIOUS
  <2>1. now \in 0..MaxTime /\ 0 \in Stamps /\ ttl \in 0..RateWindow
    BY Constants DEF QuotaInit, Stamps
  <2>2. IsFiniteSet({}) /\ Cardinality({}) <= Limit
    BY FS_EmptySet, Constants
  <2>3. RequestsOK
    <3>1. ASSUME NEW r \in Req PROVE mark[r] <= clock(r)
      BY Constants DEF QuotaInit, clock
    <3> QED BY <2>1, <3>1 DEF QuotaInit, RequestsOK, PC
  <2>4. CallsOK /\ call \in [Req -> Calls]
    <3>1. NoCall \in Calls /\ NoCall.runs = 0
      BY Constants DEF NoCall, Calls
    <3> QED BY <3>1 DEF QuotaInit, CallsOK
  <2>5. CountersOK
    BY Constants DEF QuotaInit, CountersOK
  <2>6. zset = {} /\ passed = {}
    BY DEF QuotaInit
  <2> QED
    BY <2>1, <2>2, <2>3, <2>4, <2>5, <2>6, Zenon
    DEF TypeInv, QuotaTypeOK, RequestsOK, CountersOK, PC
<1>2. TypeInv /\ [QuotaNext]_quotaVars => TypeInv'
  <2> SUFFICES ASSUME TypeInv, [QuotaNext]_quotaVars PROVE TypeInv'
    OBVIOUS
  <2>0. QuotaTypeOK /\ CallsOK
    BY Zenon DEF TypeInv
  <2>a. \A r \in Req : /\ 0 \in Stamps /\ clock(r) \in Stamps /\ mark[r] \in Stamps
                       /\ 0 <= clock(r) /\ mark[r] <= clock(r) /\ clock(r) <= clock(r)
    BY <2>0, ClockIsStamp DEF QuotaTypeOK
  <2>b. ASSUME RequestsOK', now' \in 0..MaxTime, CallsOK', call' \in [Req -> Calls],
               UNCHANGED <<zset, ttl, passed, spent, left>>
        PROVE  TypeInv'
    BY <2>b, Zenon DEF TypeInv, QuotaTypeOK, RequestsOK, PC
  <2>1. ASSUME NEW r \in Req, NEW from \in PC \ {"record"}, NEW to \in PC \ {"record"},
               NEW m \in {0, clock(r)}, Goto(r, from, to, m), call' = call,
               UNCHANGED <<zset, ttl, passed, spent, left>>
        PROVE  TypeInv'
    <3>1. RequestsOK' /\ now' \in 0..MaxTime
      BY <2>0, <2>a, <2>1, GotoKeepsTypes, Zenon
    <3>2. CallsOK' /\ call' \in [Req -> Calls]
      BY <2>0, <2>1, GotoKeepsCalls, Zenon
    <3> QED BY <2>b, <2>1, <3>1, <3>2, Zenon
  <2>2. ASSUME NEW r \in Req, FormCheckKey(r) \/ CheckBudget(r) \/ BudgetRefused(r)
                              \/ Stamp(r) \/ FormKey(r)
        PROVE  TypeInv'
    BY <2>1, <2>2, Zenon
    DEF FormCheckKey, CheckBudget, BudgetRefused, Stamp, FormKey, rateVars, budgetVars, PC
  <2>3. ASSUME NEW r \in Req, AdmitRate(r) PROVE TypeInv'
    <3>0. PICK to \in {"running", "idle"} : Goto(r, "sent", to, 0)
      BY <2>3 DEF AdmitRate
    <3>1. mark[r] \in Stamps
      BY <2>0 DEF QuotaTypeOK
    <3>2. RequestsOK' /\ now' \in 0..MaxTime
      BY <2>0, <2>a, <3>0, GotoKeepsTypes, Zenon DEF PC
    <3>3. CallsOK' /\ call' \in [Req -> Calls]
      BY <2>0, <2>3, <3>0, GotoKeepsCalls, Zenon DEF AdmitRate
    <3>4. IsFiniteSet(zset') /\ Cardinality(zset') <= Limit /\ zset' \subseteq Members
      BY <2>3, <3>1, PurgedFits, Zenon DEF AdmitRate
    <3>5. IsFiniteSet(passed') /\ passed' \subseteq Members
      <4>1. member(mark[r]) \in Members
        BY <2>3, <3>1, PurgedFits, Zenon DEF AdmitRate
      <4>2. IsFiniteSet(passed \cup {member(mark[r])})
        BY FS_AddElement, Zenon DEF TypeInv
      <4>3. passed' \in {passed, passed \cup {member(mark[r])}}
        BY <2>3, Zenon DEF AdmitRate
      <4> QED BY <2>0, <4>1, <4>2, <4>3, Zenon DEF TypeInv, QuotaTypeOK
    <3>6. ttl' \in 0..RateWindow /\ CountersOK'
      BY <2>0, <2>3, Constants DEF AdmitRate, budgetVars, CountersOK, QuotaTypeOK
    <3> QED
      BY <3>2, <3>3, <3>4, <3>5, <3>6, Zenon
      DEF TypeInv, QuotaTypeOK, RequestsOK, CountersOK, PC
  <2>4. ASSUME NEW r \in Req, Refuse(r) PROVE TypeInv'
    <3>0. Goto(r, "sent", "idle", 0) /\ call' = call
          /\ UNCHANGED <<ttl, passed, spent, left>>
      BY <2>4 DEF Refuse, budgetVars
    <3>1. mark[r] \in Stamps
      BY <2>0, Zenon DEF QuotaTypeOK
    <3>2. RequestsOK' /\ now' \in 0..MaxTime
      BY <2>0, <2>a, <3>0, GotoKeepsTypes, Zenon DEF PC
    <3>3. CallsOK' /\ call' \in [Req -> Calls]
      BY <2>0, <3>0, GotoKeepsCalls, Zenon
    <3>4. IsFiniteSet(zset') /\ Cardinality(zset') <= Limit /\ zset' \subseteq zset
      BY <2>4, <3>1, PurgedFits, Zenon DEF Refuse
    <3>5. zset' \subseteq Members /\ passed' \subseteq Members /\ IsFiniteSet(passed')
          /\ ttl' \in 0..RateWindow /\ CountersOK'
      BY <2>0, <3>0, <3>4, Zenon DEF TypeInv, QuotaTypeOK, CountersOK
    <3> QED
      BY <3>2, <3>3, <3>4, <3>5, Zenon
      DEF TypeInv, QuotaTypeOK, RequestsOK, CountersOK, PC
  <2>5. ASSUME NEW r \in Req, Forget(r) PROVE TypeInv'
    <3>0. PICK from \in {"running", "keyed", "record"} : Goto(r, from, "idle", 0)
      BY <2>5 DEF Forget
    <3>1. RequestsOK' /\ now' \in 0..MaxTime
      BY <2>0, <2>a, <3>0, GotoKeepsTypes, Zenon DEF PC
    <3>2. CallsOK' /\ call' \in [Req -> Calls]
      BY <2>0, <2>5, <3>0, GotoKeepsCalls, Zenon DEF Forget
    <3> QED BY <2>b, <2>5, <3>1, <3>2, Zenon DEF Forget, rateVars, budgetVars
  <2>6. ASSUME NEW r \in Req, FormTTL(r) PROVE TypeInv'
    <3>1. RequestsOK' /\ now' \in 0..MaxTime
      BY <2>0, <2>a, <2>6, GotoKeepsTypes, Zenon DEF FormTTL, PC
    <3>2. PICK n \in 1..MaxTokens :
             call' = [call EXCEPT ![r] = [ttl |-> durationUntilNextUTCDay(clock(r)),
                                          tokens |-> n, runs |-> 0]]
      BY <2>6, Zenon DEF FormTTL
    <3> DEFINE c == [ttl |-> durationUntilNextUTCDay(clock(r)), tokens |-> n, runs |-> 0]
    <3>3. c \in Calls /\ c.ttl > 0
      <4>1. clock(r) \in Nat
        BY <2>0, ClockIsStamp
      <4>2. durationUntilNextUTCDay(clock(r)) \in 1..DayLength
        BY <4>1, UntilMidnight, Zenon
      <4> QED BY <4>2, Constants DEF Calls
    <3> HIDE DEF c
    <3>4. call' = [call EXCEPT ![r] = c] /\ call \in [Req -> Calls]
      BY <2>0, <3>2 DEF c, QuotaTypeOK
    <3>5. CallsOK' /\ call' \in [Req -> Calls]
      <4>1. call'[r] = c /\ pc'[r] = "record"
        BY <2>0, <2>6, <3>4, OneMoves DEF FormTTL
      <4>2. \A q \in Req : q # r => call'[q] = call[q] /\ pc'[q] = pc[q]
        BY <2>0, <2>6, <3>4, OneMoves DEF FormTTL
      <4>3. CallsOK'
        BY <2>0, <3>3, <4>1, <4>2, Zenon DEF CallsOK
      <4> QED BY <3>3, <3>4, <4>3, Zenon
    <3> QED BY <2>b, <2>6, <3>1, <3>5, Zenon DEF FormTTL, rateVars, budgetVars
  <2>7. ASSUME NEW r \in Req, RecordTokens(r) PROVE TypeInv'
    <3> DEFINE e == DayOf(mark[r])
    <3>0. call \in [Req -> Calls] /\ pc[r] = "record" /\ call[r].ttl > 0
      BY <2>0, <2>7, Zenon DEF RecordTokens, Goto, QuotaTypeOK, CallsOK
    <3>1. RequestsOK' /\ now' \in 0..MaxTime
      <4>1. PICK to \in {"idle", "record"}, m \in {0, mark[r]} : Goto(r, "record", to, m)
        BY <2>7 DEF RecordTokens
      <4> QED BY <2>0, <2>a, <4>1, GotoKeepsTypes, Zenon DEF PC
    <3>2. CallsOK' /\ call' \in [Req -> Calls]
      <4>1. CASE Goto(r, "record", "idle", 0) /\ call' = [call EXCEPT ![r] = NoCall]
        BY <2>0, <4>1, GotoKeepsCalls, Zenon
      <4>2. CASE /\ call[r].runs < MaxRetries
                 /\ Goto(r, "record", "record", mark[r])
                 /\ call' = [call EXCEPT ![r].runs = @ + 1]
        <5>1. [call[r] EXCEPT !.runs = @ + 1] \in Calls
              /\ [call[r] EXCEPT !.runs = @ + 1].ttl > 0
          BY <3>0, <4>2, Constants DEF Calls
        <5>2. call' \in [Req -> Calls] /\ call'[r].ttl > 0
              /\ \A q \in Req : q # r => call'[q] = call[q]
          BY <3>0, <4>2, <5>1
        <5>3. pc'[r] = "record" /\ \A q \in Req : q # r => pc'[q] = pc[q]
          BY <2>0, <4>2, OneMoves, Zenon
        <5> QED BY <2>0, <5>2, <5>3, Zenon DEF CallsOK
      <4> QED BY <2>7, <4>1, <4>2 DEF RecordTokens
    <3>3. CountersOK'
      <4>1. e \in Days
        BY <2>0, ClockIsStamp, Zenon
      <4>2. call[r].tokens \in Nat /\ call[r].ttl \in 0..DayLength
        BY <3>0, Constants DEF Calls
      <4>3. /\ spent' = [spent EXCEPT ![e] = spent[e] + call[r].tokens]
            /\ left' = [left EXCEPT ![e] = call[r].ttl]
        BY <2>7 DEF RecordTokens
      <4>4. spent \in [Days -> Nat] /\ left \in [Days -> 0..DayLength]
        BY <2>0 DEF QuotaTypeOK
      <4> HIDE DEF e
      <4>5. spent[e] + call[r].tokens \in Nat
        BY <4>1, <4>2, <4>4
      <4>6. spent' \in [Days -> Nat] /\ left' \in [Days -> 0..DayLength]
        BY <4>2, <4>3, <4>4, <4>5, Zenon
      <4>7. ASSUME NEW d \in Days, left'[d] = 0 PROVE spent'[d] = 0
        <5>1. d # e
          BY <3>0, <4>1, <4>2, <4>3, <4>4, <4>7
        <5> QED BY <2>0, <4>3, <4>4, <4>7, <5>1, Zenon DEF QuotaTypeOK
      <4> QED BY <4>6, <4>7, Zenon DEF CountersOK
    <3>4. UNCHANGED <<zset, ttl, passed>>
      BY <2>7, Zenon DEF RecordTokens, rateVars
    <3>5. /\ zset' \subseteq Members /\ passed' \subseteq Members
          /\ IsFiniteSet(zset') /\ IsFiniteSet(passed')
          /\ Cardinality(zset') <= Limit /\ ttl' \in 0..RateWindow
      BY <2>0, <3>4, Zenon DEF TypeInv, QuotaTypeOK
    <3> QED
      BY <3>1, <3>2, <3>3, <3>5, Zenon
      DEF TypeInv, QuotaTypeOK, RequestsOK, CountersOK, PC
  <2>8. CASE TimePasses
    <3>1. now' \in 0..MaxTime /\ now \in Nat /\ now' = now + 1
      BY <2>0, <2>8, Constants DEF TimePasses, QuotaTypeOK
    <3>2. UNCHANGED <<ahead, pc, mark, call, passed>>
      BY <2>8, Zenon DEF TimePasses
    <3>3. RequestsOK'
      <4>1. ASSUME NEW r \in Req PROVE mark'[r] <= clock(r)'
        <5>1. mark[r] <= clock(r) /\ mark[r] \in Nat /\ ahead[r] \in Nat
          BY <2>0, ClockIsStamp, Constants
        <5>2. clock(r) = now + ahead[r] /\ clock(r)' = now' + ahead[r] /\ mark'[r] = mark[r]
          BY <3>2, Zenon DEF clock
        <5> QED BY <3>1, <5>1, <5>2
      <4> QED BY <2>0, <3>2, <4>1, Zenon DEF RequestsOK, QuotaTypeOK, PC
    <3>4. CallsOK' /\ call' \in [Req -> Calls]
      BY <2>0, <3>2, Zenon DEF CallsOK, QuotaTypeOK
    <3>5. ttl' \in 0..RateWindow
      BY <2>0, <2>8, Constants DEF TimePasses, QuotaTypeOK
    <3>6. IsFiniteSet(zset') /\ Cardinality(zset') <= Limit /\ zset' \subseteq Members
      BY <2>0, <2>8, FS_EmptySet, Constants DEF TimePasses, TypeInv, QuotaTypeOK
    <3>7. passed' \subseteq Members /\ IsFiniteSet(passed')
      BY <2>0, <3>2, Zenon DEF TypeInv, QuotaTypeOK
    <3>8. CountersOK'
      <4>1. /\ left' = [d \in Days |-> IF left[d] > 0 THEN left[d] - 1 ELSE 0]
            /\ spent' = [d \in Days |-> IF left[d] > 1 THEN spent[d] ELSE 0]
        BY <2>8, Zenon DEF TimePasses
      <4>2. spent \in [Days -> Nat] /\ left \in [Days -> 0..DayLength] /\ DayLength \in Nat
        BY <2>0, Constants, Zenon DEF QuotaTypeOK
      <4> QED BY <4>1, <4>2 DEF CountersOK
    <3> QED
      BY <3>1, <3>3, <3>4, <3>5, <3>6, <3>7, <3>8, Zenon
      DEF TypeInv, QuotaTypeOK, RequestsOK, CountersOK, PC
  <2>9. CASE UNCHANGED quotaVars
    BY <2>0, <2>9, Zenon DEF quotaVars, rateVars, budgetVars, TypeInv, QuotaTypeOK, CallsOK, clock
  <2> QED BY <2>2, <2>3, <2>4, <2>5, <2>6, <2>7, <2>8, <2>9, Zenon DEF QuotaNext
<1> QED BY <1>1, <1>2, PTL DEF QuotaSpec

\* The type invariant of Quota.
THEOREM QuotaTypes == QuotaSpec => []QuotaTypeOK
<1>1. TypeInv => QuotaTypeOK
  BY Zenon DEF TypeInv
<1> QED BY <1>1, TypeInvHolds, PTL

-----------------------------------------------------------------------------
(* The rate                                                                *)

\* A script runs at most MaxDelay after its stamp was taken, and the stamp is at
\* most MaxSkew ahead.
StampsOK ==
    \A r \in Req : pc[r] = "sent" => /\ mark[r] <= now + MaxSkew
                                     /\ now <= mark[r] + MaxDelay

\* PEXPIRE outlasts every member of the window.
TTLCovers == \A m \in zset : m[1] + RateWindow <= now + ttl + MaxSkew

\* Whoever was admitted is in the window until no script to come needs it.
AdmittedKept == \A m \in passed : m \in zset \/ m[1] + RateWindow <= now + MaxSkew

RateInv == StampsOK /\ TTLCovers /\ AdmittedKept /\ RateRespected

\* Stamps are naturals.
LEMMA StampIsNat ==
    ASSUME QuotaTypeOK
    PROVE  /\ Stamps \subseteq Nat /\ now \in Nat /\ ttl \in Nat /\ ttl <= RateWindow
           /\ \A m \in zset \cup passed : m[1] \in Nat
           /\ \A r \in Req : mark[r] \in Nat
  BY Constants DEF QuotaTypeOK, Stamps, Members

\* A request that goes anywhere but to the script leaves the stamps alone.
LEMMA GotoKeepsStamps ==
    ASSUME QuotaTypeOK, StampsOK, NEW r \in Req, NEW from, NEW to \in PC, NEW m,
           Goto(r, from, to, m), to # "sent"
    PROVE  StampsOK'
<1>0. now' = now
  BY Zenon DEF Goto
<1> SUFFICES ASSUME NEW q \in Req, pc'[q] = "sent"
             PROVE  mark'[q] <= now + MaxSkew /\ now <= mark'[q] + MaxDelay
  BY <1>0, Zenon DEF StampsOK
<1>1. q # r
  BY OneMoves
<1>2. pc'[q] = pc[q] /\ mark'[q] = mark[q]
  BY <1>1, OneMoves, Zenon
<1> QED BY <1>2 DEF StampsOK

\* Purging with the stamp of a script takes no member that a later one needs.
LEMMA PurgeKeepsInv ==
    ASSUME TypeInv, RateInv, NEW r \in Req, pc[r] = "sent",
           NEW m \in passed, m \notin Purged(mark[r])
    PROVE  m[1] + RateWindow <= now + MaxSkew
<1>1. /\ m[1] \in Nat /\ mark[r] \in Nat /\ now \in Nat
      /\ RateWindow \in Nat /\ MaxSkew \in Nat
  BY StampIsNat, Constants, Zenon DEF TypeInv
<1>2. mark[r] <= now + MaxSkew
  BY DEF RateInv, StampsOK
<1>3. CASE m \in zset
  <2>1. ~(m[1] + RateWindow > mark[r])
    BY <1>3 DEF Purged
  <2> QED BY <1>1, <1>2, <2>1
<1>4. CASE m \notin zset
  BY <1>4 DEF RateInv, AdmittedKept
<1> QED BY <1>3, <1>4, Zenon

\* An admission by the script keeps every window within the limit.
LEMMA AdmitKeepsRate ==
    ASSUME TypeInv, TypeInv', RateInv, NEW r \in Req, AdmitRate(r)
    PROVE  RateInv'
<1> DEFINE s == mark[r]
           new == member(s)
<1>0. /\ QuotaTypeOK /\ QuotaTypeOK' /\ now' = now /\ pc[r] = "sent" /\ r \in Req
      /\ zset' = Purged(s) \cup {new} /\ ttl' = RateWindow
      /\ passed' \in {passed, passed \cup {new}}
  BY Zenon DEF AdmitRate, Goto, TypeInv
<1>1. /\ s \in Nat /\ now \in Nat /\ ttl \in Nat /\ ttl <= RateWindow
      /\ RateWindow \in Nat /\ MaxSkew \in Nat /\ MaxDelay \in Nat
      /\ \A m \in zset \cup passed : m[1] \in Nat
  BY <1>0, StampIsNat, Constants, Zenon
<1>2. s <= now + MaxSkew /\ now <= s + MaxDelay
  BY <1>0, Zenon DEF RateInv, StampsOK
<1>3. new[1] = s
  BY MemberIsNew, Zenon DEF TypeInv
<1>4. StampsOK'
  BY <1>0, GotoKeepsStamps, Zenon DEF AdmitRate, PC, RateInv
<1>5. TTLCovers'
  <2> SUFFICES ASSUME NEW m \in zset' PROVE m[1] + RateWindow <= now' + ttl' + MaxSkew
    BY DEF TTLCovers
  <2>1. CASE m = new
    <3>1. m[1] = s
      BY <1>3, <2>1, Zenon
    <3> HIDE DEF s
    <3> QED BY <1>0, <1>1, <1>2, <3>1
  <2>2. CASE m \in Purged(s)
    <3>1. m \in zset
      BY <2>2 DEF Purged
    <3>2. m[1] + RateWindow <= now + ttl + MaxSkew /\ m[1] \in Nat
      BY <1>1, <3>1, Zenon DEF RateInv, TTLCovers
    <3> HIDE DEF s, new
    <3> QED BY <1>0, <1>1, <3>2
  <2> QED BY <1>0, <2>1, <2>2
<1>6. AdmittedKept'
  <2> SUFFICES ASSUME NEW m \in passed', m \notin zset'
               PROVE  m[1] + RateWindow <= now' + MaxSkew
    BY Zenon DEF AdmittedKept
  <2>1. m # new /\ m \in passed /\ m \notin Purged(s)
    BY <1>0, Zenon
  <2> QED BY <1>0, <2>1, PurgeKeepsInv, Zenon
<1>7. RateRespected'
  <2> SUFFICES ASSUME NEW t \in Stamps
               PROVE  Cardinality({m \in passed' : m[1] \in InWindow(t)}) <= Limit
    BY DEF RateRespected
  <2> DEFINE W == {m \in passed : m[1] \in InWindow(t)}
             V == {m \in passed' : m[1] \in InWindow(t)}
  <2>1. CASE s \notin InWindow(t)
    <3>1. V = W
      BY <1>0, <1>3, <2>1, Zenon
    <3> QED BY <3>1, Zenon DEF RateInv, RateRespected
  <2>2. CASE s \in InWindow(t)
    <3>1. t \in Nat /\ s <= t
      BY <2>2, <1>0, StampIsNat, Zenon DEF InWindow
    <3>2. ASSUME NEW m \in V PROVE m \in zset'
      <4> SUFFICES ASSUME m # new, m \notin Purged(s) PROVE FALSE
        BY <1>0, Zenon
      <4>1. m \in passed
        BY <1>0, Zenon
      <4>2. m[1] + RateWindow <= now + MaxSkew
        BY <1>0, <4>1, PurgeKeepsInv, Zenon
      <4>3. t + MaxDelay + MaxSkew < m[1] + RateWindow
        BY DEF InWindow
      <4>4. m[1] \in Nat
        BY <1>1, <4>1
      <4> HIDE DEF s
      <4> QED BY <1>1, <1>2, <3>1, <4>2, <4>3, <4>4
    <3>3. V \in SUBSET zset'
      BY <3>2, Zenon
    <3>4. Cardinality(V) <= Cardinality(zset') /\ IsFiniteSet(V)
      BY <3>3, FS_Subset, Zenon DEF TypeInv
    <3>5. /\ Cardinality(zset') \in Nat /\ Cardinality(zset') <= Limit
          /\ Cardinality(V) \in Nat /\ Limit \in Nat
      BY <3>4, FS_CardinalityType, Constants, Zenon DEF TypeInv, QuotaTypeOK
    <3> HIDE DEF V
    <3>6. Cardinality(V) <= Limit
      BY <3>4, <3>5
    <3> QED BY <3>6, Zenon DEF V
  <2> QED BY <2>1, <2>2
<1> QED BY <1>4, <1>5, <1>6, <1>7, Zenon DEF RateInv

\* RateInv is an invariant of the quotas.
LEMMA RateInvHolds == QuotaSpec => []RateInv
<1>1. QuotaInit => RateInv
  <2> SUFFICES ASSUME QuotaInit PROVE RateInv
    OBVIOUS
  <2>1. StampsOK /\ TTLCovers /\ AdmittedKept
    BY DEF QuotaInit, StampsOK, TTLCovers, AdmittedKept
  <2>2. ASSUME NEW t \in Stamps
        PROVE  Cardinality({m \in passed : m[1] \in InWindow(t)}) <= Limit
    <3>1. {m \in passed : m[1] \in InWindow(t)} = {}
      BY Zenon DEF QuotaInit
    <3> QED BY <3>1, FS_EmptySet, Constants
  <2> QED BY <2>1, <2>2, Zenon DEF RateInv, RateRespected
<1>2. TypeInv /\ TypeInv' /\ RateInv /\ [QuotaNext]_quotaVars => RateInv'
  <2> SUFFICES ASSUME TypeInv, TypeInv', RateInv, [QuotaNext]_quotaVars PROVE RateInv'
    OBVIOUS
  <2>0. QuotaTypeOK /\ QuotaTypeOK' /\ StampsOK /\ TTLCovers /\ AdmittedKept /\ RateRespected
    BY Zenon DEF TypeInv, RateInv
  <2>a. ASSUME StampsOK', UNCHANGED <<now, zset, ttl, passed>> PROVE RateInv'
    BY <2>0, <2>a, Zenon DEF RateInv, TTLCovers, AdmittedKept, RateRespected
  <2>1. ASSUME NEW r \in Req, FormCheckKey(r) \/ CheckBudget(r) \/ BudgetRefused(r)
        PROVE  RateInv'
    BY <2>0, <2>a, <2>1, GotoKeepsStamps, Zenon
    DEF FormCheckKey, CheckBudget, BudgetRefused, PC, rateVars, Goto
  <2>2. ASSUME NEW r \in Req, Stamp(r) PROVE RateInv'
    <3>1. Goto(r, "checked", "sent", clock(r)) /\ UNCHANGED <<zset, ttl, passed>>
      BY <2>2, Zenon DEF Stamp, rateVars
    <3>2. now' = now /\ now \in Nat /\ ahead[r] \in 0..MaxSkew /\ clock(r) = now + ahead[r]
      BY <2>0, <3>1, ClockIsStamp, Zenon DEF Goto, clock
    <3>3. StampsOK'
      <4> SUFFICES ASSUME NEW q \in Req, pc'[q] = "sent"
                   PROVE  mark'[q] <= now + MaxSkew /\ now <= mark'[q] + MaxDelay
        BY <3>2, Zenon DEF StampsOK
      <4>1. CASE q = r
        <5>1. mark'[q] = now + ahead[r]
          BY <2>0, <3>1, <3>2, <4>1, OneMoves, Zenon
        <5> QED BY <3>2, <5>1, Constants
      <4>2. CASE q # r
        <5>1. pc[q] = "sent" /\ mark'[q] = mark[q]
          BY <2>0, <3>1, <4>2, OneMoves, Zenon
        <5> QED BY <2>0, <5>1, Zenon DEF StampsOK
      <4> QED BY <4>1, <4>2, Zenon
    <3> QED BY <2>a, <3>1, <3>2, <3>3, Zenon
  <2>3. ASSUME NEW r \in Req, AdmitRate(r) PROVE RateInv'
    BY <2>3, AdmitKeepsRate
  <2>4. ASSUME NEW r \in Req, Refuse(r) PROVE RateInv'
    <3>0. /\ pc[r] = "sent" /\ zset' = Purged(mark[r]) /\ zset' \subseteq zset
          /\ UNCHANGED <<now, ttl, passed>>
      BY <2>4, Zenon DEF Refuse, Goto, Purged
    <3>1. StampsOK'
      BY <2>0, <2>4, GotoKeepsStamps, Zenon DEF Refuse, PC
    <3>2. TTLCovers'
      BY <2>0, <3>0, Zenon DEF TTLCovers
    <3>3. AdmittedKept'
      BY <3>0, PurgeKeepsInv, Zenon DEF AdmittedKept
    <3>4. RateRespected'
      BY <2>0, <3>0, Zenon DEF RateRespected
    <3> QED BY <3>1, <3>2, <3>3, <3>4, Zenon DEF RateInv
  <2>5. ASSUME NEW r \in Req, Forget(r) \/ FormKey(r) \/ FormTTL(r) PROVE RateInv'
    BY <2>0, <2>a, <2>5, GotoKeepsStamps DEF Forget, FormKey, FormTTL, PC, rateVars, Goto
  <2>6. ASSUME NEW r \in Req, RecordTokens(r) PROVE RateInv'
    BY <2>0, <2>a, <2>6, GotoKeepsStamps DEF RecordTokens, PC, rateVars, Goto
  <2>7. CASE TimePasses
    <3>0. /\ now \in Nat /\ ttl \in Nat /\ RateWindow \in Nat /\ MaxSkew \in Nat
          /\ MaxDelay \in Nat
          /\ \A m \in zset \cup passed : m[1] \in Nat
          /\ \A r \in Req : mark[r] \in Nat
      BY <2>0, StampIsNat, Constants, Zenon
    <3>1. /\ now' = now + 1 /\ ttl' = (IF ttl > 0 THEN ttl - 1 ELSE 0)
          /\ zset' = (IF ttl > 1 THEN zset ELSE {})
          /\ UNCHANGED <<pc, mark, passed>>
      BY <2>7, Zenon DEF TimePasses
    <3>2. StampsOK'
      <4> SUFFICES ASSUME NEW q \in Req, pc[q] = "sent"
                   PROVE  mark[q] <= now' + MaxSkew /\ now' <= mark[q] + MaxDelay
        BY <3>1, Zenon DEF StampsOK
      <4>1. mark[q] <= now + MaxSkew /\ now < mark[q] + MaxDelay
        BY <2>0, <2>7, Zenon DEF StampsOK, TimePasses
      <4> QED BY <3>0, <3>1, <4>1
    <3>3. TTLCovers'
      <4> SUFFICES ASSUME NEW m \in zset' PROVE m[1] + RateWindow <= now' + ttl' + MaxSkew
        BY DEF TTLCovers
      <4>1. ttl > 1 /\ m \in zset
        BY <3>1
      <4>2. m[1] + RateWindow <= now + ttl + MaxSkew /\ m[1] \in Nat
        BY <2>0, <3>0, <4>1, Zenon DEF TTLCovers
      <4> QED BY <3>0, <3>1, <4>1, <4>2
    <3>4. AdmittedKept'
      <4> SUFFICES ASSUME NEW m \in passed, m \notin zset'
                   PROVE  m[1] + RateWindow <= now' + MaxSkew
        BY <3>1, Zenon DEF AdmittedKept
      <4>1. CASE m \in zset
        <5>1. m[1] + RateWindow <= now + ttl + MaxSkew /\ m[1] \in Nat
          BY <2>0, <3>0, <4>1, Zenon DEF TTLCovers
        <5>2. ttl <= 1
          BY <3>0, <3>1, <4>1
        <5> QED BY <3>0, <3>1, <5>1, <5>2
      <4>2. CASE m \notin zset
        <5>1. m[1] + RateWindow <= now + MaxSkew /\ m[1] \in Nat
          BY <2>0, <3>0, <4>2, Zenon DEF AdmittedKept
        <5> QED BY <3>0, <3>1, <5>1
      <4> QED BY <4>1, <4>2, Zenon
    <3>5. RateRespected'
      BY <2>0, <3>1, Zenon DEF RateRespected
    <3> QED BY <3>2, <3>3, <3>4, <3>5 DEF RateInv
  <2>8. CASE UNCHANGED quotaVars
    BY <2>0, <2>8, Zenon
    DEF quotaVars, rateVars, RateInv, StampsOK, TTLCovers, AdmittedKept, RateRespected
  <2> QED BY <2>1, <2>2, <2>3, <2>4, <2>5, <2>6, <2>7, <2>8, Zenon DEF QuotaNext
<1> QED BY <1>1, <1>2, TypeInvHolds, PTL DEF QuotaSpec

\* At most Limit requests are admitted in any window that is shorter than the
\* configured one by MaxDelay + MaxSkew, for any number of requests that overtake
\* each other, with the key expiring in between (allowRate, rateLimitScript).
THEOREM RateHolds == QuotaSpec => []RateRespected
<1>1. RateInv => RateRespected
  BY DEF RateInv
<1> QED BY <1>1, RateInvHolds, PTL

-----------------------------------------------------------------------------
(* The budget                                                              *)

\* The runs of recordBudgetScript that can be in flight.
Runs == Req \X (1..MaxRuns)

\* A day's counter with n tokens keeps the bound whatever the runs of P charge.
Bounded(n, P) ==
    n + MaxTokens * Cardinality(P) <= TokenBudget + MaxTokens * (MaxRuns * Cardinality(Req))

\* What runs can still charge grows with their number.
LEMMA MoreCharge ==
    ASSUME NEW k \in Nat, NEW a \in Nat, NEW b \in Nat, a <= b
    PROVE  /\ k * a \in Nat /\ k * b \in Nat /\ k * a <= k * b
           /\ k * (a + 1) = k * a + k
  OBVIOUS

\* The runs are finitely many, and a part of them at most as many.
LEMMA PartOfRuns ==
    ASSUME NEW P \in SUBSET Runs
    PROVE  /\ IsFiniteSet(P) /\ Cardinality(P) \in Nat
           /\ MaxTokens * Cardinality(P) \in Nat
           /\ MaxTokens * (MaxRuns * Cardinality(Req)) \in Nat
           /\ MaxTokens * Cardinality(P) <= MaxTokens * (MaxRuns * Cardinality(Req))
<1>1. IsFiniteSet(1..MaxRuns) /\ Cardinality(1..MaxRuns) = MaxRuns
  BY FS_Interval, Constants
<1>2. IsFiniteSet(Runs) /\ Cardinality(Runs) = Cardinality(Req) * MaxRuns
  BY <1>1, FS_Product, Constants, Zenon DEF Runs
<1>3. IsFiniteSet(P) /\ Cardinality(P) <= Cardinality(Runs)
  BY <1>2, FS_Subset, Zenon
<1>4. Cardinality(P) \in Nat /\ Cardinality(Req) \in Nat /\ Cardinality(Runs) \in Nat
  BY <1>2, <1>3, FS_CardinalityType, Constants, Zenon
<1>5. Cardinality(Runs) = MaxRuns * Cardinality(Req)
  BY <1>2, <1>4, Constants
<1> QED BY <1>3, <1>4, <1>5, MoreCharge, Constants

\* The bound outlasts a step that adds neither tokens nor runs.
LEMMA FewerRuns ==
    ASSUME NEW P \in SUBSET Runs, NEW Q \in SUBSET P, NEW n \in Nat, NEW m \in 0..n,
           Bounded(n, P)
    PROVE  Bounded(m, Q)
<1>1. /\ IsFiniteSet(P) /\ Cardinality(P) \in Nat
      /\ MaxTokens * (MaxRuns * Cardinality(Req)) \in Nat
  BY PartOfRuns, Zenon
<1>2. Cardinality(Q) <= Cardinality(P) /\ Cardinality(Q) \in Nat
  BY <1>1, FS_Subset, FS_CardinalityType, Zenon
<1>3. /\ MaxTokens * Cardinality(Q) <= MaxTokens * Cardinality(P)
      /\ MaxTokens * Cardinality(Q) \in Nat
      /\ MaxTokens * Cardinality(P) \in Nat
  BY <1>1, <1>2, MoreCharge, Constants, Zenon
<1> QED BY <1>1, <1>3, Constants DEF Bounded

\* While a day's counter is within the budget the bound holds whatever is in flight.
LEMMA WithinBudget ==
    ASSUME NEW P \in SUBSET Runs, NEW n \in Nat, n <= TokenBudget
    PROVE  Bounded(n, P)
  BY PartOfRuns, Constants DEF Bounded

\* A run charges its tokens when it stops to be in flight.
LEMMA RunCharges ==
    ASSUME NEW P \in SUBSET Runs, NEW c \in P, NEW Q \in SUBSET (P \ {c}),
           NEW n \in Nat, NEW k \in 0..MaxTokens, Bounded(n, P)
    PROVE  Bounded(n + k, Q)
<1> DEFINE j == Cardinality(P \ {c})
<1>1. /\ IsFiniteSet(P) /\ Cardinality(P) \in Nat
      /\ MaxTokens * (MaxRuns * Cardinality(Req)) \in Nat
  BY PartOfRuns, Zenon
<1>2. j \in Nat /\ Cardinality(P) = j + 1
  <2>1. IsFiniteSet(P \ {c}) /\ Cardinality(P \ {c}) = Cardinality(P) - 1
    BY <1>1, FS_RemoveElement, Zenon
  <2>2. Cardinality(P \ {c}) \in Nat
    BY <2>1, FS_CardinalityType, Zenon
  <2> QED BY <1>1, <2>1, <2>2
<1> HIDE DEF j
<1>3. MaxTokens * Cardinality(P) = MaxTokens * j + MaxTokens /\ MaxTokens * j \in Nat
  BY <1>2, MoreCharge, Constants
<1>4. n + k + MaxTokens * j <= TokenBudget + MaxTokens * (MaxRuns * Cardinality(Req))
  BY <1>1, <1>3, Constants DEF Bounded
<1>5. Bounded(n + k, P \ {c})
  BY <1>4, Zenon DEF Bounded, j
<1>6. n + k \in Nat /\ n + k \in 0..(n + k)
  BY Constants
<1>7. P \ {c} \in SUBSET Runs
  OBVIOUS
<1> QED BY <1>5, <1>6, <1>7, FewerRuns, Zenon

\* The chances of a day are runs.
LEMMA ChancesAreRuns ==
    ASSUME NEW d
    PROVE  Chances(d) \in SUBSET Runs /\ Chances(d)' \in SUBSET Runs
  BY Zenon DEF Chances, Runs

\* A day whose tokens do not grow and that gets no new chance keeps its bound.
LEMMA NothingCharged ==
    ASSUME QuotaTypeOK, QuotaTypeOK', OvershootBounded, NEW d \in Days,
           spent'[d] <= spent[d],
           \A q \in Req, i \in 1..MaxRuns : MayCharge(q, i, d)' => MayCharge(q, i, d)
    PROVE  Bounded(spent'[d], Chances(d)')
<1>1. Chances(d)' \in SUBSET Chances(d)
  <2> SUFFICES ASSUME NEW c \in Req \X (1..MaxRuns), MayCharge(c[1], c[2], d)'
               PROVE  MayCharge(c[1], c[2], d)
    BY Zenon DEF Chances
  <2>1. c[1] \in Req /\ c[2] \in 1..MaxRuns
    OBVIOUS
  <2> HIDE DEF MayCharge
  <2> QED BY <2>1, Zenon
<1>2. Bounded(spent[d], Chances(d))
  BY Zenon DEF OvershootBounded, Bounded
<1>3. spent[d] \in Nat /\ spent'[d] \in Nat /\ spent'[d] \in 0..spent[d]
  BY DEF QuotaTypeOK
<1> HIDE DEF Chances
<1> QED BY <1>1, <1>2, <1>3, ChancesAreRuns, FewerRuns, Zenon

\* A request that moves on gives the others no chance.
LEMMA OthersAsBefore ==
    ASSUME QuotaTypeOK, NEW r \in Req, NEW from, NEW to, NEW m, Goto(r, from, to, m),
           \A q \in Req : q # r => call'[q] = call[q],
           NEW q \in Req, q # r, NEW i, NEW d
    PROVE  MayCharge(q, i, d)' <=> MayCharge(q, i, d)
<1>1. /\ clock(q)' = clock(q) /\ pc'[q] = pc[q] /\ mark'[q] = mark[q]
      /\ call'[q] = call[q]
  BY OneMoves
<1>2. DayOf(clock(q))' = DayOf(clock(q)) /\ DayOf(mark[q])' = DayOf(mark[q])
  BY <1>1, Zenon DEF DayOf
<1> QED BY <1>1, <1>2, Zenon DEF MayCharge

\* OvershootBounded is an invariant of the quotas.
LEMMA BudgetStep ==
    TypeInv /\ TypeInv' /\ OvershootBounded /\ [QuotaNext]_quotaVars => OvershootBounded'
<1> SUFFICES ASSUME TypeInv, TypeInv', OvershootBounded, [QuotaNext]_quotaVars,
                    NEW d \in Days
             PROVE  Bounded(spent'[d], Chances(d)')
  BY Zenon DEF OvershootBounded, Bounded
<1>0. QuotaTypeOK /\ QuotaTypeOK' /\ CallsOK /\ spent[d] \in Nat /\ d \in Nat
  <2>1. d \in Nat
    BY DayMonotonic, Constants DEF Days
  <2> QED BY <2>1, Zenon DEF TypeInv, QuotaTypeOK
<1>a. ASSUME NEW r \in Req, NEW from, NEW to, NEW m, Goto(r, from, to, m),
             \A q \in Req : q # r => call'[q] = call[q], spent' = spent,
             \A i \in 1..MaxRuns : MayCharge(r, i, d)' => MayCharge(r, i, d)
      PROVE  Bounded(spent'[d], Chances(d)')
  <2>1. ASSUME NEW q \in Req, NEW i \in 1..MaxRuns, MayCharge(q, i, d)'
        PROVE  MayCharge(q, i, d)
    <3>1. CASE q = r
      <4> HIDE DEF MayCharge
      <4> QED BY <1>a, <2>1, <3>1, Zenon
    <3>2. CASE q # r
      BY <1>0, <1>a, <2>1, <3>2, OthersAsBefore, Zenon
    <3> QED BY <3>1, <3>2, Zenon
  <2>2. spent'[d] <= spent[d]
    BY <1>0, <1>a
  <2> QED BY <1>0, <2>1, <2>2, NothingCharged, Zenon
<1>1. ASSUME NEW r \in Req, NEW from, NEW to, NEW m \in {0, clock(r)},
             Goto(r, from, to, m), spent' = spent,
             \A q \in Req : q # r => call'[q] = call[q],
             \/ to = "idle"
             \/ to = "look" /\ m = clock(r)
             \/ from \in {"checked", "sent"} /\ to \in {"sent", "running"}
             \/ from = "running" /\ to = "keyed" /\ m = clock(r)
      PROVE  Bounded(spent'[d], Chances(d)')
  <2>1. /\ pc[r] = from /\ pc'[r] = to /\ mark'[r] = m /\ clock(r)' = clock(r)
        /\ DayOf(clock(r)) \in Nat /\ DayOf(clock(r))' = DayOf(clock(r))
        /\ DayOf(mark[r])' = DayOf(m)
    BY <1>0, <1>1, OneMoves, ClockIsStamp DEF DayOf
  <2>2. ASSUME NEW i \in 1..MaxRuns, MayCharge(r, i, d)' PROVE MayCharge(r, i, d)
    BY <1>0, <1>1, <2>1, <2>2, Zenon DEF MayCharge
  <2> QED BY <1>a, <1>1, <2>2, Zenon
<1>2. ASSUME NEW r \in Req, FormCheckKey(r) \/ BudgetRefused(r) \/ Stamp(r)
                            \/ AdmitRate(r) \/ Refuse(r) \/ FormKey(r)
      PROVE  Bounded(spent'[d], Chances(d)')
  <2>1. call' = call /\ spent' = spent
    BY <1>2, Zenon DEF FormCheckKey, BudgetRefused, Stamp, AdmitRate, Refuse, FormKey, budgetVars
  <2>2. \/ Goto(r, "idle", "look", clock(r)) \/ Goto(r, "look", "idle", 0)
        \/ Goto(r, "checked", "sent", clock(r)) \/ Goto(r, "sent", "running", 0)
        \/ Goto(r, "sent", "idle", 0) \/ Goto(r, "running", "keyed", clock(r))
    BY <1>2, Zenon DEF FormCheckKey, BudgetRefused, Stamp, AdmitRate, Refuse, FormKey
  <2> QED BY <1>1, <2>1, <2>2, Zenon
<1>3. ASSUME NEW r \in Req, CheckBudget(r) PROVE Bounded(spent'[d], Chances(d)')
  <2>0. Goto(r, "look", "checked", 0) /\ call' = call /\ spent' = spent
    BY <1>3, Zenon DEF CheckBudget, budgetVars
  <2>1. CASE DayOf(mark[r]) = d
    <3>1. spent[d] <= TokenBudget
      BY <1>0, <1>3, <2>1, Constants DEF CheckBudget, OverBudget
    <3> QED BY <1>0, <2>0, <3>1, ChancesAreRuns, WithinBudget, Zenon
  <2>2. CASE DayOf(mark[r]) # d
    <3>1. /\ pc[r] = "look" /\ pc'[r] = "checked"
          /\ DayOf(clock(r))' = DayOf(clock(r)) /\ DayOf(clock(r)) \in Nat
          /\ DayOf(mark[r]) \in Nat /\ DayOf(mark[r]) <= DayOf(clock(r))
      BY <1>0, <2>0, OneMoves, ClockIsStamp DEF DayOf
    <3>2. ASSUME NEW i \in 1..MaxRuns, MayCharge(r, i, d)' PROVE MayCharge(r, i, d)
      BY <1>0, <2>2, <3>1, <3>2 DEF MayCharge
    <3> QED BY <1>a, <2>0, <3>2, Zenon
  <2> QED BY <2>1, <2>2, Zenon
<1>4. ASSUME NEW r \in Req, Forget(r) PROVE Bounded(spent'[d], Chances(d)')
  <2>1. PICK from \in {"running", "keyed", "record"} : Goto(r, from, "idle", 0)
    BY <1>4, Zenon DEF Forget
  <2>2. spent' = spent /\ \A q \in Req : q # r => call'[q] = call[q]
    BY <1>0, <1>4, Zenon DEF Forget, budgetVars, QuotaTypeOK
  <2> QED BY <1>1, <2>1, <2>2, Zenon
<1>5. ASSUME NEW r \in Req, FormTTL(r) PROVE Bounded(spent'[d], Chances(d)')
  <2>0. Goto(r, "keyed", "record", mark[r]) /\ spent' = spent
    BY <1>5, Zenon DEF FormTTL, budgetVars
  <2>1. \A q \in Req : q # r => call'[q] = call[q]
    BY <1>0, <1>5, Zenon DEF FormTTL, QuotaTypeOK
  <2>2. /\ pc[r] = "keyed" /\ pc'[r] = "record" /\ mark'[r] = mark[r]
        /\ DayOf(clock(r))' = DayOf(clock(r)) /\ DayOf(mark[r])' = DayOf(mark[r])
    BY <1>0, <2>0, OneMoves, Zenon DEF DayOf
  <2>3. call[r].runs = 0
    BY <1>0, <2>2, Zenon DEF CallsOK
  <2>4. ASSUME NEW i \in 1..MaxRuns, MayCharge(r, i, d)' PROVE MayCharge(r, i, d)
    <3> DEFINE n == DayOf(clock(r))
               e == DayOf(mark[r])
    <3>1. n < d \/ e = d
      <4>1. DayOf(clock(r))' < d \/ DayOf(mark[r])' = d
        BY <2>2, <2>4, Zenon DEF MayCharge
      <4> HIDE DEF n, e
      <4> QED BY <2>2, <4>1, Zenon DEF n, e
    <3>2. i > call[r].runs
      BY <2>3
    <3> QED BY <2>2, <3>1, <3>2, Zenon DEF MayCharge
  <2> QED BY <1>a, <2>0, <2>1, <2>4, Zenon
<1>6. ASSUME NEW r \in Req, RecordTokens(r) PROVE Bounded(spent'[d], Chances(d)')
  <2> DEFINE e == DayOf(mark[r])
             k == call[r].runs
             c == <<r, k + 1>>
  <2>0. /\ call \in [Req -> Calls] /\ k \in 0..MaxRetries /\ k \in Nat
        /\ call[r].tokens \in 0..MaxTokens /\ c \in Runs
    <3>1. call \in [Req -> Calls]
      BY <1>0 DEF QuotaTypeOK
    <3>2. k \in 0..MaxRetries /\ call[r].tokens \in 0..MaxTokens
      BY <3>1 DEF Calls
    <3> QED BY <3>1, <3>2, Constants DEF Runs
  <2>1. PICK to \in {"idle", "record"}, m \in {0, mark[r]} :
          /\ Goto(r, "record", to, m)
          /\ to = "record" => m = mark[r] /\ call'[r].runs = k + 1
          /\ \A q \in Req : q # r => call'[q] = call[q]
    <3>1. CASE Goto(r, "record", "idle", 0) /\ call' = [call EXCEPT ![r] = NoCall]
      BY <2>0, <3>1
    <3>2. CASE /\ Goto(r, "record", "record", mark[r])
               /\ call' = [call EXCEPT ![r].runs = @ + 1]
      <4>1. call'[r] = [call[r] EXCEPT !.runs = k + 1] /\ call[r] \in Calls
        BY <2>0, <3>2
      <4>2. call'[r].runs = k + 1
        BY <4>1, Zenon DEF Calls
      <4> QED BY <2>0, <3>2, <4>2, Zenon
    <3> QED BY <1>6, <3>1, <3>2, Zenon DEF RecordTokens
  <2>2. /\ pc[r] = "record" /\ pc'[r] = to
        /\ DayOf(clock(r))' = DayOf(clock(r)) /\ e <= DayOf(clock(r))
        /\ DayOf(clock(r)) \in Nat /\ e \in Nat /\ e \in Days
        /\ to = "record" => DayOf(mark[r])' = e
    BY <1>0, <2>1, OneMoves, ClockIsStamp DEF DayOf
  <2>3. spent' = [spent EXCEPT ![e] = spent[e] + call[r].tokens]
        /\ spent \in [Days -> Nat]
    BY <1>0, <1>6, Zenon DEF RecordTokens, QuotaTypeOK
  <2>4. ASSUME NEW i \in 1..MaxRuns, MayCharge(r, i, d)'
        PROVE  MayCharge(r, i, d) /\ (d = e => i # k + 1)
    BY <1>0, <2>0, <2>1, <2>2, <2>4 DEF MayCharge
  <2>5. \A q \in Req : q # r => \A i : MayCharge(q, i, d)' <=> MayCharge(q, i, d)
    BY <1>0, <2>1, OthersAsBefore, Zenon
  <2>6. CASE d = e
    <3>1. c \in Chances(d)
      <4>1. MayCharge(r, k + 1, d)
        BY <2>0, <2>2, <2>6 DEF MayCharge
      <4> HIDE DEF MayCharge
      <4> QED BY <2>0, <4>1, Zenon DEF Chances, Runs
    <3>2. Chances(d)' \in SUBSET (Chances(d) \ {c})
      <4> SUFFICES ASSUME NEW x \in Req \X (1..MaxRuns), MayCharge(x[1], x[2], d)'
                   PROVE  MayCharge(x[1], x[2], d) /\ x # c
        BY DEF Chances
      <4>1. x[1] \in Req /\ x[2] \in 1..MaxRuns
        OBVIOUS
      <4>2. c[1] = r /\ c[2] = k + 1
        OBVIOUS
      <4> HIDE DEF MayCharge, k, c
      <4> QED BY <2>4, <2>5, <2>6, <4>1, <4>2, Zenon
    <3>3. spent'[d] = spent[d] + call[r].tokens
      BY <2>2, <2>3, <2>6, Zenon
    <3>4. Bounded(spent[d], Chances(d))
      BY DEF OvershootBounded, Bounded
    <3> HIDE DEF Chances, c
    <3>5. Bounded(spent[d] + call[r].tokens, Chances(d)')
      BY <1>0, <2>0, <3>1, <3>2, <3>4, ChancesAreRuns, RunCharges, Zenon
    <3> QED BY <3>3, <3>5, Zenon
  <2>7. CASE d # e
    <3>1. spent'[d] <= spent[d]
      BY <1>0, <2>2, <2>3, <2>7
    <3>2. ASSUME NEW q \in Req, NEW i \in 1..MaxRuns, MayCharge(q, i, d)'
          PROVE  MayCharge(q, i, d)
      <4> HIDE DEF MayCharge
      <4> QED BY <2>4, <2>5, <3>2, Zenon
    <3> QED BY <1>0, <3>1, <3>2, NothingCharged, Zenon
  <2> QED BY <2>6, <2>7, Zenon
<1>7. CASE TimePasses
  <2>1. UNCHANGED <<ahead, pc, mark, call>> /\ now' = now + 1
    BY <1>7, Zenon DEF TimePasses
  <2>2. spent'[d] <= spent[d]
    BY <1>0, <1>7 DEF TimePasses
  <2>3. ASSUME NEW q \in Req, NEW i \in 1..MaxRuns, MayCharge(q, i, d)'
        PROVE  MayCharge(q, i, d)
    <3>1. /\ DayOf(clock(q)) \in Nat /\ DayOf(clock(q))' \in Nat
          /\ DayOf(clock(q)) <= DayOf(clock(q))'
      <4>1. clock(q) \in Nat /\ clock(q)' \in Nat /\ clock(q) <= clock(q)'
        <5>1. now \in Nat /\ ahead[q] \in 0..MaxSkew
          BY <1>0, ClockIsStamp, Zenon
        <5> QED BY <2>1, <5>1, Constants DEF clock
      <4>2. DayOf(clock(q))' = DayOf(clock(q)')
        BY Zenon DEF DayOf
      <4> HIDE DEF clock
      <4> QED BY <4>1, <4>2, DayMonotonic, Zenon
    <3>2. /\ pc'[q] = pc[q] /\ mark'[q] = mark[q] /\ call'[q] = call[q]
          /\ DayOf(mark[q])' = DayOf(mark[q]) /\ DayOf(mark[q]) \in Nat
          /\ DayOf(mark[q]) <= DayOf(clock(q))
      BY <1>0, <2>1, ClockIsStamp, Zenon DEF DayOf
    <3> QED BY <1>0, <2>3, <3>1, <3>2 DEF MayCharge
  <2> QED BY <1>0, <2>2, <2>3, NothingCharged, Zenon
<1>8. CASE UNCHANGED quotaVars
  <2>1. UNCHANGED <<now, ahead, pc, mark, call, spent>>
    BY <1>8, Zenon DEF quotaVars, budgetVars
  <2>2. ASSUME NEW q \in Req, NEW i \in 1..MaxRuns, MayCharge(q, i, d)'
        PROVE  MayCharge(q, i, d)
    BY <2>1, <2>2, Zenon DEF MayCharge, clock, DayOf
  <2>3. spent'[d] <= spent[d]
    BY <1>0, <2>1
  <2> QED BY <1>0, <2>2, <2>3, NothingCharged, Zenon
<1> QED BY <1>2, <1>3, <1>4, <1>5, <1>6, <1>7, <1>8, Zenon DEF QuotaNext

\* A day's tokens exceed the budget by no more than the runs of recordBudgetScript
\* in flight can charge, whatever the requests do around midnight, with clocks
\* apart and scripts sent again (checkBudget, recordTokens).
THEOREM BudgetHolds == QuotaSpec => []OvershootBounded
<1>1. QuotaInit => OvershootBounded
  <2> SUFFICES ASSUME QuotaInit, NEW d \in Days PROVE Bounded(spent[d], Chances(d))
    BY Zenon DEF OvershootBounded, Bounded
  <2>1. spent[d] = 0 /\ 0 <= TokenBudget /\ 0 \in Nat
    BY Constants DEF QuotaInit
  <2> HIDE DEF Chances
  <2>2. Chances(d) \in SUBSET Runs
    BY ChancesAreRuns, Zenon
  <2> QED BY <2>1, <2>2, WithinBudget, Zenon
<1> QED BY <1>1, BudgetStep, TypeInvHolds, PTL DEF QuotaSpec

-----------------------------------------------------------------------------
(* The counter's life                                                      *)

\* A call's TTL lasts to the end of the day it charges, by the clock of its process,
\* though budgetKey and durationUntilNextUTCDay look at that clock one after the
\* other.
CallLasts(r) ==
    pc[r] = "record" => clock(r) + call[r].ttl >= (DayOf(mark[r]) + 1) * DayLength

\* A counter lasts to the end of its day by the fastest clock.
CounterKept(d) ==
    spent[d] > 0 => now + left[d] + MaxSkew >= (d + 1) * DayLength

LastInv == /\ \A r \in Req : CallLasts(r)
           /\ \A d \in Days : CounterKept(d)

\* The end of a day is a time, and it is not before that of an earlier day.
LEMMA EndOfDay ==
    ASSUME NEW a \in Nat, NEW b \in Nat, a <= b
    PROVE  /\ (a + 1) * DayLength \in Nat /\ (b + 1) * DayLength \in Nat
           /\ (a + 1) * DayLength <= (b + 1) * DayLength
  BY Constants

\* A request that moves, with its call the same or over, leaves the TTLs of calls.
LEMMA CallsLast ==
    ASSUME TypeInv, LastInv, NEW r \in Req, NEW from, NEW to, NEW m, Goto(r, from, to, m),
           \A q \in Req : q # r => call'[q] = call[q], CallLasts(r)'
    PROVE  \A q \in Req : CallLasts(q)'
<1> SUFFICES ASSUME NEW q \in Req, q # r PROVE CallLasts(q)'
  OBVIOUS
<1>1. /\ clock(q)' = clock(q) /\ pc'[q] = pc[q] /\ mark'[q] = mark[q]
      /\ call'[q] = call[q]
  BY OneMoves, Zenon DEF TypeInv
<1> QED BY <1>1, Zenon DEF LastInv, CallLasts, DayOf

\* A step that leaves the counters and, but for one request, the calls.
LEMMA LastInvKept ==
    ASSUME TypeInv, LastInv, NEW r \in Req, NEW from, NEW to, NEW m, Goto(r, from, to, m),
           \A q \in Req : q # r => call'[q] = call[q], CallLasts(r)',
           UNCHANGED <<spent, left>>
    PROVE  LastInv'
<1>1. \A q \in Req : CallLasts(q)'
  BY CallsLast, Zenon
<1>2. now' = now
  BY Zenon DEF Goto
<1>3. \A d \in Days : CounterKept(d)'
  BY <1>2, Zenon DEF LastInv, CounterKept
<1> QED BY <1>1, <1>3, Zenon DEF LastInv

\* LastInv is an invariant of the quotas.
LEMMA LastInvHolds == QuotaSpec => []LastInv
<1>1. QuotaInit => LastInv
  BY DEF QuotaInit, LastInv, CallLasts, CounterKept
<1>2. TypeInv /\ TypeInv' /\ LastInv /\ [QuotaNext]_quotaVars => LastInv'
  <2> SUFFICES ASSUME TypeInv, TypeInv', LastInv, [QuotaNext]_quotaVars PROVE LastInv'
    OBVIOUS
  <2>0. QuotaTypeOK /\ QuotaTypeOK' /\ call \in [Req -> Calls] /\ now \in Nat
    BY Constants DEF TypeInv, QuotaTypeOK
  <2>a. ASSUME NEW r \in Req, NEW from, NEW to, NEW m, Goto(r, from, to, m), to # "record",
               \A q \in Req : q # r => call'[q] = call[q], UNCHANGED <<spent, left>>
        PROVE  LastInv'
    <3>0. pc'[r] # "record"
      BY <2>0, <2>a, OneMoves
    <3>1. CallLasts(r)'
      BY <3>0, Zenon DEF CallLasts
    <3> QED BY <2>a, <3>1, LastInvKept, Zenon
  <2>1. ASSUME NEW r \in Req, FormCheckKey(r) \/ CheckBudget(r) \/ BudgetRefused(r)
                              \/ Stamp(r) \/ AdmitRate(r) \/ Refuse(r) \/ FormKey(r)
        PROVE  LastInv'
    <3>1. call' = call /\ UNCHANGED <<spent, left>>
      BY <2>1, Zenon DEF FormCheckKey, CheckBudget, BudgetRefused, Stamp, AdmitRate, Refuse,
                  FormKey, budgetVars
    <3>2. \/ Goto(r, "idle", "look", clock(r)) \/ Goto(r, "look", "checked", 0)
          \/ Goto(r, "look", "idle", 0) \/ Goto(r, "checked", "sent", clock(r))
          \/ Goto(r, "sent", "running", 0) \/ Goto(r, "sent", "idle", 0)
          \/ Goto(r, "running", "keyed", clock(r))
      BY <2>1, Zenon DEF FormCheckKey, CheckBudget, BudgetRefused, Stamp, AdmitRate, Refuse, FormKey
    <3> QED BY <2>a, <3>1, <3>2, Zenon
  <2>2. ASSUME NEW r \in Req, Forget(r) PROVE LastInv'
    <3>1. PICK from \in {"running", "keyed", "record"} : Goto(r, from, "idle", 0)
      BY <2>2, Zenon DEF Forget
    <3>2. UNCHANGED <<spent, left>> /\ \A q \in Req : q # r => call'[q] = call[q]
      BY <2>0, <2>2, Zenon DEF Forget, budgetVars
    <3> QED BY <2>a, <3>1, <3>2, Zenon
  <2>3. ASSUME NEW r \in Req, FormTTL(r) PROVE LastInv'
    <3>0. Goto(r, "keyed", "record", mark[r]) /\ UNCHANGED <<spent, left>>
      BY <2>3 DEF FormTTL, budgetVars
    <3>1. PICK n \in 1..MaxTokens :
             call' = [call EXCEPT ![r] = [ttl |-> durationUntilNextUTCDay(clock(r)),
                                          tokens |-> n, runs |-> 0]]
      BY <2>3, Zenon DEF FormTTL
    <3>2. /\ call'[r].ttl = durationUntilNextUTCDay(clock(r))
          /\ \A q \in Req : q # r => call'[q] = call[q]
      BY <2>0, <3>1, Zenon
    <3>3. mark'[r] = mark[r] /\ clock(r)' = clock(r)
      BY <2>0, <3>0, OneMoves, Zenon
    <3>4. /\ clock(r) \in Nat /\ DayOf(clock(r)) \in Nat /\ DayOf(mark[r]) \in Nat
          /\ DayOf(mark[r]) <= DayOf(clock(r))
      BY <2>0, ClockIsStamp, Zenon
    <3>5. clock(r) + durationUntilNextUTCDay(clock(r)) = (DayOf(clock(r)) + 1) * DayLength
      BY <3>4, UntilMidnight, Zenon
    <3>6. /\ (DayOf(mark[r]) + 1) * DayLength <= (DayOf(clock(r)) + 1) * DayLength
          /\ (DayOf(mark[r]) + 1) * DayLength \in Nat
      BY <3>4, EndOfDay, Zenon
    <3>7. clock(r)' + call'[r].ttl >= (DayOf(mark'[r]) + 1) * DayLength
      BY <3>2, <3>3, <3>5, <3>6, Zenon
    <3>8. CallLasts(r)'
      BY <3>7, Zenon DEF CallLasts, DayOf
    <3> QED BY <3>0, <3>2, <3>8, LastInvKept, Zenon
  <2>4. ASSUME NEW r \in Req, RecordTokens(r) PROVE LastInv'
    <3> DEFINE e == DayOf(mark[r])
    <3>0. call[r] \in Calls /\ call[r].ttl \in Nat /\ pc[r] = "record"
      BY <2>0, <2>4, Constants DEF RecordTokens, Goto, Calls
    <3>1. now + ahead[r] + call[r].ttl >= (e + 1) * DayLength
      BY <3>0, Zenon DEF LastInv, CallLasts, clock
    <3>2. PICK to \in {"idle", "record"}, m \in {0, mark[r]} :
            /\ Goto(r, "record", to, m)
            /\ to = "record" => m = mark[r] /\ call'[r].ttl = call[r].ttl
            /\ \A q \in Req : q # r => call'[q] = call[q]
      <4>1. CASE Goto(r, "record", "idle", 0) /\ call' = [call EXCEPT ![r] = NoCall]
        BY <2>0, <4>1, Zenon
      <4>2. CASE /\ Goto(r, "record", "record", mark[r])
                 /\ call' = [call EXCEPT ![r].runs = @ + 1]
        <5>1. call'[r] = [call[r] EXCEPT !.runs = @ + 1]
          BY <2>0, <4>2, Zenon
        <5>2. call'[r].ttl = call[r].ttl
          BY <3>0, <5>1, Zenon DEF Calls
        <5> QED BY <2>0, <4>2, <5>2, Zenon
      <4> QED BY <2>4, <4>1, <4>2, Zenon DEF RecordTokens
    <3>3. /\ now' = now /\ pc'[r] = to /\ clock(r)' = clock(r)
          /\ mark'[r] = m /\ DayOf(mark[r])' = DayOf(m)
      BY <2>0, <3>2, OneMoves, Zenon DEF DayOf
    <3>4. CallLasts(r)'
      BY <3>0, <3>2, <3>3, Zenon DEF LastInv, CallLasts
    <3>5. \A q \in Req : CallLasts(q)'
      BY <3>2, <3>4, CallsLast, Zenon
    <3>6. ASSUME NEW d \in Days PROVE CounterKept(d)'
      <4>1. /\ spent' = [spent EXCEPT ![e] = spent[e] + call[r].tokens]
            /\ left' = [left EXCEPT ![e] = call[r].ttl]
            /\ spent \in [Days -> Nat] /\ left \in [Days -> 0..DayLength]
        BY <2>0, <2>4, Zenon DEF RecordTokens, QuotaTypeOK
      <4>2. CASE d = e
        <5>1. left'[d] = call[r].ttl
          BY <4>1, <4>2, Zenon
        <5>2. ahead[r] \in Nat /\ ahead[r] <= MaxSkew /\ (e + 1) * DayLength \in Nat
          BY <2>0, ClockIsStamp, EndOfDay, Constants
        <5> HIDE DEF e
        <5>3. now' + left'[d] + MaxSkew >= (d + 1) * DayLength
          BY <2>0, <3>0, <3>1, <3>3, <4>2, <5>1, <5>2, Constants
        <5> QED BY <5>3, Zenon DEF CounterKept
      <4>3. CASE d # e
        <5>1. left'[d] = left[d] /\ spent'[d] = spent[d]
          BY <4>1, <4>3, Zenon
        <5> QED BY <3>3, <5>1, Zenon DEF LastInv, CounterKept
      <4> QED BY <4>2, <4>3, Zenon
    <3> QED BY <3>5, <3>6, Zenon DEF LastInv
  <2>5. CASE TimePasses
    <3>1. UNCHANGED <<ahead, pc, mark, call>> /\ now' = now + 1
      BY <2>5, Zenon DEF TimePasses
    <3>2. ASSUME NEW r \in Req, pc'[r] = "record"
          PROVE  clock(r)' + call'[r].ttl >= (DayOf(mark'[r]) + 1) * DayLength
      <4>1. clock(r) + call[r].ttl >= (DayOf(mark[r]) + 1) * DayLength
        BY <3>1, <3>2, Zenon DEF LastInv, CallLasts
      <4>2. call[r].ttl \in Nat
        BY <2>0, Constants DEF Calls
      <4>3. clock(r) \in Nat /\ clock(r)' = clock(r) + 1
        <5>1. clock(r) \in Nat /\ ahead[r] \in Nat
          BY <2>0, ClockIsStamp, Constants
        <5> QED BY <2>0, <3>1, <5>1 DEF clock
      <4>4. (DayOf(mark[r]) + 1) * DayLength \in Nat
        BY <2>0, ClockIsStamp, EndOfDay, Zenon
      <4> QED BY <3>1, <4>1, <4>2, <4>3, <4>4
    <3>3. \A r \in Req : CallLasts(r)'
      BY <3>2, Zenon DEF CallLasts, DayOf
    <3>4. ASSUME NEW d \in Days PROVE CounterKept(d)'
      <4>1. /\ left'[d] = IF left[d] > 0 THEN left[d] - 1 ELSE 0
            /\ spent'[d] = IF left[d] > 1 THEN spent[d] ELSE 0
            /\ left[d] \in Nat
        BY <2>0, <2>5, Constants DEF TimePasses, QuotaTypeOK
      <4>2. CASE left[d] > 1
        <5>1. spent'[d] = spent[d] /\ now' + left'[d] = now + left[d]
          BY <2>0, <3>1, <4>1, <4>2
        <5> QED BY <5>1, Zenon DEF LastInv, CounterKept
      <4>3. CASE ~(left[d] > 1)
        BY <4>1, <4>3 DEF CounterKept
      <4> QED BY <4>2, <4>3, Zenon
    <3> QED BY <3>3, <3>4, Zenon DEF LastInv
  <2>6. CASE UNCHANGED quotaVars
    BY <2>6, Zenon DEF quotaVars, budgetVars, LastInv, CallLasts, CounterKept, clock, DayOf
  <2> QED BY <2>1, <2>2, <2>3, <2>4, <2>5, <2>6, Zenon DEF QuotaNext
<1> QED BY <1>1, <1>2, TypeInvHolds, PTL DEF QuotaSpec

\* The counter of a day does not go down before that day is over on the fastest
\* clock, whichever processes set its PEXPIRE, in whatever order, and however often
\* their scripts are sent (recordBudgetScript, durationUntilNextUTCDay).
THEOREM CounterLasts == QuotaSpec => CountedAllDay
<1>1. ASSUME TypeInv, LastInv, [QuotaNext]_quotaVars, NEW d \in Days, spent'[d] < spent[d]
      PROVE  now' + MaxSkew >= (d + 1) * DayLength
  <2>0. /\ now \in Nat /\ MaxSkew \in Nat /\ spent \in [Days -> Nat]
        /\ left[d] \in Nat /\ spent[d] \in Nat /\ d \in Nat
    <3>1. d \in Nat
      BY DayMonotonic, Constants DEF Days
    <3> QED BY <1>1, <3>1, Constants DEF TypeInv, QuotaTypeOK
  <2>1. TimePasses
    <3>1. spent' # spent
      BY <1>1, <2>0
    <3>2. ASSUME NEW r \in Req, RecordTokens(r) PROVE FALSE
      <4>1. call[r].tokens \in Nat
        BY <1>1, Constants DEF TypeInv, QuotaTypeOK, Calls
      <4>2. spent'[d] \in {spent[d], spent[d] + call[r].tokens}
        BY <2>0, <3>2, Zenon DEF RecordTokens
      <4> QED BY <1>1, <2>0, <4>1, <4>2
    <3> QED
      BY <1>1, <3>1, <3>2, Zenon
      DEF QuotaNext, quotaVars, budgetVars, FormCheckKey, CheckBudget, BudgetRefused,
          Stamp, AdmitRate, Refuse, Forget, FormKey, FormTTL
  <2>2. now' = now + 1 /\ left[d] <= 1
    <3>1. now' = now + 1
      BY <2>1, Zenon DEF TimePasses
    <3>2. spent'[d] = IF left[d] > 1 THEN spent[d] ELSE 0
      BY <1>1, <2>1, Zenon DEF TimePasses
    <3> QED BY <1>1, <2>0, <3>1, <3>2
  <2>3. spent[d] > 0
    <3>1. spent'[d] \in {spent[d], 0}
      BY <1>1, <2>1, Zenon DEF TimePasses
    <3> QED BY <1>1, <2>0, <3>1
  <2>4. now + left[d] + MaxSkew >= (d + 1) * DayLength /\ (d + 1) * DayLength \in Nat
    BY <1>1, <2>0, <2>3, EndOfDay DEF LastInv, CounterKept
  <2> QED BY <2>0, <2>2, <2>4
<1>2. TypeInv /\ LastInv /\ [QuotaNext]_quotaVars
        => [\A d \in Days : spent'[d] < spent[d]
               => now' + MaxSkew >= (d + 1) * DayLength]_quotaVars
  BY <1>1
<1> QED BY <1>2, TypeInvHolds, LastInvHolds, PTL DEF QuotaSpec, CountedAllDay

=============================================================================
