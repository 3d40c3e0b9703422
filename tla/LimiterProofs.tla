---------------------------- MODULE LimiterProofs ----------------------------
(***************************************************************************)
(* RedisLimiter for any number of goroutines, any configuration and any    *)
(* interleaving of its calls: the probe always has an owner, and the slots *)
(* behave as module Inflight says, so that what is proved of Inflight      *)
(* holds of the limiter.                                                   *)
(***************************************************************************)
EXTENDS Limiter, CircuitProofs

\* The part of the state that the theorems are about: the breaker is one that its
\* methods can leave behind, and every goroutine is at some step.
Shape ==
    /\ cb \in Breaker
    /\ Len(cb.events) <= Window
    /\ cb.probeActive => cb.state = CircuitHalfOpen
    /\ pc \in [Req -> Pc]
    /\ held \in [Req -> 0..InflightLease]

IInv == Shape /\ ProbeHasOwner

\* A new limiter has a closed breaker and no goroutine inside.
LEMMA InitIInv == Init => IInv
<1> SUFFICES ASSUME Init PROVE IInv
  OBVIOUS
<1>1. cb \in Breaker /\ cb.events = <<>> /\ ~cb.probeActive
  BY NewBreakerType DEF Init, NewBreaker
<1>2. Len(cb.events) <= Window
  BY <1>1, CircuitConfig
<1>3. pc \in [Req -> Pc] /\ held \in [Req -> 0..InflightLease]
  BY LeaseConfig DEF Init, Pc
<1> QED BY <1>1, <1>2, <1>3 DEF IInv, Shape, ProbeHasOwner

\* A step that leaves the breaker alone and moves a goroutine from one step to
\* another preserves the invariant if it does not take an owner away.
LEMMA MovePreserves ==
    ASSUME IInv, NEW r \in Req, NEW from, NEW to \in Pc, Goto(r, from, to),
           cb' = cb, held' \in [Req -> 0..InflightLease],
           from \in Unresolved => to \in Unresolved
    PROVE  IInv'
<1>1. pc' \in [Req -> Pc]
  BY DEF IInv, Shape, Goto
<1>2. Shape'
  BY <1>1 DEF IInv, Shape
<1>3. \A s \in Req : pc[s] \in Unresolved => pc'[s] \in Unresolved
  BY DEF IInv, Shape, Goto
<1>4. ProbeHasOwner'
  BY <1>3 DEF IInv, ProbeHasOwner
<1> QED BY <1>2, <1>4 DEF IInv

\* A breaker call that leaves no probe behind preserves the invariant.
LEMMA ResolvePreserves ==
    ASSUME IInv, NEW r \in Req, NEW from, NEW to \in Pc, Goto(r, from, to),
           cb' \in Breaker, Len(cb'.events) <= Window, ~cb'.probeActive,
           held' = held
    PROVE  IInv'
<1>1. pc' \in [Req -> Pc]
  BY DEF IInv, Shape, Goto
<1> QED BY <1>1 DEF IInv, Shape, ProbeHasOwner

\* cancelProbe and record leave no probe behind.
LEMMA BreakerResolved ==
    ASSUME IInv
    PROVE  /\ LET b == AfterCancelProbe(cb)
              IN  b \in Breaker /\ Len(b.events) <= Window /\ ~b.probeActive
           /\ \A success \in BOOLEAN :
                 LET b == AfterRecord(cb, success)
                 IN  b \in Breaker /\ Len(b.events) <= Window /\ ~b.probeActive
<1>1. cb \in Breaker /\ Len(cb.events) <= Window
      /\ (cb.probeActive => cb.state = CircuitHalfOpen)
  BY DEF IInv, Shape
<1>2. AfterCancelProbe(cb) \in Breaker /\ AfterCancelProbe(cb).events = cb.events
      /\ ~AfterCancelProbe(cb).probeActive
  BY <1>1, AfterCancelProbeType
<1>3. ASSUME NEW success \in BOOLEAN
      PROVE  LET b == AfterRecord(cb, success)
             IN  b \in Breaker /\ Len(b.events) <= Window /\ ~b.probeActive
  BY <1>1, AfterRecordType
<1> QED BY <1>1, <1>2, <1>3

\* A goroutine that allow() admits owns the probe; one that it refuses leaves the
\* breaker, and so the owner, alone.
LEMMA AllowCircuitIInv ==
    ASSUME IInv, NEW r \in Req, AllowCircuit(r)
    PROVE  IInv'
<1>1. cb \in Breaker /\ cb' = AfterAllow(cb) /\ held' = held
  BY DEF IInv, Shape, AllowCircuit, slots
<1>2. CASE Allows(cb)
  <2>1. Goto(r, "allow", "acquire")
    BY <1>2 DEF AllowCircuit
  <2>2. pc' \in [Req -> Pc] /\ pc'[r] = "acquire"
    BY <2>1 DEF IInv, Shape, Goto, Pc
  <2>3. cb' \in Breaker /\ cb'.events = cb.events
    BY <1>1, AfterAllowType
  <2>4. cb'.probeActive => cb'.state = CircuitHalfOpen
    BY <1>1, <1>2, AfterAllowType DEF IInv, Shape
  <2>5. Shape'
    BY <1>1, <2>2, <2>3, <2>4 DEF IInv, Shape
  <2> QED BY <2>2, <2>5 DEF IInv, ProbeHasOwner, Unresolved
<1>3. CASE ~Allows(cb)
  <2>1. cb' = cb
    BY <1>1, <1>3, AfterAllowType
  <2>2. Goto(r, "allow", "idle") /\ "idle" \in Pc /\ "allow" \notin Unresolved
    BY <1>3 DEF AllowCircuit, Pc, Unresolved
  <2>3. held' \in [Req -> 0..InflightLease]
    BY <1>1 DEF IInv, Shape
  <2> QED BY <2>1, <2>2, <2>3, MovePreserves
<1> QED BY <1>2, <1>3

\* The steps of Allow.
LEMMA AllowStepIInv ==
    ASSUME IInv, NEW r \in Req, AllowStep(r)
    PROVE  IInv'
<1> USE DEF Pc, Unresolved
<1>0. held \in [Req -> 0..InflightLease]
  BY DEF IInv, Shape
<1>1. CASE PassReady(r)
  BY <1>0, <1>1, MovePreserves DEF PassReady, slots
<1>2. CASE CheckBudget(r)
  BY <1>0, <1>2, MovePreserves DEF CheckBudget, slots
<1>3. CASE AllowCircuit(r)
  BY <1>3, AllowCircuitIInv
<1>4. CASE AcquireInflight(r)
  <2>1. held' \in [Req -> 0..InflightLease]
    BY <1>0, <1>4, LeaseConfig DEF AcquireInflight
  <2> QED BY <1>4, <2>1, MovePreserves DEF AcquireInflight
<1>5. CASE AcquireRefused(r)
  BY <1>0, <1>5, MovePreserves DEF AcquireRefused
<1>6. CASE AllowRate(r)
  BY <1>0, <1>6, MovePreserves DEF AllowRate, slots
<1>7. CASE DropSlot(r)
  BY <1>0, <1>7, MovePreserves DEF DropSlot, ReleaseInflight
<1>8. CASE CancelProbe(r)
  BY <1>8, BreakerResolved, ResolvePreserves DEF CancelProbe, slots
<1> QED BY <1>1, <1>2, <1>3, <1>4, <1>5, <1>6, <1>7, <1>8 DEF AllowStep

\* The steps of Record, RecordFailure and Release.
LEMMA SettleStepIInv ==
    ASSUME IInv, NEW r \in Req, SettleStep(r)
    PROVE  IInv'
<1> USE DEF Pc, Unresolved
<1>0. held \in [Req -> 0..InflightLease]
  BY DEF IInv, Shape
<1>1. CASE Record(r)
  BY <1>0, <1>1, MovePreserves DEF Record, ReleaseInflight
<1>2. CASE RecordSuccess(r)
  BY <1>2, BreakerResolved, ResolvePreserves, Zenon DEF RecordSuccess, slots
<1>3. CASE RecordTokens(r)
  BY <1>0, <1>3, MovePreserves DEF RecordTokens, slots
<1>4. CASE RecordFailure(r)
  BY <1>0, <1>4, MovePreserves DEF RecordFailure, ReleaseInflight
<1>5. CASE RecordFailed(r)
  BY <1>5, BreakerResolved, ResolvePreserves, Zenon DEF RecordFailed, slots
<1>6. CASE Release(r)
  BY <1>6, BreakerResolved, ResolvePreserves DEF Release, slots
<1>7. CASE ReleaseSlot(r)
  BY <1>0, <1>7, MovePreserves DEF ReleaseSlot, ReleaseInflight
<1> QED BY <1>1, <1>2, <1>3, <1>4, <1>5, <1>6, <1>7 DEF SettleStep

\* Every step preserves the invariant.
LEMMA NextIInv == IInv /\ [Next]_vars => IInv'
<1> SUFFICES ASSUME IInv, [Next]_vars PROVE IInv'
  OBVIOUS
<1>1. ASSUME NEW r \in Req, AllowStep(r) \/ SettleStep(r) PROVE IInv'
  BY <1>1, AllowStepIInv, SettleStepIInv
<1>2. CASE Restart
  <2>1. cb' \in Breaker /\ cb'.events = <<>> /\ ~cb'.probeActive
    BY <1>2, NewBreakerType DEF Restart, NewBreaker
  <2>2. Len(cb'.events) <= Window
    BY <2>1, CircuitConfig
  <2>3. pc' \in [Req -> Pc] /\ held' = held
    BY <1>2 DEF Restart, Pc
  <2> QED BY <2>1, <2>2, <2>3 DEF IInv, Shape, ProbeHasOwner
<1>3. CASE Tick
  <2>1. /\ cb' \in Breaker
        /\ cb'.state = cb.state /\ cb'.probeActive = cb.probeActive /\ cb'.events = cb.events
    BY <1>3, AgedType DEF Tick, IInv, Shape
  <2>2. held' \in [Req -> 0..InflightLease]
    <3>1. \A r \in holding \ Overdue : held[r] + 1 \in 0..InflightLease
      BY LeaseConfig DEF IInv, Shape, holding, Overdue
    <3> QED BY <1>3, <3>1 DEF Tick, IInv, Shape
  <2>3. pc' = pc
    BY <1>3 DEF Tick
  <2> QED BY <2>1, <2>2, <2>3 DEF IInv, Shape, ProbeHasOwner
<1>4. CASE RerunRelease \/ UNCHANGED vars
  BY <1>4 DEF RerunRelease, vars, IInv, Shape, ProbeHasOwner
<1> QED BY <1>1, <1>2, <1>3, <1>4 DEF Next

\* No exit of Allow and no settling call strands the breaker's probe, however the
\* calls of any number of goroutines interleave with each other, with Redis
\* failures and with restarts.
THEOREM ProbeNeverStranded == Spec => []ProbeHasOwner
<1>1. IInv => ProbeHasOwner
  BY DEF IInv
<1> QED BY <1>1, InitIInv, NextIInv, PTL DEF Spec

-----------------------------------------------------------------------------
(* The slots                                                               *)

\* Both modules run the same scripts.
LEMMA SameScripts ==
    /\ Slots!Empty = Empty
    /\ \A z : /\ Slots!Full(z) <=> Full(z)
             /\ Slots!Purged(z) = Purged(z)
             /\ Slots!Acquired(z) = Acquired(z)
             /\ Slots!Released(z) = Released(z)
             /\ Slots!Elapsed(z) = Elapsed(z)
             /\ \A n : Slots!OneStray(z, n) = OneStray(z, n)
    /\ Slots!Overdue = Overdue
<1>1. Slots!Empty = Empty
  BY DEF Slots!Empty, Empty
<1>2. ASSUME NEW z PROVE Slots!Purged(z) = Purged(z)
  BY DEF Slots!Purged, Purged
<1>3. ASSUME NEW z PROVE Slots!Full(z) <=> Full(z)
  BY <1>2, Zenon DEF Slots!Full, Full, Slots!Cardinality, Cardinality
<1>4. ASSUME NEW z PROVE Slots!Acquired(z) = Acquired(z)
  BY <1>2 DEF Slots!Acquired, Acquired, Slots!Added, Added
<1>5. ASSUME NEW z PROVE Slots!Released(z) = Released(z)
  BY DEF Slots!Released, Released, Slots!Without, Without, Slots!Oldest, Oldest,
         Slots!Purged, Purged
<1>6. ASSUME NEW z PROVE Slots!Elapsed(z) = Elapsed(z)
  BY DEF Slots!Elapsed, Elapsed
<1>7. ASSUME NEW z, NEW n PROVE Slots!OneStray(z, n) = OneStray(z, n)
  BY <1>2 DEF Slots!OneStray, OneStray, Slots!Cardinality, Cardinality
<1>8. Slots!Overdue = Overdue
  BY DEF Slots!Overdue, Overdue
<1> QED BY <1>1, <1>2, <1>3, <1>4, <1>5, <1>6, <1>7, <1>8

\* Every step of the limiter is a step of the semaphore protocol, or none of its
\* state changes.
LEMMA StepRefines ==
    ASSUME pc \in [Req -> Pc], [Next]_vars
    PROVE  [Slots!Next]_<<leases, holding, held, resent, strays>>
<1> DEFINE sv == <<leases, holding, held, resent, strays>>
<1>1. ASSUME NEW r \in Req, NEW from, NEW to, Goto(r, from, to)
      PROVE  /\ r \in holding <=> from \in Holding
             /\ to \in Holding => holding' = holding \cup {r}
             /\ to \notin Holding => holding' = holding \ {r}
  BY <1>1 DEF Goto, holding
<1>2. ASSUME NEW r \in Req, NEW from, NEW to, Goto(r, from, to),
             from \in Holding <=> to \in Holding, UNCHANGED slots
      PROVE  UNCHANGED sv
  BY <1>1, <1>2 DEF slots
<1>3. ASSUME NEW r \in Req, NEW from \in Holding, NEW to, to \notin Holding,
             ReleaseInflight(r, from, to)
      PROVE  Slots!Next
  <2>1. /\ r \in holding /\ holding' = holding \ {r} /\ held' = held
        /\ resent' \in resent..MaxResent
    BY <1>1, <1>3 DEF ReleaseInflight
  <2>2. CASE /\ leases' \in Released(leases)
             /\ strays' = IF r \in Overdue THEN OneStray(leases, strays) ELSE strays
    <3>1. Slots!Release(r)
      BY <2>1, <2>2, SameScripts DEF Slots!Release
    <3> QED BY <3>1 DEF Slots!Next
  <2>3. CASE leases' = leases /\ strays' = strays
    <3>1. {r} \in SUBSET holding /\ Slots!Abandon({r})
      BY <2>1, <2>3 DEF Slots!Abandon
    <3> QED BY <3>1 DEF Slots!Next
  <2> QED BY <1>3, <2>2, <2>3 DEF ReleaseInflight
<1>4. ASSUME NEW r \in Req, AllowStep(r) PROVE [Slots!Next]_sv
  <2> USE DEF Holding
  <2>1. CASE PassReady(r)
    BY <1>2, <2>1 DEF PassReady
  <2>2. CASE CheckBudget(r)
    BY <1>2, <2>2 DEF CheckBudget
  <2>3. CASE AllowCircuit(r)
    BY <1>2, <2>3 DEF AllowCircuit
  <2>4. CASE AcquireInflight(r)
    <3>1. r \notin holding /\ holding' = holding \cup {r}
      BY <1>1, <2>4 DEF AcquireInflight
    <3>2. Slots!Acquire(r)
      BY <2>4, <3>1, SameScripts DEF AcquireInflight, Slots!Acquire
    <3> QED BY <3>2 DEF Slots!Next
  <2>5. CASE AcquireRefused(r)
    <3>1. /\ r \notin holding /\ holding' = holding
          /\ held' = held /\ resent' = resent /\ strays' = strays
      BY <1>1, <2>5 DEF AcquireRefused
    <3>2. CASE Full(leases) /\ leases' = Purged(leases)
      BY <3>1, <3>2, SameScripts DEF Slots!Next, Slots!AcquireFull
    <3>3. CASE ~Full(leases) /\ leases' \in Acquired(leases)
      BY <3>1, <3>3, SameScripts DEF Slots!Next, Slots!AcquireLost
    <3> QED BY <2>5, <3>1, <3>2, <3>3 DEF AcquireRefused
  <2>6. CASE AllowRate(r)
    BY <1>2, <2>6 DEF AllowRate
  <2>7. CASE DropSlot(r)
    BY <1>3, <2>7 DEF DropSlot
  <2>8. CASE CancelProbe(r)
    BY <1>2, <2>8 DEF CancelProbe
  <2> QED BY <1>4, <2>1, <2>2, <2>3, <2>4, <2>5, <2>6, <2>7, <2>8 DEF AllowStep
<1>5. ASSUME NEW r \in Req, SettleStep(r) PROVE [Slots!Next]_sv
  <2> USE DEF Holding
  <2>1. CASE Record(r)
    BY <1>3, <2>1 DEF Record
  <2>2. CASE RecordSuccess(r)
    BY <1>2, <2>2 DEF RecordSuccess
  <2>3. CASE RecordTokens(r)
    BY <1>2, <2>3 DEF RecordTokens
  <2>4. CASE RecordFailure(r)
    BY <1>3, <2>4 DEF RecordFailure
  <2>5. CASE RecordFailed(r)
    BY <1>2, <2>5 DEF RecordFailed
  <2>6. CASE Release(r)
    BY <1>2, <2>6 DEF Release
  <2>7. CASE ReleaseSlot(r)
    BY <1>3, <2>7 DEF ReleaseSlot
  <2> QED BY <1>5, <2>1, <2>2, <2>3, <2>4, <2>5, <2>6, <2>7 DEF SettleStep
<1>6. CASE Restart
  <2>1. /\ holding' = {} /\ leases' = leases /\ held' = held /\ strays' = strays
        /\ resent' \in IF holding = {} THEN {resent} ELSE resent..MaxResent
    BY <1>6 DEF Restart, holding, Holding
  <2>2. CASE holding = {}
    BY <2>1, <2>2
  <2>3. CASE holding # {}
    <3>1. holding \in SUBSET holding /\ Slots!Abandon(holding)
      BY <2>1, <2>3 DEF Slots!Abandon
    <3> QED BY <3>1 DEF Slots!Next
  <2> QED BY <2>2, <2>3
<1>7. CASE Tick
  <2>1. holding' = holding
    BY <1>7 DEF Tick, holding
  <2>2. Slots!Tick
    BY <1>7, <2>1, SameScripts DEF Tick, Slots!Tick
  <2> QED BY <2>2 DEF Slots!Next
<1>8. CASE RerunRelease
  <2>1. holding' = holding
    BY <1>8 DEF RerunRelease, holding
  <2>2. Slots!Rerun
    BY <1>8, <2>1, SameScripts DEF RerunRelease, Slots!Rerun
  <2> QED BY <2>2 DEF Slots!Next
<1>9. CASE UNCHANGED vars
  BY <1>9 DEF vars, holding
<1> QED BY <1>4, <1>5, <1>6, <1>7, <1>8, <1>9 DEF Next

\* The limiter implements the semaphore protocol of module Inflight: whatever the
\* breaker, the budget and the rate do between the two Redis scripts, a slot is
\* taken, paid back or abandoned as that module says.
THEOREM LimiterImplementsInflight == Spec => ImplementsInflight
<1>1. Init => Slots!Init
  BY SameScripts DEF Init, Slots!Init, holding, Holding
<1>2. IInv => pc \in [Req -> Pc]
  BY DEF IInv, Shape
<1>3. IInv /\ [Next]_vars => [Slots!Next]_<<leases, holding, held, resent, strays>>
  BY <1>2, StepRefines
<1> QED
  BY <1>1, <1>3, InitIInv, NextIInv, PTL DEF Spec, ImplementsInflight, Slots!Spec, Slots!vars

\* What is proved of the semaphore protocol.
SP == INSTANCE InflightProofs WITH holding <- holding

\* The limiter implements that instance of the protocol, too.
LEMMA SlotsProtocol == Spec => SP!Spec
<1>1. Slots!Init => SP!Init
  BY Zenon DEF Slots!Init, SP!Init, Slots!Empty, SP!Empty
<1>2. [Slots!Next]_Slots!vars => [SP!Next]_SP!vars
  BY ZenonT(30) DEF Slots!Next, SP!Next, Slots!vars, SP!vars, Slots!Acquire, SP!Acquire,
         Slots!AcquireFull, SP!AcquireFull, Slots!AcquireLost, SP!AcquireLost,
         Slots!Release, SP!Release, Slots!Abandon, SP!Abandon, Slots!Tick, SP!Tick,
         Slots!Rerun, SP!Rerun, Slots!OneStray, SP!OneStray, Slots!Overdue, SP!Overdue,
         Slots!Full, SP!Full, Slots!Purged, SP!Purged, Slots!Acquired, SP!Acquired,
         Slots!Added, SP!Added, Slots!Released, SP!Released, Slots!Without,
         SP!Without, Slots!Oldest, SP!Oldest, Slots!Elapsed, SP!Elapsed,
         Slots!Cardinality, SP!Cardinality
<1> QED
  BY <1>1, <1>2, LimiterImplementsInflight, PTL DEF ImplementsInflight, Slots!Spec, SP!Spec

\* The goroutines between a successful reservation and the release that pays it back
\* exceed MaxInflight by no more than the strays and those that have outlived their
\* lease.
THEOREM LimiterNeverOvercommits ==
    Spec => [](Cardinality(holding) <= MaxInflight + strays + Cardinality(Overdue))
<1>1. SP!Spec => []SP!NoOvercommit
  BY LeaseConfig, SP!NeverOvercommitted DEF SP!IsFiniteSet, IsFiniteSet
<1>2. SP!NoOvercommit => Cardinality(holding) <= MaxInflight + strays + Cardinality(Overdue)
  BY DEF SP!NoOvercommit, SP!Cardinality, Cardinality, SP!Overdue, Overdue
<1> QED BY <1>1, <1>2, SlotsProtocol, PTL

\* Type correctness of the limiter, with the bounds on the breaker's window and on
\* the lease set.
THEOREM TypeCorrect == Spec => []TypeOK
<1>1. SP!Spec => [](SP!TypeOK /\ SP!Covered)
  BY LeaseConfig, SP!HoldersAreCovered DEF SP!IsFiniteSet, IsFiniteSet
<1>2. IInv /\ SP!TypeOK => TypeOK
  <2> SUFFICES ASSUME IInv, SP!TypeOK PROVE TypeOK
    OBVIOUS
  <2>1. leases \in Zset
    BY DEF SP!TypeOK, SP!Zset, Zset
  <2>2. Cardinality(DOMAIN leases) <= MaxInflight /\ strays \in 0..Cardinality(Req)
    BY DEF SP!TypeOK, SP!Cardinality, Cardinality
  <2>3. resent \in 0..MaxResent
    BY DEF SP!TypeOK
  <2> QED BY <2>1, <2>2, <2>3 DEF IInv, Shape, TypeOK
<1> QED BY <1>1, <1>2, InitIInv, NextIInv, SlotsProtocol, PTL DEF Spec

=============================================================================
