-------------------------------- MODULE Limiter --------------------------------
(***************************************************************************)
(* RedisLimiter of internal/limiter/limiter.go: the breaker of one gateway *)
(* process and the shared in-flight slots behind Allow, Record,            *)
(* RecordFailure and Release, called by the process's handler goroutines.  *)
(* Each breaker method and each Redis call is one step, so calls           *)
(* interleave between any two, and the process may die between any two.    *)
(*                                                                         *)
(* Whether the token budget or the player's rate refuses a request is left *)
(* open here: module Quota models those two keys.                          *)
(***************************************************************************)
EXTENDS Circuit, Leases

VARIABLES
    cb,        \* l.circuit
    leases,    \* inflight:upstream
    pc,        \* where a goroutine is inside, or between, the limiter's methods
    held,      \* the age of its own lease, up to InflightLease
    resent,    \* copies of the release script that Redis has yet to run
    strays     \* history: as in module Inflight

slots == <<leases, held, resent, strays>>
vars == <<cb, pc, leases, held, resent, strays>>

Pc == {"idle", "budget", "allow", "acquire", "rate", "drop", "cancel", "admitted",
       "success", "failure", "free", "tokens"}

\* Between a successful acquireInflight and the releaseInflight that pays it back.
Holding == {"rate", "drop", "admitted", "free"}

\* Between a successful circuit.allow() and the breaker call that resolves it.
Unresolved == {"acquire", "rate", "drop", "cancel", "admitted", "success", "failure"}

\* Every request is at a step of Allow or of a settling call, the breaker keeps
\* its window and the lease set its limit.
TypeOK ==
    /\ cb \in Breaker
    /\ Len(cb.events) <= Window
    /\ leases \in Zset
    /\ Cardinality(DOMAIN leases) <= MaxInflight
    /\ pc \in [Req -> Pc]
    /\ held \in [Req -> 0..InflightLease]
    /\ resent \in 0..MaxResent
    /\ strays \in 0..Cardinality(Req)

\* The requests that have a slot, and those of them whose own lease has expired.
holding == {r \in Req : pc[r] \in Holding}
Overdue == {r \in holding : held[r] = InflightLease}

Init ==
    /\ cb = NewBreaker
    /\ leases = Empty
    /\ pc = [r \in Req |-> "idle"]
    /\ held = [r \in Req |-> 0]
    /\ resent = 0
    /\ strays = 0

Goto(r, from, to) ==
    /\ pc[r] = from
    /\ pc' = [pc EXCEPT ![r] = to]

-----------------------------------------------------------------------------
(* Allow                                                                   *)

\* circuit.ready() lets the request go on; a refusal changes nothing.
PassReady(r) ==
    /\ Ready(cb)
    /\ Goto(r, "idle", "budget")
    /\ UNCHANGED <<cb, slots>>

\* checkBudget passes, or refuses or fails.
CheckBudget(r) ==
    /\ Goto(r, "budget", "allow") \/ Goto(r, "budget", "idle")
    /\ UNCHANGED <<cb, slots>>

\* circuit.allow(), some time after ready().
AllowCircuit(r) ==
    /\ Goto(r, "allow", IF Allows(cb) THEN "acquire" ELSE "idle")
    /\ cb' = AfterAllow(cb)
    /\ UNCHANGED slots

AcquireInflight(r) ==
    /\ ~Full(leases)
    /\ Goto(r, "acquire", "rate")
    /\ leases' \in Acquired(leases)
    /\ held' = [held EXCEPT ![r] = 0]
    /\ strays' = IF holding = Overdue THEN 0 ELSE strays
    /\ UNCHANGED <<cb, resent>>

\* Seeded fault: a refused reservation returns without cancelProbe.
AcquireRefusedUncancelled(r) ==
    /\ Goto(r, "acquire", "idle")
    /\ UNCHANGED <<cb, slots>>

\* ErrInflightFull, or an error of Redis before the script or after it.
AcquireRefused(r) ==
    /\ Goto(r, "acquire", "cancel")
    /\ \/ Full(leases) /\ leases' = Purged(leases)
       \/ leases' = leases
       \/ ~Full(leases) /\ leases' \in Acquired(leases)
    /\ UNCHANGED <<cb, held, resent, strays>>

AllowRate(r) ==
    /\ Goto(r, "rate", "admitted") \/ Goto(r, "rate", "drop")
    /\ UNCHANGED <<cb, slots>>

\* releaseInflight: the script runs, or an error keeps it from running before the
\* call returns; copies of it may be still to come.
ReleaseInflight(r, from, to) ==
    /\ Goto(r, from, to)
    /\ \/ /\ leases' \in Released(leases)
          /\ strays' = IF r \in Overdue THEN OneStray(leases, strays) ELSE strays
       \/ UNCHANGED <<leases, strays>>
    /\ resent' \in resent..MaxResent
    /\ UNCHANGED <<cb, held>>

\* The rate limit refuses: the slot goes back before the probe.
DropSlot(r) == ReleaseInflight(r, "drop", "cancel")

\* circuit.cancelProbe() at the end of a refused Allow.
CancelProbe(r) ==
    /\ Goto(r, "cancel", "idle")
    /\ cb' = AfterCancelProbe(cb)
    /\ UNCHANGED slots

-----------------------------------------------------------------------------
(* Record, RecordFailure, Release                                          *)

Record(r) == ReleaseInflight(r, "admitted", "success")

RecordSuccess(r) ==
    /\ Goto(r, "success", "tokens")
    /\ cb' = AfterRecord(cb, TRUE)
    /\ UNCHANGED slots

\* Seeded fault: Record gives a slot back twice.
RecordTokensReleasing(r) ==
    /\ Goto(r, "tokens", "idle")
    /\ leases' \in Released(leases)
    /\ UNCHANGED <<cb, held, resent, strays>>

\* recordTokens: the last call of Record.
RecordTokens(r) ==
    /\ Goto(r, "tokens", "idle")
    /\ UNCHANGED <<cb, slots>>

RecordFailure(r) == ReleaseInflight(r, "admitted", "failure")

RecordFailed(r) ==
    /\ Goto(r, "failure", "idle")
    /\ cb' = AfterRecord(cb, FALSE)
    /\ UNCHANGED slots

\* Release cancels the probe first.
Release(r) ==
    /\ Goto(r, "admitted", "free")
    /\ cb' = AfterCancelProbe(cb)
    /\ UNCHANGED slots

ReleaseSlot(r) == ReleaseInflight(r, "free", "idle")

-----------------------------------------------------------------------------

\* A copy of the release script runs, whoever sent it and whatever became of them.
RerunRelease ==
    /\ resent > 0
    /\ resent' = resent - 1
    /\ leases' \in Released(leases)
    /\ strays' = OneStray(leases, strays)
    /\ UNCHANGED <<cb, pc, held>>

\* The process dies, possibly in the middle of a release, and comes back with a new
\* breaker; the leases stay.
Restart ==
    /\ cb' = NewBreaker
    /\ pc' = [r \in Req |-> "idle"]
    /\ resent' \in IF holding = {} THEN {resent} ELSE resent..MaxResent
    /\ UNCHANGED <<leases, held, strays>>

Tick ==
    /\ cb' = Aged(cb)
    /\ leases' = Elapsed(leases)
    /\ held' = [r \in Req |-> IF r \in holding \ Overdue THEN held[r] + 1 ELSE held[r]]
    /\ UNCHANGED <<pc, resent, strays>>

AllowStep(r) ==
    \/ PassReady(r) \/ CheckBudget(r) \/ AllowCircuit(r)
    \/ AcquireInflight(r) \/ AcquireRefused(r) \/ AllowRate(r)
    \/ DropSlot(r) \/ CancelProbe(r)

SettleStep(r) ==
    \/ Record(r) \/ RecordSuccess(r) \/ RecordTokens(r)
    \/ RecordFailure(r) \/ RecordFailed(r)
    \/ Release(r) \/ ReleaseSlot(r)

Next ==
    \/ \E r \in Req : AllowStep(r) \/ SettleStep(r)
    \/ RerunRelease
    \/ Restart
    \/ Tick

Spec == Init /\ [][Next]_vars

-----------------------------------------------------------------------------
(* Properties                                                              *)

\* The slots the limiter hands out behave as module Inflight says, whatever the
\* breaker and the other guards do in between.
Slots == INSTANCE Inflight WITH holding <- holding
ImplementsInflight == Slots!Spec

\* No exit of Allow and no settling call leaves the breaker's probe behind: while
\* probeActive is set, some request that passed allow() has yet to resolve it.
ProbeHasOwner ==
    cb.probeActive => \E r \in Req : pc[r] \in Unresolved

=============================================================================
