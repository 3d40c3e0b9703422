---------------------------- MODULE CircuitBreaker ----------------------------
(***************************************************************************)
(* The breaker together with the calls it admits.  A call is one request   *)
(* between the allow() inside Allow and the breaker call that resolves it: *)
(* record(true) of Record, record(false) of RecordFailure, cancelProbe()   *)
(* of Release and of the failing exits of Allow.  Calls overlap freely and *)
(* nothing bounds how long a call stays unresolved: a handler blocked on a *)
(* client that does not read never resolves its call.                      *)
(*                                                                         *)
(* admitted, probes, stale and disturbed are bookkeeping of the model: the *)
(* code keeps no record of which call it admitted in which state.          *)
(***************************************************************************)
EXTENDS Circuit

CONSTANT Call     \* the requests of one gateway process

ASSUME CallAssumption == IsFiniteSet(Call)

VARIABLES
    cb,           \* the breaker
    admitted,     \* calls let through by allow() and not yet resolved
    probes,       \* the admitted calls the current half-open period counts
                  \* as probes
    stale,        \* admitted calls that the breaker has opened on since
    disturbed     \* in this half-open period a call that is not a probe of it
                  \* has been resolved

vars == <<cb, admitted, probes, stale, disturbed>>

\* The breaker keeps its shape, its window never holds more than Window results
\* (record trims it), and the bookkeeping of calls stays within the calls made.
TypeOK ==
    /\ cb \in Breaker
    /\ Len(cb.events) <= Window
    /\ admitted \in SUBSET Call
    /\ probes \in SUBSET admitted
    /\ stale \in SUBSET admitted
    /\ disturbed \in BOOLEAN

Init ==
    /\ cb = NewBreaker
    /\ admitted = {}
    /\ probes = {}
    /\ stale = {}
    /\ disturbed = FALSE

\* allow() on behalf of call c.  A refused call leaves the breaker as allow()
\* leaves it.
Admit(c) ==
    /\ c \notin admitted
    /\ cb' = AfterAllow(cb)
    /\ UNCHANGED disturbed
    /\ \/ /\ ~Allows(cb)
          /\ UNCHANGED <<admitted, probes, stale>>
       \/ /\ Allows(cb)
          /\ admitted' = admitted \cup {c}
          /\ probes' = IF cb'.state # CircuitHalfOpen THEN {}
                       ELSE IF cb.probeActive THEN {c}  \* replaces an expired one
                       ELSE probes \cup {c}
          /\ UNCHANGED stale

\* Call c is resolved and leaves the breaker as b.
Resolve(c, b) ==
    /\ c \in admitted
    /\ cb' = b
    /\ admitted' = admitted \ {c}
    /\ probes' = IF b.state = CircuitHalfOpen THEN probes \ {c} ELSE {}
    /\ stale' = (IF b.state = CircuitOpen THEN admitted ELSE stale) \ {c}
    /\ disturbed' = (b.state = CircuitHalfOpen /\ (disturbed \/ c \notin probes))

RecordSuccess(c) == Resolve(c, AfterRecord(cb, TRUE))

RecordFailure(c) == Resolve(c, AfterRecord(cb, FALSE))

CancelProbe(c) == Resolve(c, AfterCancelProbe(cb))

Tick ==
    /\ cb' = Aged(cb)
    /\ UNCHANGED <<admitted, probes, stale, disturbed>>

Next ==
    \/ \E c \in Call : Admit(c)
    \/ \E c \in Call : RecordSuccess(c)
    \/ \E c \in Call : RecordFailure(c)
    \/ \E c \in Call : CancelProbe(c)
    \/ Tick

Spec == Init /\ [][Next]_vars

\* Time passes; no call is obliged to come or to be resolved.
FairSpec == Spec /\ WF_vars(Tick)

-----------------------------------------------------------------------------
(* Properties                                                              *)

\* The window a closed breaker keeps never shows the failure ratio that record
\* trips on: whatever the order of results, the events left after trimming and
\* after every early return are below FailureThreshold as soon as there are
\* MinSamples of them.
ClosedIsHealthy ==
    cb.state = CircuitClosed /\ Len(cb.events) >= MinSamples
      => Failures(cb.events) * FailDen < FailNum * Len(cb.events)

\* A set probeActive flag is never stranded: while it is set the breaker is
\* half-open and some admitted probe is still to be resolved, and resolving any
\* of them clears it (limiter.go says of Record and Release that a half-open
\* probe is never stranded).
ProbeOwned ==
    cb.probeActive => cb.state = CircuitHalfOpen /\ probes # {}

\* allow() admits a single probe, as long as the half-open period is not
\* disturbed by the resolution of a call that is not its probe.
SingleProbeUndisturbed ==
    ~disturbed => Cardinality(probes) <= 1

\* A breaker never wedges: whatever callers do, and even when no admitted call
\* is ever resolved, it is again and again ready to admit one (ready() and
\* allow() treat an unresolved probe as expired after OpenDuration).
NeverWedged == []<>Allows(cb)

\* allow(): "Admit a single probe" -- without the proviso above.
SingleProbe == Cardinality(probes) <= 1

\* record(): results of calls admitted before the breaker opened are ignored,
\* so that a straggler does not push the open window forward.
StragglersIgnored ==
    [][\A c \in stale :
         c \notin admitted' => ~(cb.state # CircuitOpen /\ cb'.state = CircuitOpen)]_vars

=============================================================================
