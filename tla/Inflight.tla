------------------------------- MODULE Inflight -------------------------------
(***************************************************************************)
(* The in-flight semaphore: requests of any number of gateway processes    *)
(* that reserve a slot with acquireInflight, call upstream and give a slot *)
(* back with releaseInflight.  A lease carries no owner: releasing drops   *)
(* the oldest lease, whoever took it.                                      *)
(*                                                                         *)
(* Nothing bounds how long a request keeps its slot, and releaseInflight   *)
(* is not idempotent: go-redis sends a script again when its reply does    *)
(* not come, and a copy may run long after the call has returned.  Both    *)
(* drop a lease that somebody else needs: a stray.                         *)
(***************************************************************************)
EXTENDS Leases

VARIABLES
    leases,    \* the sorted set in Redis
    holding,   \* requests between acquireInflight and releaseInflight
    held,      \* the age of a holder's own lease, up to InflightLease
    resent,    \* copies of the release script that Redis has yet to run
    strays     \* history: leases dropped by late or repeated runs, or for a
               \* holder whose own had expired, since somebody last began to
               \* hold with nobody else within its lease

vars == <<leases, holding, held, resent, strays>>

\* The lease set never holds more than MaxInflight members, live or leaked
\* (acquireInflightScript), and no lease is longer than InflightLease.
TypeOK ==
    /\ leases \in Zset
    /\ IsFiniteSet(DOMAIN leases)
    /\ Cardinality(DOMAIN leases) <= MaxInflight
    /\ holding \in SUBSET Req
    /\ held \in [Req -> 0..InflightLease]
    /\ resent \in 0..MaxResent
    /\ strays \in 0..Cardinality(Req)

Init ==
    /\ leases = Empty
    /\ holding = {}
    /\ held = [r \in Req |-> 0]
    /\ resent = 0
    /\ strays = 0

\* The holders whose own lease would run for at least k more ticks.
HoldersGoodFor(k) == {r \in holding : held[r] + k <= InflightLease}

\* The holders whose own lease has expired.
Overdue == {r \in holding : held[r] = InflightLease}

Acquire(r) ==
    /\ r \notin holding
    /\ ~Full(leases)
    /\ leases' \in Acquired(leases)
    /\ holding' = holding \cup {r}
    /\ held' = [held EXCEPT ![r] = 0]
    /\ strays' = IF holding = Overdue THEN 0 ELSE strays
    /\ UNCHANGED resent

\* ErrInflightFull: the script has still purged.
AcquireFull(r) ==
    /\ r \notin holding
    /\ Full(leases)
    /\ leases' = Purged(leases)
    /\ UNCHANGED <<holding, held, resent, strays>>

\* The script reserved a slot, but Run returned an error (reply lost, context
\* cancelled while waiting for it), or a copy that was sent again met a full set,
\* its own lease in it: the request is refused, the lease stays.
AcquireLost(r) ==
    /\ r \notin holding
    /\ ~Full(leases)
    /\ leases' \in Acquired(leases)
    /\ UNCHANGED <<holding, held, resent, strays>>

\* The script runs, and any number of copies of it may be still to come.
Release(r) ==
    /\ r \in holding
    /\ leases' \in Released(leases)
    /\ holding' = holding \ {r}
    /\ strays' = IF r \in Overdue THEN OneStray(leases, strays) ELSE strays
    /\ resent' \in resent..MaxResent
    /\ UNCHANGED held

\* The requests of a process that dies, or one whose call of releaseInflight
\* fails: the script has not run, and may yet.
Abandon(R) ==
    /\ R # {} /\ R \subseteq holding
    /\ holding' = holding \ R
    /\ resent' \in resent..MaxResent
    /\ UNCHANGED <<leases, held, strays>>

\* A copy of the script runs, whoever sent it and whatever became of them.
Rerun ==
    /\ resent > 0
    /\ resent' = resent - 1
    /\ leases' \in Released(leases)
    /\ strays' = OneStray(leases, strays)
    /\ UNCHANGED <<holding, held>>

Tick ==
    /\ leases' = Elapsed(leases)
    /\ held' = [r \in Req |-> IF r \in holding \ Overdue THEN held[r] + 1 ELSE held[r]]
    /\ UNCHANGED <<holding, resent, strays>>

Next ==
    \/ \E r \in Req : Acquire(r)
    \/ \E r \in Req : AcquireFull(r)
    \/ \E r \in Req : AcquireLost(r)
    \/ \E r \in Req : Release(r)
    \/ \E R \in SUBSET holding : Abandon(R)
    \/ Rerun
    \/ Tick

Spec == Init /\ [][Next]_vars

\* Time passes.  No holder has to come back.
FairSpec == Spec /\ WF_vars(Tick)

-----------------------------------------------------------------------------
(* Properties                                                              *)

\* Dropping the oldest lease instead of one's own (releaseInflightScript) is
\* harmless as such: for every k, the holders whose own lease would run for k more
\* ticks are no more than the leases that do, but for one per stray.
Covered ==
    \A k \in 1..InflightLease :
        Cardinality(HoldersGoodFor(k)) <= Cardinality(GoodFor(leases, k)) + strays

\* MAX_INFLIGHT_UPSTREAM across processes, crashes, lost replies, repeated and
\* failed releases: the requests that hold a slot exceed it by no more than the
\* strays and the holders that have outlived their lease.
NoOvercommit ==
    Cardinality(holding) <= MaxInflight + strays + Cardinality(Overdue)

\* A slot never leaks for good: capacity comes back again and again, even when
\* holders never release (their leases are purged on acquire).
CapacityReturns == []<>(~Full(leases))

\* README line 82, PDR line 321: the limit as such.  Overdue holders and repeated
\* releases break it.
StrictLimit == Cardinality(holding) <= MaxInflight

=============================================================================
