-------------------------------- MODULE Leases --------------------------------
(***************************************************************************)
(* The sorted set inflight:upstream of internal/limiter/limiter.go and the *)
(* two Lua scripts that change it.  Redis runs a script atomically.        *)
(*                                                                         *)
(* The set is a function from lease tokens to the time the lease has left  *)
(* (score - now, 0 when the score is in the past).  Tokens are unique among*)
(* the members and never read back, so a token that has left the set may   *)
(* stand for a new one.  The PEXPIRE of the key is InflightLease after the *)
(* last acquire, when every lease in it has run out: dropping the key then *)
(* does no more than the purge at the head of the next script.             *)
(***************************************************************************)
EXTENDS Naturals, FiniteSets

CONSTANTS
    Req,            \* requests of all gateway processes
    Token,          \* instanceID:now:serial
    MaxInflight,    \* Config.MaxInflightUpstream
    InflightLease,  \* Config.InflightLease, in ticks
    MaxResent       \* bound: copies of the release script on their way to Redis

\* What New accepts, and finitely many requests at a time.
ASSUME LeaseConfig ==
    /\ MaxInflight \in Nat \ {0}
    /\ InflightLease \in Nat \ {0}
    /\ MaxResent \in Nat
    /\ IsFiniteSet(Req)

Zset == UNION {[S -> 0..InflightLease] : S \in SUBSET Token}

Empty == [t \in {} |-> 0]

\* Seeded fault: expired leases are not purged.
PurgedNothing(z) == z

\* ZREMRANGEBYSCORE key 0 now
Purged(z) == [t \in {u \in DOMAIN z : z[u] > 0} |-> z[t]]

\* Seeded fault: the score is the time of the reservation.
AddedExpired(z, t) == [u \in DOMAIN z \cup {t} |-> IF u = t THEN 0 ELSE z[u]]

\* ZADD key now+lease token
Added(z, t) == [u \in DOMAIN z \cup {t} |-> IF u = t THEN InflightLease ELSE z[u]]

\* Seeded fault: ZRANGE key -1 -1, the newest lease.
Newest(z) == {t \in DOMAIN z : \A u \in DOMAIN z : z[t] >= z[u]}

\* ZRANGE key 0 0: one of the members with the least score.
Oldest(z) == {t \in DOMAIN z : \A u \in DOMAIN z : z[t] <= z[u]}

\* ZREM key token
Without(z, t) == [u \in DOMAIN z \ {t} |-> z[u]]

\* acquireInflightScript finds the limit reached.
Full(z) == Cardinality(DOMAIN Purged(z)) >= MaxInflight

\* The sets acquireInflightScript may leave when it reserves a slot.
Acquired(z) == {Added(Purged(z), t) : t \in Token \ DOMAIN Purged(z)}

\* The sets releaseInflightScript may leave.
Released(z) ==
    IF DOMAIN Purged(z) = {}
      THEN {Purged(z)}
      ELSE {Without(Purged(z), t) : t \in Oldest(Purged(z))}

\* The leases that run for at least k more ticks.
GoodFor(z, k) == {t \in DOMAIN z : z[t] >= k}

\* One more of n strays, if a run of releaseInflightScript on z drops a lease.  More
\* strays than requests make no difference.
OneStray(z, n) ==
    IF DOMAIN Purged(z) # {} /\ n < Cardinality(Req) THEN n + 1 ELSE n

\* One tick of the clock.
Elapsed(z) == [t \in DOMAIN z |-> IF z[t] > 0 THEN z[t] - 1 ELSE 0]

=============================================================================
