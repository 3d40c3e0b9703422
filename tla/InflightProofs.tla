---------------------------- MODULE InflightProofs ----------------------------
(***************************************************************************)
(* The in-flight semaphore for any number of requests, slots and ticks.    *)
(* Nothing is assumed of how long a request keeps its slot or of how often *)
(* the release script is sent again.                                       *)
(***************************************************************************)
EXTENDS Inflight, FiniteSetTheorems, TLAPS

(* The sorted set                                                          *)

\* A lease set is a function from tokens to remaining times.
LEMMA ZsetType ==
    ASSUME NEW z \in Zset
    PROVE  /\ DOMAIN z \in SUBSET Token
           /\ z \in [DOMAIN z -> 0..InflightLease]
           /\ \A t \in DOMAIN z : z[t] \in 0..InflightLease
BY DEF Zset

\* The leases good for k more units are a finite set.
LEMMA GoodForFinite ==
    ASSUME NEW z \in Zset, IsFiniteSet(DOMAIN z), NEW k \in Nat
    PROVE  /\ IsFiniteSet(GoodFor(z, k))
           /\ Cardinality(GoodFor(z, k)) \in Nat
           /\ Cardinality(GoodFor(z, k)) <= Cardinality(DOMAIN z)
           /\ \A j \in 0..k : Cardinality(GoodFor(z, k)) <= Cardinality(GoodFor(z, j))
<1>1. \A j \in Nat : GoodFor(z, j) \in SUBSET DOMAIN z
  BY DEF GoodFor
<1>2. \A j \in Nat : IsFiniteSet(GoodFor(z, j))
  BY <1>1, FS_Subset
<1>3. ASSUME NEW j \in 0..k
      PROVE  Cardinality(GoodFor(z, k)) <= Cardinality(GoodFor(z, j))
  <2>1. GoodFor(z, k) \in SUBSET GoodFor(z, j)
    BY ZsetType DEF GoodFor
  <2> QED BY <1>2, <2>1, FS_Subset
<1> QED BY <1>1, <1>2, <1>3, FS_Subset, FS_CardinalityType

\* Purging drops nothing that still runs.
LEMMA PurgedGood ==
    ASSUME NEW z \in Zset, IsFiniteSet(DOMAIN z)
    PROVE  /\ Purged(z) \in Zset
           /\ DOMAIN Purged(z) = GoodFor(z, 1)
           /\ IsFiniteSet(DOMAIN Purged(z))
           /\ \A k \in Nat \ {0} : GoodFor(Purged(z), k) = GoodFor(z, k)
<1>1. \A t \in DOMAIN z : z[t] \in 0..InflightLease
  BY ZsetType
<1> DEFINE D == {u \in DOMAIN z : z[u] > 0}
<1>2. DOMAIN Purged(z) = D /\ \A t \in D : Purged(z)[t] = z[t]
  BY DEF Purged
<1>3. D = GoodFor(z, 1)
  BY <1>1 DEF GoodFor
<1>4. Purged(z) \in [D -> 0..InflightLease]
  BY <1>1 DEF Purged
<1>5. D \in SUBSET Token
  BY ZsetType
<1>6. Purged(z) \in Zset
  BY <1>4, <1>5 DEF Zset
<1>7. IsFiniteSet(D)
  BY FS_Subset
<1>8. \A k \in Nat \ {0} : GoodFor(Purged(z), k) = GoodFor(z, k)
  BY <1>1, <1>2 DEF GoodFor
<1> QED BY <1>2, <1>3, <1>6, <1>7, <1>8

\* Reserving a slot adds one lease, good for the whole InflightLease, and keeps
\* the set within MaxInflight.
LEMMA AcquiredGood ==
    ASSUME NEW z \in Zset, IsFiniteSet(DOMAIN z), ~Full(z), NEW y \in Acquired(z)
    PROVE  /\ y \in Zset
           /\ IsFiniteSet(DOMAIN y)
           /\ Cardinality(DOMAIN y) <= MaxInflight
           /\ \A k \in 1..InflightLease :
                 Cardinality(GoodFor(y, k)) = Cardinality(GoodFor(z, k)) + 1
<1> DEFINE p == Purged(z)
<1>1. /\ p \in Zset
      /\ IsFiniteSet(DOMAIN p)
      /\ \A k \in Nat \ {0} : GoodFor(p, k) = GoodFor(z, k)
  BY PurgedGood
<1>2. PICK t \in Token \ DOMAIN p : y = Added(p, t)
  BY DEF Acquired
<1> HIDE DEF p
<1>3. /\ DOMAIN y = DOMAIN p \cup {t}
      /\ y[t] = InflightLease
      /\ \A u \in DOMAIN p : y[u] = p[u]
  BY <1>2 DEF Added
<1>4. \A u \in DOMAIN p : p[u] \in 0..InflightLease
  BY <1>1, ZsetType
<1>5. y \in Zset
  <2>1. y \in [DOMAIN p \cup {t} -> 0..InflightLease]
    BY <1>2, <1>4, LeaseConfig DEF Added
  <2>2. DOMAIN p \cup {t} \in SUBSET Token
    BY <1>1, <1>2, ZsetType
  <2> QED BY <2>1, <2>2 DEF Zset
<1>6. /\ IsFiniteSet(DOMAIN y)
      /\ Cardinality(DOMAIN y) = Cardinality(DOMAIN p) + 1
  BY <1>1, <1>2, <1>3, FS_AddElement
<1>7. Cardinality(DOMAIN y) <= MaxInflight
  <2>1. ~(Cardinality(DOMAIN p) >= MaxInflight)
    BY DEF Full, p
  <2>2. Cardinality(DOMAIN p) \in Nat
    BY <1>1, FS_CardinalityType
  <2> QED BY <1>6, <2>1, <2>2, LeaseConfig
<1>8. ASSUME NEW k \in 1..InflightLease
      PROVE  Cardinality(GoodFor(y, k)) = Cardinality(GoodFor(z, k)) + 1
  <2>1. GoodFor(y, k) = GoodFor(p, k) \cup {t}
    BY <1>3, LeaseConfig DEF GoodFor
  <2>2. t \notin GoodFor(p, k)
    BY <1>2 DEF GoodFor
  <2>3. IsFiniteSet(GoodFor(p, k))
    BY <1>1, GoodForFinite
  <2>4. GoodFor(p, k) = GoodFor(z, k)
    BY <1>1
  <2> QED BY <2>1, <2>2, <2>3, <2>4, FS_AddElement, Zenon
<1> QED BY <1>5, <1>6, <1>7, <1>8

\* Releasing drops the oldest running lease: for every k it either takes none
\* of those good for k, or all running leases are good for k and one goes.
LEMMA ReleasedGood ==
    ASSUME NEW z \in Zset, IsFiniteSet(DOMAIN z), NEW y \in Released(z)
    PROVE  /\ y \in Zset
           /\ IsFiniteSet(DOMAIN y)
           /\ Cardinality(DOMAIN y) <= Cardinality(DOMAIN z)
           /\ \A k \in 1..InflightLease :
                 \/ Cardinality(GoodFor(y, k)) = Cardinality(GoodFor(z, k))
                 \/ /\ DOMAIN Purged(z) # {}
                    /\ Cardinality(GoodFor(y, k)) = Cardinality(GoodFor(z, 1)) - 1
<1> DEFINE p == Purged(z)
<1>1. /\ p \in Zset
      /\ IsFiniteSet(DOMAIN p)
      /\ DOMAIN p = GoodFor(z, 1)
      /\ \A k \in Nat \ {0} : GoodFor(p, k) = GoodFor(z, k)
  BY PurgedGood
<1>2. /\ Cardinality(DOMAIN p) \in Nat
      /\ Cardinality(DOMAIN z) \in Nat
      /\ Cardinality(DOMAIN p) <= Cardinality(DOMAIN z)
  BY <1>1, GoodForFinite, FS_CardinalityType
<1>3. CASE DOMAIN p = {}
  <2>1. y = p
    BY <1>3 DEF Released
  <2> QED BY <1>1, <1>2, <2>1
<1>4. CASE DOMAIN p # {}
  <2>1. PICK t \in Oldest(p) : y = Without(p, t)
    BY <1>4 DEF Released
  <2> HIDE DEF p
  <2>2. /\ DOMAIN y = DOMAIN p \ {t}
        /\ \A u \in DOMAIN y : y[u] = p[u]
        /\ t \in DOMAIN p
        /\ \A u \in DOMAIN p : p[t] <= p[u]
    BY <2>1 DEF Without, Oldest
  <2>3. \A u \in DOMAIN p : p[u] \in 0..InflightLease
    BY <1>1, ZsetType
  <2>4. y \in Zset
    <3>1. y \in [DOMAIN p \ {t} -> 0..InflightLease]
      BY <2>1, <2>3 DEF Without
    <3>2. DOMAIN p \ {t} \in SUBSET Token
      BY <1>1, ZsetType
    <3> QED BY <3>1, <3>2 DEF Zset
  <2>5. /\ IsFiniteSet(DOMAIN y)
        /\ Cardinality(DOMAIN y) = Cardinality(DOMAIN p) - 1
    BY <1>1, <2>2, FS_RemoveElement
  <2>6. ASSUME NEW k \in 1..InflightLease
        PROVE  \/ Cardinality(GoodFor(y, k)) = Cardinality(GoodFor(z, k))
               \/ /\ DOMAIN p # {}
                  /\ Cardinality(GoodFor(y, k)) = Cardinality(GoodFor(z, 1)) - 1
    <3>1. CASE p[t] >= k
      <4>1. GoodFor(y, k) = DOMAIN p \ {t}
        BY <2>2, <2>3, <3>1 DEF GoodFor
      <4> QED BY <4>1, <1>1, <1>4, <2>2, <2>5
    <3>2. CASE ~(p[t] >= k)
      <4>1. GoodFor(y, k) = GoodFor(p, k)
        BY <2>2, <2>3, <3>2 DEF GoodFor
      <4> QED BY <4>1, <1>1
    <3> QED BY <3>1, <3>2
  <2> QED BY <1>2, <2>4, <2>5, <2>6 DEF p
<1> QED BY <1>3, <1>4, Zenon

\* A lease good for one unit more is still good when a unit has passed.
LEMMA ElapsedGood ==
    ASSUME NEW z \in Zset
    PROVE  /\ Elapsed(z) \in Zset
           /\ DOMAIN Elapsed(z) = DOMAIN z
           /\ \A k \in Nat \ {0} : GoodFor(Elapsed(z), k) = GoodFor(z, k + 1)
<1>1. \A t \in DOMAIN z : z[t] \in 0..InflightLease
  BY ZsetType
<1>2. Elapsed(z) \in [DOMAIN z -> 0..InflightLease]
  BY <1>1, LeaseConfig DEF Elapsed
<1>3. Elapsed(z) \in Zset /\ DOMAIN Elapsed(z) = DOMAIN z
  BY <1>2, ZsetType DEF Zset
<1>4. \A k \in Nat \ {0} : GoodFor(Elapsed(z), k) = GoodFor(z, k + 1)
  BY <1>1 DEF Elapsed, GoodFor
<1> QED BY <1>3, <1>4

-----------------------------------------------------------------------------
(* The invariant                                                           *)

IInv == TypeOK /\ Covered

\* Holders are finitely many, and no more than there are requests.
LEMMA HoldersFinite ==
    ASSUME TypeOK, NEW k \in Nat
    PROVE  /\ IsFiniteSet(HoldersGoodFor(k))
           /\ Cardinality(HoldersGoodFor(k)) \in Nat
           /\ Cardinality(HoldersGoodFor(k)) <= Cardinality(Req)
           /\ Cardinality(Req) \in Nat
           /\ strays \in Nat
<1>1. HoldersGoodFor(k) \in SUBSET Req
  BY DEF HoldersGoodFor, TypeOK
<1>2. IsFiniteSet(Req) /\ Cardinality(Req) \in Nat
  BY LeaseConfig, FS_CardinalityType
<1>3. strays \in Nat
  BY <1>2 DEF TypeOK
<1> QED BY <1>1, <1>2, <1>3, FS_Subset, FS_CardinalityType

\* What Covered says at one horizon, as numbers.
LEMMA CoverAt ==
    ASSUME IInv, NEW k \in 1..InflightLease
    PROVE  /\ Cardinality(GoodFor(leases, k)) \in Nat
           /\ Cardinality(HoldersGoodFor(k)) <= Cardinality(GoodFor(leases, k)) + strays
           /\ Cardinality(GoodFor(leases, k)) <= Cardinality(GoodFor(leases, 1))
<1>1. leases \in Zset /\ IsFiniteSet(DOMAIN leases) /\ k \in Nat /\ 1 \in 0..k
  BY DEF IInv, TypeOK
<1> QED BY <1>1, GoodForFinite DEF IInv, Covered

\* Without leases and holders the invariant holds.
LEMMA InitIInv == Init => IInv
<1> SUFFICES ASSUME Init PROVE IInv
  OBVIOUS
<1>1. leases \in [{} -> 0..InflightLease] /\ DOMAIN leases = {}
  BY DEF Init, Empty
<1>2. leases \in Zset
  BY <1>1, Zenon DEF Zset
<1>3. IsFiniteSet({}) /\ Cardinality({}) = 0
  BY FS_EmptySet
<1>4. 0 \in 0..Cardinality(Req) /\ 0 \in 0..MaxResent /\ 0 \in 0..InflightLease
  BY LeaseConfig, FS_CardinalityType
<1>5. TypeOK
  BY <1>1, <1>2, <1>3, <1>4, LeaseConfig DEF Init, TypeOK
<1>6. ASSUME NEW k \in 1..InflightLease
      PROVE  Cardinality(HoldersGoodFor(k)) <= Cardinality(GoodFor(leases, k)) + strays
  <2>1. HoldersGoodFor(k) = {} /\ GoodFor(leases, k) = {} /\ strays = 0
    BY <1>1 DEF Init, HoldersGoodFor, GoodFor
  <2> QED BY <1>3, <2>1
<1> QED BY <1>5, <1>6 DEF IInv, Covered

\* A lease taken without a holder only adds to the cover.
LEMMA AcquireLostIInv ==
    ASSUME IInv, NEW r \in Req, AcquireLost(r)
    PROVE  IInv'
<1>1. /\ leases \in Zset /\ IsFiniteSet(DOMAIN leases) /\ ~Full(leases)
      /\ leases' \in Acquired(leases)
      /\ holding' = holding /\ held' = held /\ resent' = resent /\ strays' = strays
  BY DEF IInv, TypeOK, AcquireLost
<1>2. TypeOK'
  BY <1>1, AcquiredGood DEF IInv, TypeOK
<1>3. ASSUME NEW k \in 1..InflightLease
      PROVE  Cardinality(HoldersGoodFor(k)') <= Cardinality(GoodFor(leases', k)) + strays'
  <2>1. HoldersGoodFor(k)' = HoldersGoodFor(k)
    BY <1>1 DEF HoldersGoodFor
  <2>2. Cardinality(GoodFor(leases', k)) = Cardinality(GoodFor(leases, k)) + 1
    BY <1>1, AcquiredGood
  <2>3. Cardinality(HoldersGoodFor(k)) \in Nat /\ strays \in Nat
    BY HoldersFinite DEF IInv
  <2> QED BY <1>1, <2>1, <2>2, <2>3, CoverAt
<1> QED BY <1>2, <1>3 DEF IInv, Covered

\* A new holder comes with a lease that is good for as long as it may be.  When
\* nobody else is within its lease, the strays of the past are forgotten.
LEMMA AcquireIInv ==
    ASSUME IInv, NEW r \in Req, Acquire(r)
    PROVE  IInv'
<1>1. /\ leases \in Zset /\ IsFiniteSet(DOMAIN leases) /\ ~Full(leases)
      /\ leases' \in Acquired(leases)
      /\ holding' = holding \cup {r} /\ r \notin holding /\ holding \in SUBSET Req
      /\ held \in [Req -> 0..InflightLease]
      /\ held' = [held EXCEPT ![r] = 0]
      /\ strays' = IF holding = Overdue THEN 0 ELSE strays
      /\ resent' = resent
  BY DEF IInv, TypeOK, Acquire
<1>2. /\ held' \in [Req -> 0..InflightLease]
      /\ held'[r] = 0 /\ \A q \in holding : held'[q] = held[q]
  BY <1>1, LeaseConfig
<1>3. strays' \in 0..Cardinality(Req)
  BY <1>1, HoldersFinite DEF IInv, TypeOK
<1>4. TypeOK'
  BY <1>1, <1>2, <1>3, AcquiredGood DEF IInv, TypeOK
<1>5. ASSUME NEW k \in 1..InflightLease
      PROVE  Cardinality(HoldersGoodFor(k)') <= Cardinality(GoodFor(leases', k)) + strays'
  <2>1. HoldersGoodFor(k)' = HoldersGoodFor(k) \cup {r}
    BY <1>1, <1>2, LeaseConfig DEF HoldersGoodFor
  <2>2. r \notin HoldersGoodFor(k) /\ IsFiniteSet(HoldersGoodFor(k))
    BY <1>1, HoldersFinite DEF HoldersGoodFor, IInv
  <2>3. Cardinality(HoldersGoodFor(k)') = Cardinality(HoldersGoodFor(k)) + 1
    BY <2>1, <2>2, FS_AddElement
  <2>4. Cardinality(GoodFor(leases', k)) = Cardinality(GoodFor(leases, k)) + 1
    BY <1>1, AcquiredGood
  <2>5. Cardinality(HoldersGoodFor(k)) \in Nat /\ strays \in Nat
    BY HoldersFinite DEF IInv
  <2>6. CASE holding = Overdue
    <3>1. HoldersGoodFor(k) = {}
      BY <1>1, <2>6, LeaseConfig DEF HoldersGoodFor, Overdue
    <3>2. Cardinality(HoldersGoodFor(k)) = 0
      BY <3>1, FS_EmptySet
    <3> QED BY <1>1, <2>3, <2>4, <2>6, <3>2, CoverAt
  <2>7. CASE holding # Overdue
    BY <1>1, <2>3, <2>4, <2>5, <2>7, CoverAt
  <2> QED BY <2>6, <2>7
<1> QED BY <1>4, <1>5 DEF IInv, Covered

\* A refused acquire only purges expired leases.
LEMMA AcquireFullIInv ==
    ASSUME IInv, NEW r \in Req, AcquireFull(r)
    PROVE  IInv'
<1>1. /\ leases \in Zset /\ IsFiniteSet(DOMAIN leases)
      /\ leases' = Purged(leases)
      /\ holding' = holding /\ held' = held /\ resent' = resent /\ strays' = strays
  BY DEF IInv, TypeOK, AcquireFull
<1>2. /\ leases' \in Zset
      /\ IsFiniteSet(DOMAIN leases')
      /\ DOMAIN leases' = GoodFor(leases, 1)
      /\ \A k \in Nat \ {0} : GoodFor(leases', k) = GoodFor(leases, k)
  BY <1>1, PurgedGood
<1>3. Cardinality(DOMAIN leases') <= MaxInflight
  <2>1. /\ Cardinality(GoodFor(leases, 1)) \in Nat
        /\ Cardinality(GoodFor(leases, 1)) <= Cardinality(DOMAIN leases)
        /\ Cardinality(DOMAIN leases) \in Nat
    BY <1>1, GoodForFinite, FS_CardinalityType
  <2>2. Cardinality(DOMAIN leases) <= MaxInflight
    BY DEF IInv, TypeOK
  <2> QED BY <1>2, <2>1, <2>2, LeaseConfig
<1>4. TypeOK'
  BY <1>1, <1>2, <1>3 DEF IInv, TypeOK
<1>5. Covered'
  BY <1>1, <1>2 DEF IInv, Covered, HoldersGoodFor
<1> QED BY <1>4, <1>5 DEF IInv

\* A run of the release script leaves a lease set within its limit.
LEMMA ReleasedType ==
    ASSUME IInv, leases' \in Released(leases)
    PROVE  /\ leases' \in Zset
           /\ IsFiniteSet(DOMAIN leases')
           /\ Cardinality(DOMAIN leases') <= MaxInflight
<1>1. leases \in Zset /\ IsFiniteSet(DOMAIN leases)
  BY DEF IInv, TypeOK
<1>2. /\ leases' \in Zset /\ IsFiniteSet(DOMAIN leases')
      /\ Cardinality(DOMAIN leases') <= Cardinality(DOMAIN leases)
  BY <1>1, ReleasedGood
<1>3. Cardinality(DOMAIN leases') \in Nat /\ Cardinality(DOMAIN leases) \in Nat
  BY <1>1, <1>2, FS_CardinalityType
<1>4. Cardinality(DOMAIN leases) <= MaxInflight
  BY DEF IInv, TypeOK
<1> QED BY <1>2, <1>3, <1>4, LeaseConfig

\* A run nobody is entitled to takes at most one lease away, and is counted if it
\* does, unless there are as many strays as requests already.
LEMMA StrayCovered ==
    ASSUME IInv, leases' \in Released(leases), strays' = OneStray(leases, strays),
           holding' \in SUBSET holding, held' = held
    PROVE  Covered' /\ strays' \in 0..Cardinality(Req)
<1>1. leases \in Zset /\ IsFiniteSet(DOMAIN leases)
  BY DEF IInv, TypeOK
<1>2. Cardinality(Req) \in Nat /\ strays \in 0..Cardinality(Req)
  BY HoldersFinite DEF IInv, TypeOK
<1>3. /\ DOMAIN Purged(leases) = {} => strays' = strays
      /\ DOMAIN Purged(leases) # {} => strays' = strays + 1 \/ strays' = Cardinality(Req)
      /\ strays' \in 0..Cardinality(Req) /\ strays' >= strays
  BY <1>2 DEF OneStray
<1>4. ASSUME NEW k \in 1..InflightLease
      PROVE  Cardinality(HoldersGoodFor(k)') <= Cardinality(GoodFor(leases', k)) + strays'
  <2>1. HoldersGoodFor(k)' \in SUBSET HoldersGoodFor(k)
    BY DEF HoldersGoodFor
  <2>2. /\ IsFiniteSet(HoldersGoodFor(k))
        /\ Cardinality(HoldersGoodFor(k)) \in Nat
        /\ Cardinality(HoldersGoodFor(k)) <= Cardinality(Req)
    BY HoldersFinite DEF IInv
  <2>3. /\ Cardinality(HoldersGoodFor(k)') \in Nat
        /\ Cardinality(HoldersGoodFor(k)') <= Cardinality(HoldersGoodFor(k))
    BY <2>1, <2>2, FS_Subset, FS_CardinalityType
  <2>4. Cardinality(GoodFor(leases', k)) \in Nat
    BY ReleasedType, GoodForFinite
  <2>5. 1 \in 1..InflightLease /\ Cardinality(GoodFor(leases, 1)) \in Nat
    BY <1>1, LeaseConfig, GoodForFinite
  <2>6. CASE Cardinality(GoodFor(leases', k)) = Cardinality(GoodFor(leases, k))
    BY <1>2, <1>3, <2>2, <2>3, <2>6, CoverAt
  <2>7. CASE /\ DOMAIN Purged(leases) # {}
             /\ Cardinality(GoodFor(leases', k)) = Cardinality(GoodFor(leases, 1)) - 1
    BY <1>2, <1>3, <2>2, <2>3, <2>4, <2>5, <2>7, CoverAt
  <2> QED BY <1>1, <2>6, <2>7, ReleasedGood
<1> QED BY <1>3, <1>4 DEF Covered

\* The heart of the argument, for a holder r whose own lease would still run for h
\* ticks.  If dropping the oldest lease takes one that was good for k, all running
\* leases were, and those who need one for min(h, k) are one fewer.
LEMMA OwnReleaseCovered ==
    ASSUME IInv, NEW r \in holding, r \notin Overdue, leases' \in Released(leases),
           strays' = strays, holding' = holding \ {r}, held' = held
    PROVE  Covered'
<1>1. /\ leases \in Zset /\ IsFiniteSet(DOMAIN leases)
      /\ held[r] \in 0..InflightLease /\ held[r] # InflightLease
      /\ \A q \in holding : held[q] \in 0..InflightLease
  BY DEF IInv, TypeOK, Overdue
<1>2. ASSUME NEW k \in 1..InflightLease
      PROVE  Cardinality(HoldersGoodFor(k)') <= Cardinality(GoodFor(leases', k)) + strays'
  <2>1. PICK j \in 1..k : j <= InflightLease - held[r]
                          /\ (j = k \/ j = InflightLease - held[r])
    <3>1. CASE k <= InflightLease - held[r]
      BY <1>1, <3>1, LeaseConfig
    <3>2. CASE ~(k <= InflightLease - held[r])
      BY <1>1, <3>2, LeaseConfig
    <3> QED BY <3>1, <3>2
  <2>2. j \in 1..InflightLease /\ r \in HoldersGoodFor(j)
    BY <1>1, <2>1, LeaseConfig DEF HoldersGoodFor
  <2>3. HoldersGoodFor(k)' \in SUBSET (HoldersGoodFor(j) \ {r})
    BY <1>1, <2>1, LeaseConfig DEF HoldersGoodFor
  <2>4. HoldersGoodFor(k)' \in SUBSET HoldersGoodFor(k)
    BY DEF HoldersGoodFor
  <2>5. /\ IsFiniteSet(HoldersGoodFor(j)) /\ Cardinality(HoldersGoodFor(j)) \in Nat
        /\ IsFiniteSet(HoldersGoodFor(k)) /\ Cardinality(HoldersGoodFor(k)) \in Nat
        /\ strays \in Nat
    BY <2>1, HoldersFinite DEF IInv
  <2>6. /\ IsFiniteSet(HoldersGoodFor(j) \ {r})
        /\ Cardinality(HoldersGoodFor(j) \ {r}) = Cardinality(HoldersGoodFor(j)) - 1
    BY <2>2, <2>5, FS_RemoveElement
  <2>7. /\ Cardinality(HoldersGoodFor(k)') \in Nat
        /\ Cardinality(HoldersGoodFor(k)') <= Cardinality(HoldersGoodFor(k))
        /\ Cardinality(HoldersGoodFor(k)') <= Cardinality(HoldersGoodFor(j)) - 1
    BY <2>3, <2>4, <2>5, <2>6, FS_Subset, FS_CardinalityType
  <2>8. Cardinality(GoodFor(leases, 1)) \in Nat
    BY <1>1, GoodForFinite
  <2>9. CASE Cardinality(GoodFor(leases', k)) = Cardinality(GoodFor(leases, k))
    BY <2>5, <2>7, <2>9, CoverAt
  <2>10. CASE Cardinality(GoodFor(leases', k)) = Cardinality(GoodFor(leases, 1)) - 1
    BY <2>2, <2>5, <2>7, <2>8, <2>10, CoverAt
  <2> QED BY <1>1, <2>9, <2>10, ReleasedGood
<1> QED BY <1>2 DEF Covered

\* A release, of a holder within its lease or of one that has outlived it.
LEMMA ReleaseIInv ==
    ASSUME IInv, NEW r \in Req, Release(r)
    PROVE  IInv'
<1>1. /\ leases' \in Released(leases) /\ r \in holding
      /\ holding' = holding \ {r} /\ held' = held
      /\ strays' = IF r \in Overdue THEN OneStray(leases, strays) ELSE strays
      /\ resent' \in resent..MaxResent
  BY DEF Release
<1>2. Covered' /\ strays' \in 0..Cardinality(Req)
  <2>1. CASE r \in Overdue
    BY <1>1, <2>1, StrayCovered
  <2>2. CASE r \notin Overdue
    BY <1>1, <2>2, OwnReleaseCovered DEF IInv, TypeOK
  <2> QED BY <2>1, <2>2
<1>3. resent' \in 0..MaxResent
  BY <1>1, LeaseConfig DEF IInv, TypeOK
<1>4. TypeOK'
  BY <1>1, <1>2, <1>3, ReleasedType DEF IInv, TypeOK
<1> QED BY <1>2, <1>4 DEF IInv

\* A late or repeated run.
LEMMA RerunIInv ==
    ASSUME IInv, Rerun
    PROVE  IInv'
<1>1. /\ leases' \in Released(leases) /\ holding' = holding /\ held' = held
      /\ strays' = OneStray(leases, strays)
      /\ resent > 0 /\ resent' = resent - 1
  BY DEF Rerun
<1>2. Covered' /\ strays' \in 0..Cardinality(Req)
  BY <1>1, StrayCovered
<1>3. resent' \in 0..MaxResent
  BY <1>1, LeaseConfig DEF IInv, TypeOK
<1>4. TypeOK'
  BY <1>1, <1>2, <1>3, ReleasedType DEF IInv, TypeOK
<1> QED BY <1>2, <1>4 DEF IInv

\* A crash or a failed release leaves leases behind and fewer holders.
LEMMA AbandonIInv ==
    ASSUME IInv, NEW R \in SUBSET holding, Abandon(R)
    PROVE  IInv'
<1>1. /\ holding' = holding \ R /\ held' = held /\ leases' = leases /\ strays' = strays
      /\ resent' \in resent..MaxResent
  BY DEF Abandon
<1>2. resent' \in 0..MaxResent
  BY <1>1, LeaseConfig DEF IInv, TypeOK
<1>3. TypeOK'
  BY <1>1, <1>2 DEF IInv, TypeOK
<1>4. ASSUME NEW k \in 1..InflightLease
      PROVE  Cardinality(HoldersGoodFor(k)') <= Cardinality(GoodFor(leases', k)) + strays'
  <2>1. HoldersGoodFor(k)' \in SUBSET HoldersGoodFor(k)
    BY <1>1 DEF HoldersGoodFor
  <2>2. /\ IsFiniteSet(HoldersGoodFor(k))
        /\ Cardinality(HoldersGoodFor(k)) \in Nat /\ strays \in Nat
    BY HoldersFinite DEF IInv
  <2>3. /\ Cardinality(HoldersGoodFor(k)') \in Nat
        /\ Cardinality(HoldersGoodFor(k)') <= Cardinality(HoldersGoodFor(k))
    BY <2>1, <2>2, FS_Subset, FS_CardinalityType
  <2> QED BY <1>1, <2>2, <2>3, CoverAt
<1> QED BY <1>3, <1>4 DEF IInv, Covered

\* A tick shifts both sides of the cover by one.
LEMMA TickIInv ==
    ASSUME IInv, Tick
    PROVE  IInv'
<1>1. /\ leases \in Zset /\ IsFiniteSet(DOMAIN leases)
      /\ leases' = Elapsed(leases)
      /\ holding' = holding /\ resent' = resent /\ strays' = strays
      /\ held \in [Req -> 0..InflightLease]
      /\ held' = [r \in Req |-> IF r \in holding \ Overdue THEN held[r] + 1 ELSE held[r]]
      /\ holding \in SUBSET Req
  BY DEF IInv, TypeOK, Tick
<1>2. /\ held' \in [Req -> 0..InflightLease]
      /\ \A r \in holding : held'[r] = IF held[r] = InflightLease THEN held[r] ELSE held[r] + 1
  BY <1>1, LeaseConfig DEF Overdue
<1>3. TypeOK'
  BY <1>1, <1>2, ElapsedGood DEF IInv, TypeOK
<1>4. ASSUME NEW k \in 1..InflightLease
      PROVE  Cardinality(HoldersGoodFor(k)') <= Cardinality(GoodFor(leases', k)) + strays'
  <2>1. GoodFor(leases', k) = GoodFor(leases, k + 1)
    BY <1>1, ElapsedGood
  <2>2. HoldersGoodFor(k)' = HoldersGoodFor(k + 1)
    BY <1>1, <1>2, LeaseConfig DEF HoldersGoodFor
  <2>3. CASE k + 1 \in 1..InflightLease
    BY <1>1, <2>1, <2>2, <2>3 DEF IInv, Covered
  <2>4. CASE k + 1 \notin 1..InflightLease
    <3>1. HoldersGoodFor(k + 1) = {}
      BY <1>1, <2>4, LeaseConfig DEF HoldersGoodFor
    <3>2. Cardinality(GoodFor(leases, k + 1)) \in Nat /\ strays \in Nat
      BY <1>1, GoodForFinite, HoldersFinite DEF IInv
    <3> QED BY <1>1, <2>1, <2>2, <3>1, <3>2, FS_EmptySet
  <2> QED BY <2>3, <2>4
<1> QED BY <1>3, <1>4 DEF IInv, Covered

\* Every step preserves the invariant.
LEMMA NextIInv == IInv /\ [Next]_vars => IInv'
<1> SUFFICES ASSUME IInv, [Next]_vars PROVE IInv'
  OBVIOUS
<1>1. CASE UNCHANGED vars
  BY <1>1 DEF vars, IInv, TypeOK, Covered, HoldersGoodFor
<1>2. CASE Next
  BY <1>2, AcquireIInv, AcquireFullIInv, AcquireLostIInv, ReleaseIInv, AbandonIInv,
     RerunIInv, TickIInv DEF Next
<1> QED BY <1>1, <1>2

\* The cover, with the types, is inductive: whatever the order of releases, crashes,
\* late and repeated runs, each holder within its lease has a lease as good as its
\* own, but for one per stray.
THEOREM HoldersAreCovered == Spec => [](TypeOK /\ Covered)
<1>1. IInv <=> TypeOK /\ Covered
  BY DEF IInv
<1> QED BY <1>1, InitIInv, NextIInv, PTL DEF Spec

\* Those within their lease are covered by leases, of which there are no more than
\* MaxInflight, and by strays; all others are overdue.
LEMMA CoveredIsEnough == IInv => NoOvercommit
<1> SUFFICES ASSUME IInv PROVE NoOvercommit
  OBVIOUS
<1>1. 1 \in 1..InflightLease /\ 1 \in Nat
  BY LeaseConfig
<1>2. holding = HoldersGoodFor(1) \cup Overdue
  BY LeaseConfig DEF IInv, TypeOK, HoldersGoodFor, Overdue
<1>3. IsFiniteSet(Overdue)
  <2>1. Overdue \in SUBSET Req
    BY DEF Overdue, IInv, TypeOK
  <2> QED BY <2>1, LeaseConfig, FS_Subset
<1>4. IsFiniteSet(HoldersGoodFor(1)) /\ strays \in Nat
  BY <1>1, HoldersFinite DEF IInv
<1>5. /\ Cardinality(holding) <= Cardinality(HoldersGoodFor(1)) + Cardinality(Overdue)
      /\ Cardinality(holding) \in Nat
      /\ Cardinality(HoldersGoodFor(1)) \in Nat /\ Cardinality(Overdue) \in Nat
  <2>1. /\ Cardinality(HoldersGoodFor(1) \cup Overdue)
             = Cardinality(HoldersGoodFor(1)) + Cardinality(Overdue)
               - Cardinality(HoldersGoodFor(1) \cap Overdue)
        /\ IsFiniteSet(HoldersGoodFor(1) \cup Overdue)
        /\ IsFiniteSet(HoldersGoodFor(1) \cap Overdue)
    BY <1>3, <1>4, FS_Union, FS_Intersection
  <2>2. Cardinality(HoldersGoodFor(1) \cap Overdue) \in Nat
    BY <2>1, FS_CardinalityType
  <2> QED BY <1>2, <1>3, <1>4, <2>1, <2>2, FS_CardinalityType
<1>6. /\ Cardinality(GoodFor(leases, 1)) <= Cardinality(DOMAIN leases)
      /\ Cardinality(DOMAIN leases) <= MaxInflight
      /\ Cardinality(DOMAIN leases) \in Nat
  BY <1>1, GoodForFinite, FS_CardinalityType DEF IInv, TypeOK
<1> QED BY <1>1, <1>4, <1>5, <1>6, CoverAt, LeaseConfig DEF NoOvercommit

\* MAX_INFLIGHT_UPSTREAM is exceeded by no more than the strays and the requests
\* that have outlived their lease, across processes, crashes, lost replies, failed
\* and repeated releases.
THEOREM NeverOvercommitted == Spec => []NoOvercommit
BY InitIInv, NextIInv, CoveredIsEnough, PTL DEF Spec

=============================================================================
