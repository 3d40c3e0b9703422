---------------------------- MODULE SessionProofs ----------------------------
(***************************************************************************)
(* The session of a player: the conversation with an npc, for any number   *)
(* of requests and any TTL, and the connection, for any number of requests *)
(* and goroutines and a peer that disappears at any step.                  *)
(*                                                                         *)
(* What the lock of a conversation promises depends on time: it holds      *)
(* until a request is late, if requests count as late before their locks   *)
(* expire.  What the token guard of the release script and a reset promise *)
(* does not.                                                               *)
(***************************************************************************)
EXTENDS Conversation, Access, FiniteSetTheorems, TLAPS

-----------------------------------------------------------------------------
(* The conversation                                                        *)

\* A request is late before its lock expires.  For a request with a deadline
\* LockTTLFor sees to it.
ShortHold == Deadline = 0 => MaxHold < LockTTL

\* Where a request with an unlock pending can be, and that it has one while it
\* rechecks; an owned lock has time left.
LockShape ==
    /\ \A r \in locks : pc[r] \in {"recheck", "unlock", "stream", "persist", "exit"}
    /\ \A r \in Req : pc[r] \in {"recheck", "unlock"} => r \in locks
    /\ \A r \in Req : pc[r] = "acquire" => ttl[r] > 0
    /\ lock.owner # NoReq => lock.left > 0

\* The id of a conversation is only ever carried by the request that created it
\* until that request is past its persist.
Identity ==
    /\ mapping = NoConv => stored = {}
    /\ \A r \in Req : mapping = r => conv[r] = r /\ pc[r] \in {"exit", "done"}
    /\ \A r \in Req : pc[r] \in {"stream", "persist"} /\ r \notin locks => conv[r] # NoConv
    /\ \A r \in Req : pc[r] = "unlock" => conv[r] # NoConv
    /\ \A q, r \in Req : conv[q] = r /\ q # r => conv[r] = r /\ pc[r] \in {"exit", "done"}
    /\ \A r \in Req : pc[r] \in {"idle", "get", "acquire", "recheck"} => conv[r] = NoConv
    /\ \A r \in Req : conv[r] = r =>
          \/ r \in locks /\ pc[r] \in {"stream", "persist"}
          \/ pc[r] \in {"exit", "done"}

\* The time the lock has left exceeds the time its holder has left, so the
\* holder is its owner; and a request about to create finds nothing stored.
Holding ==
    /\ \A r \in Req : pc[r] = "acquire" =>
          ttl[r] > (IF Deadline > 0 THEN left[r] ELSE MaxHold)
    /\ \A r \in locks : lock.owner = r /\ lock.left > left[r]
    /\ \A r \in locks : pc[r] \in {"stream", "persist"} => stored = {}

Shape == TypeOK /\ LockShape /\ Identity

LockInv == Shape /\ (~late => Holding /\ NoFork)

\* A forgotten conversation is not about to be created: its creator is gone.
Forgetting ==
    /\ ResetForgets
    /\ \A r \in Req : r \in forgotten => pc[r] \in {"exit", "done"}

-----------------------------------------------------------------------------

\* The initial state of every request and of the two keys satisfies the shape.
LEMMA InitShape == Init => Shape
<1> SUFFICES ASSUME Init PROVE Shape
  OBVIOUS
<1>1. late \in BOOLEAN /\ forgotten \in SUBSET Conv
  BY Zenon DEF Init
<1>2. /\ mapping \in Conv \cup {NoConv}
      /\ lock \in [owner : Req \cup {NoReq}, left : 0..MaxTTL]
      /\ pc \in [Req -> Stage] /\ conv \in [Req -> Conv \cup {NoConv}]
      /\ locks \in SUBSET Req /\ stored \in SUBSET Req
      /\ left \in [Req -> 0..(Deadline + MaxHold)] /\ ttl \in [Req -> 0..MaxTTL]
  BY ConversationConfig DEF Init, Free, Conv, MaxTTL, Stage
<1>3. LockShape /\ Identity
  BY ConversationConfig DEF Init, LockShape, Identity, Free
<1> QED
  BY <1>1, <1>2, <1>3 DEF Shape, TypeOK

\* Every step keeps the types of the keys and of the handlers' variables.
LEMMA TypePreserved == TypeOK /\ [Next]_vars => TypeOK'
<1> SUFFICES ASSUME TypeOK, [Next]_vars PROVE TypeOK'
  OBVIOUS
<1> USE ConversationConfig DEF TypeOK, Stage, Conv, MaxTTL, Free, Goto
<1>1. ASSUME NEW r \in Req, Arrive(r) PROVE TypeOK'
  BY <1>1 DEF Arrive
<1>2. ASSUME NEW r \in Req, GetHit(r) \/ RecheckHit(r) \/ (\E x \in Conv : UseClientConv(r, x))
      PROVE TypeOK'
  BY <1>2 DEF GetHit, RecheckHit, UseClientConv
<1>3. ASSUME NEW r \in Req, GetMiss(r) PROVE TypeOK'
  BY <1>3 DEF GetMiss, LockTTLFor
<1>4. ASSUME NEW r \in Req, Acquire(r) \/ AcquireLost(r) PROVE TypeOK'
  BY <1>4 DEF Acquire, AcquireLost
<1>5. ASSUME NEW r \in Req, RecheckMiss(r) \/ ResolveFails(r) PROVE TypeOK'
  BY <1>5 DEF RecheckMiss, ResolveFails
<1>6. ASSUME NEW r \in Req, UnlockHit(r) \/ Exit(r) PROVE TypeOK'
  BY <1>6 DEF UnlockHit, Exit, Unlocked
<1>7. ASSUME NEW r \in Req, Created(r) \/ StreamEnds(r) \/ StreamFails(r) PROVE TypeOK'
  BY <1>7 DEF Created, StreamEnds, StreamFails
<1>8. ASSUME NEW r \in Req, Persist(r) \/ PersistSkipped(r) PROVE TypeOK'
  BY <1>8 DEF Persist, PersistSkipped
<1>9. ASSUME NEW r \in Req, Crash(r) PROVE TypeOK'
  BY <1>9 DEF Crash
<1>10. CASE Reset \/ Expire
  BY <1>10 DEF Reset, DeleteConversation, Expire
<1>11. CASE Tick
  BY <1>11 DEF Tick, Dec
<1>12. CASE UNCHANGED vars
  BY <1>12 DEF vars
<1> QED
  BY <1>1, <1>2, <1>3, <1>4, <1>5, <1>6, <1>7, <1>8, <1>9, <1>10, <1>11, <1>12
  DEF Next, Resolve, Finish

\* Every step keeps the shape of the lock and the ownership of conversation ids.
LEMMA ShapePreserved == Shape /\ [Next]_vars => Shape'
<1> SUFFICES ASSUME Shape, [Next]_vars PROVE (LockShape /\ Identity)'
  BY TypePreserved DEF Shape
<1> USE ConversationConfig DEF Shape, TypeOK, LockShape, Identity, Stage, Conv, Free, Goto
<1>1. ASSUME NEW r \in Req, Arrive(r) PROVE (LockShape /\ Identity)'
  BY <1>1 DEF Arrive
<1>2. ASSUME NEW r \in Req, GetHit(r) PROVE (LockShape /\ Identity)'
  BY <1>2 DEF GetHit
<1>3. ASSUME NEW r \in Req, NEW x \in Conv, UseClientConv(r, x) PROVE (LockShape /\ Identity)'
  BY <1>3 DEF UseClientConv, KnownToClients
<1>4. ASSUME NEW r \in Req, GetMiss(r) PROVE (LockShape /\ Identity)'
  BY <1>4 DEF GetMiss, LockTTLFor
<1>5. ASSUME NEW r \in Req, Acquire(r) PROVE (LockShape /\ Identity)'
  BY <1>5 DEF Acquire
<1>6. ASSUME NEW r \in Req, AcquireLost(r) PROVE (LockShape /\ Identity)'
  BY <1>6 DEF AcquireLost
<1>7. ASSUME NEW r \in Req, RecheckHit(r) PROVE (LockShape /\ Identity)'
  BY <1>7 DEF RecheckHit
<1>8. ASSUME NEW r \in Req, RecheckMiss(r) PROVE (LockShape /\ Identity)'
  BY <1>8 DEF RecheckMiss
<1>9. ASSUME NEW r \in Req, ResolveFails(r) PROVE (LockShape /\ Identity)'
  BY <1>9 DEF ResolveFails
<1>10. ASSUME NEW r \in Req, UnlockHit(r) PROVE (LockShape /\ Identity)'
  BY <1>10 DEF UnlockHit, Unlocked
<1>11. ASSUME NEW r \in Req, Created(r) PROVE (LockShape /\ Identity)'
  BY <1>11 DEF Created
<1>12. ASSUME NEW r \in Req, StreamEnds(r) PROVE (LockShape /\ Identity)'
  BY <1>12 DEF StreamEnds
<1>13. ASSUME NEW r \in Req, StreamFails(r) PROVE (LockShape /\ Identity)'
  BY <1>13 DEF StreamFails
<1>14. ASSUME NEW r \in Req, Persist(r) PROVE (LockShape /\ Identity)'
  BY <1>14 DEF Persist
<1>15. ASSUME NEW r \in Req, PersistSkipped(r) PROVE (LockShape /\ Identity)'
  BY <1>15 DEF PersistSkipped
<1>16. ASSUME NEW r \in Req, Exit(r) PROVE (LockShape /\ Identity)'
  BY <1>16 DEF Exit, Unlocked
<1>17. ASSUME NEW r \in Req, Crash(r) PROVE (LockShape /\ Identity)'
  BY <1>17 DEF Crash
<1>18. CASE Reset \/ Expire
  BY <1>18 DEF Reset, DeleteConversation, Expire
<1>19. CASE Tick
  BY <1>19 DEF Tick
<1>20. CASE UNCHANGED vars
  BY <1>20 DEF vars
<1> QED
  BY <1>1, <1>2, <1>3, <1>4, <1>5, <1>6, <1>7, <1>8, <1>9, <1>10, <1>11, <1>12,
     <1>13, <1>14, <1>15, <1>16, <1>17, <1>18, <1>19, <1>20
  DEF Next, Resolve, Finish

-----------------------------------------------------------------------------

\* A timely holder keeps the lock, and what a creator stores it stores alone.
LEMMA HoldingPreserved ==
    ASSUME ShortHold, Shape, Holding, NoFork, [Next]_vars, ~late'
    PROVE  (Holding /\ NoFork)'
<1> USE ConversationConfig
    DEF ShortHold, Shape, TypeOK, LockShape, Identity, Holding, NoFork, Free, Goto
<1>1. ASSUME NEW r \in Req, Arrive(r) PROVE (Holding /\ NoFork)'
  BY <1>1 DEF Arrive
<1>2. ASSUME NEW r \in Req, GetHit(r) PROVE (Holding /\ NoFork)'
  BY <1>2 DEF GetHit
<1>3. ASSUME NEW r \in Req, NEW x \in Conv, UseClientConv(r, x) PROVE (Holding /\ NoFork)'
  BY <1>3 DEF UseClientConv
<1>4. ASSUME NEW r \in Req, GetMiss(r) PROVE (Holding /\ NoFork)'
  BY <1>4 DEF GetMiss, LockTTLFor
<1>5. ASSUME NEW r \in Req, Acquire(r) PROVE (Holding /\ NoFork)'
  BY <1>5 DEF Acquire
<1>6. ASSUME NEW r \in Req, AcquireLost(r) PROVE (Holding /\ NoFork)'
  BY <1>6 DEF AcquireLost
<1>7. ASSUME NEW r \in Req, RecheckHit(r) PROVE (Holding /\ NoFork)'
  BY <1>7 DEF RecheckHit
<1>8. ASSUME NEW r \in Req, RecheckMiss(r) PROVE (Holding /\ NoFork)'
  BY <1>8 DEF RecheckMiss
<1>9. ASSUME NEW r \in Req, ResolveFails(r) PROVE (Holding /\ NoFork)'
  BY <1>9 DEF ResolveFails
<1>10. ASSUME NEW r \in Req, UnlockHit(r) PROVE (Holding /\ NoFork)'
  BY <1>10 DEF UnlockHit, Unlocked
<1>11. ASSUME NEW r \in Req, Created(r) PROVE (Holding /\ NoFork)'
  BY <1>11 DEF Created
<1>12. ASSUME NEW r \in Req, StreamEnds(r) PROVE (Holding /\ NoFork)'
  BY <1>12 DEF StreamEnds
<1>13. ASSUME NEW r \in Req, StreamFails(r) PROVE (Holding /\ NoFork)'
  BY <1>13 DEF StreamFails
<1>14. ASSUME NEW r \in Req, Persist(r) PROVE (Holding /\ NoFork)'
  BY <1>14 DEF Persist
<1>15. ASSUME NEW r \in Req, PersistSkipped(r) PROVE (Holding /\ NoFork)'
  BY <1>15 DEF PersistSkipped
<1>16. ASSUME NEW r \in Req, Exit(r) PROVE (Holding /\ NoFork)'
  BY <1>16 DEF Exit, Unlocked
<1>17. ASSUME NEW r \in Req, Crash(r) PROVE (Holding /\ NoFork)'
  BY <1>17 DEF Crash
<1>18. CASE Reset \/ Expire
  BY <1>18 DEF Reset, DeleteConversation, Expire
<1>19. CASE Tick
  <2>1. \A r \in locks : left[r] # 0
    BY <1>19, Zenon DEF Tick
  <2>2. /\ lock' = IF lock.left > 1 THEN [lock EXCEPT !.left = @ - 1] ELSE Free
        /\ left' = [r \in Req |-> IF pc[r] \in {"idle", "done"} THEN left[r] ELSE Dec(left[r])]
        /\ UNCHANGED <<pc, locks, ttl, stored>>
    BY <1>19, Zenon DEF Tick
  <2> QED
    BY <2>1, <2>2 DEF Dec
<1>20. CASE UNCHANGED vars
  BY <1>20 DEF vars
<1> QED
  BY <1>1, <1>2, <1>3, <1>4, <1>5, <1>6, <1>7, <1>8, <1>9, <1>10, <1>11, <1>12,
     <1>13, <1>14, <1>15, <1>16, <1>17, <1>18, <1>19, <1>20
  DEF Next, Resolve, Finish

-----------------------------------------------------------------------------
(* Theorems                                                                *)

\* Type correctness, and the shape of the lock and of the ids, of every
\* behaviour: no assumption on time.
THEOREM ShapeInvariant == Spec => []Shape
<1>1. Init => Shape
  BY InitShape
<1>2. Shape /\ [Next]_vars => Shape'
  BY ShapePreserved
<1> QED
  BY <1>1, <1>2, PTL DEF Spec

\* The variables of the model keep their types.
THEOREM TypeCorrect == Spec => []TypeOK
<1>1. Shape => TypeOK
  BY DEF Shape
<1> QED
  BY <1>1, ShapeInvariant, PTL

\* Whatever the timing, releaseScript never ends the lock of another request.
THEOREM TokenGuard == Spec => OnlyOwnerUnlocks
<1> DEFINE A == \A r \in Req :
                  lock.owner = r /\ lock'.owner # r
                    => r \in locks \ locks' \/ (lock.left = 1 /\ pc' = pc)
<1>1. ASSUME Shape, [Next]_vars PROVE A
  <2> SUFFICES ASSUME NEW r \in Req, lock.owner = r, lock'.owner # r
               PROVE  r \in locks \ locks' \/ (lock.left = 1 /\ pc' = pc)
    OBVIOUS
  <2> USE ConversationConfig, <1>1 DEF Shape, TypeOK, LockShape, Free, Goto
  <2>1. ~UNCHANGED lock
    OBVIOUS
  <2>2. ASSUME NEW q \in Req PROVE ~Acquire(q) /\ ~AcquireLost(q)
    BY DEF Acquire, AcquireLost
  <2>3. ASSUME NEW q \in Req, UnlockHit(q) PROVE r \in locks \ locks'
    BY <2>1, <2>3 DEF UnlockHit, Unlocked
  <2>4. ASSUME NEW q \in Req, Exit(q) PROVE r \in locks \ locks'
    BY <2>1, <2>4 DEF Exit, Unlocked
  <2>5. ASSUME Tick PROVE lock.left = 1 /\ pc' = pc
    BY <2>5 DEF Tick
  <2> QED
    BY <2>1, <2>2, <2>3, <2>4, <2>5
    DEF Next, vars, Resolve, Finish, Arrive, GetHit, UseClientConv, GetMiss, RecheckHit,
        RecheckMiss, ResolveFails, Created, StreamEnds, StreamFails, Persist,
        PersistSkipped, Crash, Reset, Expire
<1>2. Shape /\ [Next]_vars => [A]_vars
  BY <1>1
<1> QED
  BY <1>2, ShapeInvariant, PTL DEF Spec, OnlyOwnerUnlocks

\* Lateness is remembered.
LEMMA LateStays == Shape /\ [Next]_vars => (late => late')
BY DEF Shape, TypeOK, Next, vars, Resolve, Finish, Arrive, GetHit, UseClientConv, GetMiss,
       Acquire, AcquireLost, RecheckHit, RecheckMiss, ResolveFails, UnlockHit, Created,
       StreamEnds, StreamFails, Persist, PersistSkipped, Exit, Crash, Reset, Expire, Tick

\* The inductive invariant: while nobody was late the lock keeps its promise.
THEOREM LockInvariant ==
    ASSUME ShortHold PROVE Spec => []LockInv
<1>1. Init => LockInv
  BY InitShape, ConversationConfig DEF Init, LockInv, Holding, NoFork
<1>2. LockInv /\ [Next]_vars => LockInv'
  BY ShapePreserved, HoldingPreserved, LateStays, ShortHold DEF LockInv
<1> QED
  BY <1>1, <1>2, PTL DEF Spec

\* First requests are serialised until one outlives its lock.
THEOREM CreatorsSerialised ==
    ASSUME ShortHold PROVE Spec => []OneCreator
<1>1. LockInv => OneCreator
  BY DEF LockInv, Holding, OneCreator
<1> QED
  BY <1>1, LockInvariant, PTL

-----------------------------------------------------------------------------
(* Resets                                                                  *)

\* No step brings a forgotten conversation back, but the one that takes it from
\* the set.
LEMMA ForgettingPreserved ==
    ASSUME Shape, Forgetting, [Next]_vars
    PROVE  Forgetting'
<1> USE ConversationConfig
    DEF Shape, TypeOK, Identity, Forgetting, ResetForgets, Chatting, Conv, Goto
<1>1. ASSUME NEW r \in Req, Arrive(r) \/ GetMiss(r) PROVE Forgetting'
  BY <1>1 DEF Arrive, GetMiss
<1>2. ASSUME NEW r \in Req, GetHit(r) PROVE Forgetting'
  BY <1>2 DEF GetHit
<1>3. ASSUME NEW r \in Req, NEW x \in Conv, UseClientConv(r, x) PROVE Forgetting'
  BY <1>3 DEF UseClientConv
<1>4. ASSUME NEW r \in Req, Acquire(r) \/ AcquireLost(r) PROVE Forgetting'
  BY <1>4 DEF Acquire, AcquireLost
<1>5. ASSUME NEW r \in Req, RecheckHit(r) PROVE Forgetting'
  BY <1>5 DEF RecheckHit
<1>6. ASSUME NEW r \in Req, RecheckMiss(r) \/ ResolveFails(r) PROVE Forgetting'
  BY <1>6 DEF RecheckMiss, ResolveFails
<1>7. ASSUME NEW r \in Req, UnlockHit(r) \/ Exit(r) \/ Crash(r) PROVE Forgetting'
  BY <1>7 DEF UnlockHit, Exit, Crash
<1>8. ASSUME NEW r \in Req, Created(r) PROVE Forgetting'
  BY <1>8 DEF Created
<1>9. ASSUME NEW r \in Req, StreamEnds(r) \/ StreamFails(r) PROVE Forgetting'
  BY <1>9 DEF StreamEnds, StreamFails
<1>10. ASSUME NEW r \in Req, Persist(r) PROVE Forgetting'
  BY <1>10 DEF Persist
<1>11. ASSUME NEW r \in Req, PersistSkipped(r) PROVE Forgetting'
  BY <1>11 DEF PersistSkipped
<1>12. CASE Reset
  BY <1>12 DEF Reset, DeleteConversation
<1>13. CASE Expire
  BY <1>13 DEF Expire
<1>14. CASE Tick
  BY <1>14 DEF Tick
<1>15. CASE UNCHANGED vars
  BY <1>15 DEF vars
<1> QED
  BY <1>1, <1>2, <1>3, <1>4, <1>5, <1>6, <1>7, <1>8, <1>9, <1>10, <1>11, <1>12, <1>13,
     <1>14, <1>15
  DEF Next, Resolve, Finish

\* A reset is final for a conversation nobody was chatting in: HandleReset and any
\* interleaving of chats, whatever the locks do.
THEOREM ResetIsFinal == Spec => []ResetForgets
<1>1. Init => Forgetting
  BY ConversationConfig DEF Init, Forgetting, ResetForgets
<1>2. Shape /\ Forgetting /\ [Next]_vars => Forgetting'
  BY ForgettingPreserved
<1>3. Forgetting => ResetForgets
  BY DEF Forgetting
<1> QED
  BY <1>1, <1>2, <1>3, ShapeInvariant, PTL DEF Spec

-----------------------------------------------------------------------------
(* The refinement                                                          *)

\* Until a request is late, lookup, lock, stream and persist implement the
\* get-or-create of ConversationStore, for any number of requests.
THEOREM ConversationImplementsStore ==
    ASSUME ShortHold PROVE Spec => ImplementsStore
<1>1. Init => Store!Init
  BY DEF Init, Store!Init, KnownToClients
<1>2. LockInv /\ [Next]_vars => [Store!Next]_(Store!vars)
  <2>u. UNCHANGED vars => UNCHANGED Store!vars
    <3> SUFFICES ASSUME UNCHANGED vars PROVE UNCHANGED Store!vars
      OBVIOUS
    <3>1. mapping' = mapping /\ stored' = stored /\ late' = late
      BY DEF vars
    <3>2. KnownToClients' = KnownToClients
      BY DEF vars, KnownToClients
    <3> QED
      BY <3>1, <3>2 DEF Store!vars
  <2>l. late' => Store!Next
    BY Zenon DEF Store!Next
  <2> SUFFICES ASSUME LockInv, Next, ~late'
               PROVE  Store!Next \/ UNCHANGED Store!vars
    BY <2>u, <2>l, Zenon
  <2>a. Shape /\ ~late /\ Holding
    BY LateStays DEF LockInv
  <2> USE ConversationConfig, <2>a DEF Goto
  <2>b. late' = late
    <3>1. TypeOK /\ TypeOK'
      BY TypePreserved DEF Shape
    <3>2. late \in BOOLEAN /\ late' \in BOOLEAN
      BY <3>1, Zenon DEF TypeOK
    <3> QED
      BY <3>2, Zenon
  <2>1. ASSUME NEW r \in Req, Arrive(r) \/ Resolve(r) \/ StreamEnds(r) \/ Created(r)
        PROVE  KnownToClients' = KnownToClients /\ UNCHANGED <<mapping, stored>>
    <3> USE DEF KnownToClients, Shape, TypeOK, Identity
    <3>1. CASE Arrive(r) \/ StreamEnds(r)
      BY <3>1 DEF Arrive, StreamEnds
    <3>2. CASE GetHit(r) \/ RecheckHit(r)
      BY <3>2 DEF GetHit, RecheckHit
    <3>3. CASE \E x \in Conv : UseClientConv(r, x)
      BY <3>3 DEF UseClientConv
    <3>4. CASE GetMiss(r) \/ Acquire(r) \/ AcquireLost(r)
      BY <3>4 DEF GetMiss, Acquire, AcquireLost
    <3>5. CASE RecheckMiss(r) \/ ResolveFails(r) \/ UnlockHit(r)
      BY <3>5 DEF RecheckMiss, ResolveFails, UnlockHit
    <3>6. CASE Created(r)
      BY <3>6 DEF Created
    <3> QED BY <2>1, <3>1, <3>2, <3>3, <3>4, <3>5, <3>6 DEF Resolve
  <2>2. ASSUME NEW r \in Req, StreamFails(r) \/ PersistSkipped(r) \/ Exit(r) \/ Crash(r)
        PROVE  /\ KnownToClients' = KnownToClients \/ KnownToClients' = KnownToClients \cup {r}
               /\ UNCHANGED <<mapping, stored>>
    BY <2>2 DEF StreamFails, PersistSkipped, Exit, Crash, KnownToClients, Shape, TypeOK
  <2>3. ASSUME NEW r \in Req, Persist(r)
        PROVE  \E x \in Conv : Store!Create(x) \/ Store!Resume(x)
    <3>1. CASE conv[r] = r
      <4>1. stored = {} /\ stored' = {r} /\ mapping' = r
        BY <2>3, <3>1 DEF Persist, Holding, Shape, Identity
      <4>2. r \notin KnownToClients /\ KnownToClients' = KnownToClients \cup {r}
        BY <2>3, <3>1 DEF Persist, KnownToClients, Shape, TypeOK
      <4>3. Store!Create(r)
        BY <4>1, <4>2 DEF Store!Create
      <4> QED
        BY <4>3 DEF Conv
    <3>2. CASE conv[r] # r
      <4>1. stored' = stored /\ mapping' = conv[r] /\ conv[r] \in Conv
        BY <2>3, <3>2 DEF Persist, Shape, TypeOK, Conv
      <4>2. conv[r] \in KnownToClients /\ KnownToClients' = KnownToClients
        BY <2>3, <3>2 DEF Persist, KnownToClients, Shape, TypeOK, Identity, Conv
      <4>3. Store!Resume(conv[r])
        BY <4>1, <4>2 DEF Store!Resume
      <4> QED
        BY <4>1, <4>3
    <3> QED
      BY <3>1, <3>2
  <2>4. ASSUME Reset \/ Expire PROVE Store!Forget
    BY <2>4 DEF Reset, DeleteConversation, Expire, Store!Forget, KnownToClients
  <2>5. ASSUME Tick PROVE KnownToClients' = KnownToClients /\ UNCHANGED <<mapping, stored>>
    BY <2>5 DEF Tick, KnownToClients
  <2>6. ASSUME NEW r \in Req, KnownToClients' = KnownToClients \cup {r},
               UNCHANGED <<mapping, stored>>
        PROVE  \E x \in Conv : Store!Orphan(x)
    BY <2>6 DEF Store!Orphan, Conv
  <2>7. ASSUME KnownToClients' = KnownToClients, UNCHANGED <<mapping, stored>>
        PROVE  UNCHANGED Store!vars
    BY <2>7, <2>b DEF Store!vars
  <2> QED
    BY <2>1, <2>2, <2>3, <2>4, <2>5, <2>6, <2>7 DEF Next, Finish, Store!Next
<1> QED
  BY <1>1, <1>2, LockInvariant, PTL DEF Spec, ImplementsStore, Store!Spec

-----------------------------------------------------------------------------
(* The registry of a connection                                            *)

Running == {g \in Go : st[g] # "off"}

ConnTypes ==
    /\ inflight \in [ReqID -> Go \cup {None}]
    /\ st \in [Go -> GoState]
    /\ id \in [Go -> ReqID \cup {None}]

\* An entry leads to the goroutine at work for its id.
Entries == \A i \in ReqID, g \in Go : inflight[i] = g <=> st[g] \in Active /\ id[g] = i

\* A goroutine that runs has an id: done() deletes by it.
Ids == \A g \in Go : st[g] # "off" => id[g] \in ReqID

Count == wg = Cardinality(Running)

ConnInv == ConnTypes /\ Entries /\ Ids /\ Count /\ NoGoroutineLeak

\* A new connection has no requests.
LEMMA InitConnInv == ConnInit => ConnInv
<1> SUFFICES ASSUME ConnInit PROVE ConnInv
  OBVIOUS
<1>1. ConnTypes /\ Ids /\ NoGoroutineLeak
  BY DEF ConnInit, ConnTypes, Ids, NoGoroutineLeak, GoState
<1>2. Entries
  BY AccessConfig DEF ConnInit, Entries, Active
<1>3. Count
  <2>1. Running = {}
    BY DEF ConnInit, Running
  <2> QED BY <2>1, FS_EmptySet DEF ConnInit, Count
<1> QED BY <1>1, <1>2, <1>3 DEF ConnInv

\* A step that leaves the registry and the goroutines alone.
LEMMA QuietConnInv ==
    ASSUME ConnInv, UNCHANGED <<inflight, wg, st, id>>, reader' # "closed" \/ reader' = reader
    PROVE  ConnInv'
<1>1. ConnTypes' /\ Entries' /\ Ids'
  BY DEF ConnInv, ConnTypes, Entries, Ids
<1>2. Count'
  BY DEF ConnInv, Count, Running
<1>3. NoGoroutineLeak'
  BY DEF ConnInv, NoGoroutineLeak
<1> QED BY <1>1, <1>2, <1>3 DEF ConnInv

\* A goroutine moves on inside HandleChat.
LEMMA MoveConnInv ==
    ASSUME ConnInv, NEW g \in Go, NEW from \in Active, NEW to \in Active, Step(g, from, to),
           UNCHANGED <<reader, inflight, wg, id>>
    PROVE  ConnInv'
<1>1. /\ st[g] = from /\ st' = [st EXCEPT ![g] = to] /\ st \in [Go -> GoState]
      /\ "off" \notin Active /\ Active \subseteq GoState
  BY DEF Step, ConnInv, ConnTypes, Active, GoState
<1>2. ConnTypes' /\ Ids'
  BY <1>1 DEF ConnInv, ConnTypes, Ids
<1>3. Entries'
  BY <1>1 DEF ConnInv, Entries
<1>4. Count'
  <2>1. Running' = Running
    BY <1>1 DEF Running
  <2> QED BY <2>1 DEF ConnInv, Count
<1>5. NoGoroutineLeak'
  BY <1>1 DEF ConnInv, NoGoroutineLeak
<1> QED BY <1>2, <1>3, <1>4, <1>5 DEF ConnInv

\* Begin, for an id that is not in flight.
LEMMA BeginConnInv ==
    ASSUME ConnInv, NEW i \in ReqID, NEW g \in Go, ReadChat(i, g)
    PROVE  ConnInv'
<1>1. /\ st[g] = "off" /\ inflight[i] = None /\ reader = "read" /\ reader' = reader
      /\ inflight' = [inflight EXCEPT ![i] = g] /\ wg' = wg + 1
      /\ st' = [st EXCEPT ![g] = "start"] /\ id' = [id EXCEPT ![g] = i]
  BY DEF ReadChat, Begin, Reads
<1>2. ConnTypes
  BY DEF ConnInv
<1>3. ConnTypes' /\ Ids'
  BY <1>1, <1>2 DEF ConnInv, ConnTypes, Ids, GoState
<1>4. Entries'
  <2> SUFFICES ASSUME NEW j \in ReqID, NEW h \in Go
               PROVE  inflight'[j] = h <=> st'[h] \in Active /\ id'[h] = j
    BY DEF Entries
  <2>1. Entries /\ None \notin Go /\ "off" \notin Active /\ "start" \in Active
    BY AccessConfig DEF ConnInv, Active
  <2>2. CASE h = g
    BY <1>1, <1>2, <2>1, <2>2 DEF ConnTypes, Entries
  <2>3. CASE h # g
    BY <1>1, <1>2, <2>1, <2>3 DEF ConnTypes, Entries
  <2> QED BY <2>2, <2>3
<1>5. Count'
  <2>1. Running' = Running \cup {g} /\ g \notin Running /\ Running \subseteq Go
    BY <1>1, <1>2 DEF Running, ConnTypes
  <2>2. IsFiniteSet(Running)
    BY <2>1, AccessConfig, FS_Subset
  <2> QED BY <1>1, <2>1, <2>2, FS_AddElement DEF ConnInv, Count
<1>6. NoGoroutineLeak'
  BY <1>1 DEF NoGoroutineLeak
<1> QED BY <1>3, <1>4, <1>5, <1>6 DEF ConnInv

\* The first half of done().
LEMMA DeleteConnInv ==
    ASSUME ConnInv, NEW g \in Go, Delete(g)
    PROVE  ConnInv'
<1>1. /\ st[g] = "leave" /\ st' = [st EXCEPT ![g] = "left"]
      /\ inflight' = [inflight EXCEPT ![id[g]] = None] /\ UNCHANGED <<reader, wg, id>>
  BY DEF Delete, Step
<1>2. ConnTypes /\ Entries /\ None \notin Go /\ "left" \notin Active /\ "leave" \in Active
  BY AccessConfig DEF ConnInv, Active
<1>3. id[g] \in ReqID
  BY <1>1 DEF ConnInv, Ids
<1>4. ConnTypes' /\ Ids'
  BY <1>1, <1>2, <1>3 DEF ConnInv, ConnTypes, Ids, GoState
<1>5. Entries'
  <2> SUFFICES ASSUME NEW j \in ReqID, NEW h \in Go
               PROVE  inflight'[j] = h <=> st'[h] \in Active /\ id'[h] = j
    BY DEF Entries
  <2>1. inflight[id[g]] = g
    BY <1>1, <1>2, <1>3 DEF Entries
  <2>2. CASE h = g
    BY <1>1, <1>2, <1>3, <2>1, <2>2 DEF ConnTypes, Entries
  <2>3. CASE h # g
    BY <1>1, <1>2, <1>3, <2>1, <2>3 DEF ConnTypes, Entries
  <2> QED BY <2>2, <2>3
<1>6. Count'
  <2>1. Running' = Running
    BY <1>1, <1>2 DEF Running, ConnTypes
  <2> QED BY <1>1, <2>1 DEF ConnInv, Count
<1>7. NoGoroutineLeak'
  BY <1>1 DEF ConnInv, NoGoroutineLeak
<1> QED BY <1>4, <1>5, <1>6, <1>7 DEF ConnInv

\* The second half of done().
LEMMA DoneConnInv ==
    ASSUME ConnInv, NEW g \in Go, Done(g)
    PROVE  ConnInv'
<1>1. /\ st[g] = "left" /\ st' = [st EXCEPT ![g] = "off"] /\ wg' = wg - 1
      /\ id' = [id EXCEPT ![g] = None] /\ UNCHANGED <<reader, inflight>>
  BY DEF Done, Step
<1>2. ConnTypes /\ Entries /\ "left" \notin Active /\ "off" \notin Active
  BY DEF ConnInv, Active
<1>3. ConnTypes' /\ Ids'
  BY <1>1, <1>2 DEF ConnInv, ConnTypes, Ids, GoState
<1>4. Entries'
  BY <1>1, <1>2 DEF ConnTypes, Entries
<1>5. Count'
  <2>1. Running' = Running \ {g} /\ g \in Running /\ Running \subseteq Go
    BY <1>1, <1>2 DEF Running, ConnTypes
  <2>2. IsFiniteSet(Running)
    BY <2>1, AccessConfig, FS_Subset
  <2> QED BY <1>1, <2>1, <2>2, FS_RemoveElement DEF ConnInv, Count
<1>6. NoGoroutineLeak'
  BY <1>1 DEF ConnInv, NoGoroutineLeak
<1> QED BY <1>3, <1>4, <1>5, <1>6 DEF ConnInv

\* Wait returns only when no goroutine is left.
LEMMA CloseConnInv ==
    ASSUME ConnInv, Close
    PROVE  ConnInv'
<1>1. ConnTypes' /\ Entries' /\ Ids'
  BY DEF ConnInv, ConnTypes, Entries, Ids, Close, goVars
<1>2. Count'
  BY DEF ConnInv, Count, Running, Close, goVars
<1>3. Running = {}
  <2>1. Running \subseteq Go /\ Cardinality(Running) = 0
    BY DEF ConnInv, Count, Running, Close, Wait
  <2>2. IsFiniteSet(Running)
    BY <2>1, AccessConfig, FS_Subset
  <2> QED BY <2>1, <2>2, FS_EmptySet
<1>4. NoGoroutineLeak'
  BY <1>3 DEF Running, NoGoroutineLeak, Close, goVars
<1> QED BY <1>1, <1>2, <1>4 DEF ConnInv

\* Every step preserves the invariant.
LEMMA NextConnInv == ConnInv /\ [ConnNext]_connVars => ConnInv'
<1> SUFFICES ASSUME ConnInv, [ConnNext]_connVars PROVE ConnInv'
  OBVIOUS
<1> USE DEF goVars
<1>1. CASE ReadInline \/ ReadReset \/ ReadAuthFails \/ (\E p \in Player : ReadAuth(p))
  BY <1>1, QuietConnInv DEF ReadInline, ReadReset, ReadAuthFails, ReadAuth, Answer
<1>2. CASE (\E i \in ReqID : ReadStop(i) \/ ReadDuplicate(i)) \/ ReaderSend
  BY <1>2, QuietConnInv DEF ReadStop, ReadDuplicate, ReaderSend
<1>3. CASE ReadEOF \/ IdleTimeout \/ ReadLate
  BY <1>3, QuietConnInv DEF ReadEOF, IdleTimeout, ReadLate, EndReads
<1>4. CASE PeerReads \/ PeerStops \/ Shutdown
  BY <1>4, QuietConnInv DEF PeerReads, PeerStops, Shutdown
<1>5. CASE \E i \in ReqID, g \in Go : ReadChat(i, g)
  BY <1>5, BeginConnInv
<1>6. CASE Close
  BY <1>6, CloseConnInv
<1>7. CASE \E g \in Go : Request(g)
  <2>1. PICK g \in Go : Request(g)
    BY <1>7
  <2>2. {"start", "run", "send", "leave"} = Active
    BY DEF Active
  <2>3. CASE ReadPlayer(g) \/ Emit(g) \/ Send(g) \/ Return(g)
    BY <2>2, <2>3, MoveConnInv DEF ReadPlayer, Emit, Send, Return
  <2> QED BY <2>1, <2>3, DeleteConnInv, DoneConnInv DEF Request
<1>8. CASE UNCHANGED connVars
  BY <1>8, QuietConnInv DEF connVars
<1> QED BY <1>1, <1>2, <1>3, <1>4, <1>5, <1>6, <1>7, <1>8 DEF ConnNext, Reader

\* Registry.Begin, the delete and the wg.Done of done(), Cancel and CancelAll keep
\* the registry exact, however many requests run and however ids are reused.
THEOREM RegistryIsExact == ConnSpec => []RegistryExact
<1>1. ConnInv => RegistryExact
  BY DEF ConnInv, Entries, Count, Running, RegistryExact
<1> QED BY <1>1, InitConnInv, NextConnInv, PTL DEF ConnSpec

\* When ServeConn returns, every HandleChat it started has.
THEOREM ServeConnReturnsLast == ConnSpec => []NoGoroutineLeak
<1>1. ConnInv => NoGoroutineLeak
  BY DEF ConnInv
<1> QED BY <1>1, InitConnInv, NextConnInv, PTL DEF ConnSpec

=============================================================================
