----------------------------- MODULE Conversation -----------------------------
(***************************************************************************)
(* The conversation of one (player, npc) pair: the Redis keys              *)
(* conv:{player}:{npc} and lock:conv:{player}:{npc} of internal/store and  *)
(* the chat requests that resolve, create and persist a conversation id    *)
(* through resolveConversation and HandleChat of internal/pipeline, from   *)
(* any number of gateway processes.  Pairs share no key.                   *)
(*                                                                         *)
(* A request is a process that takes the store's calls one at a time.  Any *)
(* of them may fail (Redis down, context cancelled), and a process may die *)
(* between any two.                                                        *)
(***************************************************************************)
EXTENDS Naturals, FiniteSets

CONSTANTS
    Req,         \* chat requests for the pair; the conversation Dify creates
                 \* for request r is named r
    ClientConv,  \* ids a client may send that no request here created
    NoConv,      \* the empty conversation id
    NoReq,       \* the owner of a free lock
    LockTTL,     \* Handler.conversationLockTTL, in ticks
    Deadline,    \* ticks until the deadline of a request's context; 0 = none
    MaxHold      \* ticks under the lock, for a request without a deadline, after
                 \* which it counts as late; nothing in the code ends it then

ASSUME ConversationConfig ==
    /\ LockTTL \in Nat \ {0}
    /\ Deadline \in Nat
    /\ MaxHold \in Nat
    /\ NoReq \notin Req
    /\ NoConv \notin Req \cup ClientConv
    /\ Req \cap ClientConv = {}

Conv == Req \cup ClientConv

MaxTTL == LockTTL + Deadline + MaxHold + 1

VARIABLES
    mapping,  \* the value of conv:{player}:{npc}, NoConv when absent
    lock,     \* lock:conv:{player}:{npc}: whose token, and its PTTL
    pc,       \* where a request is
    conv,     \* the conversation id it carries: conversationID, then result's
    locks,    \* the requests with an unlock still to be called
    left,     \* ticks a request has until its deadline or, without one, ticks
              \* it may still keep the lock
    ttl,      \* lockTTL as resolveConversation computed it
    stored,   \* conversations stored by the request that created them since
              \* the mapping was last absent by reset or expiry
    late,     \* a request has kept the lock beyond its time
    forgotten \* conversations reset while no chat was going on in them

vars == <<mapping, lock, pc, conv, locks, left, ttl, stored, late, forgotten>>

Stage == {"idle", "get", "acquire", "recheck", "unlock", "stream", "persist", "exit", "done"}

Free == [owner |-> NoReq, left |-> 0]

\* The lock is held by at most one token and never for longer than the longest
\* TTL resolveConversation computes; every request is at a step of HandleChat.
TypeOK ==
    /\ mapping \in Conv \cup {NoConv}
    /\ lock \in [owner : Req \cup {NoReq}, left : 0..MaxTTL]
    /\ pc \in [Req -> Stage]
    /\ conv \in [Req -> Conv \cup {NoConv}]
    /\ locks \in SUBSET Req
    /\ left \in [Req -> 0..(Deadline + MaxHold)]
    /\ ttl \in [Req -> 0..MaxTTL]
    /\ stored \in SUBSET Req
    /\ late \in BOOLEAN
    /\ forgotten \in SUBSET Conv

Init ==
    /\ mapping = NoConv
    /\ lock = Free
    /\ pc = [r \in Req |-> "idle"]
    /\ conv = [r \in Req |-> NoConv]
    /\ locks = {}
    /\ left = [r \in Req |-> Deadline]
    /\ ttl = [r \in Req |-> 0]
    /\ stored = {}
    /\ late = FALSE
    /\ forgotten = {}

Goto(r, from, to) ==
    /\ pc[r] = from
    /\ pc' = [pc EXCEPT ![r] = to]

Arrive(r) ==
    /\ Goto(r, "idle", "get")
    /\ UNCHANGED <<mapping, lock, conv, locks, left, ttl, stored, late, forgotten>>

-----------------------------------------------------------------------------
(* resolveConversation                                                     *)

\* GetConversation returns the mapping.
GetHit(r) ==
    /\ mapping # NoConv
    /\ Goto(r, "get", "stream")
    /\ conv' = [conv EXCEPT ![r] = mapping]
    /\ UNCHANGED <<mapping, lock, locks, left, ttl, stored, late, forgotten>>

\* The ids a client may have learnt: from elsewhere, or from a ChatDone.
KnownToClients ==
    ClientConv \cup {q \in Req : conv[q] = q /\ pc[q] \in {"exit", "done"}}

\* No mapping, but the client sent an id: used without the lock.
UseClientConv(r, x) ==
    /\ mapping = NoConv
    /\ x \in KnownToClients
    /\ Goto(r, "get", "stream")
    /\ conv' = [conv EXCEPT ![r] = x]
    /\ forgotten' = forgotten \ {x}
    /\ UNCHANGED <<mapping, lock, locks, left, ttl, stored, late>>

\* The lock must outlive the stream: its TTL is extended to the deadline of
\* the request, if the request has one, plus a second.
LockTTLFor(r) ==
    IF Deadline > 0 /\ left[r] + 1 > LockTTL THEN left[r] + 1 ELSE LockTTL

GetMiss(r) ==
    /\ mapping = NoConv
    /\ Goto(r, "get", "acquire")
    /\ ttl' = [ttl EXCEPT ![r] = LockTTLFor(r)]
    /\ UNCHANGED <<mapping, lock, conv, locks, left, stored, late, forgotten>>

\* Seeded fault: SET without NX.
AcquireAnyway(r) ==
    /\ Goto(r, "acquire", "recheck")
    /\ lock' = [owner |-> r, left |-> ttl[r]]
    /\ locks' = locks \cup {r}
    /\ left' = IF Deadline > 0 THEN left ELSE [left EXCEPT ![r] = MaxHold]
    /\ UNCHANGED <<mapping, conv, ttl, stored, late, forgotten>>

\* SET NX PX of AcquireConversationLock; while it fails the request polls.
Acquire(r) ==
    /\ lock = Free
    /\ Goto(r, "acquire", "recheck")
    /\ lock' = [owner |-> r, left |-> ttl[r]]
    /\ locks' = locks \cup {r}
    /\ left' = IF Deadline > 0 THEN left ELSE [left EXCEPT ![r] = MaxHold]
    /\ UNCHANGED <<mapping, conv, ttl, stored, late, forgotten>>

\* SET NX took the lock but its reply was lost: nobody will release it.  The client
\* reports the error, or has sent SET NX again, and then the request polls for the
\* lock it has itself set.
AcquireLost(r) ==
    /\ lock = Free
    /\ \/ Goto(r, "acquire", "exit")
       \/ Goto(r, "acquire", "acquire")
    /\ lock' = [owner |-> r, left |-> ttl[r]]
    /\ UNCHANGED <<mapping, conv, locks, left, ttl, stored, late, forgotten>>

RecheckHit(r) ==
    /\ mapping # NoConv
    /\ Goto(r, "recheck", "unlock")
    /\ conv' = [conv EXCEPT ![r] = mapping]
    /\ UNCHANGED <<mapping, lock, locks, left, ttl, stored, late, forgotten>>

\* Seeded fault: the mapping is not read again under the lock.
RecheckSkipped(r) ==
    /\ Goto(r, "recheck", "stream")
    /\ UNCHANGED <<mapping, lock, conv, locks, left, ttl, stored, late, forgotten>>

\* Still no mapping: the request keeps the lock and creates a conversation.
RecheckMiss(r) ==
    /\ mapping = NoConv
    /\ Goto(r, "recheck", "stream")
    /\ UNCHANGED <<mapping, lock, conv, locks, left, ttl, stored, late, forgotten>>

\* A store call of resolveConversation returns an error.
ResolveFails(r) ==
    /\ pc[r] \in {"get", "acquire", "recheck"}
    /\ pc' = [pc EXCEPT ![r] = "exit"]
    /\ UNCHANGED <<mapping, lock, conv, locks, left, ttl, stored, late, forgotten>>

\* Seeded fault: the key is deleted whoever holds it.
UnlockedBlindly(r) == Free

\* releaseScript: delete the key only while it holds our token.
Unlocked(r) == IF lock.owner = r THEN Free ELSE lock

\* unlock() before a request goes on with the conversation it found.
UnlockHit(r) ==
    /\ Goto(r, "unlock", "stream")
    /\ \/ lock' = Unlocked(r)
       \/ lock' = lock             \* the error is ignored
    /\ locks' = locks \ {r}
    /\ UNCHANGED <<mapping, conv, left, ttl, stored, late, forgotten>>

-----------------------------------------------------------------------------
(* HandleChat, from ChatStream on                                          *)

\* The first message event of a new conversation tells its id.
Created(r) ==
    /\ pc[r] = "stream"
    /\ conv[r] = NoConv
    /\ conv' = [conv EXCEPT ![r] = r]
    /\ UNCHANGED <<mapping, lock, pc, locks, left, ttl, stored, late, forgotten>>

\* ChatStream succeeds, or is stopped by the client: both go on to persist
\* (SetConversation, persistConversation).
StreamEnds(r) ==
    /\ Goto(r, "stream", "persist")
    /\ UNCHANGED <<mapping, lock, conv, locks, left, ttl, stored, late, forgotten>>

\* Any other outcome of the stream returns without persisting.
StreamFails(r) ==
    /\ Goto(r, "stream", "exit")
    /\ UNCHANGED <<mapping, lock, conv, locks, left, ttl, stored, late, forgotten>>

Persist(r) ==
    /\ conv[r] # NoConv
    /\ Goto(r, "persist", "exit")
    /\ mapping' = conv[r]
    /\ stored' = IF conv[r] = r THEN stored \cup {r} ELSE stored
    /\ UNCHANGED <<lock, conv, locks, left, ttl, late, forgotten>>

\* Nothing to persist, recordSuccess fails before, or SetConversation fails.
PersistSkipped(r) ==
    /\ Goto(r, "persist", "exit")
    /\ UNCHANGED <<mapping, lock, conv, locks, left, ttl, stored, late, forgotten>>

\* The deferred unlock, if the request has one.
Exit(r) ==
    /\ Goto(r, "exit", "done")
    /\ \/ lock' = IF r \in locks THEN Unlocked(r) ELSE lock
       \/ lock' = lock             \* the error is ignored
    /\ locks' = locks \ {r}
    /\ UNCHANGED <<mapping, conv, left, ttl, stored, late, forgotten>>

-----------------------------------------------------------------------------
(* Around the requests                                                     *)

\* The process serving r dies.
Crash(r) ==
    /\ pc[r] \notin {"idle", "done"}
    /\ pc' = [pc EXCEPT ![r] = "done"]
    /\ locks' = locks \ {r}
    /\ UNCHANGED <<mapping, lock, conv, left, ttl, stored, late, forgotten>>

\* Seeded fault: the key deleted is not the one the chats read.
DeleteConversationElsewhere == UNCHANGED <<mapping, stored>>

DeleteConversation ==
    /\ mapping' = NoConv
    /\ stored' = {}

\* The requests at work in a conversation.
Chatting(x) == {r \in Req : conv[r] = x /\ pc[r] \in {"unlock", "stream", "persist"}}

\* HandleReset: it takes no lock.
Reset ==
    /\ DeleteConversation
    /\ forgotten' = IF mapping = NoConv \/ Chatting(mapping) # {} THEN forgotten
                    ELSE forgotten \cup {mapping}
    /\ UNCHANGED <<lock, pc, conv, locks, left, ttl, late>>

\* The inactivity TTL of the mapping runs out.
Expire ==
    /\ mapping # NoConv
    /\ mapping' = NoConv
    /\ stored' = {}
    /\ UNCHANGED <<lock, pc, conv, locks, left, ttl, late, forgotten>>

Dec(n) == IF n > 0 THEN n - 1 ELSE 0

\* Seeded fault: the lock is set without PX.
TickKeepingLock ==
    /\ late' = (late \/ \E r \in locks : left[r] = 0)
    /\ left' = [r \in Req |-> IF pc[r] \in {"idle", "done"} THEN left[r] ELSE Dec(left[r])]
    /\ UNCHANGED <<mapping, lock, pc, conv, locks, ttl, stored, forgotten>>

\* A lock expires when its PTTL is used up.
Tick ==
    /\ late' = (late \/ \E r \in locks : left[r] = 0)
    /\ lock' = IF lock.left > 1 THEN [lock EXCEPT !.left = @ - 1] ELSE Free
    /\ left' = [r \in Req |-> IF pc[r] \in {"idle", "done"} THEN left[r] ELSE Dec(left[r])]
    /\ UNCHANGED <<mapping, pc, conv, locks, ttl, stored, forgotten>>

Resolve(r) ==
    \/ GetHit(r) \/ (\E x \in Conv : UseClientConv(r, x)) \/ GetMiss(r)
    \/ Acquire(r) \/ AcquireLost(r)
    \/ RecheckHit(r) \/ RecheckMiss(r) \/ ResolveFails(r) \/ UnlockHit(r)

Finish(r) ==
    \/ Created(r) \/ StreamEnds(r) \/ StreamFails(r)
    \/ Persist(r) \/ PersistSkipped(r) \/ Exit(r)

Next ==
    \/ \E r \in Req : Arrive(r) \/ Resolve(r) \/ Finish(r) \/ Crash(r)
    \/ Reset
    \/ Expire
    \/ Tick

Spec == Init /\ [][Next]_vars

\* Time passes, a waiting request keeps polling and its replies are not lost for
\* ever.  Nothing is assumed of the request that has the lock.
FairSpec ==
    /\ Spec
    /\ WF_vars(Tick)
    /\ \A r \in Req : WF_vars(Acquire(r)) /\ <>[][~AcquireLost(r)]_vars

-----------------------------------------------------------------------------
(* Properties                                                              *)

\* First requests are serialised: at most one request at a time creates a
\* conversation for the pair, as long as none has outlived its lock.
OneCreator ==
    ~late => \A r, q \in locks : r = q

\* store.go: concurrent first requests cannot fork a conversation.  Between two
\* resets or expiries, at most one conversation is stored by the request that
\* created it.
NoFork ==
    \A r, q \in stored : r = q

\* The abstract store: between two resets or expiries one conversation is born.
Store == INSTANCE ConversationStore WITH
             current <- mapping,
             known <- KnownToClients,
             born <- IF stored = {} THEN NoConv ELSE CHOOSE r \in stored : TRUE

\* Until a request outlives its lock, lookup, lock, stream and persist of any
\* number of requests implement an atomic get-or-create.
ImplementsStore == Store!Spec

\* HandleReset: once a conversation is reset and no chat is at work in it, no
\* later chat goes on with it, unless its client asks for it by its id.
ResetForgets ==
    /\ mapping \notin forgotten
    /\ \A x \in forgotten : Chatting(x) = {}

\* releaseScript is token-guarded: a step that ends the lock of a request is the
\* step of that request or the expiry of the lock, which is no request's step.
OnlyOwnerUnlocks ==
    [][\A r \in Req :
          lock.owner = r /\ lock'.owner # r
            => r \in locks \ locks' \/ (lock.left = 1 /\ pc' = pc)]_vars

\* Nobody waits for the lock for ever, although its holder may die, lose the
\* reply to SET NX, fail to unlock or never finish: the TTL hands it on.
WaitersProceed ==
    \A r \in Req : pc[r] = "acquire" ~> pc[r] # "acquire"

=============================================================================
