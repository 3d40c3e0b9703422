-------------------------------- MODULE Access --------------------------------
(***************************************************************************)
(* One client connection: ServeConn and dispatch of internal/listener, the *)
(* Registry and ConnWriter of internal/mux and the binding of              *)
(* internal/session.  The reader goroutine serves one frame after the      *)
(* other; every accepted chat runs in a goroutine of its own and writes    *)
(* its frames through the shared writer.                                   *)
(*                                                                         *)
(* HandleChat is a goroutine that reads the player, sends a few frames and *)
(* returns; it need not return by itself, but does when its context is     *)
(* done.  The peer may stop sending (quiet), stop reading (stalled) or be  *)
(* gone.  A write has no deadline: it waits until the peer makes room.     *)
(***************************************************************************)
EXTENDS Naturals, FiniteSets

CONSTANTS
    ReqID,       \* request ids the client uses, again after they finish
    Player,
    Go,          \* goroutines for requests: how many run at a time is a bound
    None,        \* no player, no entry in the registry, no request
    OutCap,      \* frames the socket takes before a write blocks
    MaxFrames    \* bound: frames one HandleChat sends

ASSUME AccessConfig ==
    /\ IsFiniteSet(Go)
    /\ OutCap \in Nat \ {0}
    /\ MaxFrames \in Nat
    /\ None \notin Player \cup Go \cup ReqID

VARIABLES
    reader,     \* ServeConn's goroutine
    player,     \* sess.playerID
    inflight,   \* Registry.inflight
    wg,         \* Registry.wg
    st,         \* what a request goroutine does
    id,         \* its request id
    cancelled,  \* its context was cancelled through the registry
    bound,      \* the player bound when the request was dispatched
    served,     \* the player HandleChat read
    toSend,     \* frames it may still send
    connDone,   \* connCtx is done
    out,        \* frames written and not read by the peer
    quiet, stalled, gone

goVars == <<st, id, cancelled, bound, served, toSend>>
peerVars == <<quiet, stalled, gone>>
connVars == <<reader, player, inflight, wg, goVars, connDone, out, peerVars>>

GoState == {"off", "start", "run", "send", "leave", "left"}

\* The registry maps request ids to goroutines, the wait group counts no more
\* than there are, and the peer's buffer stays within its capacity.
ConnTypeOK ==
    /\ reader \in {"read", "send", "wait", "closed"}
    /\ player \in Player \cup {None}
    /\ inflight \in [ReqID -> Go \cup {None}]
    /\ wg \in 0..Cardinality(Go)
    /\ st \in [Go -> GoState]
    /\ id \in [Go -> ReqID \cup {None}]
    /\ cancelled \in [Go -> BOOLEAN]
    /\ {bound, served} \subseteq [Go -> Player \cup {None}]
    /\ toSend \in [Go -> 0..MaxFrames]
    /\ out \in 0..OutCap
    /\ {connDone, quiet, stalled, gone} \subseteq BOOLEAN

ConnInit ==
    /\ reader = "read"
    /\ player = None
    /\ inflight = [i \in ReqID |-> None]
    /\ wg = 0
    /\ st = [g \in Go |-> "off"]
    /\ id = [g \in Go |-> None]
    /\ cancelled = [g \in Go |-> FALSE]
    /\ bound = [g \in Go |-> None]
    /\ served = [g \in Go |-> None]
    /\ toSend = [g \in Go |-> 0]
    /\ connDone = FALSE
    /\ out = 0
    /\ quiet = FALSE /\ stalled = FALSE /\ gone = FALSE

-----------------------------------------------------------------------------
(* The reader                                                              *)

\* A frame arrives on a live connection.
Reads == reader = "read" /\ ~quiet /\ ~gone /\ ~connDone

\* The reader answers a frame itself, and nothing else changes.
Answer ==
    /\ Reads
    /\ reader' = "send"
    /\ UNCHANGED <<player, inflight, wg, goVars, connDone, out, peerVars>>

Authenticated == player # None

\* A ping, or a chat or reset without request id or before authentication.
ReadInline == Answer

\* Reset runs in the reader: Conversation.tla has what it does to the mapping.
ReadReset == Authenticated /\ Answer

\* Verify rejects the token: an earlier binding stays.
ReadAuthFails == Answer

Bind(p) == player' = p

\* A successful authentication binds the session, whatever it was bound to.
ReadAuth(p) ==
    /\ Reads
    /\ Bind(p)
    /\ reader' = "send"
    /\ UNCHANGED <<inflight, wg, goVars, connDone, out, peerVars>>

Cancelled(g) == connDone \/ cancelled[g]

ReadStop(i) ==
    /\ Reads
    /\ cancelled' = [g \in Go |-> cancelled[g] \/ inflight[i] = g]
    /\ UNCHANGED <<reader, player, inflight, wg, st, id, bound, served, toSend, connDone,
                   out, peerVars>>

\* Registry.Begin and the new goroutine.
Begin(i, g) ==
    /\ st[g] = "off"
    /\ inflight' = [inflight EXCEPT ![i] = g]
    /\ wg' = wg + 1
    /\ st' = [st EXCEPT ![g] = "start"]
    /\ id' = [id EXCEPT ![g] = i]
    /\ cancelled' = [cancelled EXCEPT ![g] = FALSE]
    /\ bound' = [bound EXCEPT ![g] = player]
    /\ served' = [served EXCEPT ![g] = None]
    /\ toSend' = [toSend EXCEPT ![g] = MaxFrames]

\* Seeded fault: a duplicate request id is not rejected.
ReadAnyChat(i, g) ==
    /\ Reads
    /\ Authenticated
    /\ Begin(i, g)
    /\ UNCHANGED <<reader, player, connDone, out, peerVars>>

ReadChat(i, g) ==
    /\ Reads
    /\ Authenticated
    /\ inflight[i] = None
    /\ Begin(i, g)
    /\ UNCHANGED <<reader, player, connDone, out, peerVars>>

\* "duplicate request_id in flight"
ReadDuplicate(i) ==
    /\ Reads
    /\ Authenticated
    /\ inflight[i] # None
    /\ reader' = "send"
    /\ UNCHANGED <<player, inflight, wg, goVars, connDone, out, peerVars>>

\* A write takes a free place, or fails because the peer is gone.
Write ==
    \/ ~gone /\ out < OutCap /\ out' = out + 1
    \/ gone /\ UNCHANGED out

ReaderSend ==
    /\ reader = "send"
    /\ reader' = "read"
    /\ Write
    /\ UNCHANGED <<player, inflight, wg, goVars, connDone, peerVars>>

CancelAll == cancelled' = [g \in Go |-> cancelled[g] \/ \E i \in ReqID : inflight[i] = g]

\* Seeded fault: the deferred function does not cancel what is in flight.
EndReadsUncancelled ==
    /\ reader = "read"
    /\ reader' = "wait"
    /\ UNCHANGED <<player, inflight, wg, st, id, cancelled, bound, served, toSend, connDone,
                   out, peerVars>>

\* ServeConn leaves its loop: cancelConn and CancelAll.
EndReads ==
    /\ reader = "read"
    /\ reader' = "wait"
    /\ connDone' = TRUE
    /\ CancelAll
    /\ UNCHANGED <<player, inflight, wg, st, id, bound, served, toSend, out, peerVars>>

ReadEOF == gone /\ EndReads

\* Nothing was read for idleTimeout.
IdleTimeout == ~gone /\ EndReads

\* A frame read after the server's context was cancelled ends the loop.
ReadLate == ~quiet /\ ~gone /\ connDone /\ EndReads

\* Seeded fault: ServeConn does not wait for its requests.
CloseEarly ==
    /\ reader = "wait"
    /\ reader' = "closed"
    /\ UNCHANGED <<player, inflight, wg, goVars, connDone, out, peerVars>>

\* registry.Wait() returns.
Wait == wg = 0

\* After it, conn.Close().
Close ==
    /\ reader = "wait"
    /\ Wait
    /\ reader' = "closed"
    /\ UNCHANGED <<player, inflight, wg, goVars, connDone, out, peerVars>>

-----------------------------------------------------------------------------
(* A request goroutine                                                     *)

Step(g, from, to) ==
    /\ st[g] = from
    /\ st' = [st EXCEPT ![g] = to]

ReadPlayer(g) ==
    /\ Step(g, "start", "run")
    /\ served' = [served EXCEPT ![g] = player]
    /\ UNCHANGED <<reader, player, inflight, wg, id, cancelled, bound, toSend, connDone, out, peerVars>>

Emit(g) ==
    /\ toSend[g] > 0
    /\ Step(g, "run", "send")
    /\ toSend' = [toSend EXCEPT ![g] = @ - 1]
    /\ UNCHANGED <<reader, player, inflight, wg, id, cancelled, bound, served, connDone, out, peerVars>>

Send(g) ==
    /\ Step(g, "send", "run")
    /\ Write
    /\ UNCHANGED <<reader, player, inflight, wg, id, cancelled, bound, served, toSend, connDone, peerVars>>

\* HandleChat returns.
Return(g) ==
    /\ Step(g, "run", "leave")
    /\ UNCHANGED <<reader, player, inflight, wg, id, cancelled, bound, served, toSend, connDone, out, peerVars>>

\* Seeded fault: done() is skipped for a request that was stopped.
DeleteUnlessStopped(g) ==
    /\ ~Cancelled(g)
    /\ Step(g, "leave", "left")
    /\ inflight' = [inflight EXCEPT ![id[g]] = None]
    /\ UNCHANGED <<reader, player, wg, id, cancelled, bound, served, toSend, connDone, out, peerVars>>

\* The deferred done(): delete by key, then wg.Done().
Delete(g) ==
    /\ Step(g, "leave", "left")
    /\ inflight' = [inflight EXCEPT ![id[g]] = None]
    /\ cancelled' = [cancelled EXCEPT ![g] = TRUE]
    /\ UNCHANGED <<reader, player, wg, id, bound, served, toSend, connDone, out, peerVars>>

Done(g) ==
    /\ Step(g, "left", "off")
    /\ wg' = wg - 1
    /\ id' = [id EXCEPT ![g] = None]
    /\ cancelled' = [cancelled EXCEPT ![g] = FALSE]
    /\ bound' = [bound EXCEPT ![g] = None]
    /\ served' = [served EXCEPT ![g] = None]
    /\ toSend' = [toSend EXCEPT ![g] = 0]
    /\ UNCHANGED <<reader, player, inflight, connDone, out, peerVars>>

-----------------------------------------------------------------------------
(* The peer and the server                                                 *)

PeerReads ==
    /\ ~stalled /\ out > 0
    /\ out' = out - 1
    /\ UNCHANGED <<reader, player, inflight, wg, goVars, connDone, peerVars>>

PeerStops ==
    /\ reader # "closed"
    /\ \/ ~quiet /\ quiet' = TRUE /\ UNCHANGED <<stalled, gone>>
       \/ ~stalled /\ stalled' = TRUE /\ UNCHANGED <<quiet, gone>>
       \/ ~gone /\ gone' = TRUE /\ UNCHANGED <<quiet, stalled>>
    /\ UNCHANGED <<reader, player, inflight, wg, goVars, connDone, out>>

\* The server's context, the parent of connCtx, is cancelled.
Shutdown ==
    /\ ~connDone
    /\ connDone' = TRUE
    /\ UNCHANGED <<reader, player, inflight, wg, goVars, out, peerVars>>

Reader ==
    \/ ReadInline \/ ReadReset \/ ReadAuthFails
    \/ \E p \in Player : ReadAuth(p)
    \/ \E i \in ReqID : ReadStop(i)
    \/ \E i \in ReqID, g \in Go : ReadChat(i, g)
    \/ \E i \in ReqID : ReadDuplicate(i)
    \/ ReaderSend \/ ReadEOF \/ IdleTimeout \/ ReadLate \/ Close

Request(g) ==
    \/ ReadPlayer(g) \/ Emit(g) \/ Send(g) \/ Return(g) \/ Delete(g) \/ Done(g)

ConnNext ==
    \/ Reader
    \/ \E g \in Go : Request(g)
    \/ PeerReads \/ PeerStops \/ Shutdown

ConnSpec == ConnInit /\ [][ConnNext]_connVars

\* Goroutines keep running, a blocked write goes on as soon as it can, a peer
\* that is not stalled reads, the read deadline passes when nothing is read, and
\* HandleChat returns on a done context.
ConnFairSpec ==
    /\ ConnSpec
    /\ WF_connVars(ReaderSend) /\ WF_connVars(ReadEOF)
    /\ WF_connVars(quiet /\ IdleTimeout) /\ WF_connVars(Close)
    /\ WF_connVars(PeerReads)
    /\ \A g \in Go :
          /\ WF_connVars(ReadPlayer(g)) /\ SF_connVars(Send(g))
          /\ WF_connVars(Delete(g)) /\ WF_connVars(Done(g))
          /\ WF_connVars(Cancelled(g) /\ Return(g))

-----------------------------------------------------------------------------
(* Properties                                                              *)

Active == {"start", "run", "send", "leave"}

\* The registry is exact at every moment, with ids reused and done() taking two
\* steps: an entry leads to the one goroutine at work for that id, and Wait counts
\* every goroutine that has not called wg.Done().
RegistryExact ==
    /\ \A i \in ReqID, g \in Go : inflight[i] = g <=> st[g] \in Active /\ id[g] = i
    /\ wg = Cardinality({g \in Go : st[g] # "off"})

\* No goroutine of a connection outlives it: when ServeConn returns, every
\* HandleChat has.
NoGoroutineLeak ==
    reader = "closed" => \A g \in Go : st[g] = "off"

\* A connection whose peer is gone is given up, and so is one that has become
\* quiet, provided the peer reads what it is sent.
ConnectionReclaimed ==
    /\ gone ~> reader = "closed"
    /\ []~stalled => (quiet ~> reader = "closed")

\* A stopped request ends and frees its id, provided the peer reads.
StopEnds ==
    []~stalled => \A g \in Go : cancelled[g] ~> st[g] = "off"

\* ServeConn runs until the peer disconnects or the idle timeout fires -- without
\* the proviso that the peer reads.
QuietConnectionCloses == quiet ~> reader = "closed"

\* The player binding is established on the first AuthRequest: a request is
\* served for the player it was dispatched for.
ServedAsDispatched ==
    \A g \in Go : served[g] # None => served[g] = bound[g]

=============================================================================
