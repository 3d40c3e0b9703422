------------------------------ MODULE ChatHandler ------------------------------
(***************************************************************************)
(* One call of HandleChat (internal/pipeline/handler.go) with the stream   *)
(* it drives (ChatStream and parseSSE of internal/dify/sse.go), while the  *)
(* client may stop the request or disconnect, or its deadline may pass, at *)
(* any moment.  What the limiter, the store, the context assembler, the    *)
(* moderator and Dify answer is left open.                                 *)
(***************************************************************************)
EXTENDS Naturals, Sequences, SequencesExt

CONSTANT MaxEvents    \* message events Dify sends in one stream

ASSUME EventAssumption == MaxEvents \in Nat

VARIABLES
    pc,             \* where the handler is
    ctx,            \* the request context
    allowed,        \* Allow returned true: a slot is reserved
    locked,         \* resolveConversation returned an unlock
    called,         \* ChatStream was called
    events,         \* message events read
    taskID,         \* onEvent captured a task id
    convID,         \* result.ConversationID is set
    outputBlocked,
    received,       \* deltas given to filter.Push
    emitted,        \* deltas forwarded to the client
    err,            \* what ChatStream returned
    frames,         \* frames sent to the client
    settled,        \* limiter calls made: Record, RecordFailure, Release
    stored,         \* the mapping was written
    stopped,        \* Dify was asked to stop
    redisDown       \* a call failed although its context was live

vars == <<pc, ctx, allowed, locked, called, events, taskID, convID, outputBlocked,
          received, emitted, err, frames, settled, stored, stopped, redisDown>>

Pc == {"validate", "allow", "resolve", "build", "input", "stream", "ended",
       "success", "persist", "flush", "unlock", "returned"}

Frame == {"chunk", "done", "error", "blocked"}

\* The handler is at a step of HandleChat, never forwards more deltas than it
\* received, and sends only the frames of gateway.proto.
TypeOK ==
    /\ pc \in Pc
    /\ ctx \in {"live", "canceled", "expired"}
    /\ {allowed, locked, called, taskID, convID, outputBlocked, stored, stopped, redisDown}
         \subseteq BOOLEAN
    /\ events \in 0..MaxEvents
    /\ received \in 0..events
    /\ emitted \in 0..received
    /\ err \in {"nil", "replace", "other"}
    /\ frames \in Seq(Frame)
    /\ settled \in Seq({"success", "failure", "release"})

Init ==
    /\ pc = "validate"
    /\ ctx = "live"
    /\ allowed = FALSE /\ locked = FALSE /\ called = FALSE
    /\ events = 0 /\ taskID = FALSE /\ convID = FALSE
    /\ outputBlocked = FALSE /\ received = 0 /\ emitted = 0
    /\ err = "nil"
    /\ frames = <<>> /\ settled = <<>>
    /\ stored = FALSE /\ stopped = FALSE /\ redisDown = FALSE

streamVars == <<events, taskID, convID, outputBlocked, received, emitted, err>>

Goto(from, to) == pc = from /\ pc' = to

Send(f) == frames' = Append(frames, f)

Settle(call) == settled' = Append(settled, call)

\* A store or limiter call on the request context fails: the context is done, or
\* Redis is down.
CallFails == redisDown' = (redisDown \/ ctx = "live")

-----------------------------------------------------------------------------
(* Before the stream                                                       *)

\* npc_id and query are usable, and the handler has its dependencies.
Validate ==
    /\ Goto("validate", "allow")
    /\ UNCHANGED frames

\* "npc_id is required", "query is required", "query is too long"
BadRequest ==
    /\ Goto("validate", "unlock")
    /\ Send("error")

\* "gateway is not ready": the handler was built without one of its dependencies.
NotReady ==
    /\ Goto("validate", "unlock")
    /\ Send("error")

AllowOk ==
    /\ Goto("allow", "resolve")
    /\ ctx = "live"
    /\ allowed' = TRUE
    /\ UNCHANGED <<frames, redisDown>>

\* A limit is hit, or Allow fails.
AllowRefused ==
    /\ Goto("allow", "unlock")
    /\ Send("error")
    /\ \/ UNCHANGED redisDown
       \/ CallFails
    /\ UNCHANGED allowed

ResolveOk ==
    /\ Goto("resolve", "build")
    /\ ctx = "live"
    /\ locked' \in BOOLEAN
    /\ UNCHANGED <<frames, settled, redisDown>>

ResolveFails ==
    /\ Goto("resolve", "unlock")
    /\ CallFails
    /\ Settle("success")
    /\ Send("error")
    /\ UNCHANGED locked

\* Build degrades when a provider fails and only gives up on a done context.
Build ==
    \/ /\ Goto("build", "input")
       /\ UNCHANGED <<frames, settled>>
    \/ /\ Goto("build", "unlock")
       /\ ctx # "live"
       /\ Settle("success")
       /\ Send("error")

CheckInput ==
    \/ /\ Goto("input", "stream")
       /\ called' = TRUE
       /\ UNCHANGED <<frames, settled>>
    \/ /\ Goto("input", "unlock")
       /\ Settle("success")
       /\ Send("blocked")
       /\ UNCHANGED called

-----------------------------------------------------------------------------
(* The stream: events are read even after the stream context is cancelled, *)
(* as long as the scanner has them buffered.                               *)

\* Seeded fault: onDelta without the check of outputBlocked.
OnDeltaUnlatched ==
    /\ received' = received + 1
    /\ \/ UNCHANGED <<outputBlocked, emitted, frames>>
       \/ emitted' = received' /\ Send("chunk") /\ UNCHANGED outputBlocked
       \/ outputBlocked' = TRUE /\ Send("blocked") /\ UNCHANGED emitted

\* onDelta: the delta is dropped after a block; else the filter holds it back,
\* lets some or all of what it holds pass, or blocks and cancels the stream.
\* emitted counts the deltas sent whole: the filter holds text iff it is behind.
OnDelta ==
    \/ /\ outputBlocked
       /\ UNCHANGED <<outputBlocked, received, emitted, frames>>
    \/ /\ ~outputBlocked
       /\ received' = received + 1
       /\ \/ UNCHANGED <<outputBlocked, emitted, frames>>
          \/ /\ emitted' \in emitted..received'
             /\ Send("chunk")
             /\ UNCHANGED outputBlocked
          \/ /\ outputBlocked' = TRUE
             /\ Send("blocked")
             /\ UNCHANGED emitted

\* A message or agent_message event.  Any event may lack the id of the conversation,
\* and onEvent is called for the first message event only.
Message ==
    /\ pc = "stream"
    /\ events < MaxEvents
    /\ events' = events + 1
    /\ taskID' \in IF events = 0 THEN BOOLEAN ELSE {taskID}
    /\ convID' \in {convID, TRUE}
    /\ \/ OnDelta
       \/ UNCHANGED <<outputBlocked, received, emitted, frames>>   \* empty answer
    /\ UNCHANGED <<pc, err>>

MessageEnd ==
    /\ Goto("stream", "success")
    /\ convID' \in {convID, TRUE}
    /\ UNCHANGED <<events, taskID, outputBlocked, received, emitted, err>>

MessageReplace ==
    /\ Goto("stream", "ended")
    /\ err' = "replace"
    /\ UNCHANGED <<events, taskID, convID, outputBlocked, received, emitted>>

\* No response, an error event, a broken, incomplete or undecodable stream.
StreamFails ==
    /\ Goto("stream", "ended")
    /\ err' = "other"
    /\ UNCHANGED <<events, taskID, convID, outputBlocked, received, emitted>>

\* Seeded fault: the stream runs on a context that does not follow the request.
StreamCtxDetached == outputBlocked

\* streamCtx is a child of the request context; a block cancels it too.
StreamCtxDone == ctx # "live" \/ outputBlocked

\* The read from Dify returns because streamCtx is done.
StreamAborted == StreamCtxDone /\ StreamFails

-----------------------------------------------------------------------------
(* After the stream: the error branches, in the order of the code          *)

Replaced ==
    /\ Goto("ended", "unlock")
    /\ err = "replace"
    /\ Settle("success")
    /\ Send("blocked")
    /\ UNCHANGED <<stored, stopped, redisDown>>

\* Seeded fault: a blocked stream returns without settling its slot.
BlockedEndUnsettled ==
    /\ Goto("ended", "unlock")
    /\ err # "replace" /\ outputBlocked
    /\ UNCHANGED <<settled, frames, stored, stopped, redisDown>>

BlockedEnd ==
    /\ Goto("ended", "unlock")
    /\ err # "replace" /\ outputBlocked
    /\ Settle("success")
    /\ UNCHANGED <<frames, stored, stopped, redisDown>>

\* The POST of Client.Stop; that it fails is only logged.
Stop == stopped' = TRUE

\* Without a task id, as before the first message event, there is nothing to stop.
stopUpstream == IF taskID THEN Stop ELSE UNCHANGED stopped

\* On a detached context: fails only when Redis does.
persistConversation ==
    \/ stored' = convID /\ UNCHANGED redisDown
    \/ convID /\ redisDown' = TRUE /\ UNCHANGED stored

\* Seeded fault: the check for a stop comes before the one for a block.
StoppedFirst ==
    /\ Goto("ended", "unlock")
    /\ err # "replace" /\ ctx = "canceled"
    /\ stopUpstream
    /\ Settle("release")
    /\ persistConversation
    /\ Send("done")

Stopped ==
    /\ Goto("ended", "unlock")
    /\ err # "replace" /\ ~outputBlocked /\ ctx = "canceled"
    /\ stopUpstream
    /\ Settle("release")
    /\ persistConversation
    /\ Send("done")

Failed ==
    /\ Goto("ended", "unlock")
    /\ err # "replace" /\ ~outputBlocked /\ ctx # "canceled"
    /\ Settle("failure")
    /\ Send("error")
    /\ UNCHANGED <<stored, stopped, redisDown>>

-----------------------------------------------------------------------------
(* After the stream: success                                               *)

\* recordSuccess runs detached; Record makes its breaker and slot calls even
\* when it returns an error.
RecordSuccess ==
    /\ Settle("success")
    /\ \/ /\ Goto("success", "persist")
          /\ UNCHANGED <<frames, redisDown>>
       \/ /\ Goto("success", "unlock")
          /\ redisDown' = TRUE
          /\ Send("error")

\* Seeded fault: a mapping that cannot be written is only logged.
PersistLogged ==
    /\ Goto("persist", "flush")
    /\ stored' \in {FALSE, convID}
    /\ UNCHANGED <<frames, redisDown>>

\* SetConversation on the request context.
Persist ==
    \/ /\ Goto("persist", "flush")
       /\ ~convID \/ ctx = "live"
       /\ stored' = convID
       /\ UNCHANGED <<frames, redisDown>>
    \/ /\ Goto("persist", "unlock")
       /\ convID
       /\ CallFails
       /\ Send("error")
       /\ UNCHANGED stored

\* The end of the reply: the filter lets the rest pass or blocks it.
FlushAndDone ==
    /\ Goto("flush", "unlock")
    /\ \/ /\ outputBlocked
          /\ UNCHANGED <<emitted, frames>>
       \/ /\ ~outputBlocked
          /\ emitted' = received
          /\ frames' = frames \o (IF emitted < received THEN <<"chunk">> ELSE <<>>) \o <<"done">>
       \/ /\ ~outputBlocked /\ emitted < received
          /\ Send("blocked")
          /\ UNCHANGED emitted

\* The deferred unlock.
Unlock ==
    /\ Goto("unlock", "returned")
    /\ locked' = FALSE

-----------------------------------------------------------------------------

\* A StopRequest or the end of the connection cancels the request context.
Cancel ==
    /\ pc \notin {"unlock", "returned"}
    /\ ctx = "live"
    /\ ctx' = "canceled"

Deadline ==
    /\ pc \notin {"unlock", "returned"}
    /\ ctx = "live"
    /\ ctx' = "expired"

Before ==
    \/ (Validate \/ BadRequest \/ NotReady) /\ UNCHANGED <<allowed, locked, called, settled, redisDown>>
    \/ (AllowOk \/ AllowRefused) /\ UNCHANGED <<locked, called, settled>>
    \/ (ResolveOk \/ ResolveFails) /\ UNCHANGED <<allowed, called>>
    \/ Build /\ UNCHANGED <<allowed, locked, called, redisDown>>
    \/ CheckInput /\ UNCHANGED <<allowed, locked, redisDown>>

Stream ==
    \/ Message
    \/ (MessageEnd \/ MessageReplace \/ StreamFails \/ StreamAborted) /\ UNCHANGED frames

After ==
    \/ Replaced /\ UNCHANGED emitted
    \/ BlockedEnd /\ UNCHANGED emitted
    \/ Stopped /\ UNCHANGED emitted
    \/ Failed /\ UNCHANGED emitted
    \/ RecordSuccess /\ UNCHANGED <<emitted, stored, stopped>>
    \/ Persist /\ UNCHANGED <<emitted, settled, stopped>>
    \/ FlushAndDone /\ UNCHANGED <<settled, stored, stopped, redisDown>>

Return ==
    /\ Unlock
    /\ UNCHANGED <<ctx, allowed, called, frames, settled, stored, stopped, redisDown>>
    /\ UNCHANGED streamVars

Handle ==
    \/ Before /\ UNCHANGED <<ctx, stored, stopped>> /\ UNCHANGED streamVars
    \/ Stream /\ UNCHANGED <<ctx, allowed, locked, called, settled, stored, stopped, redisDown>>
    \/ /\ After
       /\ UNCHANGED <<ctx, allowed, locked, called, events, taskID, convID, outputBlocked,
                      received, err>>
    \/ Return

Interrupt ==
    /\ Cancel \/ Deadline
    /\ UNCHANGED <<pc, allowed, locked, called, frames, settled, stored, stopped, redisDown>>
    /\ UNCHANGED streamVars

Next == Handle \/ Interrupt

Spec == Init /\ [][Next]_vars

\* The handler keeps running: calls on a done context return, detached calls are
\* bounded by accountingTimeout and the client reads its frames.  Dify owes no
\* event, but a read from it ends when the stream context is done.
FairSpec ==
    /\ Spec
    /\ WF_vars(pc # "stream" /\ Handle)
    /\ WF_vars(pc = "stream" /\ StreamAborted /\ Handle)

-----------------------------------------------------------------------------
(* Properties                                                              *)

Terminal == {"done", "error", "blocked"}

\* A true Allow is followed by exactly one of Record, RecordFailure and Release
\* on every path through HandleChat, and a refused one by none.
SettledOnce ==
    /\ Len(settled) <= 1
    /\ pc = "returned" => (Len(settled) = 1 <=> allowed)

\* The client always learns how its request ended: the last frame is a terminal
\* one, and no text follows a terminal frame.
Answered ==
    /\ pc = "returned" => frames # <<>> /\ Last(frames) \in Terminal
    /\ \A i \in 1..Len(frames), j \in 1..Len(frames) :
          i < j /\ frames[i] \in Terminal => frames[j] # "chunk"

\* The verdict on a reply stands, whatever is still in the scanner's buffer when the
\* filter blocks it and whenever a stop or the deadline comes: a client told that the
\* reply is done or has failed is told nothing else, and one whose reply was blocked
\* is never told that it is done.
OneVerdict ==
    \A i \in 1..Len(frames), j \in 1..Len(frames) :
        i < j /\ frames[i] \in Terminal /\ frames[j] \in Terminal
          => frames[i] = "blocked" /\ frames[j] # "done"

\* A ChatDone promises that the conversation goes on: whether the reply is complete
\* or was stopped, and whenever the stop arrives, the id Dify gave is in the mapping
\* by then, unless Redis failed.
DoneKeepsConversation ==
    Contains(frames, "done") /\ convID /\ ~redisDown => stored

\* The handler returns once the request is stopped, disconnected or timed out,
\* however silent Dify is.
ReturnsOnCtxDone == ctx # "live" ~> pc = "returned"

\* gateway.proto calls ChatBlocked the terminating frame: nothing follows it.
BlockedIsFinal ==
    \A i \in 1..Len(frames) : frames[i] = "blocked" => i = Len(frames)

\* persistConversation: a conversation Dify created before a stop is not
\* orphaned -- unless Redis itself failed or the reply was moderated away.
StopKeepsConversation ==
    pc = "returned" /\ ctx = "canceled" /\ convID /\ ~redisDown
      /\ ~Contains(frames, "blocked")
      => stored

\* Record counts a successful upstream call: no success without a call.
SuccessMeansUpstreamCall ==
    Contains(settled, "success") => called

=============================================================================
