---------------------------- MODULE ReplyProofs ----------------------------
(***************************************************************************)
(* The reply to a chat: HandleChat, for streams of any length and a stop,  *)
(* a disconnect or a deadline at any step, and the output filter, for      *)
(* every alphabet, list of banned words and length of text.                *)
(***************************************************************************)
EXTENDS ChatHandler, OutputFilter, SequenceTheorems, WellFoundedInduction, TLAPS

-----------------------------------------------------------------------------
(* HandleChat                                                              *)

Early == {"validate", "allow", "resolve", "build", "input"}
Late == {"unlock", "returned"}

OnlyText(f) == \A i \in 1..Len(f) : f[i] = "chunk"

NoDone(f) == \A i \in 1..Len(f) : f[i] # "done"

\* No verdict, or a block.
Open(f) == \A i \in 1..Len(f) : f[i] \in {"chunk", "blocked"}

\* f ends with a terminal frame, no text follows a terminal frame, and another
\* verdict follows only a block.
Ended(f) ==
    /\ Len(f) > 0 /\ f[Len(f)] \in Terminal
    /\ \A i \in 1..Len(f), j \in 1..Len(f) :
          i < j /\ f[i] \in Terminal
            => f[i] = "blocked" /\ f[j] \in Terminal \ {"done"}

\* How the slot is settled at every step.
Slot ==
    /\ pc \in {"validate", "allow"} => ~allowed
    /\ pc \notin {"validate", "allow"} \cup Late => allowed
    /\ pc \notin {"persist", "flush"} \cup Late => settled = <<>>
    /\ pc \in {"persist", "flush"} => settled = <<"success">>
    /\ pc \in Late => IF allowed THEN Len(settled) = 1 ELSE settled = <<>>

\* What has been sent at every step.
Sent ==
    /\ pc \in Early => frames = <<>> /\ ~outputBlocked
    /\ pc \notin Late => Open(frames)
    /\ pc \notin Late /\ ~outputBlocked => OnlyText(frames)
    /\ pc \notin Late /\ outputBlocked => Ended(frames)
    /\ pc \in Late => Ended(frames)

\* What a ChatDone stands for.
Done ==
    /\ pc = "flush" => stored = convID
    /\ pc \in Late /\ convID /\ ~redisDown => stored \/ NoDone(frames)

IInv == TypeOK /\ Slot /\ Sent /\ Done

\* What sending a frame does.
LEMMA Sending ==
    ASSUME NEW f \in Seq(Frame), NEW t \in Frame
    PROVE  LET g == Append(f, t)
           IN  /\ g \in Seq(Frame)
               /\ Len(g) > 0 /\ g[Len(g)] = t
               /\ Open(f) /\ t # "done" => NoDone(g)
               /\ Open(f) /\ t \in {"chunk", "blocked"} => Open(g)
               /\ OnlyText(f) /\ t = "chunk" => OnlyText(g)
               /\ OnlyText(f) /\ t \in Terminal => Ended(g)
               /\ Open(f) /\ Ended(f) /\ t \in Terminal \ {"done"} => Ended(g)
<1> DEFINE g == Append(f, t)
<1>1. /\ g \in Seq(Frame) /\ Len(g) = Len(f) + 1 /\ Len(f) \in Nat
      /\ g[Len(g)] = t
      /\ \A i \in 1..Len(f) : g[i] = f[i]
  OBVIOUS
<1> HIDE DEF g
<1>2. /\ Open(f) /\ t # "done" => NoDone(g)
      /\ Open(f) /\ t \in {"chunk", "blocked"} => Open(g)
  BY <1>1 DEF NoDone, Open
<1>3. OnlyText(f) /\ t = "chunk" => OnlyText(g)
  BY <1>1 DEF OnlyText
<1>4. "chunk" \notin Terminal
  BY DEF Terminal
<1>5. OnlyText(f) /\ t \in Terminal => Ended(g)
  BY <1>1, <1>4 DEF OnlyText, Ended
<1>6. ASSUME Open(f), Ended(f), t \in Terminal \ {"done"} PROVE Ended(g)
  <2>1. ASSUME NEW i \in 1..Len(g), NEW j \in 1..Len(g), i < j, g[i] \in Terminal
        PROVE  g[i] = "blocked" /\ g[j] \in Terminal \ {"done"}
    <3>1. i \in 1..Len(f) /\ g[i] = f[i]
      BY <1>1, <2>1
    <3>2. g[i] = "blocked"
      BY <1>4, <1>6, <2>1, <3>1 DEF Open
    <3>3. CASE j = Len(g)
      BY <1>1, <1>6, <3>2, <3>3
    <3>4. CASE j # Len(g)
      <4>1. j \in 1..Len(f) /\ g[j] = f[j]
        BY <1>1, <3>4
      <4> QED BY <1>6, <2>1, <3>1, <3>2, <4>1, Zenon DEF Ended
    <3> QED BY <3>3, <3>4
  <2> QED BY <1>1, <1>6, <2>1 DEF Ended
<1> QED BY <1>1, <1>2, <1>3, <1>5, <1>6 DEF g

\* Nothing has been sent, so there is only text.
LEMMA Nothing == OnlyText(<<>>) /\ Open(<<>>) /\ <<>> \in Seq(Frame)
BY DEF OnlyText, Open

\* The conjuncts of TypeOK.
Flags ==
    /\ allowed \in BOOLEAN /\ locked \in BOOLEAN /\ called \in BOOLEAN
    /\ taskID \in BOOLEAN /\ convID \in BOOLEAN /\ outputBlocked \in BOOLEAN
    /\ stored \in BOOLEAN /\ stopped \in BOOLEAN /\ redisDown \in BOOLEAN

Counts ==
    /\ pc \in Pc
    /\ ctx \in {"live", "canceled", "expired"}
    /\ events \in 0..MaxEvents /\ received \in 0..events /\ emitted \in 0..received
    /\ err \in {"nil", "replace", "other"}
    /\ frames \in Seq(Frame)
    /\ settled \in Seq({"success", "failure", "release"})

\* TypeOK, flags and the rest apart.
LEMMA TypeSplit == (TypeOK <=> Flags /\ Counts) /\ (TypeOK <=> Flags /\ Counts)'
<1>1. {allowed, locked, called, taskID, convID, outputBlocked, stored, stopped, redisDown}
         \subseteq BOOLEAN <=> Flags
  BY Zenon DEF Flags
<1>2. ({allowed, locked, called, taskID, convID, outputBlocked, stored, stopped, redisDown}
         \subseteq BOOLEAN <=> Flags)'
  BY Zenon DEF Flags
<1> QED BY <1>1, <1>2 DEF TypeOK, Counts

\* A call of HandleChat starts with nothing done.
LEMMA InitIInv == Init => IInv
<1> SUFFICES ASSUME Init PROVE IInv
  OBVIOUS
<1>1. Flags
  BY Zenon DEF Init, Flags
<1>2. Counts
  BY EventAssumption, Nothing DEF Init, Counts, Pc
<1>3. Slot /\ Sent /\ Done
  BY Nothing DEF Init, Slot, Sent, Done, Early, Late
<1> QED BY <1>1, <1>2, <1>3, TypeSplit DEF IInv

\* The steps before the stream.
LEMMA BeforeIInv ==
    ASSUME IInv, Before, UNCHANGED <<ctx, stored, stopped>>, UNCHANGED streamVars
    PROVE  IInv'
<1> USE DEF Goto, Early, Late
<1>0. /\ events' = events /\ taskID' = taskID /\ convID' = convID
      /\ outputBlocked' = outputBlocked /\ received' = received /\ emitted' = emitted
      /\ err' = err /\ ctx' = ctx /\ stored' = stored /\ stopped' = stopped
  BY DEF streamVars
<1>1. pc \in Early /\ pc' \in Pc /\ pc' \notin {"persist", "flush"}
  BY DEF Before, Validate, BadRequest, NotReady, AllowOk, AllowRefused, ResolveOk, ResolveFails,
         Build, CheckInput, Pc
<1>2. frames = <<>> /\ ~outputBlocked /\ settled = <<>>
  BY <1>1 DEF IInv, Sent, Slot
<1>3. \/ pc' \notin Late /\ frames' = frames /\ settled' = settled
      \/ /\ pc' \in Late /\ frames' \in {<<"error">>, <<"blocked">>}
         /\ settled' = IF allowed THEN <<"success">> ELSE <<>>
  BY <1>1, <1>2 DEF IInv, Slot, Before, Validate, BadRequest, NotReady, AllowOk, AllowRefused, ResolveOk, ResolveFails,
         Build, CheckInput, Send, Settle
<1>4. /\ pc' \in {"validate", "allow"} => ~allowed'
      /\ pc' \notin {"validate", "allow"} \cup Late => allowed'
      /\ pc' \in Late => (allowed' <=> allowed)
  BY <1>1 DEF IInv, Slot, Before, Validate, BadRequest, NotReady, AllowOk, AllowRefused,
         ResolveOk, ResolveFails, Build, CheckInput
<1>5. Flags'
  <2>1. /\ taskID' \in BOOLEAN /\ convID' \in BOOLEAN /\ outputBlocked' \in BOOLEAN
        /\ stored' \in BOOLEAN /\ stopped' \in BOOLEAN
    BY <1>0, TypeSplit DEF IInv, Flags
  <2>2. allowed' \in BOOLEAN /\ locked' \in BOOLEAN /\ called' \in BOOLEAN /\ redisDown' \in BOOLEAN
    BY TypeSplit, Zenon DEF IInv, Flags, Before, Validate, BadRequest, NotReady, AllowOk, AllowRefused,
         ResolveOk, ResolveFails, Build, CheckInput, CallFails
  <2> QED BY <2>1, <2>2 DEF Flags
<1>6. /\ <<"error">> = Append(<<>>, "error") /\ <<"blocked">> = Append(<<>>, "blocked")
      /\ {"error", "blocked"} \subseteq Frame \cap Terminal
  BY DEF Frame, Terminal
<1>7. frames' \in Seq(Frame) /\ (pc' \in Late => Ended(frames') /\ NoDone(frames'))
  <2>1. CASE pc' \notin Late
    BY <1>2, <1>3, <2>1, Nothing, Zenon
  <2>2. CASE pc' \in Late
    <3>1. PICK t \in {"error", "blocked"} : frames' = Append(<<>>, t)
      BY <1>3, <1>6, <2>2
    <3>2. t \in Frame /\ t \in Terminal /\ t # "done"
      BY <1>6
    <3> QED BY <3>1, <3>2, Nothing, Sending, Zenon
  <2> QED BY <2>1, <2>2
<1>8. Counts'
  <2>1. settled' = <<>> \/ settled' = <<"success">>
    BY <1>2, <1>3
  <2>2. /\ <<>> \in Seq({"success", "failure", "release"})
        /\ <<"success">> \in Seq({"success", "failure", "release"})
    OBVIOUS
  <2>3. settled' \in Seq({"success", "failure", "release"})
    BY <2>1, <2>2, Zenon
  <2> QED BY <1>0, <1>1, <1>7, <2>3, TypeSplit DEF IInv, Counts
<1>9. Slot'
  BY <1>1, <1>2, <1>3, <1>4 DEF Slot
<1>10. Sent'
  BY <1>0, <1>1, <1>2, <1>3, <1>7, Nothing DEF Sent
<1>11. Done'
  BY <1>1, <1>7 DEF Done, Ended, NoDone, Terminal
<1> QED BY <1>5, <1>8, <1>9, <1>10, <1>11, TypeSplit DEF IInv

\* The steps of the stream.
LEMMA StreamIInv ==
    ASSUME IInv, Stream,
           UNCHANGED <<ctx, allowed, locked, called, settled, stored, stopped, redisDown>>
    PROVE  IInv'
<1> USE DEF Goto, Early, Late
<1>1. pc = "stream" /\ pc' \in {"stream", "success", "ended"}
  BY Zenon DEF Stream, Message, MessageEnd, MessageReplace, StreamFails, StreamAborted
<1>2. /\ allowed /\ settled = <<>> /\ frames \in Seq(Frame) /\ Open(frames)
      /\ ~outputBlocked => OnlyText(frames)
      /\ outputBlocked => Ended(frames)
  BY <1>1, TypeSplit DEF IInv, Slot, Sent, Counts
<1>3. {"chunk", "blocked"} \subseteq Frame /\ "blocked" \in Terminal
  BY DEF Frame, Terminal
<1>4. /\ frames' \in Seq(Frame) /\ Open(frames')
      /\ ~outputBlocked' => OnlyText(frames')
      /\ outputBlocked' => Ended(frames')
  <2>1. CASE UNCHANGED <<outputBlocked, frames>>
    BY <1>2, <2>1
  <2>2. CASE ~outputBlocked /\ Send("chunk") /\ UNCHANGED outputBlocked
    BY <1>2, <1>3, <2>2, Sending DEF Send
  <2>3. CASE ~outputBlocked /\ Send("blocked") /\ outputBlocked' = TRUE
    BY <1>2, <1>3, <2>3, Sending DEF Send
  <2> QED BY <2>1, <2>2, <2>3, Zenon
             DEF Stream, Message, OnDelta, MessageEnd, MessageReplace, StreamFails, StreamAborted
<1>5. Flags'
  <2>1. taskID' \in BOOLEAN /\ convID' \in BOOLEAN /\ outputBlocked' \in BOOLEAN
    BY TypeSplit, Zenon DEF IInv, Flags, Stream, Message, OnDelta, MessageEnd, MessageReplace,
                     StreamFails, StreamAborted
  <2> QED BY <2>1, TypeSplit DEF IInv, Flags
<1>6. Counts'
  <2>1. events' \in 0..MaxEvents /\ received' \in 0..events' /\ emitted' \in 0..received'
    <3>1. \/ UNCHANGED <<events, received, emitted>>
          \/ /\ events < MaxEvents /\ events' = events + 1
             /\ UNCHANGED <<received, emitted>>
          \/ /\ events < MaxEvents /\ events' = events + 1 /\ received' = received + 1
             /\ emitted' = emitted \/ emitted' \in emitted..received'
      BY Zenon DEF Stream, Message, OnDelta, MessageEnd, MessageReplace, StreamFails, StreamAborted
    <3>2. /\ events \in 0..MaxEvents /\ received \in 0..events /\ emitted \in 0..received
          /\ MaxEvents \in Nat
      BY EventAssumption, TypeSplit DEF IInv, Counts
    <3> QED BY <3>1, <3>2
  <2>2. err' \in {"nil", "replace", "other"}
    BY TypeSplit, Zenon DEF IInv, Counts, Stream, Message, MessageEnd, MessageReplace, StreamFails,
                     StreamAborted
  <2> QED BY <1>1, <1>4, <2>1, <2>2, TypeSplit DEF IInv, Counts, Pc
<1>7. Slot' /\ Sent' /\ Done'
  BY <1>1, <1>2, <1>4 DEF Slot, Sent, Done
<1> QED BY <1>5, <1>6, <1>7, TypeSplit DEF IInv

\* A step to the end of the handler that sends a last frame and leaves the slot
\* settled preserves the invariant, if a ChatDone is sent only with the conversation
\* stored.
LEMMA LastFrame ==
    ASSUME IInv, pc \notin Late, pc' = "unlock", allowed,
           UNCHANGED <<ctx, allowed, locked, called, events, taskID, convID, outputBlocked,
                       received, err>>,
           emitted' \in 0..received,
           stored' \in BOOLEAN, stopped' \in BOOLEAN, redisDown' \in BOOLEAN,
           settled' \in Seq({"success", "failure", "release"}), Len(settled') = 1,
           frames' \in Seq(Frame), Ended(frames'),
           NoDone(frames') \/ (convID /\ ~redisDown' => stored')
    PROVE  IInv'
<1> USE DEF Late
<1>1. Flags'
  BY TypeSplit DEF IInv, Flags
<1>2. Counts'
  BY TypeSplit DEF IInv, Counts, Pc
<1>3. Slot' /\ Sent'
  BY DEF Slot, Sent, Early
<1>4. Done'
  BY DEF Done
<1> QED BY <1>1, <1>2, <1>3, <1>4, TypeSplit DEF IInv

\* The steps after the stream.
LEMMA AfterIInv ==
    ASSUME IInv, After,
           UNCHANGED <<ctx, allowed, locked, called, events, taskID, convID, outputBlocked,
                       received, err>>
    PROVE  IInv'
<1> DEFINE Call == {"success", "failure", "release"}
<1> USE DEF Goto, Late
<1>1. pc \in {"ended", "success", "persist", "flush"}
  BY DEF After, Replaced, BlockedEnd, Stopped, Failed, RecordSuccess, Persist, FlushAndDone
<1>2. /\ pc \notin Late /\ allowed /\ frames \in Seq(Frame) /\ Open(frames)
      /\ OnlyText(frames) \/ Ended(frames)
      /\ ~outputBlocked => OnlyText(frames)
      /\ outputBlocked => Ended(frames)
      /\ pc \in {"ended", "success"} => settled = <<>>
      /\ pc \in {"persist", "flush"} => settled = <<"success">>
      /\ pc = "flush" => stored = convID
  BY <1>1, TypeSplit DEF IInv, Slot, Sent, Done, Counts
<1>3. /\ emitted \in 0..received /\ received \in Nat
      /\ stored \in BOOLEAN /\ stopped \in BOOLEAN /\ redisDown \in BOOLEAN
      /\ convID \in BOOLEAN
  BY EventAssumption, TypeSplit DEF IInv, Flags, Counts
<1>4. \A t \in Terminal : /\ Append(frames, t) \in Seq(Frame)
                          /\ OnlyText(frames) => Ended(Append(frames, t))
                          /\ t # "done" => /\ Ended(Append(frames, t))
                                          /\ NoDone(Append(frames, t))
  BY <1>2, Sending DEF Terminal, Frame
<1>5. {"done", "error", "blocked"} \subseteq Terminal
  BY DEF Terminal
<1>6. \A c \in Call : Append(<<>>, c) = <<c>> /\ <<c>> \in Seq(Call) /\ Len(<<c>>) = 1
  OBVIOUS
<1>a. ASSUME NEW t \in {"error", "blocked"}, NEW c \in Call, settled' = <<c>>,
             frames' = Append(frames, t), pc' = "unlock", UNCHANGED <<emitted, stopped>>,
             stored' \in BOOLEAN, redisDown' \in BOOLEAN
      PROVE  IInv'
  <2>1. frames' \in Seq(Frame) /\ Ended(frames') /\ NoDone(frames')
    BY <1>4, <1>5, <1>a
  <2>2. settled' \in Seq({"success", "failure", "release"}) /\ Len(settled') = 1
    BY <1>6, <1>a
  <2>3. emitted' \in 0..received /\ stopped' \in BOOLEAN
    BY <1>3, <1>a
  <2> QED BY <1>2, <1>a, <2>1, <2>2, <2>3, LastFrame
<1>7. CASE Replaced /\ UNCHANGED emitted
  <2>1. settled' = <<"success">> /\ frames' = Append(frames, "blocked") /\ pc' = "unlock"
        /\ UNCHANGED <<stored, stopped, redisDown>>
    BY <1>2, <1>6, <1>7 DEF Replaced, Settle, Send
  <2> QED BY <1>3, <1>7, <1>a, <2>1
<1>8. CASE BlockedEnd /\ UNCHANGED emitted
  <2>1. settled' = <<"success">> /\ frames' = frames /\ Ended(frames) /\ NoDone(frames)
        /\ pc' = "unlock" /\ UNCHANGED <<stored, stopped, redisDown>>
    BY <1>2, <1>6, <1>8 DEF BlockedEnd, Settle, Open, NoDone
  <2> QED BY <1>2, <1>3, <1>6, <1>8, <2>1, LastFrame
<1>9. CASE Stopped /\ UNCHANGED emitted
  <2>1. settled' = <<"release">> /\ frames' = Append(frames, "done") /\ pc' = "unlock"
    BY <1>2, <1>6, <1>9 DEF Stopped, Settle, Send
  <2>2. stored' \in BOOLEAN /\ redisDown' \in BOOLEAN /\ (convID /\ ~redisDown' => stored')
    <3>1. persistConversation
      BY <1>9 DEF Stopped
    <3>2. CASE stored' = convID /\ UNCHANGED redisDown
      BY <1>3, <3>2, Zenon
    <3>3. CASE redisDown' = TRUE /\ UNCHANGED stored
      BY <1>3, <3>3, Zenon
    <3> QED BY <3>1, <3>2, <3>3, Zenon DEF persistConversation
  <2>3. stopped' \in BOOLEAN
    BY <1>3, <1>9, Zenon DEF Stopped, stopUpstream, Stop
  <2>4. OnlyText(frames)
    BY <1>2, <1>9 DEF Stopped
  <2>5. frames' \in Seq(Frame) /\ Ended(frames')
    BY <1>4, <1>5, <2>1, <2>4
  <2>6. settled' \in Seq({"success", "failure", "release"}) /\ Len(settled') = 1
    BY <1>6, <2>1
  <2>7. emitted' \in 0..received
    BY <1>3, <1>9
  <2> QED BY <1>2, <2>1, <2>2, <2>3, <2>5, <2>6, <2>7, LastFrame
<1>10. CASE Failed /\ UNCHANGED emitted
  <2>1. settled' = <<"failure">> /\ frames' = Append(frames, "error") /\ pc' = "unlock"
        /\ UNCHANGED <<stored, stopped, redisDown>>
    BY <1>2, <1>6, <1>10 DEF Failed, Settle, Send
  <2> QED BY <1>3, <1>10, <1>a, <2>1
<1>11. CASE RecordSuccess /\ UNCHANGED <<emitted, stored, stopped>>
  <2>1. settled' = <<"success">> /\ pc = "success"
    BY <1>2, <1>6, <1>11, Zenon DEF RecordSuccess, Settle
  <2>2. CASE pc' = "persist"
    <3>1. UNCHANGED <<frames, redisDown>>
      BY <1>11, <2>2 DEF RecordSuccess
    <3>2. Flags'
      BY <1>11, <3>1, TypeSplit DEF IInv, Flags
    <3>3. Counts'
      BY <1>6, <1>11, <2>1, <2>2, <3>1, TypeSplit DEF IInv, Counts, Pc
    <3>4. Slot' /\ Sent' /\ Done'
      BY <1>2, <2>1, <2>2, <3>1 DEF Slot, Sent, Done, Early
    <3> QED BY <3>2, <3>3, <3>4, TypeSplit DEF IInv
  <2>3. CASE pc' = "unlock" /\ redisDown' = TRUE /\ frames' = Append(frames, "error")
    BY <1>3, <1>11, <1>a, <2>1, <2>3
  <2> QED BY <1>11, <2>2, <2>3, Zenon DEF RecordSuccess, Send
<1>12. CASE Persist /\ UNCHANGED <<emitted, settled, stopped>>
  <2>1. settled' = <<"success">> /\ pc = "persist"
    BY <1>2, <1>12 DEF Persist
  <2>2. CASE pc' = "flush"
    <3>1. UNCHANGED <<frames, redisDown>> /\ stored' = convID
      BY <1>12, <2>2 DEF Persist
    <3>2. Flags'
      BY <1>12, <3>1, TypeSplit DEF IInv, Flags
    <3>3. Counts'
      BY <1>12, <2>1, <2>2, <3>1, TypeSplit DEF IInv, Counts, Pc
    <3>4. Slot' /\ Sent' /\ Done'
      BY <1>2, <2>1, <2>2, <3>1 DEF Slot, Sent, Done, Early
    <3> QED BY <3>2, <3>3, <3>4, TypeSplit DEF IInv
  <2>3. CASE pc' = "unlock"
    <3>1. frames' = Append(frames, "error") /\ UNCHANGED stored
      BY <1>12, <2>3 DEF Persist, Send
    <3>2. redisDown' \in BOOLEAN
      BY <1>12, <2>3 DEF Persist, CallFails
    <3> QED BY <1>3, <1>12, <1>a, <2>1, <2>3, <3>1, <3>2
  <2> QED BY <1>12, <2>2, <2>3 DEF Persist
<1>13. CASE FlushAndDone /\ UNCHANGED <<settled, stored, stopped, redisDown>>
  <2>1. settled' = <<"success">> /\ pc = "flush" /\ pc' = "unlock"
    BY <1>2, <1>13 DEF FlushAndDone
  <2>2. CASE outputBlocked /\ UNCHANGED <<emitted, frames>>
    <3>1. frames' \in Seq(Frame) /\ Ended(frames') /\ NoDone(frames')
      BY <1>2, <2>2 DEF Open, NoDone
    <3>2. settled' \in Seq({"success", "failure", "release"}) /\ Len(settled') = 1
      BY <1>6, <2>1
    <3>3. emitted' \in 0..received /\ stored' \in BOOLEAN /\ stopped' \in BOOLEAN /\ redisDown' \in BOOLEAN
      BY <1>3, <1>13, <2>2
    <3> QED BY <1>2, <2>1, <3>1, <3>2, <3>3, LastFrame
  <2>3. CASE ~outputBlocked /\ frames' = Append(frames, "blocked") /\ UNCHANGED emitted
    BY <1>3, <1>13, <1>a, <2>1, <2>3
  <2>4. CASE /\ ~outputBlocked /\ emitted' = received
             /\ frames' = frames \o (IF emitted < received THEN <<"chunk">> ELSE <<>>) \o <<"done">>
    <3>1. PICK f \in {frames, Append(frames, "chunk")} : frames' = Append(f, "done")
      <4>1. CASE emitted < received
        BY <1>2, <2>4, <4>1
      <4>2. CASE ~(emitted < received)
        BY <1>2, <2>4, <4>2
      <4> QED BY <4>1, <4>2
    <3>2. f \in Seq(Frame) /\ OnlyText(f)
      BY <1>2, <2>4, Sending, Zenon DEF Frame
    <3>3. frames' \in Seq(Frame) /\ Ended(frames')
      BY <3>1, <3>2, Sending DEF Frame, Terminal
    <3>4. stored' = convID
      BY <1>2, <1>13, <2>1
    <3>5. emitted' \in 0..received
      BY <1>3, <2>4
    <3> QED BY <1>2, <1>3, <1>6, <1>13, <2>1, <2>4, <3>3, <3>4, <3>5, LastFrame
  <2> QED BY <1>13, <2>2, <2>3, <2>4 DEF FlushAndDone, Send
<1> QED BY <1>7, <1>8, <1>9, <1>10, <1>11, <1>12, <1>13 DEF After

\* Every step preserves the invariant.
LEMMA NextIInv == IInv /\ [Next]_vars => IInv'
<1> SUFFICES ASSUME IInv, [Next]_vars PROVE IInv'
  OBVIOUS
<1>1. CASE Return
  <2>1. pc = "unlock" /\ pc' = "returned" /\ locked' = FALSE
    BY <1>1 DEF Return, Unlock, Goto
  <2>2. /\ UNCHANGED <<ctx, allowed, called, frames, settled, stored, stopped, redisDown>>
        /\ UNCHANGED <<events, taskID, convID, outputBlocked, received, emitted, err>>
    BY <1>1 DEF Return, streamVars
  <2>3. Flags'
    BY <2>1, <2>2, TypeSplit, Zenon DEF IInv, Flags
  <2>4. Counts'
    BY <2>1, <2>2, TypeSplit DEF IInv, Counts, Pc
  <2>5. Slot' /\ Sent' /\ Done'
    BY <2>1, <2>2 DEF IInv, Slot, Sent, Done, Early, Late
  <2> QED BY <2>3, <2>4, <2>5, TypeSplit DEF IInv
<1>2. CASE Interrupt
  <2>1. /\ ctx' \in {"canceled", "expired"}
        /\ UNCHANGED <<pc, allowed, locked, called, frames, settled, stored, stopped, redisDown>>
        /\ UNCHANGED <<events, taskID, convID, outputBlocked, received, emitted, err>>
    BY <1>2 DEF Interrupt, Cancel, Deadline, streamVars
  <2>2. Flags'
    BY <2>1, TypeSplit DEF IInv, Flags
  <2>3. Counts'
    BY <2>1, TypeSplit DEF IInv, Counts
  <2>4. Slot' /\ Sent' /\ Done'
    BY <2>1 DEF IInv, Slot, Sent, Done
  <2> QED BY <2>2, <2>3, <2>4, TypeSplit DEF IInv
<1>3. CASE UNCHANGED vars
  <2>1. Flags' /\ Counts'
    BY <1>3, TypeSplit DEF vars, IInv, Flags, Counts
  <2>2. Slot' /\ Sent' /\ Done'
    BY <1>3 DEF vars, IInv, Slot, Sent, Done
  <2> QED BY <2>1, <2>2, TypeSplit DEF IInv
<1> QED BY <1>1, <1>2, <1>3, BeforeIInv, StreamIInv, AfterIInv DEF Next, Handle

\* HandleChat keeps its counts in range and sends only the frames of gateway.proto,
\* for streams of any length.
THEOREM TypeCorrect == Spec => []TypeOK
<1>1. IInv => TypeOK
  BY DEF IInv
<1> QED BY <1>1, InitIInv, NextIInv, PTL DEF Spec

\* On every path through HandleChat a granted slot is settled exactly once, and a
\* refused one never.
THEOREM SlotSettledOnce == Spec => []SettledOnce
<1>1. IInv => SettledOnce
  <2> SUFFICES ASSUME IInv PROVE SettledOnce
    OBVIOUS
  <2>1. Len(<<>>) = 0 /\ Len(<<"success">>) = 1
    OBVIOUS
  <2>2. /\ settled = <<>> \/ settled = <<"success">> \/ Len(settled) = 1
        /\ pc = "returned" => IF allowed THEN Len(settled) = 1 ELSE settled = <<>>
    <3>1. Slot
      BY DEF IInv
    <3>2. CASE pc \in Late
      BY <3>1, <3>2 DEF Slot, Late
    <3>3. CASE pc \notin Late
      BY <3>1, <3>3 DEF Slot, Late
    <3> QED BY <3>2, <3>3
  <2>3. Len(settled) <= 1
    <3>1. Len(settled) = 0 \/ Len(settled) = 1
      BY <2>1, <2>2, Zenon
    <3>2. 0 <= 1 /\ 1 <= 1
      OBVIOUS
    <3> QED BY <3>1, <3>2, Zenon
  <2>4. pc = "returned" => (Len(settled) = 1 <=> allowed)
    <3>1. pc = "returned" /\ allowed => Len(settled) = 1
      BY <2>2
    <3>2. pc = "returned" /\ ~allowed => Len(settled) = 0
      BY <2>1, <2>2
    <3>3. 0 # 1
      OBVIOUS
    <3> QED BY <3>1, <3>2, <3>3, Zenon
  <2> QED BY <2>3, <2>4 DEF SettledOnce
<1> QED BY <1>1, InitIInv, NextIInv, PTL DEF Spec

\* The client always gets a terminal frame, and no text after one.
THEOREM AlwaysAnswered == Spec => []Answered
<1>1. IInv => Answered
  <2> SUFFICES ASSUME IInv PROVE Answered
    OBVIOUS
  <2>1. CASE Ended(frames)
    <3>1. frames # <<>>
      BY <2>1 DEF Ended
    <3> QED BY <2>1, <3>1 DEF Ended, Answered, Last, Terminal
  <2>2. CASE ~Ended(frames)
    <3>1. pc \notin Late /\ OnlyText(frames)
      BY <2>2 DEF IInv, Sent
    <3> QED BY <3>1 DEF OnlyText, Answered, Terminal, Late
  <2> QED BY <2>1, <2>2
<1> QED BY <1>1, InitIInv, NextIInv, PTL DEF Spec

\* A client told done or error is told nothing else, and one whose reply was blocked is
\* never told that it is done: for streams of any length, whatever is buffered when the
\* filter blocks, and a stop or the deadline at any step.
THEOREM VerdictStands == Spec => []OneVerdict
<1>1. IInv => OneVerdict
  <2> SUFFICES ASSUME IInv PROVE OneVerdict
    OBVIOUS
  <2>1. CASE Ended(frames)
    BY <2>1 DEF Ended, OneVerdict
  <2>2. CASE ~Ended(frames)
    <3>1. pc \notin Late /\ OnlyText(frames)
      BY <2>2 DEF IInv, Sent
    <3> QED BY <3>1 DEF OnlyText, OneVerdict, Terminal
  <2> QED BY <2>1, <2>2
<1> QED BY <1>1, InitIInv, NextIInv, PTL DEF Spec

\* A ChatDone leaves the conversation in the mapping, unless Redis failed: the next
\* message of the player goes on in it.
THEOREM DoneIsRemembered == Spec => []DoneKeepsConversation
<1>1. IInv => DoneKeepsConversation
  <2> SUFFICES ASSUME IInv, Contains(frames, "done"), convID, ~redisDown PROVE stored
    BY DEF DoneKeepsConversation
  <2>1. ~NoDone(frames) /\ ~Open(frames)
    BY DEF Contains, NoDone, Open
  <2> QED BY <2>1 DEF IInv, Sent, Done, Late
<1> QED BY <1>1, InitIInv, NextIInv, PTL DEF Spec

-----------------------------------------------------------------------------
(* The output filter: numbers and sequences first                          *)

\* A nonempty set of naturals has a least element.
LEMMA LeastNat ==
    ASSUME NEW T \in SUBSET Nat, T # {}
    PROVE  \E x \in T : \A y \in T : x <= y
<1> DEFINE R == OpToRel(<, Nat)
<1>1. IsWellFoundedOn(R, Nat)
  BY NatLessThanWellFounded
<1>2. \A x, y \in Nat : <<x, y>> \in R <=> x < y
  BY DEF OpToRel
<1> HIDE DEF R
<1>3. PICK x \in T : \A y \in T : ~(<<y, x>> \in R)
  BY <1>1, WFMin, Zenon
<1>4. ASSUME NEW y \in T PROVE x <= y
  <2>1. x \in Nat /\ y \in Nat
    OBVIOUS
  <2>2. ~(y < x)
    BY <1>2, <1>3, <2>1, Zenon
  <2> QED BY <2>1, <2>2
<1> QED BY <1>4

\* A nonempty set of naturals with an upper bound has a greatest element.
LEMMA GreatestNat ==
    ASSUME NEW n \in Nat, NEW T \in SUBSET (0..n), T # {}
    PROVE  \E x \in T : \A y \in T : y <= x
<1> DEFINE U == {m \in Nat : n - m \in T}
<1>0. PICK t \in T : TRUE
  OBVIOUS
<1>1. n - t \in U
  BY <1>0
<1>2. PICK m \in U : \A y \in U : m <= y
  BY <1>1, LeastNat, Zenon
<1>3. n - m \in T
  OBVIOUS
<1>4. ASSUME NEW y \in T PROVE y <= n - m
  <2>1. m <= n - y
    BY <1>2
  <2>2. m \in Nat /\ y \in 0..n
    OBVIOUS
  <2> HIDE DEF U
  <2> QED BY <2>1, <2>2
<1> QED BY <1>3, <1>4

NoneOf(text, set) == \A i \in 1..Len(text) : text[i] \notin set

\* strings.LastIndexAny: no character of the set follows the position returned,
\* and none is there at all when it is 0.
LEMMA LastOfIsLast ==
    ASSUME NEW text \in Seq(Char), NEW set
    PROVE  LET i == LastOf(text, set)
           IN  /\ i \in 0..Len(text)
               /\ i > 0 => text[i] \in set
               /\ \A j \in 1..Len(text) : j > i => text[j] \notin set
<1> DEFINE at == {i \in DOMAIN text : text[i] \in set}
<1>1. DOMAIN text = 1..Len(text) /\ Len(text) \in Nat
  BY LenProperties
<1>2. CASE at = {}
  BY <1>1, <1>2 DEF LastOf
<1>3. CASE at # {}
  <2>1. at \in SUBSET (0..Len(text))
    BY <1>1
  <2>2. \E x \in at : \A y \in at : y <= x
    <3> HIDE DEF at
    <3> QED BY <1>1, <1>3, <2>1, GreatestNat, Zenon
  <2>3. LastOf(text, set) = CHOOSE x \in at : \A y \in at : y <= x
    BY <1>3 DEF LastOf
  <2>4. LastOf(text, set) \in at /\ \A y \in at : y <= LastOf(text, set)
    <3> HIDE DEF at
    <3> QED BY <2>2, <2>3
  <2>5. LastOf(text, set) \in 1..Len(text) /\ text[LastOf(text, set)] \in set
    BY <1>1, <2>4
  <2>6. ASSUME NEW j \in 1..Len(text), j > LastOf(text, set)
        PROVE  text[j] \notin set
    BY <1>1, <2>4, <2>5, <2>6
  <2> QED BY <2>5, <2>6
<1> QED BY <1>2, <1>3

-----------------------------------------------------------------------------
(* What drain takes from the buffer                                        *)

\* The two halves of a text cut after k characters make up the text.
LEMMA CutAfter ==
    ASSUME NEW text \in Seq(Char), NEW k \in 0..Len(text)
    PROVE  LET a == SubSeq(text, 1, k)
               b == SubSeq(text, k + 1, Len(text))
           IN  /\ a \in Seq(Char) /\ b \in Seq(Char)
               /\ a \o b = text
               /\ Len(a) = k /\ Len(b) = Len(text) - k
               /\ \A i \in 1..(Len(text) - k) : b[i] = text[k + i]
<1>1. Len(text) \in Nat /\ \A i \in 1..Len(text) : text[i] \in Char
  BY LenProperties, ElementOfSeq
<1>2. /\ SubSeq(text, 1, k) \in Seq(Char)
      /\ Len(SubSeq(text, 1, k)) = k
  BY <1>1, SubSeqProperties
<1>3. /\ SubSeq(text, k + 1, Len(text)) \in Seq(Char)
      /\ Len(SubSeq(text, k + 1, Len(text))) = Len(text) - k
      /\ \A i \in 1..(Len(text) - k) :
            SubSeq(text, k + 1, Len(text))[i] = text[k + i]
  BY <1>1, SubSeqProperties
<1>4. SubSeq(text, 1, k) \o SubSeq(text, k + 1, Len(text)) = text
  <2>1. /\ 1 \in 1..(Len(text) + 1) /\ k \in (1 - 1)..Len(text)
        /\ Len(text) \in k..Len(text)
    BY <1>1
  <2>2. SubSeq(text, 1, k) \o SubSeq(text, k + 1, Len(text)) = SubSeq(text, 1, Len(text))
    BY <2>1, ConcatAdjacentSubSeq, Zenon
  <2> QED BY <2>2, SubSeqFull, Zenon
<1> QED BY <1>2, <1>3, <1>4, Zenon

\* Cut loses, repeats and reorders nothing.
LEMMA CutConserves ==
    ASSUME NEW text \in Seq(Char), NEW final \in BOOLEAN
    PROVE  LET c == Cut(text, final)
           IN  /\ c[1] \in Seq(Char) /\ c[2] \in Seq(Char)
               /\ c[1] \o c[2] = text
<1>1. /\ <<>> \in Seq(Char)
      /\ text \o <<>> = text /\ <<>> \o text = text
  BY ConcatEmptySeq, EmptySeq
<1>2. CASE Cut(text, final) = <<text, <<>>>>
  BY <1>1, <1>2
<1>3. CASE Cut(text, final) = <<<<>>, text>>
  BY <1>1, <1>3
<1>4. ASSUME NEW k \in 0..Len(text),
             Cut(text, final) = <<SubSeq(text, 1, k), SubSeq(text, k + 1, Len(text))>>
      PROVE  /\ Cut(text, final)[1] \in Seq(Char) /\ Cut(text, final)[2] \in Seq(Char)
             /\ Cut(text, final)[1] \o Cut(text, final)[2] = text
  <2>1. /\ SubSeq(text, 1, k) \in Seq(Char)
        /\ SubSeq(text, k + 1, Len(text)) \in Seq(Char)
        /\ SubSeq(text, 1, k) \o SubSeq(text, k + 1, Len(text)) = text
    BY CutAfter, Zenon
  <2>2. /\ Cut(text, final)[1] = SubSeq(text, 1, k)
        /\ Cut(text, final)[2] = SubSeq(text, k + 1, Len(text))
    BY <1>4
  <2> QED BY <2>1, <2>2, Zenon
<1>5. /\ LastOf(text, Terminator) \in 0..Len(text)
      /\ LastOf(text, Blank) \in 0..Len(text)
  BY LastOfIsLast
<1> QED BY <1>2, <1>3, <1>4, <1>5, Zenon DEF Cut, splitKeepingLastToken

\* lastRunes keeps the end of a text.
LEMMA LastRunesIsEnd ==
    ASSUME NEW s \in Seq(Char), NEW n \in Nat
    PROVE  LET r == lastRunes(s, n)
           IN  /\ r \in Seq(Char)
               /\ Len(r) = IF Len(s) <= n THEN Len(s) ELSE n
               /\ \A i \in 1..Len(r) : r[i] = s[Len(s) - Len(r) + i]
<1>1. Len(s) \in Nat /\ \A i \in 1..Len(s) : s[i] \in Char
  BY LenProperties, ElementOfSeq
<1>2. CASE Len(s) <= n
  BY <1>1, <1>2 DEF lastRunes
<1>3. CASE ~(Len(s) <= n)
  <2>1. /\ SubSeq(s, Len(s) - n + 1, Len(s)) \in Seq(Char)
        /\ Len(SubSeq(s, Len(s) - n + 1, Len(s))) = n
        /\ \A i \in 1..n : SubSeq(s, Len(s) - n + 1, Len(s))[i] = s[Len(s) - n + i]
    <3>1. Len(s) - n + 1 \in Int /\ \A i \in (Len(s) - n + 1)..Len(s) : s[i] \in Char
      BY <1>1, <1>3
    <3> QED BY <1>1, <1>3, <3>1, SubSeqProperties
  <2> QED BY <1>3, <2>1 DEF lastRunes
<1> QED BY <1>2, <1>3

\* The overlap of the overlap with a segment is the overlap of the whole text.
LEMMA OverlapIsEnd ==
    ASSUME NEW s \in Seq(Char), NEW t \in Seq(Char), NEW n \in Nat
    PROVE  lastRunes(lastRunes(s, n) \o t, n) = lastRunes(s \o t, n)
<1> DEFINE o == lastRunes(s, n)
           l == lastRunes(o \o t, n)
           r == lastRunes(s \o t, n)
<1>1. Len(s) \in Nat /\ Len(t) \in Nat
  BY LenProperties
<1>2. /\ o \in Seq(Char)
      /\ Len(o) = IF Len(s) <= n THEN Len(s) ELSE n
      /\ \A i \in 1..Len(o) : o[i] = s[Len(s) - Len(o) + i]
  BY LastRunesIsEnd
<1>3. /\ o \o t \in Seq(Char) /\ Len(o \o t) = Len(o) + Len(t)
      /\ \A i \in 1..(Len(o) + Len(t)) :
            (o \o t)[i] = IF i <= Len(o) THEN o[i] ELSE t[i - Len(o)]
  BY <1>2, ConcatProperties, Zenon
<1>4. /\ s \o t \in Seq(Char) /\ Len(s \o t) = Len(s) + Len(t)
      /\ \A i \in 1..(Len(s) + Len(t)) :
            (s \o t)[i] = IF i <= Len(s) THEN s[i] ELSE t[i - Len(s)]
  BY ConcatProperties
<1>5. /\ l \in Seq(Char)
      /\ Len(l) = IF Len(o \o t) <= n THEN Len(o \o t) ELSE n
      /\ \A i \in 1..Len(l) : l[i] = (o \o t)[Len(o \o t) - Len(l) + i]
  BY <1>3, LastRunesIsEnd, Zenon
<1>6. /\ r \in Seq(Char)
      /\ Len(r) = IF Len(s \o t) <= n THEN Len(s \o t) ELSE n
      /\ \A i \in 1..Len(r) : r[i] = (s \o t)[Len(s \o t) - Len(r) + i]
  BY <1>4, LastRunesIsEnd, Zenon
<1> HIDE DEF o, l, r
<1>7. /\ Len(l) = Len(r) /\ Len(l) \in Nat
      /\ Len(o) \in Nat /\ Len(o) <= Len(s) /\ Len(l) <= Len(o) + Len(t)
  BY <1>1, <1>2, <1>3, <1>4, <1>5, <1>6
<1>8. ASSUME NEW i \in 1..Len(l) PROVE l[i] = r[i]
  <2> DEFINE a == Len(o) + Len(t) - Len(l) + i
             b == Len(s) + Len(t) - Len(l) + i
  <2>1. a \in 1..(Len(o) + Len(t)) /\ b \in 1..(Len(s) + Len(t))
    BY <1>1, <1>7
  <2>2. l[i] = (o \o t)[a] /\ r[i] = (s \o t)[b]
    <3>1. i \in 1..Len(r)
      BY <1>7
    <3>2. Len(o \o t) - Len(l) + i = a /\ Len(s \o t) - Len(r) + i = b
      BY <1>3, <1>4, <1>7
    <3> QED BY <1>5, <1>6, <3>1, <3>2, Zenon
  <2>3. b = a + Len(s) - Len(o) /\ b - Len(s) = a - Len(o)
    BY <1>1, <1>7
  <2> HIDE DEF a, b
  <2>4. CASE a <= Len(o)
    <3>0. b <= Len(s) /\ a \in 1..Len(o) /\ b = Len(s) - Len(o) + a
      BY <1>1, <1>7, <2>1, <2>3, <2>4
    <3>1. (o \o t)[a] = o[a] /\ (s \o t)[b] = s[b]
      BY <1>3, <1>4, <2>1, <3>0
    <3>2. o[a] = s[b]
      BY <1>2, <3>0, Zenon
    <3> QED BY <2>2, <3>1, <3>2
  <2>5. CASE ~(a <= Len(o))
    <3>1. (o \o t)[a] = t[a - Len(o)] /\ (s \o t)[b] = t[b - Len(s)]
      BY <1>1, <1>3, <1>4, <1>7, <2>1, <2>3, <2>5
    <3> QED BY <2>2, <2>3, <3>1
  <2> QED BY <2>4, <2>5
<1>9. l = r
  BY <1>5, <1>6, <1>7, <1>8, SeqEqual, Zenon
<1> QED BY <1>9 DEF l, r, o

\* strings.Contains, character by character.
LEMMA HasAt ==
    ASSUME NEW text \in Seq(Char), NEW w \in Seq(Char)
    PROVE  Has(text, w) <=> \E i \in 0..(Len(text) - Len(w)) :
                              \A x \in 1..Len(w) : text[i + x] = w[x]
<1>1. Len(text) \in Nat /\ Len(w) \in Nat /\ \A i \in 1..Len(text) : text[i] \in Char
  BY LenProperties, ElementOfSeq
<1>2. ASSUME NEW i \in 0..(Len(text) - Len(w))
      PROVE  SubSeq(text, i + 1, i + Len(w)) = w
               <=> \A x \in 1..Len(w) : text[i + x] = w[x]
  <2> DEFINE u == SubSeq(text, i + 1, i + Len(w))
  <2>1. \A j \in (i + 1)..(i + Len(w)) : text[j] \in Char
    BY <1>1
  <2>2. /\ u \in Seq(Char) /\ Len(u) = Len(w)
        /\ \A x \in 1..Len(w) : u[x] = text[i + x]
    <3>1. i + 1 \in Int /\ i + Len(w) \in Int
      BY <1>1
    <3>2. /\ u \in Seq(Char)
          /\ Len(u) = IF i + 1 <= i + Len(w) THEN i + Len(w) - (i + 1) + 1 ELSE 0
          /\ \A x \in 1..(i + Len(w) - (i + 1) + 1) : u[x] = text[i + 1 + x - 1]
      BY <2>1, <3>1, SubSeqProperties
    <3> HIDE DEF u
    <3>3. Len(u) = Len(w)
      BY <1>1, <3>2
    <3>4. \A x \in 1..Len(w) : x \in 1..(i + Len(w) - (i + 1) + 1) /\ i + 1 + x - 1 = i + x
      BY <1>1
    <3> QED BY <3>2, <3>3, <3>4
  <2> HIDE DEF u
  <2>3. (\A x \in 1..Len(w) : text[i + x] = w[x]) => u = w
    BY <2>2, SeqEqual
  <2> QED BY <2>2, <2>3 DEF u
<1> QED BY <1>2, Zenon DEF Has

\* Moderating a segment with the overlap before it finds every phrase that ends
\* in the segment and whose beginning the overlap can hold.
LEMMA OverlapSuffices ==
    ASSUME NEW s \in Seq(Char), NEW t \in Seq(Char), NEW w \in Seq(Char),
           Len(w) <= Overlap + 1,
           Has(s \o t, w)
    PROVE  Has(s, w) \/ Has(lastRunes(s, Overlap) \o t, w)
<1> DEFINE o == lastRunes(s, Overlap)
           k == Len(s) - Len(o)
<1>1. Len(s) \in Nat /\ Len(t) \in Nat /\ Len(w) \in Nat /\ Overlap \in Nat
  BY LenProperties, FilterConfig
<1>2. /\ o \in Seq(Char)
      /\ Len(o) = IF Len(s) <= Overlap THEN Len(s) ELSE Overlap
      /\ \A x \in 1..Len(o) : o[x] = s[k + x]
  BY <1>1, LastRunesIsEnd
<1> HIDE DEF o
<1>3. /\ o \o t \in Seq(Char) /\ Len(o \o t) = Len(o) + Len(t)
      /\ \A x \in 1..(Len(o) + Len(t)) :
            (o \o t)[x] = IF x <= Len(o) THEN o[x] ELSE t[x - Len(o)]
  BY <1>2, ConcatProperties, Zenon
<1>4. /\ s \o t \in Seq(Char) /\ Len(s \o t) = Len(s) + Len(t)
      /\ \A x \in 1..(Len(s) + Len(t)) :
            (s \o t)[x] = IF x <= Len(s) THEN s[x] ELSE t[x - Len(s)]
  BY ConcatProperties
<1>5. Len(o) \in Nat /\ k \in Nat /\ (k > 0 => Len(o) = Overlap)
  BY <1>1, <1>2
<1>6. PICK i \in 0..(Len(s \o t) - Len(w)) :
           \A x \in 1..Len(w) : (s \o t)[i + x] = w[x]
  BY <1>4, HasAt, Zenon
<1>7. CASE i + Len(w) <= Len(s)
  <2>1. i \in 0..(Len(s) - Len(w))
    BY <1>1, <1>4, <1>7
  <2>2. ASSUME NEW x \in 1..Len(w) PROVE s[i + x] = w[x]
    <3>1. i + x \in 1..(Len(s) + Len(t)) /\ i + x <= Len(s)
      BY <1>1, <1>7, <2>1
    <3> QED BY <1>4, <1>6, <3>1
  <2> QED BY <2>1, <2>2, HasAt, Zenon
<1>8. CASE ~(i + Len(w) <= Len(s))
  <2> DEFINE j == i - k
  <2>1. i >= k
    BY <1>1, <1>4, <1>5, <1>8
  <2>2. j \in 0..(Len(o \o t) - Len(w))
    BY <1>1, <1>3, <1>4, <1>5, <2>1
  <2>3. ASSUME NEW x \in 1..Len(w) PROVE (o \o t)[j + x] = w[x]
    <3>1. j + x \in 1..(Len(o) + Len(t)) /\ i + x \in 1..(Len(s) + Len(t))
      BY <1>1, <1>3, <1>4, <1>5, <2>2
    <3>2. (s \o t)[i + x] = w[x]
      BY <1>6
    <3>3. CASE i + x <= Len(s)
      <4>1. j + x \in 1..Len(o) /\ k + (j + x) = i + x
        BY <1>1, <1>5, <3>1, <3>3
      <4>2. o[j + x] = s[i + x]
        BY <1>2, <4>1
      <4>3. (o \o t)[j + x] = o[j + x] /\ (s \o t)[i + x] = s[i + x]
        BY <1>3, <1>4, <3>1, <3>3, <4>1
      <4> QED BY <3>2, <4>2, <4>3
    <3>4. CASE ~(i + x <= Len(s))
      <4>1. ~(j + x <= Len(o)) /\ j + x - Len(o) = i + x - Len(s)
        BY <1>1, <1>5, <3>1, <3>4
      <4>2. (o \o t)[j + x] = t[j + x - Len(o)] /\ (s \o t)[i + x] = t[i + x - Len(s)]
        BY <1>3, <1>4, <3>1, <3>4, <4>1
      <4> QED BY <3>2, <4>1, <4>2
    <3> QED BY <3>3, <3>4, Zenon
  <2> HIDE DEF j
  <2>4. Has(o \o t, w)
    BY <1>3, <2>2, <2>3, HasAt, Zenon
  <2> QED BY <2>4 DEF o
<1> QED BY <1>7, <1>8

\* Concatenation of texts is associative.
LEMMA TextAssociative ==
    \A s, t, u \in Seq(Char) : (s \o t) \o u = s \o (t \o u)
  OBVIOUS

\* A beginning of a text is what some rest continues.
LEMMA PrefixHasRest ==
    ASSUME NEW s \in Seq(Char), NEW t \in Seq(Char)
    PROVE  IsPrefix(s, t) <=> \E rest \in Seq(Char) : s \o rest = t
<1>1. Len(s) \in Nat /\ Len(t) \in Nat
  BY LenProperties
<1>2. SubSeq(s, 1, Len(s)) = s
  BY SubSeqFull
<1>3. ASSUME IsPrefix(s, t) PROVE \E rest \in Seq(Char) : s \o rest = t
  <2>1. Len(s) \in 0..Len(t) /\ SubSeq(t, 1, Len(s)) = s
    BY <1>1, <1>2, <1>3 DEF IsPrefix
  <2>2. /\ SubSeq(t, Len(s) + 1, Len(t)) \in Seq(Char)
        /\ SubSeq(t, 1, Len(s)) \o SubSeq(t, Len(s) + 1, Len(t)) = t
    BY <2>1, CutAfter, Zenon
  <2> QED BY <2>1, <2>2, Zenon
<1>4. ASSUME NEW rest \in Seq(Char), s \o rest = t PROVE IsPrefix(s, t)
  <2>1. Len(s \o rest) = Len(s) + Len(rest) /\ Len(rest) \in Nat
    BY ConcatProperties, LenProperties
  <2>2. SubSeq(t, 1, Len(s)) = SubSeq(s, 1, Len(s))
    <3>1. CASE Len(s) = 0
      BY <3>1, SubSeqEmpty
    <3>2. CASE Len(s) # 0
      <4>1. 1 \in 1..Len(s) /\ Len(s) \in 1..Len(s)
        BY <1>1, <3>2
      <4> QED BY <1>4, <4>1, SubSeqOfConcat1
    <3> QED BY <3>1, <3>2
  <2> QED BY <1>1, <1>4, <2>1, <2>2 DEF IsPrefix
<1> QED BY <1>3, <1>4, Zenon

\* What Cut keeps back has no terminator and is short of Cap + MaxDelta, and with
\* Cap characters or more it has no blank either.
Kept(text) ==
    /\ NoneOf(text, Terminator)
    /\ Len(text) < Cap + MaxDelta - 1
    /\ Len(text) >= Cap => NoneOf(text, Blank)

\* What a cut leaves behind is Kept.
LEMMA CutKeepsLittle ==
    ASSUME NEW b \in Seq(Char), Kept(b),
           NEW delta \in Seq(Char), Len(delta) <= MaxDelta
    PROVE  Kept(Cut(b \o delta, FALSE)[2])
<1> DEFINE text == b \o delta
           r == Cut(text, FALSE)[2]
           ct == LastOf(text, Terminator)
           cb == LastOf(text, Blank)
<1>1. /\ Len(b) \in Nat /\ Len(delta) \in Nat
      /\ MaxSegment \in Nat \ {0} /\ MaxDelta \in Nat \ {0}
  BY LenProperties, FilterConfig
<1>2. Cap \in Nat /\ Cap >= MaxSegment /\ Cap >= MaxDelta
  BY <1>1 DEF Cap
<1>3. /\ text \in Seq(Char) /\ Len(text) = Len(b) + Len(delta)
      /\ \A i \in 1..Len(b) : text[i] = b[i]
  <2>1. /\ text \in Seq(Char) /\ Len(text) = Len(b) + Len(delta)
        /\ \A i \in 1..(Len(b) + Len(delta)) :
              text[i] = IF i <= Len(b) THEN b[i] ELSE delta[i - Len(b)]
    BY ConcatProperties
  <2> HIDE DEF text
  <2> QED BY <1>1, <2>1
<1> HIDE DEF text
<1>4. /\ ct \in 0..Len(text) /\ (ct > 0 => text[ct] \in Terminator)
      /\ \A j \in 1..Len(text) : j > ct => text[j] \notin Terminator
  BY <1>3, LastOfIsLast
<1>5. /\ cb \in 0..Len(text) /\ (cb > 0 => text[cb] \in Blank)
      /\ \A j \in 1..Len(text) : j > cb => text[j] \notin Blank
  BY <1>3, LastOfIsLast, Zenon
<1> HIDE DEF ct, cb
<1>6. CASE ct > 0
  <2>1. r = SubSeq(text, ct + 1, Len(text))
    BY <1>6, Zenon DEF Cut, ct
  <2>2. ct > Len(b)
    BY <1>1, <1>3, <1>4, <1>6 DEF Kept, NoneOf
  <2> HIDE DEF r
  <2>3. /\ Len(r) = Len(text) - ct
        /\ \A i \in 1..(Len(text) - ct) : r[i] = text[ct + i]
    <3>1. LET e == SubSeq(text, ct + 1, Len(text))
          IN  /\ Len(e) = Len(text) - ct
              /\ \A i \in 1..(Len(text) - ct) : e[i] = text[ct + i]
      BY <1>3, <1>4, CutAfter, Zenon
    <3> QED BY <2>1, <3>1, Zenon
  <2>4. Len(r) < MaxDelta
    BY <1>1, <1>3, <1>4, <2>2, <2>3
  <2>5. ASSUME NEW i \in 1..Len(r) PROVE r[i] \notin Terminator
    <3>1. ct + i \in 1..Len(text) /\ ct + i > ct /\ i \in 1..(Len(text) - ct)
      BY <1>1, <1>3, <1>4, <2>3
    <3> QED BY <1>4, <2>3, <3>1
  <2>6. Len(r) \in Int
    BY <1>1, <1>3, <1>4, <2>3
  <2>7. Len(r) < Cap + MaxDelta - 1 /\ ~(Len(r) >= Cap)
    BY <1>1, <1>2, <2>4, <2>6
  <2>8. Kept(r)
    BY <2>5, <2>7 DEF Kept, NoneOf
  <2> QED BY <2>8, Zenon DEF r, text
<1>7. CASE ~(ct > 0) /\ ~(Len(text) >= MaxSegment)
  <2>1. r = text
    BY <1>7 DEF Cut, ct
  <2>2. Len(text) < Cap + MaxDelta - 1 /\ ~(Len(text) >= Cap)
    BY <1>1, <1>2, <1>3, <1>7
  <2>3. \A i \in 1..Len(text) : i > ct
    BY <1>4, <1>7
  <2>4. Kept(text)
    BY <1>4, <2>2, <2>3 DEF Kept, NoneOf
  <2> QED BY <2>1, <2>4, Zenon DEF text
<1>8. CASE ~(ct > 0) /\ Len(text) >= MaxSegment /\ cb > 1 /\ cb < Len(text)
  <2>1. r = SubSeq(text, cb + 1, Len(text))
    BY <1>8, Zenon DEF Cut, ct, splitKeepingLastToken, cb
  <2> HIDE DEF r
  <2>2. /\ Len(r) = Len(text) - cb
        /\ \A i \in 1..(Len(text) - cb) : r[i] = text[cb + i]
    <3>1. LET e == SubSeq(text, cb + 1, Len(text))
          IN  /\ Len(e) = Len(text) - cb
              /\ \A i \in 1..(Len(text) - cb) : e[i] = text[cb + i]
      BY <1>3, <1>5, CutAfter
    <3> QED BY <2>1, <3>1
  <2>3. cb <= Len(b) => Len(b) < Cap
    BY <1>1, <1>2, <1>3, <1>5, <1>8 DEF Kept, NoneOf
  <2>4. Len(r) < Cap + MaxDelta - 1
    <3>1. CASE cb <= Len(b)
      BY <1>1, <1>2, <1>3, <1>5, <1>8, <2>2, <2>3, <3>1
    <3>2. CASE ~(cb <= Len(b))
      BY <1>1, <1>2, <1>3, <1>5, <2>2, <3>2
    <3> QED BY <3>1, <3>2
  <2>5. ASSUME NEW i \in 1..Len(r) PROVE r[i] \notin Terminator /\ r[i] \notin Blank
    <3>1. /\ cb + i \in 1..Len(text) /\ cb + i > cb /\ cb + i > ct
          /\ i \in 1..(Len(text) - cb)
      BY <1>1, <1>3, <1>4, <1>5, <1>8, <2>2
    <3> QED BY <1>4, <1>5, <2>2, <3>1
  <2>6. Kept(r)
    BY <2>4, <2>5 DEF Kept, NoneOf
  <2> QED BY <2>6 DEF r, text
<1>9. CASE ~(ct > 0) /\ Len(text) >= MaxSegment /\ ~(cb > 1 /\ cb < Len(text))
  <2>1. r = <<>>
    BY <1>9 DEF Cut, ct, splitKeepingLastToken, cb
  <2>2. Len(<<>>) = 0 /\ 0 < Cap + MaxDelta - 1
    BY <1>1, <1>2
  <2>3. Kept(<<>>)
    BY <2>2 DEF Kept, NoneOf
  <2> QED BY <2>1, <2>3, Zenon DEF text
<1> QED BY <1>6, <1>7, <1>8, <1>9, Zenon

-----------------------------------------------------------------------------
(* The invariant of the filter                                             *)

\* Until a hit the overlap is the end of what was emitted: without it, a segment
\* moderated alone says nothing about the text it is appended to.
FilterInv ==
    /\ {buf, overlap, input, sent} \subseteq Seq(Char)
    /\ {blocked, flushed} \subseteq BOOLEAN
    /\ ~blocked => overlap = lastRunes(sent, Overlap)
    /\ Conserved
    /\ NothingBannedSent
    /\ Kept(buf)

\* The deltas of the model are texts of at most MaxDelta characters.
LEMMA TextIsSeq ==
    ASSUME NEW n \in Nat, NEW t \in Text(n)
    PROVE  t \in Seq(Char) /\ Len(t) <= n
<1>1. PICK k \in 0..n : t \in [1..k -> Char]
  BY DEF Text
<1>2. k \in Nat /\ t \in Seq(Char) /\ Len(t) = k
  BY <1>1
<1> QED BY <1>1, <1>2

\* drain: the emitted text grows by what moderation let through, and what is kept
\* back follows it.
LEMMA DrainStep ==
    ASSUME FilterInv, ~blocked,
           NEW text \in Seq(Char), NEW final \in BOOLEAN, drain(text, final)
    PROVE  /\ {buf', overlap', sent'} \subseteq Seq(Char)
           /\ blocked' \in BOOLEAN
           /\ ~blocked' => /\ overlap' = lastRunes(sent', Overlap)
                           /\ sent' \o buf' = sent \o text
           /\ IsPrefix(sent', sent \o text)
           /\ NothingBannedSent'
           /\ buf' \in {<<>>, Cut(text, final)[2]}
<1> DEFINE seg == Cut(text, final)[1]
           rest == Cut(text, final)[2]
<1>1. seg \in Seq(Char) /\ rest \in Seq(Char) /\ seg \o rest = text
  BY CutConserves, Zenon
<1>2. /\ buf \in Seq(Char) /\ overlap \in Seq(Char) /\ sent \in Seq(Char)
      /\ overlap = lastRunes(sent, Overlap) /\ Overlap \in Nat
      /\ <<>> \in Seq(Char)
  BY EmptySeq, FilterConfig DEF FilterInv
<1>3. IsPrefix(sent, sent \o text)
  BY <1>2, PrefixHasRest, ConcatProperties, Zenon
<1>4. CASE seg = <<>> /\ buf' = text /\ UNCHANGED <<overlap, blocked, sent>>
  <2>1. rest = text
    <3> HIDE DEF seg, rest
    <3> QED BY <1>1, <1>4, ConcatEmptySeq
  <2>2. NothingBannedSent'
    BY <1>4 DEF FilterInv, NothingBannedSent
  <2>3. blocked' = blocked /\ blocked \in BOOLEAN
    BY <1>4 DEF FilterInv
  <2>4. buf' = text /\ overlap' = overlap /\ sent' = sent
    BY <1>4
  <2>5. buf' = Cut(text, final)[2]
    BY <2>1, <2>4
  <2> HIDE DEF seg, rest
  <2>6. {buf', overlap', sent'} \subseteq Seq(Char)
    BY <1>2, <2>4
  <2>7. overlap' = lastRunes(sent', Overlap) /\ sent' \o buf' = sent \o text
    BY <1>2, <2>4
  <2>8. IsPrefix(sent', sent \o text)
    BY <1>3, <2>4
  <2> QED BY <2>2, <2>3, <2>5, <2>6, <2>7, <2>8, Zenon
<1>5. CASE /\ seg # <<>> /\ Allowed(overlap \o seg)
           /\ buf' = rest
           /\ overlap' = lastRunes(overlap \o seg, Overlap)
           /\ sent' = sent \o seg
           /\ UNCHANGED blocked
  <2> HIDE DEF seg, rest
  <2>0. sent' = sent \o seg /\ buf' = rest
    BY <1>5
  <2>1. sent' \in Seq(Char) /\ sent' \o buf' = sent \o text
    <3>1. sent \o seg \in Seq(Char)
      BY <1>1, <1>2, ConcatProperties
    <3>2. (sent \o seg) \o rest = sent \o (seg \o rest)
      <4>1. sent \in Seq(Char) /\ seg \in Seq(Char) /\ rest \in Seq(Char)
        BY <1>1, <1>2
      <4> QED BY <4>1, TextAssociative, Zenon
    <3> QED BY <1>1, <2>0, <3>1, <3>2
  <2>2. overlap' = lastRunes(sent', Overlap) /\ overlap' \in Seq(Char)
    <3>1. lastRunes(lastRunes(sent, Overlap) \o seg, Overlap) = lastRunes(sent \o seg, Overlap)
      BY <1>1, <1>2, OverlapIsEnd
    <3>2. overlap' = lastRunes(lastRunes(sent, Overlap) \o seg, Overlap)
      BY <1>2, <1>5
    <3>3. overlap' = lastRunes(sent', Overlap)
      BY <2>0, <3>1, <3>2
    <3>4. lastRunes(sent \o seg, Overlap) \in Seq(Char)
      BY <1>2, <2>0, <2>1, LastRunesIsEnd, Zenon
    <3> QED BY <2>0, <3>3, <3>4
  <2>3. IsPrefix(sent', sent \o text)
    BY <1>1, <1>2, <1>5, <2>1, PrefixHasRest, ConcatProperties, Zenon
  <2>4. ASSUME NEW w \in Banned, Len(w) <= Overlap + 1 PROVE ~Has(sent \o seg, w)
    <3>1. w \in Seq(Char)
      BY FilterConfig
    <3>2. ~Has(sent, w)
      BY <2>4 DEF FilterInv, NothingBannedSent
    <3>3. ~Has(lastRunes(sent, Overlap) \o seg, w)
      BY <1>2, <1>5 DEF Allowed
    <3> QED BY <1>1, <1>2, <2>4, <3>1, <3>2, <3>3, OverlapSuffices
  <2>5. NothingBannedSent'
    BY <1>5, <2>4 DEF NothingBannedSent
  <2>6. blocked' \in BOOLEAN
    BY <1>5 DEF FilterInv
  <2> QED BY <1>1, <1>5, <2>1, <2>2, <2>3, <2>5, <2>6 DEF rest
<1>6. CASE blocked' = TRUE /\ buf' = <<>> /\ overlap' = <<>> /\ UNCHANGED sent
  <2>1. NothingBannedSent'
    BY <1>6 DEF FilterInv, NothingBannedSent
  <2> HIDE DEF seg, rest
  <2> QED BY <1>2, <1>3, <1>6, <2>1
<1> QED BY <1>4, <1>5, <1>6, Zenon DEF drain

\* FilterInv is an invariant of the filter.
LEMMA FilterInvHolds == FilterSpec => []FilterInv
<1>0. <<>> \in Seq(Char) /\ Len(<<>>) = 0 /\ Overlap \in Nat /\ MaxDelta \in Nat
  BY EmptySeq, FilterConfig
<1>1. Kept(<<>>)
  <2>1. 0 < Cap + MaxDelta - 1
    BY FilterConfig DEF Cap
  <2> QED BY <1>0, <2>1 DEF Kept, NoneOf
<1>2. FilterInit => FilterInv
  <2> SUFFICES ASSUME FilterInit PROVE FilterInv
    OBVIOUS
  <2>1. lastRunes(<<>>, Overlap) = <<>>
    BY <1>0 DEF lastRunes
  <2>2. <<>> \o <<>> = <<>>
    BY <1>0, ConcatEmptySeq
  <2>3. Conserved
    BY <1>0, <2>2, PrefixHasRest, Zenon DEF FilterInit, Conserved
  <2>4. NothingBannedSent
    <3>1. ASSUME NEW w \in Banned PROVE ~Has(<<>>, w)
      <4>1. w \in Seq(Char) /\ w # <<>>
        BY FilterConfig
      <4>2. Len(w) \in Nat \ {0}
        BY <4>1, EmptySeq
      <4>3. 0..(Len(<<>>) - Len(w)) = {}
        BY <1>0, <4>2
      <4> QED BY <4>3 DEF Has
    <3> QED BY <3>1 DEF FilterInit, NothingBannedSent
  <2> QED BY <1>0, <1>1, <2>1, <2>3, <2>4, Zenon DEF FilterInit, FilterInv
<1>3. FilterInv /\ [FilterNext]_filterVars => FilterInv'
  <2> SUFFICES ASSUME FilterInv, [FilterNext]_filterVars PROVE FilterInv'
    OBVIOUS
  <2>0. /\ buf \in Seq(Char) /\ overlap \in Seq(Char) /\ input \in Seq(Char)
        /\ sent \in Seq(Char) /\ Kept(buf) /\ NothingBannedSent
        /\ IsPrefix(sent, input)
    BY DEF FilterInv, Conserved
  <2>1. ASSUME NEW delta \in Text(MaxDelta) \ {<<>>}, Push(delta) PROVE FilterInv'
    <3>1. delta \in Seq(Char) /\ Len(delta) <= MaxDelta
      BY <1>0, TextIsSeq
    <3>2. input' = input \o delta /\ input' \in Seq(Char)
      BY <2>0, <2>1, <3>1, ConcatProperties DEF Push
    <3>3. CASE blocked /\ UNCHANGED <<buf, overlap, blocked, sent>>
      <4>1. IsPrefix(sent, input')
        <5>1. PICK r \in Seq(Char) : sent \o r = input
          BY <2>0, PrefixHasRest
        <5>2. r \o delta \in Seq(Char)
          BY <3>1, ConcatProperties
        <5>3. (sent \o r) \o delta = sent \o (r \o delta)
          <6>1. sent \in Seq(Char) /\ delta \in Seq(Char)
            BY <2>0, <3>1
          <6> QED BY <6>1, TextAssociative
        <5>4. \E rest \in Seq(Char) : sent \o rest = input'
          BY <3>2, <5>1, <5>2, <5>3, Zenon
        <5> QED BY <2>0, <3>2, <5>4, PrefixHasRest, Zenon
      <4>2. Conserved'
        BY <3>3, <4>1 DEF Conserved
      <4>3. NothingBannedSent'
        BY <2>0, <3>3 DEF NothingBannedSent
      <4>4. {buf', overlap', input', sent'} \subseteq Seq(Char) /\ Kept(buf')
        BY <2>0, <3>2, <3>3
      <4>5. {blocked', flushed'} \subseteq BOOLEAN /\ blocked'
        BY <2>1, <3>3 DEF Push, FilterInv
      <4> QED BY <4>2, <4>3, <4>4, <4>5 DEF FilterInv
    <3>4. CASE ~blocked /\ drain(buf \o delta, FALSE)
      <4>1. buf \o delta \in Seq(Char) /\ sent \o (buf \o delta) = input'
        <5>1. sent \o buf = input
          BY <3>4 DEF FilterInv, Conserved
        <5>2. (sent \o buf) \o delta = sent \o (buf \o delta)
          BY <2>0, <3>1, TextAssociative, Zenon
        <5> QED BY <2>0, <3>1, <3>2, <5>1, <5>2, ConcatProperties
      <4>2. /\ {buf', overlap', sent'} \subseteq Seq(Char)
            /\ blocked' \in BOOLEAN
            /\ ~blocked' => /\ overlap' = lastRunes(sent', Overlap)
                            /\ sent' \o buf' = sent \o (buf \o delta)
            /\ IsPrefix(sent', sent \o (buf \o delta))
            /\ NothingBannedSent'
            /\ buf' \in {<<>>, Cut(buf \o delta, FALSE)[2]}
        BY <3>4, <4>1, DrainStep, Zenon
      <4>3. Kept(buf')
        BY <1>1, <2>0, <3>1, <4>2, CutKeepsLittle, Zenon
      <4>4. Conserved'
        BY <4>1, <4>2 DEF Conserved
      <4>5. flushed' \in BOOLEAN
        BY <2>1 DEF Push, FilterInv
      <4> QED BY <3>2, <4>2, <4>3, <4>4, <4>5, Zenon DEF FilterInv
    <3> QED BY <2>1, <3>3, <3>4, Zenon DEF Push
  <2>2. CASE Flush
    <3>1. input' = input /\ flushed' = TRUE
      BY <2>2 DEF Flush
    <3>2. CASE blocked /\ UNCHANGED <<buf, overlap, blocked, sent>>
      BY <3>1, <3>2 DEF FilterInv, Conserved, NothingBannedSent, Kept, NoneOf
    <3>3. CASE ~blocked /\ drain(buf, TRUE)
      <4>1. sent \o buf = input
        BY <3>3, Zenon DEF FilterInv, Conserved
      <4>2. /\ {buf', overlap', sent'} \subseteq Seq(Char)
            /\ blocked' \in BOOLEAN
            /\ ~blocked' => /\ overlap' = lastRunes(sent', Overlap)
                            /\ sent' \o buf' = sent \o buf
            /\ IsPrefix(sent', sent \o buf)
            /\ NothingBannedSent'
            /\ buf' \in {<<>>, Cut(buf, TRUE)[2]}
        BY <2>0, <3>3, DrainStep, Zenon
      <4>3. buf' = <<>>
        BY <4>2 DEF Cut
      <4>4. Kept(buf')
        BY <1>1, <4>3
      <4>5. Conserved'
        BY <3>1, <4>1, <4>2 DEF Conserved
      <4> QED BY <2>0, <3>1, <4>2, <4>4, <4>5 DEF FilterInv
    <3> QED BY <2>2, <3>2, <3>3 DEF Flush
  <2>3. CASE UNCHANGED filterVars
    BY <2>3 DEF filterVars, FilterInv, Conserved, NothingBannedSent, Kept, NoneOf
  <2> QED BY <2>1, <2>2, <2>3 DEF FilterNext
<1> QED BY <1>2, <1>3, PTL DEF FilterSpec

\* However the stream is cut into deltas, the filter loses, repeats and reorders
\* nothing: what it emitted and what it holds make up the input (Push, Flush).
THEOREM FilterConserves == FilterSpec => []Conserved
<1>1. FilterInv => Conserved
  BY DEF FilterInv
<1> QED BY <1>1, FilterInvHolds, PTL

\* No banned phrase that fits into the overlap and one character is ever emitted,
\* for every policy, cap, overlap and way to cut the stream (drain, lastRunes).
THEOREM FilterLetsNothingThrough == FilterSpec => []NothingBannedSent
<1>1. FilterInv => NothingBannedSent
  BY DEF FilterInv
<1> QED BY <1>1, FilterInvHolds, PTL

\* The buffer stays below the larger of the size cap and a delta, plus a delta
\* (drain, splitKeepingLastToken).
THEOREM FilterBufferIsBounded == FilterSpec => []BufferBounded
<1>1. FilterInv => BufferBounded
  BY DEF FilterInv, Kept, BufferBounded
<1> QED BY <1>1, FilterInvHolds, PTL

=============================================================================
