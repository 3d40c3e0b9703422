------------------------------- MODULE Gateway -------------------------------
(***************************************************************************)
(* A gateway process from start to exit: main of cmd/gateway, Load of      *)
(* internal/config, and Build, Run and Close of internal/gateway, with the *)
(* two server goroutines of Run, a signal at any moment, and chats that    *)
(* use the router and the Redis client of the process.                     *)
(*                                                                         *)
(* A chat is reduced to what it has to do with these.  Whether the limiter *)
(* lets it in, and how it ends, is left open: Circuit, Quota, Limiter and  *)
(* ChatHandler say that.                                                   *)
(***************************************************************************)
EXTENDS Router

CONSTANTS
    Chat,       \* chat requests, each on a connection of its own
    Player,     \* player ids
    Npc,        \* npc ids, Default among them
    Part,       \* what DIFY_APP_KEYS is made of: pairs, Blank, Malformed
    MaxParts    \* bound: parts of DIFY_APP_KEYS

ASSUME GatewayConfig ==
    /\ Default \in Npc
    /\ Player \cup Npc \subseteq Seq(STRING)
    /\ \A part \in Part \ {Blank, Malformed} : part.key # NoApp
    /\ MaxParts \in Nat

VARIABLES
    env,        \* DIFY_APP_KEYS, split at the semicolons
    parsed,     \* how many of its parts parseAppKeys has been through
    phase,      \* where the main goroutine is
    status,     \* what Run returned, or log.Fatalf reported
    ctx,        \* the context of signal.NotifyContext
    redis,      \* the Redis client
    keys,       \* cfg.DifyAppKeys, then the clients of the router
    admin,      \* the goroutine of the admin server
    closing,    \* AdminServer.Shutdown was called
    listener,   \* the goroutine of the listener
    errCh,      \* what the two have sent to Run
    chat,       \* where a chat is
    pair,       \* its player and npc
    app         \* the app key ChatStream was called with

mainVars == <<env, parsed, phase, status, ctx, redis, keys>>
serverVars == <<admin, closing, listener, errCh>>
chatVars == <<chat, pair, app>>
vars == <<env, parsed, phase, status, ctx, redis, keys, admin, closing, listener,
          errCh, chat, pair, app>>

Init ==
    /\ env \in UNION {[1..n -> Part] : n \in 0..MaxParts}
    /\ parsed = 0
    /\ phase = "load" /\ status = "none" /\ ctx = "live" /\ redis = "none"
    /\ keys = [n \in {} |-> n]
    /\ admin = "off" /\ closing = FALSE /\ listener = "off" /\ errCh = <<>>
    /\ chat = [q \in Chat |-> "none"]
    /\ pair = [q \in Chat |-> <<>>]
    /\ app = [q \in Chat |-> NoApp]

-----------------------------------------------------------------------------
(* main, Load, Build                                                       *)

Exit(result) == phase' = "exited" /\ status' = result

\* A turn of the loop of parseAppKeys: a blank part is skipped, and one that is no
\* pair ends Load with an error.
parseAppKeys ==
    /\ phase = "load" /\ parsed < Len(env)
    /\ LET part == env[parsed + 1]
       IN  \/ /\ part = Blank
              /\ parsed' = parsed + 1
              /\ UNCHANGED <<phase, status, keys>>
           \/ /\ validPair(part)
              /\ parsed' = parsed + 1
              /\ keys' = setKey(keys, part)
              /\ UNCHANGED <<phase, status>>
           \/ /\ part # Blank /\ ~validPair(part)
              /\ Exit("error")
              /\ UNCHANGED <<parsed, keys>>
    /\ UNCHANGED <<env, ctx, redis>> /\ UNCHANGED serverVars

\* Load succeeds, or reports that there is no key or another variable.
Load ==
    /\ phase = "load" /\ parsed = Len(env)
    /\ \/ /\ DOMAIN keys # {}
          /\ phase' = "auth"
          /\ UNCHANGED status
       \/ Exit("error")
    /\ UNCHANGED <<env, parsed, ctx, redis, keys>> /\ UNCHANGED serverVars

\* auth.New, before there is anything to close; then the Redis client.
BuildAuth ==
    /\ phase = "auth"
    /\ \/ /\ phase' = "build"
          /\ redis' = "open"
          /\ UNCHANGED status
       \/ /\ Exit("error")
          /\ UNCHANGED redis
    /\ UNCHANGED <<env, parsed, ctx, keys>> /\ UNCHANGED serverVars

\* Seeded fault: the Redis client is left open.
BuildFailsOpen ==
    /\ phase = "build"
    /\ Exit("error")
    /\ UNCHANGED <<env, parsed, ctx, redis, keys>> /\ UNCHANGED serverVars

\* limiter.New, NewDifyRouter or telemetry.Init returns an error.
BuildFails ==
    /\ phase = "build"
    /\ Exit("error")
    /\ redis' = "closed"
    /\ UNCHANGED <<env, parsed, ctx, keys>> /\ UNCHANGED serverVars

\* Build returns the runtime and Run starts its goroutines.
Build ==
    /\ phase = "build"
    /\ phase' = "run"
    /\ admin' = "starting" /\ listener' = "starting"
    /\ UNCHANGED <<env, parsed, status, ctx, redis, keys, closing, errCh>>

-----------------------------------------------------------------------------
(* Run                                                                     *)

Alive == phase \in {"run", "shutdown", "close", "exit"}

AdminStarts ==
    /\ Alive /\ admin = "starting" /\ ~closing
    /\ admin' = "serving"
    /\ UNCHANGED mainVars /\ UNCHANGED <<closing, listener, errCh>>

\* Seeded fault: the error of the admin server is only logged.
AdminReturnsQuietly ==
    /\ Alive /\ admin \in {"starting", "serving"}
    /\ admin' = "done"
    /\ UNCHANGED errCh
    /\ UNCHANGED mainVars /\ UNCHANGED <<closing, listener>>

\* ListenAndServe of the admin server returns: ErrServerClosed after Shutdown is
\* no error, whatever else is one.
AdminReturns ==
    /\ Alive /\ admin \in {"starting", "serving"}
    /\ admin' = "done"
    /\ errCh' = Append(errCh, IF closing THEN "nil" ELSE "error")
    /\ UNCHANGED mainVars /\ UNCHANGED <<closing, listener>>

ListenerStarts ==
    /\ Alive /\ listener = "starting"
    /\ listener' = "accepting"
    /\ UNCHANGED mainVars /\ UNCHANGED <<admin, closing, errCh>>

\* Listen fails.
ListenFails ==
    /\ Alive /\ listener = "starting"
    /\ listener' = "done"
    /\ errCh' = Append(errCh, "error")
    /\ UNCHANGED mainVars /\ UNCHANGED <<admin, closing>>

\* Seeded fault: an Accept error always ends the loop as if asked for.
AcceptFailsQuietly ==
    /\ Alive /\ listener = "accepting"
    /\ listener' = "done"
    /\ errCh' = Append(errCh, "nil")
    /\ UNCHANGED mainVars /\ UNCHANGED <<admin, closing>>

\* Accept fails, because the context is done (nil) or otherwise (the error).
AcceptFails ==
    /\ Alive /\ listener = "accepting"
    /\ listener' = "done"
    /\ errCh' = Append(errCh, IF ctx = "done" THEN "nil" ELSE "error")
    /\ UNCHANGED mainVars /\ UNCHANGED <<admin, closing>>

\* The select of Run: the context is done, ...
SelectDone ==
    /\ phase = "run" /\ ctx = "done"
    /\ phase' = "shutdown" /\ status' = "ok"
    /\ UNCHANGED <<env, parsed, ctx, redis, keys>> /\ UNCHANGED serverVars

\* ... or a goroutine has returned: after a nil there is no Shutdown.
SelectErr ==
    /\ phase = "run" /\ errCh # <<>>
    /\ errCh' = Tail(errCh)
    /\ \/ Head(errCh) = "error" /\ phase' = "shutdown" /\ status' = "error"
       \/ Head(errCh) = "nil" /\ phase' = "close" /\ status' = "ok"
    /\ UNCHANGED <<env, parsed, ctx, redis, keys, admin, closing, listener>>

\* AdminServer.Shutdown returns within five seconds.
Shutdown ==
    /\ phase = "shutdown"
    /\ phase' = "close"
    /\ closing' = TRUE
    /\ UNCHANGED <<env, parsed, status, ctx, redis, keys, admin, listener, errCh>>

\* The deferred rt.Close: nobody waits for the chats.
Close ==
    /\ phase = "close"
    /\ phase' = "exit"
    /\ redis' = "closed"
    /\ UNCHANGED <<env, parsed, status, ctx, keys>> /\ UNCHANGED serverVars

\* main returns, or log.Fatalf ends it.
Return ==
    /\ phase = "exit"
    /\ Exit(status)
    /\ UNCHANGED <<env, parsed, ctx, redis, keys>> /\ UNCHANGED serverVars

\* SIGINT or SIGTERM.
Signal ==
    /\ phase \notin {"load", "exited"} /\ ctx = "live"
    /\ ctx' = "done"
    /\ UNCHANGED <<env, parsed, phase, status, redis, keys>> /\ UNCHANGED serverVars

-----------------------------------------------------------------------------
(* Chats                                                                   *)

Step(q, from, to) ==
    /\ Alive
    /\ chat[q] = from
    /\ chat' = [chat EXCEPT ![q] = to]

\* A connection is accepted, and a chat arrives on it.
Accept(q, p, n) ==
    /\ listener = "accepting"
    /\ Step(q, "none", "connected")
    /\ pair' = [pair EXCEPT ![q] = <<p, n>>]
    /\ UNCHANGED app

\* Limiter.Allow admits the chat, for which it has to reach Redis.
Allow(q) ==
    /\ Step(q, "connected", "admitted")
    /\ ctx = "live" /\ redis = "open"
    /\ UNCHANGED <<pair, app>>

\* HandleChat answers before it calls Dify: a bad request, Limiter.Allow refuses it or
\* does not reach Redis, no conversation, no context, or a blocked query.
Refuse(q) ==
    /\ \/ Step(q, "connected", "ended")
       \/ Step(q, "admitted", "ended")
    /\ UNCHANGED <<pair, app>>

\* ChatStream of the router: it calls the client it finds, or fails at once.
ChatStream(q) ==
    LET key == clientForUser(keys, userID(pair[q][1], pair[q][2]))
    IN  /\ Step(q, "admitted", IF key = NoApp THEN "unrouted" ELSE "streaming")
        /\ app' = [app EXCEPT ![q] = key]
        /\ UNCHANGED pair

\* ChatStream has returned and HandleChat settles the chat, with success or not.
Settle(q) ==
    /\ \/ Step(q, "streaming", "ended")
       \/ Step(q, "unrouted", "ended")
    /\ UNCHANGED <<pair, app>>

Main ==
    \/ parseAppKeys \/ Load \/ BuildAuth \/ BuildFails \/ Build
    \/ SelectDone \/ SelectErr \/ Shutdown \/ Close \/ Return

Server == AdminStarts \/ AdminReturns \/ ListenerStarts \/ ListenFails \/ AcceptFails

Serve(q) ==
    \/ \E p \in Player, n \in Npc : Accept(q, p, n)
    \/ Allow(q) \/ Refuse(q) \/ ChatStream(q) \/ Settle(q)

Next ==
    \/ (Main \/ Server \/ Signal) /\ UNCHANGED chatVars
    \/ (\E q \in Chat : Serve(q)) /\ UNCHANGED mainVars /\ UNCHANGED serverVars

Spec == Init /\ [][Next]_vars

\* The main goroutine goes on.  Nothing is assumed of the servers and the chats.
FairSpec == Spec /\ WF_vars(Main /\ UNCHANGED chatVars)

-----------------------------------------------------------------------------
(* Properties                                                              *)

\* The last pair of DIFY_APP_KEYS that names npc n.
Configured(n) ==
    LET named == {i \in DOMAIN env : env[i] \notin {Blank, Malformed} /\ env[i].name = n}
    IN  IF named = {} THEN NoApp
        ELSE env[CHOOSE i \in named : \A j \in named : j <= i].key

\* From the environment variable to the request: a chat goes to Dify with the key
\* that DIFY_APP_KEYS gives last for its npc, and with that for "default" only when
\* it gives none, whatever the player id contains.  An npc id with a colon in it is
\* not found again by npcIDFromUser, and nothing is said of it.
RoutedByConfig ==
    \A q \in Chat :
        LET n == pair[q][2]
        IN  /\ chat[q] \in {"streaming", "unrouted"}
            /\ \A i \in DOMAIN n : n[i] # Colon
            => app[q] = IF Configured(n) # NoApp THEN Configured(n) ELSE Configured(Default)

\* Every way out of the process closes the Redis client Build opened.
RedisReleased == phase = "exited" => redis # "open"

\* The process ends with success only when it was told to stop: a server that
\* fails, a refused configuration or a failed Build is reported.
SuccessOnlyOnSignal == status = "ok" => ctx = "done"

\* The process never runs on with half of its servers: a signal, or the failure of
\* either server, ends it, even while chats go on.
FailsFast == ctx = "done" \/ admin = "done" \/ listener = "done" ~> phase = "exited"

=============================================================================
