---------------------------- MODULE GatewayProofs ----------------------------
(***************************************************************************)
(* How the process ends and which app a chat is sent to, for every         *)
(* DIFY_APP_KEYS and any number of chats.                                  *)
(***************************************************************************)
EXTENDS Gateway, TLAPS, SequenceTheorems

Nils(e) == {i \in 1..Len(e) : e[i] = "nil"}

\* The Redis client is opened by Build and closed on every way out.
Redis ==
    /\ phase \in {"load", "auth"} => redis = "none"
    /\ phase \in {"exit", "exited"} => redis # "open"

\* The order of Run: Shutdown is called after the select, and a goroutine reports
\* no error only after it or after a signal.
Order ==
    /\ closing => phase \in {"close", "exit", "exited"}
    /\ errCh \in Seq({"nil", "error"})
    /\ Nils(errCh) # {} => ctx = "done" \/ closing

IInv == Redis /\ Order /\ SuccessOnlyOnSignal

\* The process as main starts it.
LEMMA InitIInv == Init => IInv
<1> SUFFICES ASSUME Init PROVE IInv
  OBVIOUS
<1>1. Redis
  BY DEF Init, Redis
<1>2. Order
  BY DEF Init, Order, Nils
<1>3. SuccessOnlyOnSignal
  BY DEF Init, SuccessOnlyOnSignal
<1> QED BY <1>1, <1>2, <1>3 DEF IInv

\* What a goroutine that returns adds to the channel.
LEMMA SendNils ==
    ASSUME NEW e \in Seq({"nil", "error"}), NEW v \in {"nil", "error"}
    PROVE  /\ Append(e, v) \in Seq({"nil", "error"})
           /\ Nils(Append(e, v)) # {} => Nils(e) # {} \/ v = "nil"
<1>1. /\ Append(e, v) \in Seq({"nil", "error"}) /\ Len(Append(e, v)) = Len(e) + 1
      /\ Len(e) \in Nat /\ Append(e, v)[Len(e) + 1] = v
      /\ \A i \in 1..Len(e) : Append(e, v)[i] = e[i]
  OBVIOUS
<1> QED BY <1>1 DEF Nils

\* What the select of Run takes out.
LEMMA ReceiveNils ==
    ASSUME NEW e \in Seq({"nil", "error"}), e # <<>>
    PROVE  /\ Tail(e) \in Seq({"nil", "error"})
           /\ Nils(Tail(e)) # {} => Nils(e) # {}
           /\ Head(e) = "nil" => Nils(e) # {}
<1>1. /\ Tail(e) \in Seq({"nil", "error"}) /\ Len(e) \in Nat \ {0} /\ Len(Tail(e)) = Len(e) - 1
      /\ \A i \in 1..Len(Tail(e)) : Tail(e)[i] = e[i + 1]
      /\ Head(e) = e[1]
  OBVIOUS
<1>2. Nils(Tail(e)) # {} => Nils(e) # {}
  <2> SUFFICES ASSUME NEW i \in Nils(Tail(e)) PROVE i + 1 \in Nils(e)
    OBVIOUS
  <2> QED BY <1>1 DEF Nils
<1>3. Head(e) = "nil" => 1 \in Nils(e)
  BY <1>1 DEF Nils
<1> QED BY <1>1, <1>2, <1>3

\* The main goroutine.
LEMMA MainIInv ==
    ASSUME IInv, Main
    PROVE  IInv'
<1> USE DEF Exit, serverVars
<1>1. CASE parseAppKeys \/ Load \/ BuildAuth \/ BuildFails \/ Build
  <2>1. /\ phase \in {"load", "auth", "build"} /\ UNCHANGED <<ctx, closing, errCh>>
        /\ status' # "ok" \/ status' = status
    BY <1>1 DEF parseAppKeys, Load, BuildAuth, BuildFails, Build
  <2>2. Redis'
    BY <1>1 DEF IInv, Redis, parseAppKeys, Load, BuildAuth, BuildFails, Build
  <2>3. Order'
    BY <2>1 DEF IInv, Order
  <2>4. SuccessOnlyOnSignal'
    BY <2>1 DEF IInv, SuccessOnlyOnSignal
  <2> QED BY <2>2, <2>3, <2>4 DEF IInv
<1>2. CASE SelectErr
  <2>1. /\ phase = "run" /\ phase' \in {"shutdown", "close"} /\ UNCHANGED <<ctx, closing, redis>>
        /\ errCh # <<>> /\ errCh' = Tail(errCh)
        /\ status' = "error" \/ (status' = "ok" /\ Head(errCh) = "nil")
    BY <1>2 DEF SelectErr
  <2>2. Redis'
    BY <2>1 DEF Redis
  <2>3. errCh \in Seq({"nil", "error"}) /\ ~closing
    BY <2>1 DEF IInv, Order
  <2>4. Order'
    BY <2>1, <2>3, ReceiveNils DEF IInv, Order
  <2>5. SuccessOnlyOnSignal'
    BY <2>1, <2>3, ReceiveNils DEF IInv, Order, SuccessOnlyOnSignal
  <2> QED BY <2>2, <2>4, <2>5 DEF IInv
<1>3. CASE SelectDone \/ Shutdown \/ Close \/ Return
  <2>1. UNCHANGED <<ctx, errCh>>
    BY <1>3 DEF SelectDone, Shutdown, Close, Return
  <2>2. Order'
    BY <1>3, <2>1 DEF IInv, Order, SelectDone, Shutdown, Close, Return
  <2>3. SuccessOnlyOnSignal'
    BY <1>3, <2>1 DEF IInv, SuccessOnlyOnSignal, SelectDone, Shutdown, Close, Return
  <2>4. Redis'
    BY <1>3 DEF IInv, Redis, SelectDone, Shutdown, Close, Return
  <2> QED BY <2>2, <2>3, <2>4 DEF IInv
<1> QED BY <1>1, <1>2, <1>3 DEF Main

\* The server goroutines, and the signal.
LEMMA ServerIInv ==
    ASSUME IInv, Server \/ Signal
    PROVE  IInv'
<1> USE DEF mainVars, serverVars
<1>1. errCh \in Seq({"nil", "error"}) /\ "nil" # "error"
  BY DEF IInv, Order
<1>2. CASE Signal
  <2>1. ctx' = "done" /\ UNCHANGED <<phase, status, redis, closing, errCh>>
    BY <1>2 DEF Signal
  <2>2. Redis' /\ Order'
    BY <2>1 DEF IInv, Redis, Order
  <2> QED BY <2>1, <2>2 DEF IInv, SuccessOnlyOnSignal
<1>3. CASE Server
  <2>1. UNCHANGED <<phase, status, ctx, redis, closing>>
    BY <1>3 DEF Server, AdminStarts, AdminReturns, ListenerStarts, ListenFails, AcceptFails
  <2>2. \/ UNCHANGED errCh
        \/ errCh' = Append(errCh, "error")
        \/ errCh' = Append(errCh, "nil") /\ (closing \/ ctx = "done")
    BY <1>3 DEF Server, AdminStarts, AdminReturns, ListenerStarts, ListenFails, AcceptFails
  <2>3. Redis' /\ SuccessOnlyOnSignal'
    BY <2>1 DEF IInv, Redis, SuccessOnlyOnSignal
  <2>4. Order'
    <3>1. errCh' \in Seq({"nil", "error"})
      BY <1>1, <2>2, SendNils
    <3>2. Nils(errCh') # {} => Nils(errCh) # {} \/ closing \/ ctx = "done"
      BY <1>1, <2>2, SendNils
    <3> QED BY <2>1, <3>1, <3>2 DEF IInv, Order
  <2> QED BY <2>3, <2>4 DEF IInv
<1> QED BY <1>2, <1>3

\* Every step preserves the invariant; the chats touch none of it.
LEMMA NextIInv == IInv /\ [Next]_vars => IInv'
<1> SUFFICES ASSUME IInv, [Next]_vars PROVE IInv'
  OBVIOUS
<1>1. CASE UNCHANGED <<phase, status, ctx, redis, closing, errCh>>
  BY <1>1 DEF IInv, Redis, Order, SuccessOnlyOnSignal
<1>2. CASE UNCHANGED mainVars /\ UNCHANGED serverVars
  BY <1>1, <1>2 DEF mainVars, serverVars
<1>3. CASE UNCHANGED vars
  BY <1>1, <1>3 DEF vars
<1> QED BY <1>2, <1>3, MainIInv, ServerIInv DEF Next

\* Load, Build, Run and Close leave no Redis client open on any way out.
THEOREM RedisAlwaysReleased == Spec => []RedisReleased
<1>1. IInv => RedisReleased
  BY DEF IInv, Redis, RedisReleased
<1> QED BY <1>1, InitIInv, NextIInv, PTL DEF Spec

\* Run returns nil only after a signal, whichever of its channels the select takes.
THEOREM ExitStatusHonest == Spec => []SuccessOnlyOnSignal
<1>1. IInv => SuccessOnlyOnSignal
  BY DEF IInv
<1> QED BY <1>1, InitIInv, NextIInv, PTL DEF Spec

-----------------------------------------------------------------------------
(* From DIFY_APP_KEYS to the app of a chat                                 *)

\* Part i of DIFY_APP_KEYS gives a key for npc n.
Names(i, n) == env[i] \notin {Blank, Malformed} /\ env[i].name = n

\* The loop invariant of parseAppKeys: the map holds the last key the parts so far
\* give for a name.
Loop ==
    /\ env \in Seq(Part)
    /\ parsed \in 0..Len(env)
    /\ \A i \in 1..parsed : \A n : Names(i, n) => n \in DOMAIN keys
    /\ \A n \in DOMAIN keys : \E i \in 1..parsed :
          /\ Names(i, n) /\ keys[n] = env[i].key
          /\ \A j \in 1..parsed : Names(j, n) => j <= i

\* Nobody chats before the loop has ended.
Loaded ==
    /\ DOMAIN chat = Chat /\ DOMAIN pair = Chat /\ DOMAIN app = Chat
    /\ phase \notin {"load", "exited"} => parsed = Len(env)
    /\ \A q \in Chat : chat[q] # "none" => parsed = Len(env) /\ pair[q] \in Player \X Npc

RouteInv == Loop /\ Loaded /\ RoutedByConfig

\* npcIDFromUser undoes userID when the npc id has no colon: the last colon is the
\* one userID put there.
LEMMA NpcFound ==
    ASSUME NEW Rune, Colon \in Rune, NEW p \in Seq(Rune), NEW n \in Seq(Rune),
           \A i \in DOMAIN n : n[i] # Colon
    PROVE  npcIDFromUser(userID(p, n)) = n
<1> DEFINE user == userID(p, n)
           at == Len(p) + 1
           colons == {i \in DOMAIN user : user[i] = Colon}
<1>1. /\ user \in Seq(Rune) /\ Len(user) = at + Len(n) /\ Len(p) \in Nat /\ Len(n) \in Nat
      /\ user[at] = Colon
      /\ \A i \in 1..Len(n) : user[at + i] = n[i]
  <2>1. /\ p \o <<Colon>> \in Seq(Rune) /\ Len(p \o <<Colon>>) = at
        /\ (p \o <<Colon>>)[at] = Colon
    OBVIOUS
  <2> QED BY <2>1 DEF userID
<1> HIDE DEF user
<1>2. at \in colons /\ DOMAIN user = 1..Len(user)
  BY <1>1
<1>3. \A j \in colons : j <= at
  <2> SUFFICES ASSUME NEW j \in colons, j > at PROVE FALSE
    BY <1>1, <1>2
  <2>1. j - at \in 1..Len(n) /\ j = at + (j - at)
    BY <1>1, <1>2
  <2> QED BY <1>1, <2>1
<1>4. (CHOOSE i \in colons : \A j \in colons : j <= i) = at
  <2>1. ASSUME NEW i \in colons, \A j \in colons : j <= i PROVE i = at
    <3>1. i \in Int /\ at \in Int /\ i <= at /\ at <= i
      BY <1>1, <1>2, <1>3, <2>1
    <3> QED BY <3>1
  <2> QED BY <1>2, <1>3, <2>1
<1>5. SubSeq(user, at + 1, Len(user)) = n
  <2>1. /\ SubSeq(user, at + 1, Len(user)) \in Seq(Rune)
        /\ Len(SubSeq(user, at + 1, Len(user))) = Len(n)
        /\ \A i \in 1..Len(n) : SubSeq(user, at + 1, Len(user))[i] = user[at + i]
    BY <1>1
  <2> QED BY <1>1, <2>1, SeqEqual
<1>6. npcIDFromUser(user) = IF colons = {} THEN <<>>
                            ELSE SubSeq(user, (CHOOSE i \in colons : \A j \in colons : j <= i) + 1, Len(user))
  BY DEF npcIDFromUser
<1> QED BY <1>2, <1>4, <1>5, <1>6 DEF user

\* Once the loop has ended, the map holds what is configured.
LEMMA KeysConfigured ==
    ASSUME Loop, parsed = Len(env), NEW n
    PROVE  /\ n \in DOMAIN keys => keys[n] = Configured(n) /\ keys[n] # NoApp
           /\ n \notin DOMAIN keys => Configured(n) = NoApp
<1> DEFINE named == {i \in DOMAIN env : env[i] \notin {Blank, Malformed} /\ env[i].name = n}
           last == CHOOSE i \in named : \A j \in named : j <= i
<1>1. /\ DOMAIN env = 1..parsed /\ Len(env) \in Nat /\ \A i \in 1..parsed : env[i] \in Part
      /\ \A i : i \in named <=> i \in 1..parsed /\ Names(i, n)
  BY DEF Loop, Names
<1>2. Configured(n) = IF named = {} THEN NoApp ELSE env[last].key
  BY DEF Configured
<1> HIDE DEF named
<1>3. CASE n \notin DOMAIN keys
  <2>1. named = {}
    BY <1>1, <1>3 DEF Loop
  <2> QED BY <1>2, <1>3, <2>1
<1>4. CASE n \in DOMAIN keys
  <2>1. PICK i \in 1..parsed : /\ Names(i, n) /\ keys[n] = env[i].key
                              /\ \A j \in 1..parsed : Names(j, n) => j <= i
    BY <1>4 DEF Loop
  <2>2. i \in named /\ \A j \in named : j <= i
    BY <1>1, <2>1
  <2>3. last = i
    <3>1. \A k \in named : (\A j \in named : j <= k) => k = i
      <4> SUFFICES ASSUME NEW k \in named, \A j \in named : j <= k PROVE k = i
        OBVIOUS
      <4>1. k \in Int /\ i \in Int /\ k <= i /\ i <= k
        BY <1>1, <2>1, <2>2
      <4> QED BY <4>1
    <3> QED BY <2>2, <3>1
  <2>4. env[i].key # NoApp
    BY <1>1, <2>1, GatewayConfig DEF Names
  <2> QED BY <1>2, <1>4, <2>1, <2>2, <2>3, <2>4
<1> QED BY <1>3, <1>4

\* The key ChatStream calls Dify with.
LEMMA ClientConfigured ==
    ASSUME Loop, parsed = Len(env), NEW p \in Player, NEW n \in Npc
    PROVE  LET key == clientForUser(keys, userID(p, n))
           IN  (\A i \in DOMAIN n : n[i] # Colon) =>
                    key = IF Configured(n) # NoApp THEN Configured(n) ELSE Configured(Default)
<1> DEFINE npc == npcIDFromUser(userID(p, n))
           key == clientForUser(keys, userID(p, n))
<1>1. key = IF npc \in DOMAIN keys THEN keys[npc]
            ELSE IF Default \in DOMAIN keys THEN keys[Default] ELSE NoApp
  BY DEF clientForUser
<1>2. (\A i \in DOMAIN n : n[i] # Colon) => npc = n
  <2> DEFINE Rune == STRING \cup {Colon}
  <2>1. p \in Seq(STRING) /\ n \in Seq(STRING)
    BY GatewayConfig
  <2> HIDE DEF Rune
  <2>2. STRING \subseteq Rune /\ Colon \in Rune
    BY DEF Rune
  <2>3. p \in Seq(Rune) /\ n \in Seq(Rune)
    BY <2>1, <2>2, SeqMonotonic
  <2> QED BY <2>2, <2>3, NpcFound
<1> HIDE DEF npc, key
<1>3. ASSUME npc = n
      PROVE  key = IF Configured(n) # NoApp THEN Configured(n) ELSE Configured(Default)
  BY <1>1, <1>3, KeysConfigured
<1> QED BY <1>2, <1>3 DEF key

\* A new process.
LEMMA InitRouteInv == Init => RouteInv
<1> SUFFICES ASSUME Init PROVE RouteInv
  OBVIOUS
<1>1. env \in Seq(Part)
  <2>1. PICK n \in 0..MaxParts : env \in [1..n -> Part]
    BY DEF Init
  <2> QED BY <2>1, GatewayConfig, SeqDef
<1>2. parsed = 0 /\ DOMAIN keys = {} /\ \A q \in Chat : chat[q] = "none"
  BY DEF Init
<1>3. Loop
  BY <1>1, <1>2 DEF Loop
<1>4. Loaded /\ RoutedByConfig
  BY <1>2 DEF Init, Loaded, RoutedByConfig
<1> QED BY <1>3, <1>4 DEF RouteInv

\* A turn of the loop of parseAppKeys keeps its invariant: setKey overwrites what an
\* earlier part gave for the same name.
LEMMA TurnKeepsLoop ==
    ASSUME Loop, parseAppKeys
    PROVE  Loop'
<1> DEFINE part == env[parsed + 1]
<1>1. env' = env /\ parsed < Len(env)
  BY DEF parseAppKeys
<1>2. /\ Len(env) \in Nat /\ parsed \in Nat /\ parsed + 1 \in 1..Len(env)
      /\ 1..(parsed + 1) = 1..parsed \cup {parsed + 1}
  BY <1>1 DEF Loop
<1>3. \A i, n : Names(i, n)' <=> Names(i, n)
  BY <1>1 DEF Names
<1>4. CASE part = Blank /\ parsed' = parsed + 1 /\ UNCHANGED keys
  <2>1. \A n : ~Names(parsed + 1, n)
    BY <1>4 DEF Names
  <2> QED BY <1>1, <1>2, <1>3, <1>4, <2>1 DEF Loop
<1>5. CASE validPair(part) /\ parsed' = parsed + 1 /\ keys' = setKey(keys, part)
  <2>1. /\ \A n : Names(parsed + 1, n) <=> n = part.name
        /\ DOMAIN keys' = DOMAIN keys \cup {part.name}
        /\ \A n \in DOMAIN keys' : keys'[n] = IF n = part.name THEN part.key ELSE keys[n]
    BY <1>5 DEF Names, validPair, setKey
  <2> HIDE DEF part
  <2>2. \A i \in 1..parsed' : \A n : Names(i, n) => n \in DOMAIN keys'
    BY <1>2, <1>5, <2>1 DEF Loop
  <2>3. ASSUME NEW n \in DOMAIN keys'
        PROVE  \E i \in 1..parsed' : /\ Names(i, n) /\ keys'[n] = env[i].key
                                     /\ \A j \in 1..parsed' : Names(j, n) => j <= i
    <3>1. CASE n = part.name
      <4>1. Names(parsed + 1, n) /\ keys'[n] = env[parsed + 1].key
        BY <2>1, <2>3, <3>1 DEF part
      <4>2. \A j \in 1..parsed' : j <= parsed + 1
        BY <1>2, <1>5
      <4> QED BY <1>2, <1>5, <4>1, <4>2
    <3>2. CASE n # part.name
      <4>1. n \in DOMAIN keys /\ keys'[n] = keys[n] /\ ~Names(parsed + 1, n)
        BY <2>1, <2>3, <3>2
      <4>2. PICK i \in 1..parsed : /\ Names(i, n) /\ keys[n] = env[i].key
                                  /\ \A j \in 1..parsed : Names(j, n) => j <= i
        BY <4>1 DEF Loop
      <4> QED BY <1>2, <1>5, <4>1, <4>2
    <3> QED BY <3>1, <3>2
  <2>4. parsed' \in 0..Len(env)
    BY <1>2, <1>5
  <2> QED BY <1>1, <1>3, <2>2, <2>3, <2>4 DEF Loop
<1>6. CASE UNCHANGED <<parsed, keys>>
  BY <1>1, <1>3, <1>6 DEF Loop
<1> QED BY <1>4, <1>5, <1>6 DEF parseAppKeys

\* The main goroutine, the servers and the signal.
LEMMA MainRouteInv ==
    ASSUME RouteInv, Main \/ Server \/ Signal, UNCHANGED chatVars
    PROVE  RouteInv'
<1> USE DEF Exit, mainVars, serverVars, chatVars
<1>1. env' = env /\ UNCHANGED <<chat, pair, app>>
  BY DEF Main, parseAppKeys, Load, BuildAuth, BuildFails, Build, SelectDone, SelectErr,
         Shutdown, Close, Return, Server, AdminStarts, AdminReturns, ListenerStarts,
         ListenFails, AcceptFails, Signal
<1>2. \A n : Configured(n)' = Configured(n)
  BY <1>1 DEF Configured
<1>3. RoutedByConfig'
  BY <1>1, <1>2 DEF RouteInv, RoutedByConfig
<1>4. CASE parseAppKeys
  <2>1. phase = "load" /\ parsed < Len(env) /\ phase' \in {"load", "exited"}
    BY <1>4 DEF parseAppKeys
  <2>2. parsed # Len(env)
    BY <2>1 DEF RouteInv, Loop
  <2>3. Loaded'
    BY <1>1, <2>1, <2>2 DEF RouteInv, Loaded
  <2> QED BY <1>3, <1>4, <2>3, TurnKeepsLoop DEF RouteInv
<1>5. CASE ~parseAppKeys
  <2>1. /\ UNCHANGED <<parsed, keys>>
        /\ phase' \notin {"load", "exited"} => phase \notin {"load", "exited"} \/ parsed = Len(env)
    BY <1>5 DEF Main, Load, BuildAuth, BuildFails, Build, SelectDone, SelectErr,
                Shutdown, Close, Return, Server, AdminStarts, AdminReturns,
                ListenerStarts, ListenFails, AcceptFails, Signal
  <2>2. Loop'
    BY <1>1, <2>1 DEF RouteInv, Loop, Names
  <2>3. Loaded'
    BY <1>1, <2>1 DEF RouteInv, Loaded
  <2> QED BY <1>3, <2>2, <2>3 DEF RouteInv
<1> QED BY <1>4, <1>5

\* A chat changes its own state.
LEMMA ServeRouteInv ==
    ASSUME RouteInv, NEW q \in Chat, Serve(q), UNCHANGED mainVars
    PROVE  RouteInv'
<1> USE DEF mainVars, Step
<1>1. /\ UNCHANGED <<env, parsed, phase, keys>> /\ Alive
      /\ DOMAIN chat' = Chat /\ DOMAIN pair' = Chat /\ DOMAIN app' = Chat
      /\ \A r \in Chat \ {q} : chat'[r] = chat[r] /\ pair'[r] = pair[r] /\ app'[r] = app[r]
  BY DEF Serve, Accept, Allow, Refuse, ChatStream, Settle, RouteInv, Loaded
<1>2. parsed = Len(env)
  BY <1>1 DEF RouteInv, Loaded, Alive
<1>3. \A n : Configured(n)' = Configured(n)
  BY <1>1 DEF Configured
<1>4. Loop'
  BY <1>1 DEF RouteInv, Loop, Names
<1>5. pair'[q] \in Player \X Npc
  <2>1. CASE \E p \in Player, n \in Npc : Accept(q, p, n)
    BY <2>1 DEF Accept, RouteInv, Loaded
  <2>2. CASE ~\E p \in Player, n \in Npc : Accept(q, p, n)
    <3>1. chat[q] # "none" /\ pair' = pair
      BY <2>2 DEF Serve, Allow, Refuse, ChatStream, Settle
    <3> QED BY <3>1 DEF RouteInv, Loaded
  <2> QED BY <2>1, <2>2
<1>6. Loaded'
  BY <1>1, <1>2, <1>5 DEF RouteInv, Loaded
<1>7. CASE ChatStream(q)
  <2> DEFINE key == clientForUser(keys, userID(pair[q][1], pair[q][2]))
  <2>1. /\ pair' = pair /\ app'[q] = key
        /\ chat'[q] = IF key = NoApp THEN "unrouted" ELSE "streaming"
    BY <1>7 DEF ChatStream, RouteInv, Loaded
  <2>2. pair[q][1] \in Player /\ pair[q][2] \in Npc
    BY <1>5, <2>1
  <2>3. (\A i \in DOMAIN pair[q][2] : pair[q][2][i] # Colon) =>
              key = IF Configured(pair[q][2]) # NoApp THEN Configured(pair[q][2])
                    ELSE Configured(Default)
    BY <1>2, <2>2, ClientConfigured DEF RouteInv
  <2> HIDE DEF key
  <2>4. RoutedByConfig'
    BY <1>1, <1>3, <2>1, <2>3 DEF RouteInv, RoutedByConfig
  <2> QED BY <1>4, <1>6, <2>4 DEF RouteInv
<1>8. CASE ~ChatStream(q)
  <2>1. chat'[q] \notin {"streaming", "unrouted"}
    BY <1>8 DEF Serve, Accept, Allow, Refuse, Settle, RouteInv, Loaded
  <2>2. RoutedByConfig'
    BY <1>1, <1>3, <2>1 DEF RouteInv, RoutedByConfig
  <2> QED BY <1>4, <1>6, <2>2 DEF RouteInv
<1> QED BY <1>7, <1>8

\* Every step preserves the invariant.
LEMMA NextRouteInv == RouteInv /\ [Next]_vars => RouteInv'
<1> SUFFICES ASSUME RouteInv, [Next]_vars PROVE RouteInv'
  OBVIOUS
<1>1. CASE UNCHANGED vars
  <2>1. UNCHANGED <<env, parsed, phase, keys, chat, pair, app>>
    BY <1>1 DEF vars
  <2>2. \A n : Configured(n)' = Configured(n)
    BY <2>1 DEF Configured
  <2>3. Loop' /\ Loaded'
    BY <2>1 DEF RouteInv, Loop, Loaded, Names
  <2>4. RoutedByConfig'
    BY <2>1, <2>2 DEF RouteInv, RoutedByConfig
  <2> QED BY <2>3, <2>4 DEF RouteInv
<1> QED BY <1>1, MainRouteInv, ServeRouteInv DEF Next

\* From the environment variable to the request, for every DIFY_APP_KEYS and every
\* player id: parseAppKeys, userID, npcIDFromUser and clientForUser send a chat to
\* the app that is configured last for its npc, or to that of "default".
THEOREM RoutingHolds == Spec => []RoutedByConfig
<1>1. RouteInv => RoutedByConfig
  BY DEF RouteInv
<1> QED BY <1>1, InitRouteInv, NextRouteInv, PTL DEF Spec

=============================================================================
