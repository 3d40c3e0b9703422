# TLA+ specifications of the Dify game gateway

The gateway accepts game clients over TCP, authenticates them, and turns chat
requests into streaming calls of the Dify API, guarded by Redis-backed limits, a
circuit breaker, a conversation store with a distributed lock, and content
moderation. These modules specify the parts in which order, time, failure or
concurrency decides whether the code is right. Definitions keep the names of the
Go functions they stand for; `PROJECT.json` maps each to its source lines.

## 1. Inventory

| Part (source) | State | Operations | What is hard about it |
|---|---|---|---|
| circuit breaker (`limiter/circuit.go`) | state, window of results, openedAt, probe mark | `ready`, `allow`, `cancelProbe`, `record` | results arrive late, in any order, from calls of an earlier period; a probe may never report back |
| in-flight semaphore (`limiter/limiter.go`, two Lua scripts) | zset of leases in Redis | `acquireInflight`, `releaseInflight` | lost replies, scripts sent again, crashes, leases that expire under a holder, release of somebody else's lease |
| limiter | the two above | `Allow`, `Record`, `RecordFailure`, `Release` | an early exit must give back everything taken before it |
| rate window | zset of stamps | `allowRate` | stamps are taken before the script runs |
| token budget | a counter per player and day | `checkBudget`, `recordTokens` | checked before and charged after the call; midnight, clocks that differ, charges sent again |
| session store, conversation resolution (`store`, `pipeline`) | mapping and lock keys | `resolveConversation`, `SetConversation`, `HandleReset`, unlock | first requests race; the lock may expire while held |
| chat pipeline (`pipeline/handler.go`) | one request's progress | `HandleChat` | a stop, a deadline or a failure at any step |
| output moderation (`moderation`) | buffer, overlap, latch | `Push`, `Flush` | words split over deltas, segments and the size cap |
| Dify client (`dify`) | attempt, delay | `doRequestWithRetry`, `parseSSE` | retries next to partial output, cancellation while sleeping |
| app router, app keys (`gateway/dify_router.go`, `config`) | npc → app | `parseAppKeys`, `ChatStream` | ids are joined and split by colons; a missing key counts as a failure of Dify |
| connection (`listener`, `mux`, `session`) | registry, wait group, session, read loop | `ServeConn`, `Begin`, `done`, `Stop`, `CancelAll`, `Send` | goroutines, a peer that stops reading, rebinding |
| frame codec (`codec/frame.go`) | bytes on the wire | `WriteFrame`, `ReadFrame` | interleaved writers, a connection cut anywhere |
| process (`cmd/gateway`, `gateway/runtime.go`) | phase, Redis client, two servers, signal | `main`, `Load`, `Build`, `Run`, `Close` | a signal or the end of a server at any moment, while chats go on |
| context assembler, auth, telemetry | – | – | see section 7 |

How they interact: `ServeConn` reads frames and starts one goroutine per chat
(`Registry.Begin`). The goroutine runs `HandleChat`: `Allow` → `resolveConversation`
(possibly taking the lock) → context → input check → `ChatStream` through the
router and the retry loop, deltas through the `OutputFilter` to `ConnWriter.Send` →
one settling call to the limiter → `SetConversation` → terminal frame → unlock. A
`StopRequest` or the end of the connection cancels the request's context. All chats of
a process share one breaker, one router and one Redis client, which `Build` makes and
`Close` ends.

## 2. Plan

The parts were taken in this order: (1) what protects shared state across processes
(breaker, semaphore, limiter, quotas, conversation lock), (2) the request pipeline and
the upstream client, (3) the connection and its frames, (4) the process that wires
them, with the router. Where several modules speak of the same thing, one is shown to
implement the other (`Limiter` ⇒ `Inflight`, `Conversation` ⇒ `ConversationStore`)
or uses its operators (`Circuit` in `CircuitBreaker` and `Limiter`; `Leases` in
`Inflight` and `Limiter`; `Router` in `Gateway`).

What could follow: a clock per process in `Leases`, as `Quota` has; a composition of
several `ChatHandler` requests with the conversation lock, in place of the open answers
`ChatHandler` assumes of it.

## 3. Modules

| Module | Models |
|---|---|
| `Circuit` | the breaker as a record and its methods as operators; shared by the next module and `Limiter` |
| `CircuitBreaker` | calls that are admitted and resolved in any order, and time. `probes`, `stale` and `disturbed` are history: which admitted calls count as probes, which were admitted before the breaker opened, whether somebody else was resolved in this half-open period |
| `Leases` | the zset and the two scripts as operators; a lease is its remaining time |
| `Inflight` | requests of several processes on the lease set; `AcquireLost` is a lost reply, `Abandon` a crash or a failed release, `Rerun` the run of a release script that was sent again (`redis.Options.MaxRetries` is 3 unless set, and `runtime.go:44` does not set it). Nothing bounds how long a request holds its slot. `strays` is history: the leases dropped by `Rerun`, or by a request whose own had expired, each of which somebody else may need |
| `Limiter` | every step of `Allow` and of the three settling calls on breaker and leases; `RerunRelease` is `Rerun`, and `Restart` starts a new process on the old leases |
| `Quota` | the two quotas of a player in the order `Allow` meets them: `checkBudget`, `allowRate` with its script, `recordTokens`, each split where a key, a stamp or an expiry has been formed and not yet used. The clock of a request's process is `ahead` of the slowest. `RecordTokens` may run again, up to `MaxRetries` times, as its reply may be lost |
| `ConversationStore` | the abstract promise: an atomic get-or-create per pair |
| `Conversation` | one pair's mapping and lock, and requests that go through `resolveConversation`, the stream, persist and unlock. Dify's new conversation is named by the request that created it. `late` and `forgotten` are history: whether a request has outlived its time under the lock, and which conversations were reset while no chat was in them |
| `ChatHandler` | one `HandleChat` call with the SSE events; what other components answer is open. `settled` and `frames` record the calls made and frames sent |
| `OutputFilter`, `MCOutputFilter` | the filter over characters; the latter gives the banned words |
| `Access` | one connection: reader, request goroutines, registry, wait group, the peer's buffer. `done()` is `Delete` then `Done`, as in the code |
| `Frames` | `WriteFrame` and `ReadFrame` byte by byte with `ConnWriter`'s mutex, and a stream that breaks anywhere |
| `Router` | a pair of `parseAppKeys`, `userID`, `npcIDFromUser`, `clientForUser` over ids that are sequences of characters |
| `Gateway`, `MCGateway` | a process from `Load`, with the loop of `parseAppKeys` turn by turn, to exit: `Build` and its error paths, the goroutines and the select of `Run`, the signal, and chats reduced to what they share with these (router, Redis); whether `Allow` admits a chat and how it ends is open. `MCGateway` gives the ids |
| `DifyClient` | `doRequestWithRetry` and the end of the stream, for every base and cap of the backoff up to `MaxBase`, `MaxCap` |
| `*Proofs` | theorems, section 6 |

`OutputFilter`, `Access`, `Quota`, `DifyClient` and `Frames` call their specification
`FilterSpec`, `ConnSpec`, `QuotaSpec`, `ClientSpec` and `FramesSpec` (and so on for `Init`,
`Next` and `TypeOK`), so that a proof module can extend two specifications.

Time is a remaining time or an age, saturated where the code only compares it with
a limit, and `Tick` (`TimePasses` in `Quota`) lets one unit pass. An operator introduced
by *Seeded fault* is a faulty variant of the definition that follows it; no
specification uses it. It is there to see that each property is able to fail.

## 4. Runs

`tlc -config <cfg> <module>`; the file name up to `_` or `.cfg` is the module.
States are the distinct states of the complete graph.

| Configuration | States | Result |
|---|---|---|
| `CircuitBreaker` | 1008 | closed only on a healthy window; probe mark never stranded; one probe per undisturbed half-open period; never wedged |
| `Inflight` | 121353 | leases cover holders but for the strays; never overcommitted but for strays and holders that have outlived their lease; capacity returns after leaks |
| `Limiter` | 363306 | the composition implements `Inflight`, hence keeps its bound; a probe always has an owner |
| `Quota` | 2894532 | at most `Limit` in any window shortened by delay and skew; a day overspent at most by what is in flight; no counter forgotten before its day is over |
| `Conversation` | 296185 | until a request is late: creation serialised, implements `ConversationStore`; always: a reset is final, only the owner unlocks, waiters proceed |
| `ChatHandler` | 17110 | slot settled exactly once; terminal frame last; no second verdict but an error or a block after a block; a done means a kept conversation; returns when cancelled |
| `MCOutputFilter` | 64012 | nothing banned sent; nothing lost, repeated or reordered; bounded buffer |
| `Access` | 38976 | registry exact; no goroutine leak; connections reclaimed; stopped requests end |
| `Frames` | 15539 | payloads whole and in order; the ends of a stream told apart |
| `MCGateway` | 217366 | chats routed as configured; Redis closed on every way out; success only on a signal; a signal or a failed server ends the process |
| `DifyClient` | 11764 | retries bounded and safe; backoff exponential; calls end; a cancelled call ends even during an endless wait |
| `Conversation_Fork` | – | violated, as section 5 explains: once a request is late a conversation can fork |

### Bounds

- Breaker: three calls, a window of three, two samples. Three calls are enough for
  a probe, a straggler and one more; the window overflows.
- Leases: three requests and tokens on two slots, a lease of three units; a full set, a
  leaked slot, and holders that outlive their lease all occur. `MaxResent` bounds the
  release scripts on their way to Redis at a time, not their number in a run: copies come
  again and again. In `Limiter` two requests on one slot, and a lease of two units.
- Conversation: three requests (holder, waiter, late-comer), a conversation a client
  brings along, a TTL of two units. `MaxHold` is how long a request without a
  deadline may keep the lock before it counts as late; it may keep it for longer all
  the same.
- Quota: two requests at a time, again and again, on a limit of two and a window of
  four units, stamps up to one unit old and clocks up to one unit apart; a budget of one
  token, requests of one, scripts that run up to twice, and a day of three units of which
  the run sees almost two, so that midnight falls between any two steps and earlier for
  one process than for another.
- Handler: three message events, enough for a held-back delta, a sent one and a
  block, in any order.
- Filter: seven characters over four, deltas of up to three, a cap and an overlap of
  two, so each kind of cut occurs with a banned word across it, and deltas longer than
  the cap occur too. Banned words longer than the overlap and one character are the
  limit the code documents.
- Connection: two ids and two goroutines, a peer buffer of one frame.
- Frames: two writers, bytes of two values, a prefix of two bytes, a largest frame of
  two bytes and a writer that may send three; two frames.
- Process: every `DIFY_APP_KEYS` of up to two parts (blank, malformed, with an empty
  name or key, the same name twice, with and without a default), two chats, a player id
  that contains a colon.
- Client: the three attempts of the code, bases to 3 and caps to 5, `Retry-After` of
  0 or 4.

`CHECK_DEADLOCK FALSE` is set where requests, days, bytes or connections are used
up and the system may stop: `ChatHandler`, `OutputFilter`, `Access`, `Frames`,
`Gateway`, `DifyClient`, `Quota`. The other runs check for deadlock.

### Fairness

- `CircuitBreaker`: time passes. No call has to come back.
- `Inflight`: time passes. No holder has to come back.
- `Conversation`: time passes, `AcquireConversationLock` keeps polling every 20ms, and
  the replies to a request's SET NX are not lost for ever: when one is, and go-redis
  sends SET NX again, the request waits for a lock it has itself set. Nothing is assumed
  of the holder.
- `ChatHandler`: outside the stream the goroutine goes on, as its calls are bounded
  by the context or by `accountingTimeout`; a read from Dify returns once its
  context is done. Nothing is assumed of Dify. That `Send` returns is assumed here;
  `Access` shows when it does not.
- `Access`: goroutines go on; a writer that waits for the mutex gets it (Go's mutex
  is starvation free, hence strong fairness of `Send`); a peer that is not stalled
  reads; the read deadline passes on a quiet connection; `HandleChat` returns on a
  done context (`ReturnsOnCtxDone`).
- `Gateway`: the main goroutine goes on, `AdminServer.Shutdown` included, which has a
  timeout of five seconds. Nothing is assumed of the servers, the chats or the signal.
- `DifyClient`: the goroutine goes on, and `http.Client.Timeout`
  (`gateway/runtime.go:56`) ends a POST and a stream that Dify does not end. Nothing is
  assumed of the waits between attempts, which `Retry-After` may stretch at will:
  `CallEnds` says what follows if they end, `StopInterrupts` does not need it.

## 5. Where the code and its documents differ

Some promises of the repository hold only under a condition that the code does not
enforce. The runs and theorems state the condition; here is what happens without it.

**Forked conversations** (`Conversation_Fork`, the property `NoFork`). The lock lives 15
seconds unless the request's context has a deadline, and the listener's contexts have
none. It is meant to be held for the whole stream, so a stream of more than 15 seconds
loses it, and a second first request creates a second conversation, against
`store.go:2-4`, `handler.go:318-322` and PDR line 559. With a deadline,
`resolveConversation` stretches the TTL over it and creation stays serialised
(`CreatorsSerialised` and `ConversationImplementsStore` cover both cases, up to the
first request that is late).

The modules also define the following statements of the repository, which TLC
refutes when they are put in the place of the properties of the module's
configuration:

| Statement | Behaviour of the code |
|---|---|
| `CircuitBreaker!StragglersIgnored` (`circuit.go:165-167`: late results "are ignored") | a late failure of an earlier period reopens a half-open breaker |
| `CircuitBreaker!SingleProbe` (`circuit.go:116-118`: "Admit a single probe") | the release of a call admitted earlier clears the mark of the probe, and a second probe is admitted |
| `Inflight!StrictLimit` (README line 82, PDR line 321) | a request that outlives its lease (two minutes, against three attempts of `UPSTREAM_TIMEOUT_SEC` and an uncapped `Retry-After`) is no longer counted, and its release drops the lease of another; so does a release script that runs twice (`limiter.go:63-75`) |
| `ChatHandler!BlockedIsFinal` (`gateway.proto:52`) | after a block, a failing `Record` or `SetConversation`, or a `message_replace`, sends a second terminal frame |
| `ChatHandler!StopKeepsConversation` (`handler.go:369-371`) | a stop just after `message_end` makes `SetConversation` run on the cancelled context, and the conversation is lost |
| `ChatHandler!SuccessMeansUpstreamCall` (`limiter.go:223`) | a request ended by input moderation, the store or the context assembler records a success without an upstream call |
| `Access!QuietConnectionCloses` (`listener.go:26-28`) | writes have no deadline: a peer that stops reading keeps its connection beyond the idle timeout |
| `Access!ServedAsDispatched` with two players (`session.go:2-3`) | a chat dispatched for one player is served as another after a second `AuthRequest` |
| `Gateway!RoutedByConfig` with an npc id that contains a colon (`handler.go` and `config.go` accept one) | the part before the last colon is taken for the player, and the chat goes to the app of another npc or to the default |
| `DifyClient!LostConversationCleared` (PDR line 289) | a 404 leaves the mapping to the lost conversation |

PDR line 322 has the breaker count errors of Dify. An npc that has no key, in a gateway
without a default app, fails in the router (`dify_router.go:44`), and `handler.go:239`
records it as a failure like any other: enough of such chats open the breaker for every
player. No property says otherwise; `Gateway` has the path.

`RateRespected` speaks of windows shorter than the configured one by `MaxDelay` and
`MaxSkew`: a script whose stamp is that much older finds a set that younger scripts
have purged.

When the listener returns nil and the select of `Run` takes that rather than the done
context, `AdminServer.Shutdown` is not called. Nothing depends on it in the model: the
process ends with the same status.

## 6. Proofs

`tlapm <module>` checks each for every value of the constants that satisfies the
named assumptions of the modules (`CircuitConfig`, `LeaseConfig`, `QuotaConfig`,
`GatewayConfig` and so on), which TLC evaluates in every run. Four proof modules
extend two specifications each.

**`CircuitProofs`**: `ReadyIffAllows` (the early check and the real one agree) and one
lemma per method of the breaker, for the two modules that use it.

**`AdmissionProofs`** has what `Allow` decides by: the breaker and the quotas of a player.

`CircuitBreaker`: `TypeCorrect`, `ClosedIsAlwaysHealthy`, `ProbeNeverStranded`,
`SingleProbeWhileUndisturbed`. The four properties are inductive together with `Period`:
outside the half-open state there are no probes, and in an undisturbed period a cleared
mark means that the probe was resolved. Without the second part a second admission
could not be excluded.

`Quota`:

- `QuotaTypes` (`QuotaTypeOK`): the script purges before it counts and adds only below the
  limit, whatever the order of the stamps; a clock is never behind a key formed by it, and
  a counter is never without an expiry, since `durationUntilNextUTCDay` is positive
  (`CallsOK`).
- `RateHolds` (`RateRespected`). The property speaks of admitted requests and the
  script sees only the zset, so the invariant connects the two: an admitted member is
  in the zset or old enough by the youngest clock (`AdmittedKept`), the key outlives
  its members (`TTLCovers`), and a stamp in flight is within delay and skew of the
  clock (`StampsOK`). An admission then finds every admitted member of its window in
  the purged zset, and their number below the limit.
- `BudgetHolds` (`OvershootBounded`): inductive as it stands, because it counts the runs of
  `recordBudgetScript` that may still charge a day (`Chances`). A run that charges is one
  of them and is no longer one afterwards (`RunCharges`); a request becomes one again only
  by passing the check, when the counter is within the budget and the bound holds whatever
  is in flight (`WithinBudget`); every other step leaves the runs or takes some away
  (`FewerRuns`).
- `CounterLasts` (`CountedAllDay`): a call lasts to the end of the day of its key by the
  clock of its process, although the key and the expiry are two looks at that clock
  (`CallLasts`), and so a counter lasts to the end of its day by the fastest clock,
  whoever charged it last (`CounterKept`).

**`EdgeProofs`** has the two edges of the gateway: the client towards Dify and the frames
towards the player.

`DifyClient`: `RetriesAreSafe` (`RetriesSafe`) from one POST per attempt and none after
a delta (`Retrying`), and `BackoffIsExponential` (`BackoffExponential`):
`LoopIsExponential` shows that the loop of `retryBackoff`, which stops doubling at the
cap, computes the exponential cut at the cap.

`Frames`: `FramesStayIntact` (`FramesIntact`), `ReadVerdictExact` (`VerdictExact`) and
`FramesTyped`, for any number of goroutines and frames, every size of byte, prefix and
payload, and a break at any byte. Neither property says anything of the bytes in
flight, so neither is inductive. `FrameInv` adds that there are positions, one for each
frame sent, each a frame's size after the one before (`Positions`), such that

- the bytes ReadFrame has yet to take, on the wire and still with `Write`, are those of
  the frames at these positions (`Laid`);
- they end where the last frame ends, or, once the connection is broken, at the start
  of that frame or, if torn, within it (`Ends`);
- what ReadFrame has of the prefix or of the payload is the beginning of the prefix or
  the payload of the next frame (`Reading`), and `Write` is at work only for the holder
  of the mutex, on the last frame (`Writing`).

The next byte ReadFrame takes is then the next byte of its frame (`NextByte`), a
complete prefix decodes to the length that was encoded (`LengthDecoded`), and the end of
the stream is met within a frame exactly when the connection was torn.
`LengthDecoded`, `Uint(PutUint(n)) = n`, holds for every length up to `WriteLimit` because
shifting `WriteLimit` by the size of the prefix leaves nothing (`FrameConfig`): the most
significant quotient is zero, and each further digit of `Uint` restores the next one.

**`InflightProofs`**: `HoldersAreCovered` (`Covered`) and `NeverOvercommitted`
(`NoOvercommit`), for requests that hold their slots for any time and release scripts that
run again any number of times. Release removes the oldest lease, so no lease belongs to a
holder and the bound on holders is not inductive. `Covered` is the strengthening: for each
horizon k, at least as many leases last k more units as there are holders whose own lease
would, but for one per stray. A holder that releases within its lease removes one that
counts at no more horizons than its own (`OwnReleaseCovered`); any other run removes at
most one lease and is a stray (`StrayCovered`). When somebody begins to hold and no other
holder is within its lease, its own new lease covers it, and the strays are forgotten.

**`LimiterProofs`**: `ProbeNeverStranded` (`ProbeHasOwner`) from an invariant that ties
the mark to a request between `allow` and its settling call, using the lemmas of
`CircuitProofs`; `LimiterImplementsInflight`, one step of the limiter at a time; and
`LimiterNeverOvercommits` and `TypeCorrect`, which carry the theorems of
`InflightProofs` over that refinement instead of proving the bound again.

**`SessionProofs`** has what a player keeps open: the conversation and the connection.
`Conversation`: `TypeCorrect`, `TokenGuard` (`OnlyOwnerUnlocks`)
and `ResetIsFinal` (`ResetForgets`) assume nothing of time; `CreatorsSerialised`
(`OneCreator`) and `ConversationImplementsStore` (`ImplementsStore`) assume `ShortHold`:
without a deadline `MaxHold` is below the TTL. The invariant ties the remaining time
of the lock to the remaining time of its holder, so that a request that believes it
has the lock does, and says that while a creator is at work no created conversation is
stored, which is what the second lookup establishes. `ResetIsFinal` needs besides that
the request that created a forgotten conversation is beyond its persist.

`Access`: `RegistryIsExact` (`RegistryExact`) and
`ServeConnReturnsLast` (`NoGoroutineLeak`), for any number of ids and goroutines. An
entry leads to the goroutine at work for its id, and that goroutine has the id `done()`
deletes by: so the delete removes its own entry and no other, although ids are reused
before `wg.Done()`.

**`ReplyProofs`** follows a reply to the player.
`ChatHandler`: `TypeCorrect`, `SlotSettledOnce`, `AlwaysAnswered`,
`VerdictStands` (`OneVerdict`) and `DoneIsRemembered` (`DoneKeepsConversation`), for
streams of any length. The invariant says for each step how the slot is settled
(`Slot`), what has been sent (`Sent`: before the end only text, and a block last if the reply
was blocked) and what a done stands for
(`Done`). `LastFrame` is the common part of the ways out.

`OutputFilter`: `FilterConserves` (`Conserved`), `FilterLetsNothingThrough`
(`NothingBannedSent`) and `FilterBufferIsBounded` (`BufferBounded`), for every alphabet,
list of banned words, cap, overlap and text. The invariant `FilterInv` adds that the
overlap is the end of what was sent: so a banned word that would be completed by a
segment lies in overlap and segment together, where `Allowed` sees it, if it is no
longer than the overlap and one character. `Kept` adds what a cut leaves behind: no
terminator, and from the cap on no blank, without which the next delta could make the
remainder grow. The lemmas before it say what `lastRunes`, `splitKeepingLastToken` and
`Cut` return.

**`GatewayProofs`**: `RedisAlwaysReleased` (`RedisReleased`) and `ExitStatusHonest`
(`SuccessOnlyOnSignal`). The strengthening is the order of `Run`: `Shutdown` comes after
the select, and a nil in the channel means a signal or a `Shutdown` already made.
`RoutingHolds` (`RoutedByConfig`) rests on the loop invariant of `parseAppKeys` (`Loop`:
the key of a name is that of the last part so far that gives it) and on `NpcFound`: the
last colon of player, colon, npc is the one `userID` put there, if the npc id has none.

Induction over the naturals is by the least counterexample (`LeastNat`), and
`IterationExists` unfolds a recursive function.

Model-checked only is liveness (`NeverWedged`, `CapacityReturns`, `WaitersProceed`,
`ReturnsOnCtxDone`, `ConnectionReclaimed`, `StopEnds`, `FailsFast`, `CallEnds`,
`StopInterrupts`): fairness
and ENABLED are out of the prover's reach. Every invariant, action property and
refinement that a run checks has a theorem.

## 7. What is not modelled

- One clock is assumed for the leases and the locks of all processes; a skew of k
  shortens a lease by k. `Quota` has clocks that differ, each by a fixed amount; a clock
  that is set back or forward is not modelled. Of a `rateLimitScript` that runs twice
  `Quota` has the last run.
- `Access` takes a frame as one unit; `Frames` has its bytes. `Conversation` takes a
  pair whose keys are its own.
- JWT verification (`auth`): whether a token verifies is an open choice. Protobuf
  encoding is generated code.
- `context`: only the outcome of `Build`. Provider values reach nothing that is
  modelled.
- `config` besides `parseAppKeys`, and `parseRate`: parsers of single values, run once.
- `telemetry` and the health handlers: write-only counters and answers to HTTP probes.
- A chat of `Gateway` is short: its steps are those of `ChatHandler`, `Limiter` and
  `Conversation`, and one module with all of them is out of TLC's reach. What `Run`
  leaves behind in Redis when it returns before its chats is a crash between two steps
  there, and `Inflight`, `Limiter` and `Conversation` contain it.
- `dify/api.go` besides `Stop`, and blocking-mode `Chat`: the gateway does not call
  them.
- Letter case, multi-byte runes and error wording.
- A reset undone by the persist of a chat that was running is possible in
  `Conversation` and `ConversationStore`, as the code's comment says. A block in the
  output does not ask Dify to stop; no document says what should happen upstream.
