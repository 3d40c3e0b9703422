-------------------------------- MODULE Quota --------------------------------
(***************************************************************************)
(* The two quotas of a player in internal/limiter/limiter.go, as a request *)
(* meets them: checkBudget reads the token counter of the day, allowRate   *)
(* takes the time and has rateLimitScript work with it a little later, and *)
(* recordTokens charges the day on which the request ends.  Requests of    *)
(* any number of processes overtake each other in between, their clocks    *)
(* are apart, and midnight (UTC) may fall anywhere.                        *)
(*                                                                         *)
(* recordBudgetScript is not idempotent and go-redis sends it again when   *)
(* its reply does not come.  A request is in flight for as long as Redis   *)
(* may run one more copy, even when recordTokens has returned.             *)
(*                                                                         *)
(* Members of the window are told apart by instance and serial number in   *)
(* the code.  Here a member is its stamp with the least number not in use. *)
(***************************************************************************)
EXTENDS Naturals, FiniteSets

CONSTANTS
    Req,          \* requests of the player in flight at a time
    Limit,        \* rateLimit.limit
    RateWindow,   \* rateLimit.window, in ticks
    MaxDelay,     \* the longest from l.now() to the run of the script
    MaxSkew,      \* how far the clocks of the processes may be apart
    TokenBudget,  \* Config.TokenBudgetDaily
    MaxTokens,    \* bound: the most tokens one request uses
    MaxRetries,   \* redis.Options.MaxRetries
    DayLength,    \* ticks from midnight to midnight
    MaxTime       \* bound: how far the clock goes

ASSUME QuotaConfig ==
    /\ IsFiniteSet(Req)
    /\ {Limit, RateWindow, TokenBudget, DayLength} \subseteq Nat \ {0}
    /\ {MaxDelay, MaxSkew, MaxTokens, MaxRetries, MaxTime} \subseteq Nat

VARIABLES
    now,        \* the clock that is furthest behind
    ahead,      \* how far that of a request's process is ahead of it
    pc,         \* where a request is
    mark,       \* what its process last took from its clock for a stamp or a key
    call,       \* its call of recordBudgetScript: arguments, and runs so far
    zset,       \* the members of rate:{player}
    ttl,        \* PTTL of that key
    passed,     \* the members of the requests allowRate let through
    spent,      \* budget:{player}:{day} for each day, 0 when absent
    left        \* PTTL of these keys

rateVars == <<zset, ttl, passed>>
budgetVars == <<spent, left>>
quotaVars == <<now, ahead, pc, mark, call, rateVars, budgetVars>>

Stamps == 0..(MaxTime + MaxSkew)
DayOf(t) == t \div DayLength
Days == 0..DayOf(MaxTime + MaxSkew)

\* l.now()
clock(r) == now + ahead[r]

Members == Stamps \X Nat

\* How often Redis may run a script that was called once.
MaxRuns == 1 + MaxRetries

Calls == [ttl : 0..DayLength, tokens : 0..MaxTokens, runs : 0..MaxRetries]
NoCall == [ttl |-> 0, tokens |-> 0, runs |-> 0]

\* The window never holds more than Limit members (rateLimitScript), nobody uses a
\* key of a day its clock has not reached, and a budget key has a TTL as long as it
\* exists (recordBudgetScript).
QuotaTypeOK ==
    /\ now \in 0..MaxTime
    /\ ahead \in [Req -> 0..MaxSkew]
    /\ pc \in [Req -> {"idle", "look", "checked", "sent", "running", "keyed", "record"}]
    /\ mark \in [Req -> Stamps]
    /\ \A r \in Req : mark[r] <= clock(r)
    /\ call \in [Req -> Calls]
    /\ zset \subseteq Members /\ passed \subseteq Members
    /\ Cardinality(zset) <= Limit
    /\ ttl \in 0..RateWindow
    /\ spent \in [Days -> Nat]
    /\ left \in [Days -> 0..DayLength]
    /\ \A d \in Days : left[d] = 0 => spent[d] = 0

QuotaInit ==
    /\ now = 0
    /\ ahead \in [Req -> 0..MaxSkew]
    /\ pc = [r \in Req |-> "idle"]
    /\ mark = [r \in Req |-> 0]
    /\ call = [r \in Req |-> NoCall]
    /\ zset = {} /\ ttl = 0 /\ passed = {}
    /\ spent = [d \in Days |-> 0]
    /\ left = [d \in Days |-> 0]

\* A request goes on, with m as what it remembers of its clock.
Goto(r, from, to, m) ==
    /\ pc[r] = from
    /\ pc' = [pc EXCEPT ![r] = to]
    /\ mark' = [mark EXCEPT ![r] = m]
    /\ UNCHANGED <<now, ahead>>

-----------------------------------------------------------------------------
(* checkBudget                                                             *)

\* budgetKey of the current day ...
FormCheckKey(r) ==
    /\ Goto(r, "idle", "look", clock(r))
    /\ UNCHANGED <<call, rateVars, budgetVars>>

\* Seeded fault: the date of the key is taken once, when the process starts.
OverBudgetFirstDay(d) == spent[0] > TokenBudget

\* HandleChat passes estTokens = 0.
OverBudget(d) == spent[d] > TokenBudget

\* ... whose counter is within the budget, or gone.
CheckBudget(r) ==
    /\ ~OverBudget(DayOf(mark[r]))
    /\ Goto(r, "look", "checked", 0)
    /\ UNCHANGED <<call, rateVars, budgetVars>>

\* ErrBudgetExceeded, or the read fails.
BudgetRefused(r) ==
    /\ Goto(r, "look", "idle", 0)
    /\ UNCHANGED <<call, rateVars, budgetVars>>

-----------------------------------------------------------------------------
(* allowRate                                                               *)

\* nowMs := l.now().UnixMilli()
Stamp(r) ==
    /\ Goto(r, "checked", "sent", clock(r))
    /\ UNCHANGED <<call, rateVars, budgetVars>>

\* Seeded fault: the purge takes a tick too much.
PurgedEarly(t) == {m \in zset : m[1] + RateWindow > t + 1}

\* ZREMRANGEBYSCORE key 0 t-window
Purged(t) == {m \in zset : m[1] + RateWindow > t}

\* Seeded fault: an off-by-one lets one more in.
FullAfter(t) == Cardinality(Purged(t)) > Limit

\* ZCARD >= limit
Full(t) == Cardinality(Purged(t)) >= Limit

\* instance:stamp:serial, not given twice
member(t) ==
    <<t, CHOOSE i \in 0..Cardinality(zset \cup passed) :
            <<t, i>> \notin zset \cup passed>>

\* The script adds the member.  When its reply is lost the request is refused
\* and the member stays.  A copy sent again adds no second member: it finds its own.
AdmitRate(r) ==
    /\ ~Full(mark[r])
    /\ zset' = Purged(mark[r]) \cup {member(mark[r])}
    /\ ttl' = RateWindow
    /\ \/ /\ Goto(r, "sent", "running", 0)
          /\ passed' = passed \cup {member(mark[r])}
       \/ /\ Goto(r, "sent", "idle", 0)
          /\ UNCHANGED passed
    /\ UNCHANGED <<call, budgetVars>>

\* ErrRateLimited: the script has still purged.
Refuse(r) ==
    /\ Full(mark[r])
    /\ Goto(r, "sent", "idle", 0)
    /\ zset' = Purged(mark[r])
    /\ UNCHANGED <<call, ttl, passed, budgetVars>>

-----------------------------------------------------------------------------
(* recordTokens                                                            *)

\* The request ends without charging: it failed or was stopped, it used no
\* tokens, or no copy of the script will run any more.
Forget(r) ==
    /\ \E from \in {"running", "keyed", "record"} : Goto(r, from, "idle", 0)
    /\ call' = [call EXCEPT ![r] = NoCall]
    /\ UNCHANGED <<rateVars, budgetVars>>

\* budgetKey of the current day, ...
FormKey(r) ==
    /\ Goto(r, "running", "keyed", clock(r))
    /\ UNCHANGED <<call, rateVars, budgetVars>>

\* Seeded fault: the time since midnight.
durationSinceUTCDay(t) == IF (t % DayLength) = 0 THEN 1 ELSE t % DayLength

durationUntilNextUTCDay(t) == DayLength - (t % DayLength)

\* ... how long it shall live, by another look at the clock, and the call ...
FormTTL(r) ==
    /\ Goto(r, "keyed", "record", mark[r])
    /\ \E n \in 1..MaxTokens :
         call' = [call EXCEPT ![r] = [ttl |-> durationUntilNextUTCDay(clock(r)),
                                      tokens |-> n, runs |-> 0]]
    /\ UNCHANGED <<rateVars, budgetVars>>

\* ... of recordBudgetScript.  If its reply is lost it may be sent again.
RecordTokens(r) ==
    /\ spent' = [spent EXCEPT ![DayOf(mark[r])] = @ + call[r].tokens]
    /\ left' = [left EXCEPT ![DayOf(mark[r])] = call[r].ttl]
    /\ \/ /\ Goto(r, "record", "idle", 0)
          /\ call' = [call EXCEPT ![r] = NoCall]
       \/ /\ call[r].runs < MaxRetries
          /\ Goto(r, "record", "record", mark[r])
          /\ call' = [call EXCEPT ![r].runs = @ + 1]
    /\ UNCHANGED rateVars

-----------------------------------------------------------------------------

\* Redis drops a key when its PEXPIRE has run out.
TimePasses ==
    /\ now < MaxTime
    /\ \A r \in Req : pc[r] = "sent" => now < mark[r] + MaxDelay
    /\ now' = now + 1
    /\ ttl' = IF ttl > 0 THEN ttl - 1 ELSE 0
    /\ zset' = IF ttl > 1 THEN zset ELSE {}
    /\ left' = [d \in Days |-> IF left[d] > 0 THEN left[d] - 1 ELSE 0]
    /\ spent' = [d \in Days |-> IF left[d] > 1 THEN spent[d] ELSE 0]
    /\ UNCHANGED <<ahead, pc, mark, call, passed>>

QuotaNext ==
    \/ \E r \in Req : FormCheckKey(r) \/ CheckBudget(r) \/ BudgetRefused(r)
    \/ \E r \in Req : Stamp(r) \/ AdmitRate(r) \/ Refuse(r)
    \/ \E r \in Req : Forget(r) \/ FormKey(r) \/ FormTTL(r) \/ RecordTokens(r)
    \/ TimePasses

QuotaSpec == QuotaInit /\ [][QuotaNext]_quotaVars

-----------------------------------------------------------------------------
(* Properties                                                              *)

\* The stamps of the window that ends with t, less MaxDelay + MaxSkew.
InWindow(t) == {s \in Stamps : s <= t /\ t + MaxDelay + MaxSkew < s + RateWindow}

\* At most Limit requests are admitted in any window, wherever it starts and in
\* whatever order the scripts run.  A script that runs MaxDelay late, after one
\* whose stamp was MaxSkew ahead, works on a set the latter has purged already,
\* so the window the code guarantees is shorter by both.
RateRespected ==
    \A t \in Stamps : Cardinality({m \in passed : m[1] \in InWindow(t)}) <= Limit

\* The i-th run of recordBudgetScript for r may still charge day d before r reads
\* the counter of that day: any run, while the clock of its process has not reached
\* d; on that day one of a request past the check, or still at the check of an
\* earlier day; and what is left of a call that has the key of d.
MayCharge(r, i, d) ==
    \/ DayOf(clock(r)) < d
    \/ DayOf(clock(r)) = d /\ pc[r] \in {"checked", "sent", "running"}
    \/ DayOf(clock(r)) = d /\ pc[r] = "look" /\ DayOf(mark[r]) < d
    \/ pc[r] \in {"keyed", "record"} /\ DayOf(mark[r]) = d /\ i > call[r].runs

Chances(d) == {c \in Req \X (1..MaxRuns) : MayCharge(c[1], c[2], d)}

\* The budget is checked before and charged after a request, so concurrent
\* requests overshoot it, but only by what those in flight together can use, over
\* midnight, with clocks apart and with scripts sent again as well: a day's counter
\* stays within the budget plus MaxTokens for each run that can be in flight, less
\* those that still are.
OvershootBounded ==
    \A d \in Days :
        spent[d] + MaxTokens * Cardinality(Chances(d))
          <= TokenBudget + MaxTokens * (MaxRuns * Cardinality(Req))

\* What a player has used is not forgotten before the day is over on the fastest
\* clock: the counter of day d does not go down earlier, whichever process sets the
\* expiry of its key last.
CountedAllDay ==
    [][\A d \in Days : spent'[d] < spent[d]
          => now' + MaxSkew >= (d + 1) * DayLength]_quotaVars

=============================================================================
