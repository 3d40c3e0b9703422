------------------------------ MODULE DifyClient ------------------------------
(***************************************************************************)
(* doRequestWithRetry of internal/dify/client.go under ChatStream: the     *)
(* POSTs of one chat call, the waits between them and the stream that      *)
(* follows a 2xx answer, for a player whose stored conversation Dify may   *)
(* have forgotten.                                                         *)
(***************************************************************************)
EXTENDS Naturals

CONSTANTS
    MaxAttempts,   \* maxUpstreamAttempts
    MaxBase,       \* bounds: upstreamRetryBaseBackoff and
    MaxCap,        \*   upstreamRetryMaxBackoff, in ticks
    RetryAfters,   \* delays a Retry-After header asks for, in ticks
    MaxDeltas      \* bound: deltas in one stream

ASSUME DifyConfig ==
    /\ {MaxAttempts, MaxBase, MaxCap} \subseteq Nat \ {0}
    /\ RetryAfters \subseteq Nat
    /\ MaxDeltas \in Nat

VARIABLES
    base, cap,  \* the backoff configuration
    at,
    attempt,
    status,     \* the answer to the last POST; 0 = none yet, or no answer
    posts,      \* POSTs made for the call
    wait,       \* ticks left of sleepBeforeRetry
    slept,      \* the backoff chosen before the last retry
    asked,      \* the Retry-After of the last answer
    deltas,     \* deltas forwarded
    ctxDone,
    mapped      \* the player's conversation mapping exists

clientVars == <<base, cap, at, attempt, status, posts, wait, slept, asked, deltas, ctxDone, mapped>>

\* 2xx, bad request, conversation not found, too many requests, server error
Status == {200, 400, 404, 429, 500}

\* The retry loop never goes past MaxAttempts (doRequestWithRetry), and delays
\* and counts are never negative.
ClientTypeOK ==
    /\ base \in 1..MaxBase /\ cap \in 1..MaxCap
    /\ at \in {"post", "sleep", "stream", "failed", "done", "returned"}
    /\ attempt \in 1..MaxAttempts
    /\ status \in Status \cup {0}
    /\ {posts, wait, slept, asked, deltas} \subseteq Nat
    /\ {ctxDone, mapped} \subseteq BOOLEAN

ClientInit ==
    /\ base \in 1..MaxBase
    /\ cap \in 1..MaxCap
    /\ at = "post"
    /\ attempt = 1
    /\ status = 0
    /\ posts = 0 /\ wait = 0 /\ slept = 0 /\ asked = 0 /\ deltas = 0
    /\ ctxDone = FALSE
    /\ mapped \in BOOLEAN

\* The Retry-After header of an answer: absent, an HTTP date, or a number of seconds.
Header == [form : {"absent", "date", "negative", "seconds"}, delay : RetryAfters]

\* Only a non-negative number of seconds counts.
parseRetryAfter(header) == IF header.form = "seconds" THEN header.delay ELSE 0

Retryable(code) == code = 429 \/ code >= 500

\* Seeded fault: the cap is only checked before doubling.
BackoffOvershooting(n) ==
    LET d[i \in 1..n] == IF i = 1 THEN base
                         ELSE IF d[i - 1] >= cap THEN d[i - 1]
                         ELSE 2 * d[i - 1]
    IN  d[n]

\* The loop of retryBackoff doubles base n-1 times and returns the cap as soon as
\* it is reached.
retryBackoff(n) ==
    LET d[i \in 1..n] == IF i = 1 THEN base
                         ELSE IF 2 * d[i - 1] >= cap THEN cap
                         ELSE 2 * d[i - 1]
    IN  IF d[n] > cap THEN cap ELSE d[n]

\* Dify answers with a code that is not 2xx.
PostRejected(code, header) ==
    /\ at = "post" /\ ~ctxDone
    /\ code \in Status \ {200}
    /\ posts' = posts + 1
    /\ status' = code
    /\ asked' = parseRetryAfter(header)
    /\ IF Retryable(code) /\ attempt < MaxAttempts
         THEN /\ at' = "sleep"
              /\ slept' = IF asked' > retryBackoff(attempt) THEN asked' ELSE retryBackoff(attempt)
              /\ wait' = slept'
         ELSE /\ at' = "failed"
              /\ UNCHANGED <<slept, wait>>
    /\ UNCHANGED <<base, cap, attempt, deltas, ctxDone, mapped>>

PostAccepted ==
    /\ at = "post" /\ ~ctxDone
    /\ posts' = posts + 1
    /\ status' = 200
    /\ at' = "stream"
    /\ UNCHANGED <<base, cap, attempt, wait, slept, asked, deltas, ctxDone, mapped>>

\* No answer: the connection fails or the context is done.
PostUnanswered ==
    /\ at = "post"
    /\ posts' = posts + 1
    /\ status' = 0
    /\ at' = "failed"
    /\ UNCHANGED <<base, cap, attempt, wait, slept, asked, deltas, ctxDone, mapped>>

Sleep ==
    /\ at = "sleep" /\ wait > 0
    /\ wait' = wait - 1
    /\ UNCHANGED <<base, cap, at, attempt, status, posts, slept, asked, deltas, ctxDone, mapped>>

\* Seeded fault: the wait ends on the context only.
WakeUpOnCancel ==
    /\ at = "sleep"
    /\ ctxDone /\ at' = "failed" /\ UNCHANGED attempt
    /\ UNCHANGED <<base, cap, status, posts, wait, slept, asked, deltas, ctxDone, mapped>>

\* Seeded fault: time.Sleep in place of the select.
WakeUpOnTimer ==
    /\ at = "sleep"
    /\ wait = 0 /\ at' = "post" /\ attempt' = attempt + 1
    /\ UNCHANGED <<base, cap, status, posts, wait, slept, asked, deltas, ctxDone, mapped>>

\* The select of sleepBeforeRetry: when both cases are ready either may be taken.
WakeUp ==
    /\ at = "sleep"
    /\ \/ wait = 0 /\ at' = "post" /\ attempt' = attempt + 1
       \/ ctxDone /\ at' = "failed" /\ UNCHANGED attempt
    /\ UNCHANGED <<base, cap, status, posts, wait, slept, asked, deltas, ctxDone, mapped>>

Delta ==
    /\ at = "stream" /\ deltas < MaxDeltas
    /\ deltas' = deltas + 1
    /\ UNCHANGED <<base, cap, at, attempt, status, posts, wait, slept, asked, ctxDone, mapped>>

\* Seeded fault: a broken stream is retried like a failed POST.
StreamRetried ==
    /\ at = "stream"
    /\ \/ at' \in {"done", "failed"} /\ UNCHANGED attempt
       \/ attempt < MaxAttempts /\ at' = "post" /\ attempt' = attempt + 1
    /\ UNCHANGED <<base, cap, status, posts, wait, slept, asked, deltas, ctxDone, mapped>>

\* message_end; or message_replace, error, a read error, an incomplete stream.
StreamEnds ==
    /\ at = "stream"
    /\ at' \in {"done", "failed"}
    /\ UNCHANGED <<base, cap, attempt, status, posts, wait, slept, asked, deltas, ctxDone, mapped>>

\* HandleChat after ChatStream, as far as it concerns the mapping: a completed call
\* stores the conversation unless that fails, a cancelled one stores what the
\* stream named, a failed one leaves the mapping alone.
Return ==
    /\ \/ at = "done" /\ (UNCHANGED mapped \/ (~ctxDone /\ mapped' = TRUE))
       \/ at = "failed" /\ (UNCHANGED mapped \/ (ctxDone /\ status = 200 /\ mapped' = TRUE))
    /\ at' = "returned"
    /\ UNCHANGED <<base, cap, attempt, status, posts, wait, slept, asked, deltas, ctxDone>>

Cancel ==
    /\ ~ctxDone
    /\ at # "returned"
    /\ ctxDone' = TRUE
    /\ UNCHANGED <<base, cap, at, attempt, status, posts, wait, slept, asked, deltas, mapped>>

Post ==
    \/ \E code \in Status, header \in Header : PostRejected(code, header)
    \/ PostAccepted \/ PostUnanswered

ClientNext == Post \/ Sleep \/ WakeUp \/ Delta \/ StreamEnds \/ Return \/ Cancel

ClientSpec == ClientInit /\ [][ClientNext]_clientVars

\* The goroutine runs, and a POST or a stream that Dify does not end is ended by the
\* context or by http.Client.Timeout.  How long a wait is stays open: a Retry-After
\* has no bound.
ClientFairSpec ==
    /\ ClientSpec
    /\ WF_clientVars(Post) /\ WF_clientVars(WakeUp)
    /\ WF_clientVars(StreamEnds) /\ WF_clientVars(Return)

-----------------------------------------------------------------------------
(* Properties                                                              *)

\* doRequestWithRetry posts a chat again only while nothing has reached the
\* player, only after an answer that is retryable, and MaxAttempts times in all.
RetriesSafe ==
    [][posts' > posts /\ posts > 0 =>
         posts < MaxAttempts /\ deltas = 0 /\ status \in {429, 500}]_clientVars

\* base * 2^(n-1)
Exponential(n) ==
    LET exp[i \in 1..n] == IF i = 1 THEN base ELSE 2 * exp[i - 1] IN exp[n]

\* retryBackoff is the exponential min(base * 2^(n-1), cap), and the wait before a
\* retry is that or what Dify asked for, whichever is longer.
BackoffExponential ==
    at = "sleep" =>
      LET exp == Exponential(attempt)
          b   == IF exp > cap THEN cap ELSE exp
      IN  slept = IF asked > b THEN asked ELSE b

\* HandleChat returns whatever Dify answers, if nobody stops it: when the waits end,
\* the retries do.
CallEnds == WF_clientVars(Sleep) => <>(at = "returned")

\* A stop, a disconnect or the deadline ends the call wherever it is: also in
\* a wait between two POSTs, however long Dify has asked for.
StopInterrupts == ctxDone ~> at = "returned"

\* The design's answer to "conversation not found" is to clear the mapping: a call
\* that failed for that reason leaves none behind.
LostConversationCleared ==
    at = "returned" /\ status = 404 => ~mapped

=============================================================================
