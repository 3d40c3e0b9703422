------------------------------ MODULE EdgeProofs ------------------------------
(***************************************************************************)
(* The two edges of the gateway.  Towards Dify, the retries of a call, for *)
(* every number of attempts and every backoff.  Towards the game client,   *)
(* the frames on a connection, for every byte, prefix and frame size and   *)
(* any number of frames and goroutines.                                    *)
(***************************************************************************)
EXTENDS DifyClient, Frames, WellFoundedInduction, TLAPS

-----------------------------------------------------------------------------
(* Loops, and the retries of the Dify client                               *)

\* A nonempty set of naturals has a least element.
LEMMA LeastNat ==
    ASSUME NEW T \in SUBSET Nat, T # {}
    PROVE  \E x \in T : \A y \in T : x <= y
<1> DEFINE R == OpToRel(<, Nat)
<1>1. IsWellFoundedOn(R, Nat)
  BY NatLessThanWellFounded, Zenon
<1>2. \A x, y \in Nat : <<x, y>> \in R <=> x < y
  BY DEF OpToRel
<1> HIDE DEF R
<1>3. PICK x \in T : \A y \in T : ~(<<y, x>> \in R)
  BY <1>1, WFMin, Zenon
<1>4. ASSUME NEW y \in T PROVE x <= y
  <2>1. x \in Nat /\ y \in Nat
    OBVIOUS
  <2>2. ~(y < x)
    BY <1>2, <1>3, <2>1, Zenon
  <2> QED BY <2>1, <2>2
<1> QED BY <1>4

\* What an iteration may do: its turn i takes a value to the next.
Steps == [Nat -> [Nat -> Nat]]

\* f goes from first by step, on the indices b to n.
Iterates(f, b, n, first, step) ==
    /\ f \in [b..n -> Nat]
    /\ \A i \in b..n : f[i] = IF i = b THEN first ELSE step[i][f[i - 1]]

\* A function given by its first value and a step from one value to the next exists
\* on every segment of the naturals.
LEMMA IterationExists ==
    ASSUME NEW b \in Nat, NEW n \in Nat, NEW first \in Nat, NEW step \in Steps
    PROVE  \E f : Iterates(f, b, n, first, step)
<1> DEFINE Iter(f, m) == Iterates(f, b, m, first, step)
           Without == {m \in Nat : ~\E f : Iter(f, m)}
<1>1. Without = {}
  <2> SUFFICES ASSUME Without # {} PROVE FALSE
    OBVIOUS
  <2>1. PICK m \in Without : \A k \in Without : m <= k
    BY LeastNat, Zenon
  <2>2. m \in Nat /\ ~\E f : Iter(f, m)
    OBVIOUS
  <2>3. CASE m <= b
    <3>1. Iter([i \in b..m |-> first], m)
      BY <2>2, <2>3 DEF Iterates
    <3> QED BY <2>2, <2>3, <3>1
  <2>4. CASE m > b
    <3>1. m - 1 \in Nat /\ m - 1 \notin Without
      <4> HIDE DEF Without
      <4>1. m - 1 \in Nat /\ ~(m <= m - 1)
        BY <2>2, <2>4
      <4> QED BY <2>1, <4>1
    <3>2. PICK f : Iter(f, m - 1)
      BY <3>1
    <3> DEFINE g == [i \in b..m |-> IF i < m THEN f[i] ELSE step[m][f[m - 1]]]
    <3>3. \A i \in b..m : i < m => i \in b..(m - 1) /\ f[i] \in Nat
      <4> SUFFICES ASSUME NEW i \in b..m, i < m PROVE i \in b..(m - 1) /\ f[i] \in Nat
        OBVIOUS
      <4>1. i \in b..(m - 1)
        BY <2>2
      <4> QED BY <3>2, <4>1 DEF Iterates
    <3>4. f[m - 1] \in Nat /\ step[m][f[m - 1]] \in Nat
      <4>1. m - 1 \in b..m /\ m - 1 < m
        BY <2>2, <2>4
      <4>2. f[m - 1] \in Nat
        BY <3>3, <4>1
      <4>3. step[m] \in [Nat -> Nat]
        BY <2>2, Zenon DEF Steps
      <4> QED BY <4>2, <4>3
    <3>5. g \in [b..m -> Nat]
      BY <2>2, <3>3, <3>4
    <3>6. ASSUME NEW i \in b..m PROVE g[i] = IF i = b THEN first ELSE step[i][g[i - 1]]
      <4>1. CASE i < m
        <5>1. g[i] = f[i] /\ (i # b => g[i - 1] = f[i - 1])
          BY <2>2, <4>1
        <5>2. f[i] = IF i = b THEN first ELSE step[i][f[i - 1]]
          BY <3>2, <3>3, <4>1 DEF Iterates
        <5> QED BY <5>1, <5>2
      <4>2. CASE i = m
        <5>1. m # b /\ m - 1 \in b..m /\ m - 1 < m
          BY <2>2, <2>4
        <5> QED BY <2>2, <4>2, <5>1
      <4> QED BY <2>2, <4>1, <4>2
    <3>7. Iter(g, m)
      BY <3>5, <3>6 DEF Iterates
    <3> QED BY <2>2, <3>7
  <2> QED BY <2>2, <2>3, <2>4
<1> QED BY <1>1

\* One turn of the loop of retryBackoff, and the doubling it stands for.
Turn == [i \in Nat |-> [x \in Nat |-> IF 2 * x >= cap THEN cap ELSE 2 * x]]
Double == [i \in Nat |-> [x \in Nat |-> 2 * x]]

\* The loop of retryBackoff, which returns the cap as soon as it is reached, computes
\* the exponential cut at the cap.
LEMMA LoopIsExponential ==
    ASSUME base \in Nat, cap \in Nat, NEW n \in Nat \ {0}
    PROVE  /\ retryBackoff(n) \in Nat
           /\ retryBackoff(n) =
                IF Exponential(n) > cap THEN cap ELSE Exponential(n)
<1> DEFINE d[i \in 1..n] == IF i = 1 THEN base
                            ELSE IF 2 * d[i - 1] >= cap THEN cap
                            ELSE 2 * d[i - 1]
           e[i \in 1..n] == IF i = 1 THEN base ELSE 2 * e[i - 1]
<1>1. retryBackoff(n) = IF d[n] > cap THEN cap ELSE d[n]
  BY DEF retryBackoff
<1>2. Exponential(n) = e[n]
  BY DEF Exponential
<1>3. \A i \in 1..n : d[i] = IF i = 1 THEN base
                              ELSE IF 2 * d[i - 1] >= cap THEN cap ELSE 2 * d[i - 1]
  <2> DEFINE Loop(f) == [i \in 1..n |-> IF i = 1 THEN base
                                        ELSE IF 2 * f[i - 1] >= cap THEN cap ELSE 2 * f[i - 1]]
  <2>1. Turn \in Steps
    BY DEF Turn, Steps
  <2>2. PICK f : Iterates(f, 1, n, base, Turn)
    BY <2>1, IterationExists
  <2>3. f = Loop(f)
    <3>1. f \in [1..n -> Nat] /\ \A i \in 1..n : i # 1 => f[i - 1] \in Nat
      BY <2>2 DEF Iterates
    <3>2. \A i \in 1..n : f[i] = IF i = 1 THEN base ELSE Turn[i][f[i - 1]]
      BY <2>2 DEF Iterates
    <3>3. \A i \in 1..n, x \in Nat : Turn[i][x] = IF 2 * x >= cap THEN cap ELSE 2 * x
      BY DEF Turn
    <3>4. \A i \in 1..n : f[i] = Loop(f)[i]
      BY <3>1, <3>2, <3>3, Zenon
    <3> QED BY <3>1, <3>4
  <2>4. d = CHOOSE g : g = Loop(g)
    BY DEF d
  <2>5. d = Loop(d)
    <3> HIDE DEF Loop, d
    <3> QED BY <2>3, <2>4
  <2> HIDE DEF d
  <2> QED BY <2>5
<1>4. \A i \in 1..n : e[i] = IF i = 1 THEN base ELSE 2 * e[i - 1]
  <2> DEFINE Loop(f) == [i \in 1..n |-> IF i = 1 THEN base ELSE 2 * f[i - 1]]
  <2>1. Double \in Steps
    BY DEF Double, Steps
  <2>2. PICK f : Iterates(f, 1, n, base, Double)
    BY <2>1, IterationExists
  <2>3. f = Loop(f)
    <3>1. f \in [1..n -> Nat] /\ \A i \in 1..n : i # 1 => f[i - 1] \in Nat
      BY <2>2 DEF Iterates
    <3>2. \A i \in 1..n : f[i] = IF i = 1 THEN base ELSE Double[i][f[i - 1]]
      BY <2>2 DEF Iterates
    <3>3. \A i \in 1..n, x \in Nat : Double[i][x] = 2 * x
      BY DEF Double
    <3>4. \A i \in 1..n : f[i] = Loop(f)[i]
      BY <3>1, <3>2, <3>3, Zenon
    <3> QED BY <3>1, <3>4
  <2>4. e = CHOOSE g : g = Loop(g)
    BY DEF e
  <2>5. e = Loop(e)
    <3> HIDE DEF Loop, e
    <3> QED BY <2>3, <2>4
  <2> HIDE DEF e
  <2> QED BY <2>5
<1> HIDE DEF d, e
<1> DEFINE Agree(i) == /\ d[i] \in Nat /\ e[i] \in Nat
                       /\ d[i] = e[i] \/ (d[i] >= cap /\ e[i] >= cap)
           Apart == {i \in 1..n : ~Agree(i)}
<1>5. Apart = {}
  <2> SUFFICES ASSUME Apart # {} PROVE FALSE
    OBVIOUS
  <2>1. Apart \in SUBSET Nat
    OBVIOUS
  <2>2. PICK m \in Apart : \A k \in Apart : m <= k
    <3> HIDE DEF Apart
    <3> QED BY <2>1, LeastNat
  <2>3. m \in 1..n /\ ~Agree(m)
    OBVIOUS
  <2>4. CASE m = 1
    BY <1>3, <1>4, <2>3, <2>4
  <2>5. CASE m # 1
    <3>1. m - 1 \in 1..n /\ ~(m <= m - 1)
      BY <2>3, <2>5
    <3>2. m - 1 \notin Apart
      <4> HIDE DEF Apart
      <4> QED BY <2>2, <3>1
    <3>3. Agree(m - 1)
      BY <3>1, <3>2
    <3>4. /\ d[m] = IF 2 * d[m - 1] >= cap THEN cap ELSE 2 * d[m - 1]
          /\ e[m] = 2 * e[m - 1]
      BY <1>3, <1>4, <2>3, <2>5
    <3>5. Agree(m)
      BY <3>3, <3>4
    <3> QED BY <2>3, <3>5
  <2> QED BY <2>4, <2>5
<1>6. Agree(n)
  BY <1>5
<1> QED BY <1>1, <1>2, <1>6

ClientTypes ==
    /\ base \in 1..MaxBase /\ cap \in 1..MaxCap
    /\ attempt \in 1..MaxAttempts
    /\ {posts, asked, deltas} \subseteq Nat

\* The loop of doRequestWithRetry: one POST per attempt, and none after a delta or
\* an answer that is final.
Retrying ==
    /\ at = "post" => /\ posts = attempt - 1 /\ deltas = 0
                      /\ posts > 0 => status \in {429, 500}
    /\ at = "sleep" => /\ posts = attempt /\ deltas = 0
                       /\ status \in {429, 500} /\ attempt < MaxAttempts

ClientInv == ClientTypes /\ Retrying /\ BackoffExponential

\* A call begins with its first attempt and without output.
LEMMA InitClientInv == ClientInit => ClientInv
BY DifyConfig DEF ClientInit, ClientInv, ClientTypes, Retrying, BackoffExponential

\* An answer that is not 2xx: retryBackoff and the Retry-After give the wait.
LEMMA RejectedClientInv ==
    ASSUME ClientInv, NEW code, NEW after \in Header,
           PostRejected(code, after)
    PROVE  ClientInv'
<1> DEFINE b == retryBackoff(attempt)
<1>1. /\ at = "post" /\ code \in {400, 404, 429, 500} /\ posts' = posts + 1 /\ status' = code
      /\ asked' = parseRetryAfter(after)
      /\ UNCHANGED <<base, cap, attempt, deltas>>
      /\ at' \in {"sleep", "failed"}
      /\ at' = "sleep" => /\ Retryable(code) /\ attempt < MaxAttempts
                          /\ slept' = IF asked' > b THEN asked' ELSE b
  BY DEF PostRejected, Status
<1>2. asked' \in Nat
  BY <1>1, DifyConfig DEF parseRetryAfter, Header, ClientInv
<1>3. ClientTypes'
  BY <1>1, <1>2 DEF ClientInv, ClientTypes
<1>4. Retrying'
  BY <1>1 DEF ClientInv, ClientTypes, Retrying, Retryable
<1>5. BackoffExponential'
  <2>1. base \in Nat /\ cap \in Nat /\ attempt \in Nat \ {0}
    BY DifyConfig DEF ClientInv, ClientTypes
  <2>2. b = IF Exponential(attempt) > cap THEN cap ELSE Exponential(attempt)
    BY <2>1, LoopIsExponential
  <2>3. Exponential(attempt)' = Exponential(attempt)
    BY <1>1 DEF Exponential
  <2> HIDE DEF b
  <2> QED BY <1>1, <2>2, <2>3 DEF BackoffExponential
<1> QED BY <1>3, <1>4, <1>5 DEF ClientInv

\* Every other step leaves the wait alone.
LEMMA NextClientInv == ClientInv /\ [ClientNext]_clientVars => ClientInv'
<1> SUFFICES ASSUME ClientInv, [ClientNext]_clientVars PROVE ClientInv'
  OBVIOUS
<1>1. CASE \E code \in Status, after \in Header : PostRejected(code, after)
  BY <1>1, RejectedClientInv
<1>2. ASSUME UNCHANGED <<base, cap>>, ClientTypes', Retrying',
             at' = "sleep" => at = "sleep" /\ UNCHANGED <<attempt, slept, asked>>
      PROVE  ClientInv'
  <2>1. at' = "sleep" => Exponential(attempt)' = Exponential(attempt)
    BY <1>2 DEF Exponential
  <2>2. BackoffExponential'
    BY <1>2, <2>1 DEF ClientInv, BackoffExponential
  <2> QED BY <1>2, <2>2 DEF ClientInv
<1> USE DEF ClientInv, ClientTypes, Retrying
<1>3. CASE PostAccepted \/ PostUnanswered
  BY <1>2, <1>3 DEF PostAccepted, PostUnanswered
<1>4. CASE Sleep
  BY <1>2, <1>4 DEF Sleep
<1>5. CASE WakeUp
  BY <1>2, <1>5, DifyConfig DEF WakeUp
<1>6. CASE Delta \/ StreamEnds
  BY <1>2, <1>6 DEF Delta, StreamEnds
<1>7. CASE Return \/ Cancel
  BY <1>2, <1>7 DEF Return, Cancel
<1>8. CASE UNCHANGED clientVars
  BY <1>2, <1>8 DEF clientVars
<1> QED BY <1>1, <1>3, <1>4, <1>5, <1>6, <1>7, <1>8 DEF ClientNext, Post

\* Every POST of doRequestWithRetry after the first.
LEMMA PostIsSafe ==
    ASSUME ClientInv, [ClientNext]_clientVars
    PROVE  posts' > posts /\ posts > 0 =>
             posts < MaxAttempts /\ deltas = 0 /\ status \in {429, 500}
<1> SUFFICES ASSUME posts' > posts, posts > 0
             PROVE  posts < MaxAttempts /\ deltas = 0 /\ status \in {429, 500}
  OBVIOUS
<1>1. posts \in Nat
  BY DEF ClientInv, ClientTypes
<1>2. posts' # posts
  BY <1>1
<1>3. at = "post"
  BY <1>2 DEF ClientNext, Post, PostRejected, PostAccepted,
     PostUnanswered, Sleep, WakeUp, Delta, StreamEnds,
     Return, Cancel, clientVars
<1> QED BY <1>3, DifyConfig DEF ClientInv, ClientTypes, Retrying

\* doRequestWithRetry never repeats a chat that Dify has begun to answer, nor more
\* often than maxUpstreamAttempts, whatever Dify answers and when the caller gives up.
THEOREM RetriesAreSafe == ClientSpec => RetriesSafe
<1>1. ClientInv /\ [ClientNext]_clientVars =>
        [posts' > posts /\ posts > 0 =>
           posts < MaxAttempts /\ deltas = 0 /\ status \in {429, 500}]_clientVars
  BY PostIsSafe
<1> QED BY <1>1, InitClientInv, NextClientInv, PTL DEF ClientSpec, RetriesSafe

\* retryBackoff waits the exponential cut at the cap, or what Dify asked for, for
\* every base, cap and number of attempts.
THEOREM BackoffIsExponential == ClientSpec => []BackoffExponential
<1>1. ClientInv => BackoffExponential
  BY DEF ClientInv
<1> QED BY <1>1, InitClientInv, NextClientInv, PTL DEF ClientSpec

-----------------------------------------------------------------------------
(* The length prefix                                                       *)

\* The constants of the codec, one by one.
LEMMA FrameConstants ==
    /\ Radix \in Nat /\ Radix > 0 /\ PrefixSize \in Nat /\ PrefixSize > 0
    /\ MaxFrameSize \in Nat /\ WriteLimit \in Nat /\ ShiftRight(WriteLimit, PrefixSize) = 0
BY FrameConfig

\* Quotient and remainder by the number of values of a byte.
LEMMA DivMod ==
    ASSUME NEW n \in Nat
    PROVE  /\ n \div Radix \in Nat /\ n % Radix \in 0..(Radix - 1)
           /\ n = (n \div Radix) * Radix + (n % Radix)
BY FrameConstants

\* A larger number has no smaller quotient.
LEMMA DivMonotonic ==
    ASSUME NEW m \in Nat, NEW n \in Nat, m <= n
    PROVE  m \div Radix <= n \div Radix
<1> DEFINE x == m \div Radix
           y == n \div Radix
<1>1. /\ x \in Nat /\ y \in Nat
      /\ x * Radix <= m /\ n < y * Radix + Radix
  BY DivMod, FrameConstants
<1> HIDE DEF x, y
<1>2. x * Radix < (y + 1) * Radix
  BY <1>1, FrameConstants
<1>3. ASSUME x >= y + 1 PROVE x * Radix >= (y + 1) * Radix
  BY <1>1, <1>3, FrameConstants
<1>4. x * Radix \in Nat /\ (y + 1) * Radix \in Nat
  BY <1>1, FrameConstants
<1>5. x <= y
  BY <1>1, <1>2, <1>3, <1>4
<1> QED BY <1>5 DEF x, y

\* A shift by a byte, as a step of an iteration.
Quotient == [i \in Nat |-> [x \in Nat |-> x \div Radix]]

\* Shifting by one byte after the other.
LEMMA Shifts ==
    ASSUME NEW n \in Nat
    PROVE  /\ ShiftRight(n, 0) = n
           /\ \A k \in 0..PrefixSize : ShiftRight(n, k) \in Nat
           /\ \A k \in 1..PrefixSize : ShiftRight(n, k) = ShiftRight(n, k - 1) \div Radix
<1> DEFINE v[i \in 0..PrefixSize] == IF i = 0 THEN n ELSE v[i - 1] \div Radix
           Loop(f) == [i \in 0..PrefixSize |-> IF i = 0 THEN n ELSE f[i - 1] \div Radix]
<1>1. \A k : ShiftRight(n, k) = v[k]
  BY DEF ShiftRight
<1>2. Quotient \in Steps
  BY DivMod DEF Quotient, Steps
<1>3. PICK f : Iterates(f, 0, PrefixSize, n, Quotient)
  <2>1. 0 \in Nat /\ PrefixSize \in Nat
    BY FrameConstants
  <2> QED BY <1>2, <2>1, IterationExists
<1>4. f = Loop(f)
  <2>1. \A i \in 0..PrefixSize : i # 0 => f[i - 1] \in Nat
    BY <1>3, FrameConstants DEF Iterates
  <2>2. \A i \in 0..PrefixSize : f[i] = Loop(f)[i]
    <3> SUFFICES ASSUME NEW i \in 0..PrefixSize PROVE f[i] = Loop(f)[i]
      OBVIOUS
    <3>1. i # 0 => Quotient[i][f[i - 1]] = f[i - 1] \div Radix
      BY <2>1, FrameConstants DEF Quotient
    <3> QED BY <1>3, <3>1 DEF Iterates
  <2> QED BY <1>3, <2>2 DEF Iterates
<1>5. v = CHOOSE g : g = Loop(g)
  BY DEF v
<1>6. v = Loop(v)
  <2> HIDE DEF Loop, v
  <2> QED BY <1>4, <1>5
<1> HIDE DEF v
<1>7. \A k \in 0..PrefixSize : v[k] = IF k = 0 THEN n ELSE v[k - 1] \div Radix
  BY <1>6, Zenon
<1>8. v[0] = n /\ \A k \in 1..PrefixSize : k - 1 \in 0..PrefixSize /\ v[k] = v[k - 1] \div Radix
  BY <1>7, FrameConstants
<1>9. \A k \in 0..PrefixSize : v[k] \in Nat
  <2> DEFINE Bad == {k \in Nat : k <= PrefixSize /\ v[k] \notin Nat}
  <2> SUFFICES Bad = {}
    BY FrameConstants
  <2> SUFFICES ASSUME Bad # {} PROVE FALSE
    OBVIOUS
  <2>1. PICK k \in Bad : \A j \in Bad : k <= j
    BY LeastNat, Zenon
  <2>2. k # 0 /\ k \in Nat /\ k <= PrefixSize /\ v[k] \notin Nat
    BY <1>8
  <2>3. k - 1 \in Nat /\ k - 1 <= PrefixSize /\ k \in 1..PrefixSize
    BY <2>2, FrameConstants
  <2>4. v[k - 1] \in Nat
    BY <2>1, <2>2, <2>3
  <2> QED BY <1>8, <2>2, <2>3, <2>4, DivMod
<1> QED BY <1>1, <1>8, <1>9

\* Nor is it smaller after any number of shifts: a prefix with room for WriteLimit has
\* room for every length up to it.
LEMMA ShiftsMonotonic ==
    ASSUME NEW m \in Nat, NEW n \in Nat, m <= n
    PROVE  \A k \in 0..PrefixSize : ShiftRight(m, k) <= ShiftRight(n, k)
<1> DEFINE Bad == {k \in Nat : k <= PrefixSize /\ ~(ShiftRight(m, k) <= ShiftRight(n, k))}
<1> SUFFICES Bad = {}
  BY FrameConstants
<1> SUFFICES ASSUME Bad # {} PROVE FALSE
  OBVIOUS
<1>1. PICK k \in Bad : \A j \in Bad : k <= j
  BY LeastNat, Zenon
<1>2. k # 0 /\ k \in Nat /\ k <= PrefixSize /\ ~(ShiftRight(m, k) <= ShiftRight(n, k))
  BY Shifts
<1>3. k - 1 \in 0..PrefixSize /\ k \in 1..PrefixSize /\ k - 1 \in Nat
  BY <1>2, FrameConstants
<1>4. ShiftRight(m, k - 1) <= ShiftRight(n, k - 1)
  BY <1>1, <1>2, <1>3
<1>5. ShiftRight(m, k - 1) \div Radix <= ShiftRight(n, k - 1) \div Radix
  BY <1>3, <1>4, Shifts, DivMonotonic
<1> QED BY <1>2, <1>3, <1>5, Shifts

\* PutUint32 fills the prefix with bytes.
LEMMA PutUintType ==
    ASSUME NEW n \in Nat
    PROVE  /\ PutUint(n) \in Seq(Byte) /\ Len(PutUint(n)) = PrefixSize
           /\ \A i \in 1..PrefixSize : PutUint(n)[i] = ShiftRight(n, PrefixSize - i) % Radix
<1>1. \A i \in 1..PrefixSize : ShiftRight(n, PrefixSize - i) % Radix \in Byte
  <2> SUFFICES ASSUME NEW i \in 1..PrefixSize
               PROVE  ShiftRight(n, PrefixSize - i) % Radix \in Byte
    OBVIOUS
  <2>1. PrefixSize - i \in 0..PrefixSize
    BY FrameConstants
  <2> QED BY <2>1, Shifts, DivMod, Zenon DEF Byte
<1> QED BY <1>1, FrameConstants DEF PutUint

\* The length ReadFrame decodes is the length WriteFrame encoded: no length that may
\* be sent loses a digit.
THEOREM LengthDecoded ==
    ASSUME NEW n \in 0..WriteLimit
    PROVE  Uint(PutUint(n)) = n
<1> DEFINE h == PutUint(n)
           step == [i \in Nat |->
                      [x \in Nat |-> IF i \in 1..PrefixSize THEN x * Radix + h[i] ELSE 0]]
           v[i \in 0..Len(h)] == IF i = 0 THEN 0 ELSE v[i - 1] * Radix + h[i]
           Loop(f) == [i \in 0..PrefixSize |-> IF i = 0 THEN 0 ELSE f[i - 1] * Radix + h[i]]
<1>1. n \in Nat /\ n <= WriteLimit
  BY FrameConstants
<1>2. Len(h) = PrefixSize /\ \A i \in 1..PrefixSize : h[i] \in Nat
  <2>1. h \in Seq(Byte) /\ Len(h) = PrefixSize
    BY <1>1, PutUintType
  <2>2. \A i \in 1..PrefixSize : h[i] \in Byte
    BY <2>1
  <2> QED BY <2>1, <2>2, FrameConstants DEF Byte
<1>3. Uint(h) = v[Len(h)]
  BY DEF Uint
<1>4. \A i \in 1..PrefixSize : h[i] = ShiftRight(n, PrefixSize - i) % Radix
  BY <1>1, PutUintType
<1> HIDE DEF h
<1>5. step \in Steps
  BY <1>2, FrameConstants DEF Steps
<1> HIDE DEF step
<1>6. PICK f : Iterates(f, 0, PrefixSize, 0, step)
  <2>1. 0 \in Nat /\ PrefixSize \in Nat
    BY FrameConstants
  <2> QED BY <1>5, <2>1, IterationExists
<1>7. f = Loop(f)
  <2>1. \A i \in 0..PrefixSize : i # 0 => i \in 1..PrefixSize /\ f[i - 1] \in Nat
    BY <1>6, FrameConstants DEF Iterates
  <2>2. \A i \in 0..PrefixSize : f[i] = Loop(f)[i]
    <3> SUFFICES ASSUME NEW i \in 0..PrefixSize PROVE f[i] = Loop(f)[i]
      OBVIOUS
    <3>1. i # 0 => step[i][f[i - 1]] = f[i - 1] * Radix + h[i]
      BY <2>1, FrameConstants DEF step
    <3> QED BY <1>6, <3>1 DEF Iterates
  <2> QED BY <1>6, <2>2 DEF Iterates
<1>8. v = CHOOSE g : g = Loop(g)
  BY <1>2 DEF v
<1>9. v = Loop(v)
  <2> HIDE DEF Loop, v
  <2> QED BY <1>7, <1>8
<1> HIDE DEF v
<1>10. v[0] = 0 /\ \A i \in 1..PrefixSize : v[i] = v[i - 1] * Radix + h[i]
  BY <1>9, FrameConstants
<1>11. ShiftRight(n, PrefixSize) = 0
  <2>1. PrefixSize \in 0..PrefixSize /\ WriteLimit \in Nat
    BY FrameConstants
  <2>2. ShiftRight(n, PrefixSize) \in Nat
    BY <1>1, <2>1, Shifts
  <2>3. ShiftRight(n, PrefixSize) <= ShiftRight(WriteLimit, PrefixSize)
    BY <1>1, <2>1, ShiftsMonotonic
  <2> QED BY <2>2, <2>3, FrameConstants
<1>12. \A i \in 0..PrefixSize : v[i] = ShiftRight(n, PrefixSize - i)
  <2> DEFINE Bad == {i \in Nat : i <= PrefixSize /\ v[i] # ShiftRight(n, PrefixSize - i)}
  <2> SUFFICES Bad = {}
    BY FrameConstants
  <2> SUFFICES ASSUME Bad # {} PROVE FALSE
    OBVIOUS
  <2>1. PICK i \in Bad : \A j \in Bad : i <= j
    BY LeastNat, Zenon
  <2>2. i # 0 /\ i \in Nat /\ i <= PrefixSize /\ v[i] # ShiftRight(n, PrefixSize - i)
    BY <1>10, <1>11, FrameConstants
  <2>3. /\ i - 1 \in Nat /\ i - 1 <= PrefixSize /\ i \in 1..PrefixSize
        /\ PrefixSize - i \in 0..PrefixSize
        /\ PrefixSize - (i - 1) \in 1..PrefixSize
        /\ PrefixSize - (i - 1) - 1 = PrefixSize - i
    BY <2>2, FrameConstants
  <2>4. v[i - 1] = ShiftRight(n, PrefixSize - (i - 1))
    BY <2>1, <2>2, <2>3
  <2>5. v[i - 1] = ShiftRight(n, PrefixSize - i) \div Radix
    BY <1>1, <2>3, <2>4, Shifts
  <2>6. v[i] = (ShiftRight(n, PrefixSize - i) \div Radix) * Radix
                 + (ShiftRight(n, PrefixSize - i) % Radix)
    BY <1>4, <1>10, <2>3, <2>5
  <2>7. v[i] = ShiftRight(n, PrefixSize - i)
    BY <1>1, <2>3, <2>6, Shifts, DivMod
  <2> QED BY <2>2, <2>7
<1>13. v[PrefixSize] = n
  <2>1. PrefixSize \in 0..PrefixSize /\ PrefixSize - PrefixSize = 0
    BY FrameConstants
  <2>2. v[PrefixSize] = ShiftRight(n, 0)
    BY <1>12, <2>1
  <2> QED BY <1>1, <2>2, Shifts
<1> QED BY <1>2, <1>3, <1>13 DEF h

-----------------------------------------------------------------------------
(* Frames on the stream                                                    *)

\* The bytes of the frame being read that ReadFrame has taken from the stream.
Taken ==
    IF result = "TooLarge" THEN PrefixSize
    ELSE IF need > 0 THEN PrefixSize + Len(payload)
    ELSE Len(header)

\* The buffer WriteFrame hands to Write.
Framed(p) == PutUint(Len(p)) \o p

\* How many bytes a frame takes.
Size(p) == PrefixSize + Len(p)

\* What ReadFrame has yet to take: the bytes on the wire, then those Write still has.
Stream == wire \o rest

\* Frame k begins after pos[k] of the bytes written on the connection, and the one
\* after the last would begin where the last ends.
Positions(pos) ==
    /\ pos \in [1..(Len(sent) + 1) -> Nat]
    /\ \A k \in 1..Len(sent) : pos[k + 1] = pos[k] + Size(sent[k])
    /\ \A j, k \in 1..(Len(sent) + 1) :
          j < k => pos[j] + Size(sent[j]) <= pos[k]

\* How many of the bytes written on the connection ReadFrame has taken.
Consumed(pos) == pos[Len(rcvd) + 1] + Taken

\* The stream has the bytes of every frame in their place.
Laid(pos) ==
    \A k \in 1..Len(sent) : \A i \in 1..Size(sent[k]) :
       (pos[k] + i) - Consumed(pos) \in 1..Len(Stream)
         => Stream[(pos[k] + i) - Consumed(pos)] = Framed(sent[k])[i]

\* It ends where the last frame ends, unless the connection broke before that frame
\* or within it.
Ends(pos) ==
    LET n == Len(sent)
        end == Consumed(pos) + Len(Stream)
    IN  /\ ~broken => end = pos[n + 1] /\ ~torn
        /\ broken /\ ~torn => end = pos[n + 1] \/ (n > 0 /\ end = pos[n])
        /\ torn => n > 0 /\ pos[n] < end /\ end < pos[n + 1]

\* The frames lie one after the other in the byte stream.
Whole == \E pos : Positions(pos) /\ Laid(pos) /\ Ends(pos)

\* Write is at work for the goroutine with the lock, on the last frame.
Writing ==
    /\ rest # <<>> => /\ owner # None
                      /\ sent # <<>> /\ Len(rest) <= Size(sent[Len(sent)])
    /\ broken => rest = <<>>

\* What ReadFrame has taken of a frame is what was sent, and its verdict is right.
Reading ==
    LET r == Len(rcvd)
        p == sent[r + 1]
    IN  /\ r <= Len(sent) /\ \A k \in 1..r : rcvd[k] = sent[k]
        /\ need = 0 => payload = <<>>
        /\ need > 0 =>
             /\ r < Len(sent) /\ header = <<>> /\ result # "TooLarge"
             /\ need + Len(payload) = Len(p) /\ Len(p) <= MaxFrameSize
             /\ \A i \in 1..Len(payload) : payload[i] = p[i]
        /\ header # <<>> =>
             /\ r < Len(sent) /\ Len(header) < PrefixSize /\ result # "TooLarge"
             /\ \A i \in 1..Len(header) : header[i] = PutUint(Len(p))[i]
        /\ result = "TooLarge" => r < Len(sent) /\ Len(p) > MaxFrameSize
        /\ result \in {"EOF", "UnexpectedEOF"} => broken /\ Len(sent) <= r + 1
        /\ result = "EOF" => ~torn
        /\ result = "UnexpectedEOF" => torn

\* The types, with buffers as sequences of bytes.
FrameTypes ==
    /\ owner \in Go \cup {None}
    /\ rest \in Seq(Byte) /\ wire \in Seq(Byte)
    /\ header \in Seq(Byte) /\ payload \in Seq(Byte)
    /\ sent \in Seq(Payload(WriteLimit)) /\ rcvd \in Seq(Payload(WriteLimit))
    /\ need \in Nat
    /\ broken \in BOOLEAN /\ torn \in BOOLEAN
    /\ result \in {"nil", "EOF", "UnexpectedEOF", "TooLarge"}

\* The inductive invariant of the connection.
FrameInv == FrameTypes /\ Writing /\ Reading /\ Whole

\* A payload is a sequence of bytes within its limit.
LEMMA PayloadIsSeq ==
    ASSUME NEW n \in Nat, NEW p \in Payload(n)
    PROVE  p \in Seq(Byte) /\ Len(p) \in 0..n
<1>1. PICK k \in 0..n : p \in [1..k -> Byte]
  BY DEF Payload
<1> QED BY <1>1

\* So is each payload sent, and a frame has a size.
LEMMA SentIsSeq ==
    ASSUME NEW s \in Seq(Payload(WriteLimit)), NEW k \in 1..Len(s)
    PROVE  /\ s[k] \in Payload(WriteLimit) /\ s[k] \in Seq(Byte)
           /\ Len(s[k]) \in 0..WriteLimit /\ Len(s[k]) \in Nat /\ Size(s[k]) \in Nat
<1>1. s[k] \in Payload(WriteLimit)
  OBVIOUS
<1> QED BY <1>1, PayloadIsSeq, FrameConstants DEF Size

\* Two pieces of the stream one after the other.
LEMMA Joined ==
    ASSUME NEW s \in Seq(Byte), NEW t \in Seq(Byte)
    PROVE  /\ s \o t \in Seq(Byte) /\ Len(s) \in Nat /\ Len(t) \in Nat
           /\ Len(s \o t) = Len(s) + Len(t)
           /\ \A i \in 1..Len(s) : (s \o t)[i] = s[i]
           /\ \A i \in 1..Len(t) : (s \o t)[Len(s) + i] = t[i]
OBVIOUS

\* Buffers with the same bytes are the same.
LEMMA SameBytes ==
    ASSUME NEW s \in Seq(Byte), NEW t \in Seq(Byte), Len(s) = Len(t),
           \A i \in 1..Len(s) : s[i] = t[i]
    PROVE  s = t
OBVIOUS

\* Taking a byte from the front of a buffer.
LEMMA FirstByte ==
    ASSUME NEW s \in Seq(Byte), s # <<>>
    PROVE  /\ Len(s) \in Nat /\ Len(s) > 0 /\ Head(s) \in Byte /\ Head(s) = s[1]
           /\ Tail(s) \in Seq(Byte) /\ Len(Tail(s)) = Len(s) - 1
           /\ \A i \in 1..(Len(s) - 1) : Tail(s)[i] = s[i + 1]
OBVIOUS

\* Adding a byte at the end of a buffer.
LEMMA LastByte ==
    ASSUME NEW s \in Seq(Byte), NEW x \in Byte
    PROVE  /\ Append(s, x) \in Seq(Byte) /\ Len(s) \in Nat /\ Len(Append(s, x)) = Len(s) + 1
           /\ Append(s, x)[Len(s) + 1] = x
           /\ \A i \in 1..Len(s) : Append(s, x)[i] = s[i]
OBVIOUS

\* The buffer of WriteFrame: the prefix, then the payload.
LEMMA FramedIs ==
    ASSUME NEW p \in Payload(WriteLimit)
    PROVE  /\ Framed(p) \in Seq(Byte) /\ Len(Framed(p)) = Size(p) /\ Size(p) \in Nat
           /\ \A i \in 1..PrefixSize : Framed(p)[i] = PutUint(Len(p))[i]
           /\ \A i \in 1..Len(p) : Framed(p)[PrefixSize + i] = p[i]
<1>1. p \in Seq(Byte) /\ Len(p) \in Nat
  BY PayloadIsSeq, FrameConstants
<1>2. PutUint(Len(p)) \in Seq(Byte) /\ Len(PutUint(Len(p))) = PrefixSize
  BY <1>1, PutUintType
<1> QED BY <1>1, <1>2, Joined, FrameConstants, ZenonT(60) DEF Framed, Size

\* Numbers and sequences that the invariant speaks of.
LEMMA StreamTypes ==
    ASSUME FrameTypes, Reading
    PROVE  /\ Stream \in Seq(Byte) /\ Len(Stream) = Len(wire) + Len(rest)
           /\ Len(wire) \in Nat /\ Len(rest) \in Nat /\ Len(Stream) \in Nat
           /\ Len(sent) \in Nat /\ Len(rcvd) \in Nat /\ Taken \in Nat
           /\ Len(payload) \in Nat /\ Len(header) \in Nat
<1>1. /\ Len(wire) \in Nat /\ Len(rest) \in Nat
      /\ Len(sent) \in Nat /\ Len(rcvd) \in Nat
      /\ Len(payload) \in Nat /\ Len(header) \in Nat
  BY DEF FrameTypes
<1>2. Stream \in Seq(Byte) /\ Len(Stream) = Len(wire) + Len(rest)
  BY Joined DEF FrameTypes, Stream
<1>3. Taken \in Nat
  BY <1>1, FrameConstants DEF Taken
<1> QED BY <1>1, <1>2, <1>3

\* Where a frame begins.
LEMMA PositionIsNat ==
    ASSUME NEW pos, Positions(pos), NEW k \in 1..(Len(sent) + 1)
    PROVE  pos[k] \in Nat
<1>1. pos \in [1..(Len(sent) + 1) -> Nat]
  BY DEF Positions
<1> QED BY <1>1

\* How far ReadFrame has come.
LEMMA ConsumedType ==
    ASSUME FrameTypes, Reading, NEW pos, Positions(pos)
    PROVE  /\ Len(rcvd) + 1 \in 1..(Len(sent) + 1) /\ pos[Len(rcvd) + 1] \in Nat
           /\ Consumed(pos) \in Nat /\ pos[Len(sent) + 1] \in Nat
           /\ Len(sent) > 0 => pos[Len(sent)] \in Nat
<1>1. Len(rcvd) + 1 \in 1..(Len(sent) + 1) /\ Len(sent) + 1 \in 1..(Len(sent) + 1)
  BY StreamTypes DEF Reading
<1>2. pos[Len(rcvd) + 1] \in Nat /\ pos[Len(sent) + 1] \in Nat
  BY <1>1 DEF Positions
<1>3. Len(sent) > 0 => pos[Len(sent)] \in Nat
  BY StreamTypes DEF Positions
<1>4. Taken \in Nat
  BY StreamTypes
<1>5. Consumed(pos) \in Nat
  BY <1>2, <1>4, SMTT(30) DEF Consumed
<1> QED BY <1>1, <1>2, <1>3, <1>5, Zenon

\* Of the frame it is reading ReadFrame has not taken all.
LEMMA FrameUnfinished ==
    ASSUME FrameInv, result = "nil", Len(rcvd) < Len(sent)
    PROVE  Taken < Size(sent[Len(rcvd) + 1])
<1> DEFINE p == sent[Len(rcvd) + 1]
<1>1. Len(p) \in Nat /\ Size(p) = PrefixSize + Len(p)
  <2>1. Len(rcvd) + 1 \in 1..Len(sent)
    BY StreamTypes DEF FrameInv
  <2> QED BY <2>1, SentIsSeq DEF FrameInv, FrameTypes, Size
<1>2. CASE need > 0
  <2>1. /\ need \in Nat /\ Len(payload) \in Nat /\ Taken = PrefixSize + Len(payload)
        /\ need + Len(payload) = Len(p)
    BY <1>2, StreamTypes DEF FrameInv, FrameTypes, Reading, Taken
  <2> QED BY <1>1, <1>2, <2>1, FrameConstants
<1>3. CASE ~(need > 0)
  <2>1. Taken = Len(header) /\ Len(header) \in Nat
    BY <1>3, StreamTypes DEF Taken, FrameInv
  <2>2. Len(header) < PrefixSize
    <3>1. CASE header = <<>>
      BY <3>1, FrameConstants
    <3>2. CASE header # <<>>
      BY <3>2 DEF FrameInv, Reading
    <3> QED BY <3>1, <3>2
  <2> QED BY <1>1, <2>1, <2>2, FrameConstants
<1> QED BY <1>2, <1>3

\* The next byte on the wire is the next byte of the frame being read.
LEMMA NextByte ==
    ASSUME FrameInv, result = "nil", wire # <<>>
    PROVE  /\ Len(rcvd) < Len(sent)
           /\ Taken < Size(sent[Len(rcvd) + 1])
           /\ Head(wire) = Framed(sent[Len(rcvd) + 1])[Taken + 1]
<1>1. PICK pos : Positions(pos) /\ Laid(pos) /\ Ends(pos)
  BY DEF FrameInv, Whole
<1> DEFINE n == Len(sent)
           r == Len(rcvd)
<1>2. /\ n \in Nat /\ r \in Nat /\ r <= n /\ Taken \in Nat /\ Consumed(pos) \in Nat
      /\ pos[r + 1] \in Nat /\ pos[n + 1] \in Nat
      /\ n > 0 => pos[n] \in Nat
  BY <1>1, StreamTypes, ConsumedType DEF FrameInv, Reading
<1>3. Len(wire) > 0 /\ Len(Stream) > 0 /\ Len(Stream) \in Nat /\ Head(wire) = Stream[1]
  <2>1. Len(wire) \in Nat /\ Len(wire) > 0 /\ Head(wire) = wire[1]
    BY DEF FrameInv, FrameTypes
  <2>2. Stream[1] = wire[1]
    BY <2>1, Joined DEF Stream, FrameInv, FrameTypes
  <2> QED BY <2>1, <2>2, StreamTypes DEF FrameInv
<1>4. n > 0 => pos[n] <= pos[n + 1]
  <2> SUFFICES ASSUME n > 0 PROVE pos[n] <= pos[n + 1]
    OBVIOUS
  <2>1. n \in 1..n /\ Size(sent[n]) \in Nat
    BY <1>2, SentIsSeq DEF FrameInv, FrameTypes
  <2>2. pos[n + 1] = pos[n] + Size(sent[n])
    BY <1>1, <2>1, SMTT(30) DEF Positions
  <2> QED BY <1>2, <2>1, <2>2, FrameConstants
<1>5. Consumed(pos) + Len(Stream) <= pos[n + 1]
  BY <1>1, <1>2, <1>3, <1>4, SMTT(30) DEF Ends, FrameInv, FrameTypes
<1>6. r < n
  <2> SUFFICES ASSUME r = n PROVE FALSE
    BY <1>2
  <2>1. Consumed(pos) = pos[n + 1] + Taken
    BY DEF Consumed
  <2> QED BY <1>2, <1>3, <1>5, <2>1
<1>7. r + 1 \in 1..n /\ Len(sent[r + 1]) \in Nat /\ Size(sent[r + 1]) \in Nat
  BY <1>2, <1>6, SentIsSeq, SMTT(60) DEF FrameInv, FrameTypes
<1>8. Taken < Size(sent[r + 1])
  BY <1>6, FrameUnfinished
<1>9. Stream[1] = Framed(sent[r + 1])[Taken + 1]
  <2>1. Taken + 1 \in 1..Size(sent[r + 1])
    BY <1>2, <1>7, <1>8, FrameConstants
  <2>2. (pos[r + 1] + (Taken + 1)) - Consumed(pos) = 1 /\ 1 \in 1..Len(Stream)
    BY <1>2, <1>3 DEF Consumed
  <2> QED BY <1>1, <1>7, <2>1, <2>2 DEF Laid
<1> QED BY <1>3, <1>6, <1>8, <1>9

\* A byte taken from the wire leaves the rest of the stream in place.
LEMMA TakeByte ==
    ASSUME FrameInv, wire # <<>>, wire' = Tail(wire), NEW pos,
           Positions(pos), Laid(pos), Ends(pos),
           Consumed(pos)' = Consumed(pos) + 1,
           UNCHANGED <<rest, sent, broken, torn>>
    PROVE  Whole'
<1>1. /\ Consumed(pos) \in Nat /\ pos[Len(sent) + 1] \in Nat
      /\ Len(sent) > 0 => pos[Len(sent)] \in Nat
  BY ConsumedType DEF FrameInv
<1>2. /\ Len(Stream) \in Nat /\ Len(Stream)' = Len(Stream) - 1
      /\ \A i \in 1..(Len(Stream) - 1) : Stream'[i] = Stream[i + 1]
  <2>1. /\ Len(wire) \in Nat /\ Len(wire) > 0 /\ Tail(wire) \in Seq(Byte)
        /\ Len(Tail(wire)) = Len(wire) - 1
        /\ \A i \in 1..(Len(wire) - 1) : Tail(wire)[i] = wire[i + 1]
    BY FirstByte DEF FrameInv, FrameTypes
  <2>2. /\ Len(rest) \in Nat /\ Len(Stream) = Len(wire) + Len(rest)
        /\ \A i \in 1..Len(wire) : Stream[i] = wire[i]
        /\ \A i \in 1..Len(rest) : Stream[Len(wire) + i] = rest[i]
    BY Joined DEF Stream, FrameInv, FrameTypes
  <2>3. Stream' = Tail(wire) \o rest
    BY DEF Stream
  <2>4. /\ Len(Stream') = (Len(wire) - 1) + Len(rest)
        /\ \A i \in 1..(Len(wire) - 1) : Stream'[i] = Tail(wire)[i]
        /\ \A i \in 1..Len(rest) : Stream'[(Len(wire) - 1) + i] = rest[i]
    BY <2>1, <2>3, Joined DEF FrameInv, FrameTypes
  <2>5. ASSUME NEW i \in 1..(Len(Stream) - 1) PROVE Stream'[i] = Stream[i + 1]
    <3>1. CASE i <= Len(wire) - 1
      <4>1. i \in 1..(Len(wire) - 1) /\ i + 1 \in 1..Len(wire)
        BY <2>1, <2>2, <3>1
      <4> QED BY <2>1, <2>2, <2>4, <4>1
    <3>2. CASE i > Len(wire) - 1
      <4> DEFINE j == i - (Len(wire) - 1)
      <4>1. j \in 1..Len(rest) /\ (Len(wire) - 1) + j = i /\ Len(wire) + j = i + 1
        BY <2>1, <2>2, <3>2
      <4> HIDE DEF j
      <4> QED BY <2>2, <2>4, <4>1
    <3> QED BY <2>1, <3>1, <3>2
  <2> QED BY <2>1, <2>2, <2>4, <2>5
<1>3. Positions(pos)'
  BY DEF Positions, Size
<1>4. Laid(pos)'
  <2> SUFFICES ASSUME NEW k \in 1..Len(sent), NEW i \in 1..Size(sent[k]),
                      (pos[k] + i) - (Consumed(pos) + 1) \in 1..(Len(Stream) - 1)
               PROVE  Stream'[(pos[k] + i) - (Consumed(pos) + 1)] = Framed(sent[k])[i]
    BY <1>2, ZenonT(60) DEF Laid, Framed, PutUint, Size
  <2> DEFINE j == (pos[k] + i) - (Consumed(pos) + 1)
  <2>1. pos[k] \in Nat /\ i \in Int
    <3>1. k \in 1..(Len(sent) + 1)
      BY StreamTypes DEF FrameInv
    <3>2. Size(sent[k]) \in Nat
      BY SentIsSeq DEF FrameInv, FrameTypes
    <3>3. pos[k] \in Nat
      BY <3>1, PositionIsNat
    <3> QED BY <3>2, <3>3, FrameConstants
  <2>2. (pos[k] + i) - Consumed(pos) = j + 1 /\ j + 1 \in 1..Len(Stream)
    <3>1. PICK x \in Int, c \in Int, l \in Int :
             x = pos[k] + i /\ c = Consumed(pos) /\ l = Len(Stream)
      BY <1>1, <1>2, <2>1
    <3>2. j = x - (c + 1) /\ j \in 1..(l - 1)
      BY <3>1
    <3> HIDE DEF j
    <3>3. x - c = j + 1 /\ j + 1 \in 1..l
      BY <3>2
    <3> QED BY <3>1, <3>3, SMTT(60)
  <2>3. Stream'[j] = Stream[j + 1]
    BY <1>2
  <2>4. Stream[(pos[k] + i) - Consumed(pos)] = Framed(sent[k])[i]
    <3> HIDE DEF j
    <3>1. (pos[k] + i) - Consumed(pos) \in 1..Len(Stream)
      BY <2>2
    <3> QED BY <3>1, Zenon DEF Laid
  <2> QED BY <2>2, <2>3, <2>4, Zenon
<1>5. Ends(pos)'
  <2>1. Consumed(pos)' + Len(Stream)' = Consumed(pos) + Len(Stream)
    BY <1>1, <1>2
  <2> QED BY <2>1 DEF Ends
<1> QED BY <1>3, <1>4, <1>5 DEF Whole

\* Steps that leave the stream and the frame being read alone.
LEMMA StreamKept ==
    ASSUME Whole, Stream' = Stream, Taken' = Taken,
           UNCHANGED <<sent, rcvd, broken, torn>>
    PROVE  Whole'
<1>1. PICK pos : Positions(pos) /\ Laid(pos) /\ Ends(pos)
  BY DEF Whole
<1>2. Consumed(pos)' = Consumed(pos)
  BY DEF Consumed
<1>3. Positions(pos)'
  BY <1>1 DEF Positions, Size
<1>4. Laid(pos)'
  BY <1>1, <1>2, ZenonT(60) DEF Laid, Framed, PutUint, Size
<1>5. Ends(pos)'
  BY <1>1, <1>2 DEF Ends
<1> QED BY <1>3, <1>4, <1>5 DEF Whole

\* A new connection: nothing sent, nothing read.
LEMMA InitFrameInv == FramesInit => FrameInv
<1> SUFFICES ASSUME FramesInit PROVE FrameInv
  OBVIOUS
<1>1. FrameTypes
  <2>1. <<>> \in Seq(Byte) /\ <<>> \in Seq(Payload(WriteLimit))
    OBVIOUS
  <2> QED BY <2>1, Zenon DEF FramesInit, FrameTypes
<1>2. Writing /\ Reading
  BY DEF FramesInit, Writing, Reading
<1>3. Whole
  <2> DEFINE pos == [k \in 1..1 |-> 0]
  <2>1. Len(sent) = 0 /\ Len(rcvd) = 0 /\ Taken = 0 /\ Len(Stream) = 0
    BY <1>1, StreamTypes, <1>2 DEF FramesInit, Taken
  <2>2. Positions(pos)
    BY <2>1 DEF Positions
  <2>3. Laid(pos) /\ Ends(pos)
    BY <2>1 DEF FramesInit, Laid, Ends, Consumed
  <2> QED BY <2>2, <2>3 DEF Whole
<1> QED BY <1>1, <1>2, <1>3 DEF FrameInv

\* Send puts a new frame behind the others.
LEMMA SendFrameInv ==
    ASSUME FrameInv, NEW g \in Go, NEW p \in Payload(WriteLimit), Send(g, p)
    PROVE  FrameInv'
<1> DEFINE n == Len(sent)
<1>1. /\ rest = <<>> /\ ~broken /\ rest' = Framed(p) /\ sent' = Append(sent, p)
      /\ owner' = g /\ UNCHANGED <<wire, broken, torn, header, need, payload, rcvd, result>>
  BY DEF Send, Framed, FrameInv, Writing
<1>2. /\ p \in Seq(Byte) /\ Len(p) \in Nat
      /\ Framed(p) \in Seq(Byte) /\ Len(Framed(p)) = Size(p) /\ Size(p) \in Nat
  BY PayloadIsSeq, FramedIs, FrameConstants, SMTT(60)
<1>3. /\ n \in Nat /\ Len(sent') = n + 1 /\ sent' \in Seq(Payload(WriteLimit))
      /\ sent'[n + 1] = p /\ \A k \in 1..n : sent'[k] = sent[k]
  <2>1. sent \in Seq(Payload(WriteLimit))
    BY DEF FrameInv, FrameTypes
  <2> QED BY <1>1, <2>1, SMTT(60)
<1>4. FrameTypes'
  BY <1>1, <1>2, <1>3 DEF FrameInv, FrameTypes
<1>5. Writing'
  <2>1. owner' # None /\ sent' # <<>> /\ sent'[Len(sent')] = p
    BY <1>1, <1>3, FrameConfig
  <2>2. Len(rest') <= Size(p)
    BY <1>1, <1>2, SMTT(60)
  <2> QED BY <1>1, <2>1, <2>2, SMTT(60) DEF Writing, Size
<1>6. Reading'
  <2> DEFINE r == Len(rcvd)
  <2>1. r \in Nat /\ r <= n /\ (r < n => sent'[r + 1] = sent[r + 1])
    <3>1. r \in Nat
      BY StreamTypes DEF FrameInv
    <3>2. r <= n
      BY DEF FrameInv, Reading
    <3>3. r < n => r + 1 \in 1..n
      BY <1>3, <3>1
    <3> QED BY <1>3, <3>1, <3>2, <3>3, Zenon
  <2>2. \A k \in 1..r : sent'[k] = sent[k]
    BY <1>3, <2>1
  <2>3. result \notin {"EOF", "UnexpectedEOF"}
    BY <1>1, ZenonT(60) DEF FrameInv, Reading
  <2>4. PutUint(Len(sent[r + 1]))' = PutUint(Len(sent'[r + 1]))
    BY <1>1 DEF PutUint
  <2>5. \A k \in 1..r : rcvd[k] = sent'[k]
    <3>1. \A k \in 1..r : rcvd[k] = sent[k]
      BY DEF FrameInv, Reading
    <3> QED BY <2>2, <3>1
  <2>6. need > 0 =>
          /\ r < n /\ header = <<>> /\ result # "TooLarge"
          /\ need + Len(payload) = Len(sent'[r + 1]) /\ Len(sent'[r + 1]) <= MaxFrameSize
          /\ \A i \in 1..Len(payload) : payload[i] = sent'[r + 1][i]
    BY <2>1, Zenon DEF FrameInv, Reading
  <2>7. header # <<>> =>
          /\ r < n /\ Len(header) < PrefixSize /\ result # "TooLarge"
          /\ \A i \in 1..Len(header) : header[i] = PutUint(Len(sent'[r + 1]))[i]
    BY <2>1, Zenon DEF FrameInv, Reading
  <2>8. result = "TooLarge" => r < n /\ Len(sent'[r + 1]) > MaxFrameSize
    BY <2>1, Zenon DEF FrameInv, Reading
  <2>9. need = 0 => payload = <<>>
    BY DEF FrameInv, Reading
  <2>10. r <= n + 1 /\ (r < n => r < n + 1)
    BY <1>3, <2>1
  <2> QED BY <1>1, <1>3, <2>3, <2>4, <2>5, <2>6, <2>7, <2>8, <2>9, <2>10, SMTT(60) DEF Reading
<1>7. PICK pos : Positions(pos) /\ Laid(pos) /\ Ends(pos)
  BY DEF FrameInv, Whole
<1> DEFINE size == Size(p)
<1>8. PICK new : /\ new \in [1..(n + 2) -> Nat]
                 /\ \A k \in 1..(n + 1) : new[k] = pos[k]
                 /\ new[n + 2] = pos[n + 1] + size
  <2> DEFINE f == [k \in 1..(n + 2) |-> IF k <= n + 1 THEN pos[k] ELSE pos[n + 1] + size]
  <2>1. n + 1 \in 1..(n + 1) /\ \A k \in 1..(n + 1) : pos[k] \in Nat
    BY <1>3, <1>7, PositionIsNat
  <2>2. pos[n + 1] + size \in Nat
    BY <1>2, <2>1, FrameConstants
  <2>3. f \in [1..(n + 2) -> Nat]
    <3> SUFFICES ASSUME NEW k \in 1..(n + 2)
                 PROVE  (IF k <= n + 1 THEN pos[k] ELSE pos[n + 1] + size) \in Nat
      OBVIOUS
    <3>1. k <= n + 1 => k \in 1..(n + 1)
      BY <1>3
    <3> QED BY <2>1, <2>2, <3>1
  <2>4. (\A k \in 1..(n + 1) : f[k] = pos[k]) /\ f[n + 2] = pos[n + 1] + size
    BY <1>3
  <2> QED BY <2>3, <2>4
<1>a. /\ Consumed(pos) \in Nat /\ pos[n + 1] \in Nat /\ size \in Nat
      /\ Len(rcvd) + 1 \in 1..(n + 1) /\ n + 1 \in 1..(n + 1)
      /\ \A k \in 1..(n + 1) : pos[k] \in Nat
  <2>1. Consumed(pos) \in Nat /\ Len(rcvd) + 1 \in 1..(n + 1)
    BY <1>7, ConsumedType DEF FrameInv
  <2>2. n + 1 \in 1..(n + 1) /\ size \in Nat
    BY <1>2, <1>3, FrameConstants
  <2> QED BY <1>7, <2>1, <2>2, PositionIsNat
<1>b. new[n + 1] = pos[n + 1] /\ new[Len(rcvd) + 1] = pos[Len(rcvd) + 1]
  BY <1>8, <1>a
<1>9. Consumed(new)' = Consumed(pos)
  <2>1. Taken' = Taken
    BY <1>1 DEF Taken
  <2> QED BY <1>1, <1>b, <2>1 DEF Consumed
<1>10. /\ Len(Stream) = Len(wire) /\ Len(wire) \in Nat /\ Len(Stream)' = Len(wire) + size
       /\ \A i \in 1..Len(wire) : Stream'[i] = wire[i] /\ Stream[i] = wire[i]
       /\ \A i \in 1..size : Stream'[Len(wire) + i] = Framed(p)[i]
  <2>1. wire \in Seq(Byte) /\ rest \in Seq(Byte) /\ Len(rest) = 0
    BY <1>1 DEF FrameInv, FrameTypes
  <2>2. Stream' = wire \o Framed(p)
    BY <1>1 DEF Stream
  <2>3. /\ Len(Stream') = Len(wire) + size /\ Len(wire) \in Nat
        /\ \A i \in 1..Len(wire) : Stream'[i] = wire[i]
        /\ \A i \in 1..size : Stream'[Len(wire) + i] = Framed(p)[i]
    <3> DEFINE q == Framed(p)
    <3> HIDE DEF q
    <3>1. q \in Seq(Byte) /\ Len(q) = size /\ Stream' = wire \o q
      BY <1>2, <2>2 DEF q
    <3>2. /\ Len(wire \o q) = Len(wire) + Len(q) /\ Len(wire) \in Nat
          /\ \A i \in 1..Len(wire) : (wire \o q)[i] = wire[i]
          /\ \A i \in 1..Len(q) : (wire \o q)[Len(wire) + i] = q[i]
      BY <2>1, <3>1, Joined, ZenonT(60)
    <3> HIDE DEF size
    <3> QED BY <3>1, <3>2 DEF q
  <2>4. /\ Len(Stream) = Len(wire)
        /\ \A i \in 1..Len(wire) : Stream[i] = wire[i]
    BY <2>1, Joined, SMTT(60) DEF Stream
  <2> QED BY <2>3, <2>4
<1>11. Consumed(pos) + Len(wire) = pos[n + 1] /\ ~torn
  BY <1>1, <1>7, <1>10, ZenonT(60) DEF Ends
<1>12. \A k \in 1..n : Size(sent[k]) \in Nat /\ pos[k] + Size(sent[k]) <= pos[n + 1]
  <2> SUFFICES ASSUME NEW k \in 1..n
               PROVE  Size(sent[k]) \in Nat /\ pos[k] + Size(sent[k]) <= pos[n + 1]
    OBVIOUS
  <2>1. k \in 1..(n + 1) /\ n + 1 \in 1..(n + 1) /\ k < n + 1
    BY <1>3
  <2> QED BY <1>7, <2>1, SentIsSeq DEF Positions, FrameInv, FrameTypes
<1>13. Positions(new)'
  <2>1. ASSUME NEW k \in 1..(n + 1)
        PROVE  new[k + 1] = new[k] + Size(sent'[k])
    <3>1. CASE k = n + 1
      BY <1>2, <1>3, <1>8, <1>a, <1>b, <3>1, FrameConstants, SMTT(30)
    <3>2. CASE k # n + 1
      <4>1. k \in 1..n /\ k + 1 \in 1..(n + 1)
        BY <1>3, <3>2
      <4> QED BY <1>3, <1>7, <1>8, <1>a, <1>b, <4>1, ZenonT(60) DEF Positions
    <3> QED BY <3>1, <3>2, SMTT(60)
  <2>2. ASSUME NEW j \in 1..(n + 2), NEW k \in 1..(n + 2), j < k
        PROVE  new[j] + Size(sent'[j]) <= new[k]
    <3>1. CASE k # n + 2
      <4>1. k \in 1..(n + 1) /\ j \in 1..n /\ j \in 1..(n + 1)
        BY <1>3, <2>2, <3>1, SMTT(60)
      <4> QED BY <1>3, <1>7, <1>8, <1>a, <1>b, <2>2, <4>1 DEF Positions
    <3>2. CASE k = n + 2 /\ j = n + 1
      BY <1>2, <1>3, <1>8, <1>a, <1>b, <3>2, FrameConstants, SMTT(60)
    <3>3. CASE k = n + 2 /\ j # n + 1
      <4>1. j \in 1..n /\ j \in 1..(n + 1)
        BY <1>3, <2>2, <3>3
      <4>2. /\ new[j] = pos[j] /\ sent'[j] = sent[j]
            /\ new[k] = pos[n + 1] + size /\ pos[j] \in Nat
        BY <1>3, <1>8, <1>a, <3>3, <4>1
      <4>3. Size(sent[j]) \in Nat /\ pos[j] + Size(sent[j]) <= pos[n + 1]
        BY <1>12, <4>1
      <4> HIDE DEF size
      <4> QED BY <1>a, <4>2, <4>3, SMTT(30)
    <3> QED BY <3>1, <3>2, <3>3, SMTT(60)
  <2>3. n + 1 + 1 = n + 2
    BY <1>3
  <2> QED BY <1>3, <1>8, <1>a, <1>b, <2>1, <2>2, <2>3 DEF Positions, Size
<1>14. Laid(new)'
  <2> SUFFICES ASSUME NEW k \in 1..(n + 1), NEW i \in 1..Size(sent'[k]),
                      (new[k] + i) - Consumed(pos) \in 1..(Len(wire) + size)
               PROVE  Stream'[(new[k] + i) - Consumed(pos)] = Framed(sent'[k])[i]
    <3>1. Len(sent') = n + 1 /\ Len(Stream') = Len(wire) + size /\ Consumed(new)' = Consumed(pos)
      BY <1>3, <1>9, <1>10, ZenonT(60)
    <3> HIDE DEF size, n
    <3> QED BY <3>1, ZenonT(60) DEF Laid, Framed, PutUint, Size
  <2>1. CASE k = n + 1
    <3>1. i \in 1..size /\ (new[k] + i) - Consumed(pos) = Len(wire) + i
      <4>1. new[k] = pos[n + 1] /\ sent'[k] = p
        BY <1>3, <1>b, <2>1
      <4>2. i \in Int
        BY <1>2, <4>1, FrameConstants
      <4>3. i \in 1..size
        BY <4>1, SMTT(60)
      <4>4. PICK x \in Int, c \in Int, l \in Int :
               x = pos[n + 1] /\ c = Consumed(pos) /\ l = Len(wire)
        BY <1>a, <1>10
      <4>5. (x + i) - c = l + i
        BY <1>11, <4>2, <4>4, SMTT(60)
      <4> QED BY <4>1, <4>3, <4>4, <4>5
    <3> QED BY <1>3, <1>10, <2>1, <3>1, ZenonT(60)
  <2>2. CASE k # n + 1
    <3>1. k \in 1..n /\ k \in 1..(n + 1) /\ sent'[k] = sent[k]
      BY <1>3, <2>2
    <3>2. i \in 1..Size(sent[k]) /\ Size(sent[k]) \in Nat
      BY <1>12, <3>1, SMTT(60)
    <3>3. (pos[k] + i) - Consumed(pos) \in 1..Len(wire) /\ new[k] = pos[k]
      <4>1. new[k] = pos[k] /\ pos[k] \in Nat
        BY <1>8, <1>a, <3>1, Zenon
      <4>2. pos[k] + Size(sent[k]) <= pos[n + 1]
        BY <1>12, <3>1
      <4>3. pos[k] + i <= pos[n + 1] /\ pos[k] + i \in Int
        <5>1. i \in Int /\ i <= Size(sent[k]) /\ pos[n + 1] \in Int
          BY <1>a, <3>2
        <5> QED BY <3>2, <4>1, <4>2, <5>1
      <4>4. (pos[k] + i) - Consumed(pos) <= Len(wire) /\ (pos[k] + i) - Consumed(pos) >= 1
        <5> DEFINE x == pos[k] + i
                   c == Consumed(pos)
        <5>1. x \in Int /\ c \in Nat /\ Len(wire) \in Nat /\ x <= c + Len(wire)
          BY <1>a, <1>10, <1>11, <4>3, SMTT(60)
        <5>2. x - c \in 1..(Len(wire) + size)
          BY <4>1
        <5> HIDE DEF x, c
        <5>3. x - c <= Len(wire) /\ x - c >= 1
          <6>1. size \in Nat
            BY <1>a
          <6> QED BY <5>1, <5>2, <6>1
        <5> QED BY <5>3, SMTT(60) DEF x, c
      <4> QED BY <1>a, <1>10, <4>1, <4>3, <4>4
    <3> QED BY <1>7, <1>10, <3>1, <3>2, <3>3, SMTT(60) DEF Laid
  <2> QED BY <2>1, <2>2
<1>15. Ends(new)'
  <2>1. Consumed(new)' + Len(Stream)' = pos[n + 1] + size
    <3>1. Consumed(pos) + (Len(wire) + size) = (Consumed(pos) + Len(wire)) + size
      BY <1>a, <1>10, SMTT(60)
    <3> QED BY <1>9, <1>10, <1>11, <3>1, Zenon
  <2>2. ~broken' /\ ~torn' /\ Len(sent') = n + 1
    BY <1>1, <1>3, <1>11, Zenon
  <2>3. Consumed(new)' + Len(Stream)' = new[Len(sent') + 1]
    <3>1. (n + 1) + 1 = n + 2
      BY <1>3
    <3> QED BY <1>8, <2>1, <2>2, <3>1, Zenon
  <2> QED BY <2>2, <2>3, Zenon DEF Ends
<1> QED BY <1>4, <1>5, <1>6, <1>13, <1>14, <1>15 DEF FrameInv, Whole

\* A byte moves from the writer's buffer to the wire.
LEMMA WriteByteFrameInv ==
    ASSUME FrameInv, WriteByte
    PROVE  FrameInv'
<1>1. /\ rest # <<>> /\ wire' = Append(wire, Head(rest)) /\ rest' = Tail(rest)
      /\ owner' = IF Len(rest) = 1 THEN None ELSE owner
      /\ UNCHANGED <<sent, broken, torn, header, need, payload, rcvd, result>>
  BY DEF WriteByte
<1>2. /\ Len(rest) \in Nat /\ Len(rest) > 0 /\ Head(rest) \in Byte /\ Head(rest) = rest[1]
      /\ Tail(rest) \in Seq(Byte) /\ Len(Tail(rest)) = Len(rest) - 1
      /\ \A i \in 1..(Len(rest) - 1) : Tail(rest)[i] = rest[i + 1]
      /\ Len(wire) \in Nat /\ wire' \in Seq(Byte) /\ Len(wire') = Len(wire) + 1
      /\ wire'[Len(wire) + 1] = Head(rest) /\ \A i \in 1..Len(wire) : wire'[i] = wire[i]
  <2>1. rest \in Seq(Byte) /\ wire \in Seq(Byte)
    BY DEF FrameInv, FrameTypes
  <2>2. /\ Len(rest) \in Nat /\ Len(rest) > 0 /\ Head(rest) \in Byte /\ Head(rest) = rest[1]
        /\ Tail(rest) \in Seq(Byte) /\ Len(Tail(rest)) = Len(rest) - 1
        /\ \A i \in 1..(Len(rest) - 1) : Tail(rest)[i] = rest[i + 1]
    BY <1>1, <2>1, FirstByte
  <2> QED BY <1>1, <2>1, <2>2, LastByte, SMTT(60)
<1>3. FrameTypes'
  BY <1>1, <1>2 DEF FrameInv, FrameTypes
<1>4. Writing'
  <2>1. rest' # <<>> => Len(rest) # 1
    <3> SUFFICES ASSUME Len(rest) = 1 PROVE rest' = <<>>
      OBVIOUS
    <3>1. Len(Tail(rest)) = 0
      BY <1>2
    <3> QED BY <1>1, <1>2, <3>1
  <2>2. ~broken /\ owner # None /\ sent # <<>> /\ Len(rest) <= Size(sent[Len(sent)])
    BY <1>1 DEF FrameInv, Writing
  <2>3. Size(sent[Len(sent)]) \in Nat
    <3>1. Len(sent) \in 1..Len(sent)
      BY <2>2 DEF FrameInv, FrameTypes
    <3> QED BY <3>1, SentIsSeq DEF FrameInv, FrameTypes
  <2>4. Len(rest') <= Size(sent[Len(sent)])
    BY <1>1, <1>2, <2>2, <2>3
  <2> QED BY <1>1, <2>1, <2>2, <2>4 DEF Writing, Size
<1>5. Reading'
  BY <1>1, ZenonT(60) DEF FrameInv, Reading, PutUint
<1>6. Stream' = Stream
  <2>1. /\ Stream \in Seq(Byte) /\ Len(Stream) = Len(wire) + Len(rest)
        /\ \A i \in 1..Len(wire) : Stream[i] = wire[i]
        /\ \A i \in 1..Len(rest) : Stream[Len(wire) + i] = rest[i]
    BY Joined DEF Stream, FrameInv, FrameTypes
  <2>2. /\ Stream' \in Seq(Byte) /\ Len(Stream') = Len(wire') + Len(rest')
        /\ \A i \in 1..Len(wire') : Stream'[i] = wire'[i]
        /\ \A i \in 1..Len(rest') : Stream'[Len(wire') + i] = rest'[i]
    BY <1>3, Joined DEF Stream, FrameTypes
  <2>3. Len(Stream') = Len(Stream)
    BY <1>1, <1>2, <2>1, <2>2
  <2>4. ASSUME NEW i \in 1..Len(Stream) PROVE Stream'[i] = Stream[i]
    <3>0. i \in Int /\ 1 <= i /\ i <= Len(wire) + Len(rest)
      BY <1>2, <2>1
    <3>1. CASE i <= Len(wire)
      <4>1. i \in 1..Len(wire) /\ i \in 1..Len(wire')
        BY <1>2, <3>0, <3>1
      <4> QED BY <1>2, <2>1, <2>2, <4>1
    <3>2. CASE i = Len(wire) + 1
      <4>1. 1 \in 1..Len(rest) /\ i \in 1..Len(wire')
        BY <1>2, <3>0, <3>2
      <4>2. Stream[Len(wire) + 1] = rest[1]
        BY <2>1, <4>1
      <4>3. Stream'[i] = Head(rest)
        BY <1>2, <2>2, <3>2, <4>1
      <4> QED BY <1>2, <3>2, <4>2, <4>3
    <3>3. CASE i > Len(wire) + 1
      <4> DEFINE j == i - (Len(wire) + 1)
      <4>1. /\ j \in 1..(Len(rest) - 1) /\ j + 1 \in 1..Len(rest)
            /\ (Len(wire) + 1) + j = i /\ Len(wire) + (j + 1) = i
        BY <1>2, <3>0, <3>3
      <4> HIDE DEF j
      <4>2. Stream'[(Len(wire) + 1) + j] = Tail(rest)[j]
        BY <1>1, <1>2, <2>2, <4>1, Zenon
      <4>3. Stream[Len(wire) + (j + 1)] = rest[j + 1]
        BY <2>1, <4>1
      <4> QED BY <1>2, <4>1, <4>2, <4>3
    <3> QED BY <1>2, <3>0, <3>1, <3>2, <3>3
  <2> QED BY <2>1, <2>2, <2>3, <2>4, SameBytes, ZenonT(60)
<1>7. Taken' = Taken
  BY <1>1 DEF Taken
<1>8. Whole'
  BY <1>1, <1>6, <1>7, StreamKept DEF FrameInv
<1> QED BY <1>3, <1>4, <1>5, <1>8 DEF FrameInv

\* The connection ends: what Write still had is lost, and torn says whether that was
\* a part of a frame.
LEMMA BreakFrameInv ==
    ASSUME FrameInv, Break
    PROVE  FrameInv'
<1> DEFINE n == Len(sent)
<1>1. /\ ~broken /\ broken' = TRUE /\ owner' = None /\ rest' = <<>>
      /\ torn' = (rest # <<>> /\ Len(rest) < PrefixSize + Len(sent[Len(sent)]))
      /\ UNCHANGED <<sent, wire, header, need, payload, rcvd, result>>
  BY DEF Break
<1>2. /\ rest \in Seq(Byte) /\ wire \in Seq(Byte) /\ <<>> \in Seq(Byte) /\ Len(<<>>) = 0
      /\ Len(rest) \in Nat /\ Len(wire) \in Nat /\ n \in Nat
      /\ rest = <<>> <=> Len(rest) = 0
  BY DEF FrameInv, FrameTypes
<1>3. FrameTypes'
  BY <1>1, <1>2 DEF FrameInv, FrameTypes
<1>4. Writing'
  BY <1>1, SMTT(60) DEF Writing
<1>5. Reading'
  <2>1. result \notin {"EOF", "UnexpectedEOF"}
    BY <1>1 DEF FrameInv, Reading
  <2> QED BY <1>1, <2>1, SMTT(60) DEF FrameInv, Reading, PutUint
<1>6. PICK pos : Positions(pos) /\ Laid(pos) /\ Ends(pos)
  BY DEF FrameInv, Whole
<1>7. Consumed(pos)' = Consumed(pos) /\ Positions(pos)'
  BY <1>1, <1>6 DEF Consumed, Taken, Positions, Size
<1>8. /\ Len(Stream) = Len(wire) + Len(rest) /\ Len(Stream') = Len(wire)
      /\ \A i \in 1..Len(wire) : Stream[i] = wire[i] /\ Stream'[i] = wire[i]
  <2>1. /\ Len(Stream) = Len(wire) + Len(rest)
        /\ \A i \in 1..Len(wire) : Stream[i] = wire[i]
    BY <1>2, Joined DEF Stream
  <2>2. Stream' = wire \o <<>>
    BY <1>1 DEF Stream
  <2>3. Len(Stream') = Len(wire) /\ \A i \in 1..Len(wire) : Stream'[i] = wire[i]
    BY <1>2, <2>2, Joined
  <2> QED BY <2>1, <2>3
<1>9. Laid(pos)'
  <2>1. 1..Len(wire) \subseteq 1..Len(Stream)
    BY <1>2, <1>8
  <2> QED BY <1>1, <1>6, <1>7, <1>8, <2>1, ZenonT(60) DEF Laid, Framed, PutUint, Size
<1>10. Ends(pos)'
  <2>1. /\ Consumed(pos) \in Nat /\ pos[n + 1] \in Nat /\ ~torn
        /\ Consumed(pos) + (Len(wire) + Len(rest)) = pos[n + 1]
    BY <1>1, <1>6, <1>8, ConsumedType, ZenonT(60) DEF Ends, FrameInv
  <2>2. CASE rest = <<>>
    <3>1. ~torn' /\ Consumed(pos) + Len(wire) = pos[n + 1]
      <4>1. ~torn'
        BY <1>1, <2>2, Zenon
      <4>2. Len(rest) = 0
        BY <1>2, <2>2, SMTT(60)
      <4> QED BY <1>2, <2>1, <4>1, <4>2
    <3> QED BY <1>1, <1>7, <1>8, <3>1 DEF Ends
  <2>3. CASE rest # <<>>
    <3>1. n > 0 /\ n \in 1..n /\ Len(rest) <= Size(sent[n])
      BY <1>2, <2>3, SMTT(30) DEF FrameInv, FrameTypes, Writing
    <3>2. Size(sent[n]) \in Nat /\ pos[n] \in Nat /\ pos[n + 1] = pos[n] + Size(sent[n])
      <4>1. n \in 1..(n + 1)
        BY <1>2, <3>1
      <4> QED BY <1>6, <3>1, <4>1, SentIsSeq, PositionIsNat DEF Positions, FrameInv, FrameTypes
    <3>3. torn' <=> Len(rest) < Size(sent[n])
      BY <1>1, <2>3, Zenon DEF Size
    <3>4. torn' => pos[n] < Consumed(pos) + Len(wire) /\ Consumed(pos) + Len(wire) < pos[n + 1]
      BY <1>2, <2>1, <2>3, <3>2, <3>3
    <3>5. ~torn' => Consumed(pos) + Len(wire) = pos[n]
      <4> SUFFICES ASSUME ~torn' PROVE Consumed(pos) + Len(wire) = pos[n]
        OBVIOUS
      <4>1. Len(rest) = Size(sent[n])
        BY <1>2, <3>1, <3>2, <3>3
      <4>2. Consumed(pos) + (Len(wire) + Size(sent[n])) = pos[n] + Size(sent[n])
        BY <2>1, <3>2, <4>1
      <4>3. Consumed(pos) \in Nat /\ Len(wire) \in Nat
        BY <1>2, <2>1
      <4> QED BY <3>2, <4>2, <4>3, SMTT(60)
    <3> QED BY <1>1, <1>7, <1>8, <3>1, <3>4, <3>5 DEF Ends
  <2> QED BY <2>2, <2>3
<1> QED BY <1>3, <1>4, <1>5, <1>7, <1>9, <1>10 DEF FrameInv, Whole

\* A byte of the length prefix.
LEMMA ReadHeaderFrameInv ==
    ASSUME FrameInv, ReadHeader
    PROVE  FrameInv'
<1> DEFINE r == Len(rcvd)
           p == sent[r + 1]
           h == Append(header, Head(wire))
<1>1. /\ result = "nil" /\ need = 0 /\ wire # <<>> /\ wire' = Tail(wire)
      /\ \/ /\ Len(h) < PrefixSize /\ header' = h
            /\ UNCHANGED <<need, rcvd, result>>
         \/ /\ Len(h) = PrefixSize /\ header' = <<>>
            /\ result' = IF TooLarge(Uint(h)) THEN "TooLarge" ELSE "nil"
            /\ need' = IF TooLarge(Uint(h)) THEN 0 ELSE Uint(h)
            /\ rcvd' = IF Uint(h) = 0 THEN Append(rcvd, <<>>) ELSE rcvd
      /\ UNCHANGED <<owner, rest, sent, broken, torn, payload>>
  BY DEF ReadHeader
<1>2. r < Len(sent) /\ Head(wire) = Framed(p)[Taken + 1]
  BY <1>1, NextByte
<1>3. /\ r \in Nat /\ Len(sent) \in Nat /\ Len(header) \in Nat /\ r + 1 \in 1..Len(sent)
      /\ Taken = Len(header) /\ payload = <<>>
  <2>1. r \in Nat /\ Len(sent) \in Nat /\ Len(header) \in Nat
    BY StreamTypes, SMTT(30) DEF FrameInv
  <2>2. Taken = Len(header) /\ payload = <<>>
    BY <1>1 DEF Taken, FrameInv, Reading
  <2> QED BY <1>2, <2>1, <2>2
<1>4. /\ p \in Payload(WriteLimit) /\ p \in Seq(Byte) /\ Len(p) \in 0..WriteLimit
      /\ Len(p) \in Nat /\ Size(p) \in Nat
  BY <1>3, SentIsSeq, SMTT(60) DEF FrameInv, FrameTypes
<1>5. /\ PutUint(Len(p)) \in Seq(Byte) /\ Len(PutUint(Len(p))) = PrefixSize
      /\ \A i \in 1..PrefixSize : Framed(p)[i] = PutUint(Len(p))[i]
  BY <1>4, PutUintType, FramedIs, ZenonT(60)
<1>6. /\ Head(wire) \in Byte /\ h \in Seq(Byte) /\ Len(h) = Len(header) + 1
      /\ h[Len(header) + 1] = Head(wire) /\ \A i \in 1..Len(header) : h[i] = header[i]
      /\ Tail(wire) \in Seq(Byte)
  <2>1. wire \in Seq(Byte) /\ header \in Seq(Byte)
    BY DEF FrameInv, FrameTypes
  <2>2. Head(wire) \in Byte /\ Tail(wire) \in Seq(Byte)
    BY <1>1, <2>1, FirstByte
  <2> QED BY <2>1, <2>2, LastByte, SMTT(60)
<1>7. Len(h) <= PrefixSize /\ \A i \in 1..Len(h) : h[i] = PutUint(Len(p))[i]
  <2>1. Len(header) < PrefixSize
    <3>1. CASE header = <<>>
      BY <3>1, FrameConstants
    <3>2. CASE header # <<>>
      BY <3>2 DEF FrameInv, Reading
    <3> QED BY <3>1, <3>2
  <2>2. \A i \in 1..Len(header) : header[i] = PutUint(Len(p))[i]
    BY DEF FrameInv, Reading
  <2>3. Len(header) + 1 \in 1..PrefixSize
    BY <1>3, <2>1, FrameConstants
  <2>4. Head(wire) = PutUint(Len(p))[Len(header) + 1]
    BY <1>2, <1>3, <1>5, <2>3
  <2>5. ASSUME NEW i \in 1..Len(h) PROVE h[i] = PutUint(Len(p))[i]
    <3>1. i = Len(header) + 1 \/ i \in 1..Len(header)
      BY <1>3, <1>6
    <3> QED BY <1>6, <2>2, <2>4, <3>1
  <2> QED BY <1>6, <2>3, <2>5, <1>3, FrameConstants
<1> HIDE DEF h
<1>8. PICK pos : Positions(pos) /\ Laid(pos) /\ Ends(pos)
  BY DEF FrameInv, Whole
<1>9. /\ pos[r + 1] \in Nat /\ Consumed(pos) = pos[r + 1] + Len(header)
      /\ pos[(r + 1) + 1] = pos[r + 1] + Size(p)
  BY <1>3, <1>8, ConsumedType DEF FrameInv, Positions, Consumed
<1>10. CASE /\ Len(h) < PrefixSize /\ header' = h
            /\ UNCHANGED <<need, rcvd, result>>
  <2>1. FrameTypes' /\ Writing'
    BY <1>1, <1>6, <1>10, SMTT(60) DEF FrameInv, FrameTypes, Writing, Size
  <2>2. Reading'
    <3>1. UNCHANGED <<rcvd, sent, need, payload, result, broken, torn>> /\ need = 0 /\ result = "nil"
      BY <1>1, <1>10
    <3> QED BY <1>2, <1>7, <1>10, <3>1 DEF FrameInv, Reading, PutUint
  <2>3. Consumed(pos)' = Consumed(pos) + 1
    <3>1. Taken' = Len(header) + 1 /\ rcvd' = rcvd
      BY <1>1, <1>6, <1>10 DEF Taken
    <3>2. Consumed(pos)' = pos[r + 1] + (Len(header) + 1)
      BY <3>1 DEF Consumed
    <3>3. pos[r + 1] + (Len(header) + 1) = (pos[r + 1] + Len(header)) + 1
      BY <1>3, <1>9
    <3>4. Consumed(pos) = pos[r + 1] + Len(header)
      BY <1>9
    <3> QED BY <3>2, <3>3, <3>4, Zenon
  <2> QED BY <1>1, <1>8, <2>1, <2>2, <2>3, TakeByte, SMTT(60) DEF FrameInv
<1>11. CASE /\ Len(h) = PrefixSize /\ header' = <<>>
            /\ result' = IF TooLarge(Uint(h)) THEN "TooLarge" ELSE "nil"
            /\ need' = IF TooLarge(Uint(h)) THEN 0 ELSE Uint(h)
            /\ rcvd' = IF Uint(h) = 0 THEN Append(rcvd, <<>>) ELSE rcvd
  <2>1. Uint(h) = Len(p)
    <3>1. h = PutUint(Len(p))
      BY <1>5, <1>6, <1>7, <1>11, SameBytes
    <3> QED BY <1>4, <3>1, LengthDecoded, SMTT(30)
  <2>2. Len(header) + 1 = PrefixSize
    BY <1>6, <1>11, SMTT(60)
  <2>3. CASE Len(p) = 0
    <3>1. /\ result' = "nil" /\ need' = 0 /\ rcvd' = Append(rcvd, <<>>) /\ header' = <<>>
          /\ p = <<>>
      BY <1>4, <1>11, <2>1, <2>3, FrameConstants DEF TooLarge
    <3>2. /\ Len(rcvd') = r + 1 /\ rcvd' \in Seq(Payload(WriteLimit)) /\ rcvd'[r + 1] = p
          /\ \A k \in 1..r : rcvd'[k] = rcvd[k]
      BY <1>4, <3>1, SMTT(30) DEF FrameInv, FrameTypes
    <3>3. FrameTypes' /\ Writing'
      BY <1>1, <1>6, <3>1, <3>2, SMTT(30) DEF FrameInv, FrameTypes, Writing, Size
    <3>4. Reading'
      <4>1. \A k \in 1..(r + 1) : rcvd'[k] = sent[k]
        <5> SUFFICES ASSUME NEW k \in 1..(r + 1) PROVE rcvd'[k] = sent[k]
          OBVIOUS
        <5>1. k = r + 1 \/ k \in 1..r
          BY <1>3
        <5> QED BY <3>2, <5>1 DEF FrameInv, Reading
      <4>2. r + 1 <= Len(sent)
        BY <1>3
      <4> QED BY <1>1, <1>3, <3>1, <3>2, <4>1, <4>2, SMTT(30) DEF Reading
    <3>5. Consumed(pos)' = Consumed(pos) + 1
      <4>1. Taken' = 0
        BY <3>1 DEF Taken
      <4>2. Consumed(pos)' = pos[(r + 1) + 1]
        BY <1>3, <1>4, <1>9, <3>2, <4>1 DEF Consumed
      <4>3. Size(p) = PrefixSize
        BY <2>3, FrameConstants DEF Size
      <4> QED BY <1>3, <1>9, <2>2, <4>2, <4>3, FrameConstants, SMTT(30)
    <3> QED BY <1>1, <1>8, <3>3, <3>4, <3>5, TakeByte DEF FrameInv
  <2>4. CASE Len(p) # 0
    <3>1. /\ rcvd' = rcvd /\ header' = <<>>
          /\ result' = IF Len(p) > MaxFrameSize THEN "TooLarge" ELSE "nil"
          /\ need' = IF Len(p) > MaxFrameSize THEN 0 ELSE Len(p)
      BY <1>11, <2>1, <2>4, SMTT(60) DEF TooLarge
    <3>2. FrameTypes' /\ Writing'
      BY <1>1, <1>4, <1>6, <3>1, SMTT(60) DEF FrameInv, FrameTypes, Writing, Size
    <3>3. Reading'
      <4>1. r <= Len(sent) /\ \A k \in 1..r : rcvd[k] = sent[k]
        BY DEF FrameInv, Reading
      <4>2. need' > 0 => Len(p) <= MaxFrameSize /\ result' = "nil" /\ need' + Len(payload) = Len(p)
        BY <1>3, <1>4, <3>1, FrameConstants
      <4>3. result' = "TooLarge" => Len(p) > MaxFrameSize
        BY <3>1
      <4>4. result' \notin {"EOF", "UnexpectedEOF"} /\ payload' = <<>> /\ sent' = sent
        BY <1>1, <1>3, <3>1
      <4> QED BY <1>2, <3>1, <4>1, <4>2, <4>3, <4>4, SMTT(60) DEF Reading
    <3>4. Consumed(pos)' = Consumed(pos) + 1
      <4>1. Taken' = PrefixSize
        BY <1>1, <1>3, <1>4, <2>4, <3>1, FrameConstants DEF Taken
      <4>2. Consumed(pos)' = pos[r + 1] + PrefixSize
        BY <3>1, <4>1 DEF Consumed
      <4>3. Len(header) + 1 = PrefixSize
        BY <2>2
      <4>4. pos[r + 1] + (Len(header) + 1) = (pos[r + 1] + Len(header)) + 1
        BY <1>3, <1>9
      <4>5. Consumed(pos) = pos[r + 1] + Len(header)
        BY <1>9
      <4> QED BY <4>2, <4>3, <4>4, <4>5, Zenon
    <3> QED BY <1>1, <1>8, <3>2, <3>3, <3>4, TakeByte DEF FrameInv
  <2> QED BY <2>3, <2>4
<1> QED BY <1>1, <1>10, <1>11

\* A byte of the payload.
LEMMA ReadPayloadFrameInv ==
    ASSUME FrameInv, ReadPayload
    PROVE  FrameInv'
<1> DEFINE r == Len(rcvd)
           p == sent[r + 1]
           q == Append(payload, Head(wire))
<1>1. /\ result = "nil" /\ need > 0 /\ wire # <<>> /\ wire' = Tail(wire) /\ need' = need - 1
      /\ IF need = 1 THEN payload' = <<>> /\ rcvd' = Append(rcvd, q)
                     ELSE payload' = q /\ rcvd' = rcvd
      /\ UNCHANGED <<owner, rest, sent, broken, torn, header, result>>
  BY DEF ReadPayload
<1>2. r < Len(sent) /\ Head(wire) = Framed(p)[Taken + 1]
  BY <1>1, NextByte
<1>3. /\ r \in Nat /\ Len(sent) \in Nat /\ Len(payload) \in Nat /\ r + 1 \in 1..Len(sent)
      /\ need \in Nat /\ need > 0
      /\ Taken = PrefixSize + Len(payload) /\ header = <<>> /\ need + Len(payload) = Len(p)
      /\ Len(p) <= MaxFrameSize /\ \A i \in 1..Len(payload) : payload[i] = p[i]
  <2>1. r \in Nat /\ Len(sent) \in Nat /\ Len(payload) \in Nat
    BY StreamTypes DEF FrameInv
  <2>2. /\ Taken = PrefixSize + Len(payload) /\ header = <<>> /\ need + Len(payload) = Len(p)
        /\ Len(p) <= MaxFrameSize /\ \A i \in 1..Len(payload) : payload[i] = p[i]
    BY <1>1 DEF Taken, FrameInv, Reading
  <2>3. need \in Nat
    BY SMTT(60) DEF FrameInv, FrameTypes
  <2> QED BY <1>1, <1>2, <2>1, <2>2, <2>3, SMTT(30)
<1>4. /\ p \in Payload(WriteLimit) /\ p \in Seq(Byte) /\ Len(p) \in Nat /\ Size(p) \in Nat
  BY <1>3, SentIsSeq DEF FrameInv, FrameTypes
<1>5. /\ Head(wire) \in Byte /\ q \in Seq(Byte) /\ Len(q) = Len(payload) + 1
      /\ q[Len(payload) + 1] = Head(wire) /\ \A i \in 1..Len(payload) : q[i] = payload[i]
      /\ Tail(wire) \in Seq(Byte)
  <2>1. wire \in Seq(Byte) /\ payload \in Seq(Byte)
    BY DEF FrameInv, FrameTypes
  <2>2. Head(wire) \in Byte /\ Tail(wire) \in Seq(Byte)
    BY <1>1, <2>1, FirstByte
  <2> QED BY <2>1, <2>2, LastByte, SMTT(60)
<1>6. \A i \in 1..Len(q) : q[i] = p[i]
  <2>1. Len(payload) + 1 \in 1..Len(p)
    BY <1>3, <1>4
  <2>2. Taken + 1 = PrefixSize + (Len(payload) + 1)
    BY <1>3, FrameConstants, SMTT(30)
  <2>3. Head(wire) = p[Len(payload) + 1]
    BY <1>2, <1>4, <2>1, <2>2, FramedIs
  <2> SUFFICES ASSUME NEW i \in 1..Len(q) PROVE q[i] = p[i]
    OBVIOUS
  <2>4. i = Len(payload) + 1 \/ i \in 1..Len(payload)
    BY <1>3, <1>5, SMTT(60)
  <2> QED BY <1>3, <1>5, <2>3, <2>4
<1> HIDE DEF q
<1>7. PICK pos : Positions(pos) /\ Laid(pos) /\ Ends(pos)
  BY DEF FrameInv, Whole
<1>8. /\ pos[r + 1] \in Nat /\ Consumed(pos) = pos[r + 1] + (PrefixSize + Len(payload))
      /\ pos[(r + 1) + 1] = pos[r + 1] + Size(p)
  BY <1>3, <1>7, ConsumedType, SMTT(30) DEF FrameInv, Positions, Consumed
<1>9. CASE need = 1
  <2>1. q = p
    <3>1. Len(q) = Len(p)
      BY <1>3, <1>5, <1>9
    <3> QED BY <1>4, <1>5, <1>6, <3>1, SameBytes, Zenon
  <2>2. payload' = <<>> /\ rcvd' = Append(rcvd, p) /\ need' = 0
    BY <1>1, <1>9, <2>1, SMTT(30)
  <2>3. /\ Len(rcvd') = r + 1 /\ rcvd' \in Seq(Payload(WriteLimit)) /\ rcvd'[r + 1] = p
        /\ \A k \in 1..r : rcvd'[k] = rcvd[k]
    BY <1>4, <2>2 DEF FrameInv, FrameTypes
  <2>4. FrameTypes' /\ Writing'
    BY <1>1, <1>5, <2>2, <2>3, SMTT(60) DEF FrameInv, FrameTypes, Writing, Size
  <2>5. Reading'
    <3>1. \A k \in 1..(r + 1) : rcvd'[k] = sent[k]
      <4> SUFFICES ASSUME NEW k \in 1..(r + 1) PROVE rcvd'[k] = sent[k]
        OBVIOUS
      <4>1. k = r + 1 \/ k \in 1..r
        BY <1>3
      <4> QED BY <2>3, <4>1 DEF FrameInv, Reading
    <3>2. r + 1 <= Len(sent)
      BY <1>3
    <3> QED BY <1>1, <1>3, <2>2, <2>3, <3>1, <3>2 DEF Reading
  <2>6. Consumed(pos)' = Consumed(pos) + 1
    <3>1. Taken' = 0
      BY <1>1, <1>3, <2>2 DEF Taken
    <3>2. Consumed(pos)' = pos[(r + 1) + 1]
      BY <1>3, <1>4, <1>8, <2>3, <3>1 DEF Consumed
    <3>3. Size(p) = PrefixSize + (Len(payload) + 1)
      BY <1>3, <1>9, SMTT(60) DEF Size
    <3> QED BY <1>3, <1>8, <3>2, <3>3, FrameConstants, SMTT(30)
  <2> QED BY <1>1, <1>7, <2>4, <2>5, <2>6, TakeByte, SMTT(60) DEF FrameInv
<1>10. CASE need # 1
  <2>1. payload' = q /\ rcvd' = rcvd /\ need' = need - 1 /\ need' > 0 /\ need' \in Nat
    BY <1>1, <1>3, <1>10
  <2>2. FrameTypes' /\ Writing'
    BY <1>1, <1>5, <2>1, SMTT(60) DEF FrameInv, FrameTypes, Writing, Size
  <2>3. Reading'
    <3>1. need' + Len(q) = Len(p)
      <4>1. Len(q) = Len(payload) + 1
        BY <1>5
      <4>2. need \in Nat /\ Len(payload) \in Nat /\ need + Len(payload) = Len(p)
        BY <1>3
      <4> QED BY <2>1, <4>1, <4>2
    <3>2. r <= Len(sent) /\ \A k \in 1..r : rcvd[k] = sent[k]
      BY DEF FrameInv, Reading
    <3> QED BY <1>1, <1>2, <1>3, <1>6, <2>1, <3>1, <3>2 DEF Reading
  <2>4. Consumed(pos)' = Consumed(pos) + 1
    <3>1. Taken' = PrefixSize + (Len(payload) + 1)
      BY <1>1, <1>5, <2>1 DEF Taken
    <3>2. Consumed(pos)' = pos[r + 1] + (PrefixSize + (Len(payload) + 1))
      BY <2>1, <3>1 DEF Consumed
    <3> QED BY <1>3, <1>8, <3>2, FrameConstants, SMTT(60)
  <2> QED BY <1>1, <1>7, <2>2, <2>3, <2>4, TakeByte DEF FrameInv
<1> QED BY <1>9, <1>10

\* ReadFull meets the end of the stream: the frame it was in, if any, was the last.
LEMMA ReadEndFrameInv ==
    ASSUME FrameInv, ReadEnd
    PROVE  FrameInv'
<1> DEFINE n == Len(sent)
           r == Len(rcvd)
<1>1. /\ result = "nil" /\ wire = <<>> /\ broken
      /\ result' = IF header = <<>> /\ need = 0 THEN "EOF" ELSE "UnexpectedEOF"
      /\ UNCHANGED <<owner, rest, sent, wire, broken, torn, header, need, payload, rcvd>>
  BY DEF ReadEnd
<1>2. FrameTypes' /\ Writing'
  BY <1>1 DEF FrameInv, FrameTypes, Writing, Size
<1>3. Whole'
  <2>1. Stream' = Stream /\ Taken' = Taken
    BY <1>1, SMTT(30) DEF Stream, Taken
  <2> QED BY <1>1, <2>1, StreamKept DEF FrameInv
<1>4. PICK pos : Positions(pos) /\ Laid(pos) /\ Ends(pos)
  BY DEF FrameInv, Whole
<1>5. /\ n \in Nat /\ r \in Nat /\ r <= n /\ Taken \in Nat /\ Len(Stream) = 0
      /\ Consumed(pos) = pos[r + 1] + Taken /\ pos[r + 1] \in Nat /\ pos[n + 1] \in Nat
      /\ n > 0 => pos[n] \in Nat
  <2>1. Len(wire) = 0 /\ Len(rest) = 0
    BY <1>1 DEF FrameInv, Writing
  <2>2. n \in Nat /\ r \in Nat /\ Taken \in Nat /\ Len(Stream) = 0
    BY <2>1, StreamTypes DEF FrameInv
  <2>3. r <= n
    BY DEF FrameInv, Reading
  <2>4. Consumed(pos) = pos[r + 1] + Taken
    BY DEF Consumed
  <2>5. pos[r + 1] \in Nat /\ pos[n + 1] \in Nat /\ (n > 0 => pos[n] \in Nat)
    BY <1>4, ConsumedType DEF FrameInv
  <2> QED BY <2>2, <2>3, <2>4, <2>5
<1>6. Taken = 0 <=> header = <<>> /\ need = 0
  <2>1. /\ Len(header) \in Nat /\ Len(payload) \in Nat /\ need \in Nat
        /\ header = <<>> <=> Len(header) = 0
    BY DEF FrameInv, FrameTypes
  <2>2. need > 0 => Taken = PrefixSize + Len(payload)
    BY <1>1 DEF Taken
  <2>3. ~(need > 0) => Taken = Len(header)
    BY <1>1, SMTT(60) DEF Taken
  <2> QED BY <2>1, <2>2, <2>3, FrameConstants
<1>7. \A k \in (r + 1)..n : Size(sent[k]) \in Nat /\ pos[k] \in Nat
                            /\ pos[k + 1] = pos[k] + Size(sent[k])
  <2> SUFFICES ASSUME NEW k \in (r + 1)..n
               PROVE  Size(sent[k]) \in Nat /\ pos[k] \in Nat /\ pos[k + 1] = pos[k] + Size(sent[k])
    OBVIOUS
  <2>1. k \in 1..n /\ k \in 1..(n + 1)
    BY <1>5
  <2>2. pos[k + 1] = pos[k] + Size(sent[k])
    BY <1>4, <2>1 DEF Positions
  <2> QED BY <1>4, <2>1, <2>2, SentIsSeq, PositionIsNat, ZenonT(60) DEF FrameInv, FrameTypes
<1>8. r < n => Taken < Size(sent[r + 1]) /\ r + 1 \in (r + 1)..n
  BY <1>1, <1>5, FrameUnfinished
\* Beyond the frame being read at most one has begun, and nothing of it is on the wire.
<1>9. r < n => pos[r + 1] + Size(sent[r + 1]) <= pos[n + 1] /\ Consumed(pos) < pos[n + 1]
  <2> SUFFICES ASSUME r < n
               PROVE  pos[r + 1] + Size(sent[r + 1]) <= pos[n + 1] /\ Consumed(pos) < pos[n + 1]
    OBVIOUS
  <2>1. r + 1 \in 1..(n + 1) /\ n + 1 \in 1..(n + 1) /\ r + 1 < n + 1
    BY <1>5
  <2>2. pos[r + 1] + Size(sent[r + 1]) <= pos[n + 1]
    BY <1>4, <2>1 DEF Positions
  <2>3. Size(sent[r + 1]) \in Nat
    BY <1>7, <1>8
  <2> QED BY <1>5, <1>8, <2>2, <2>3
<1>10. r + 1 < n => Consumed(pos) < pos[n]
  <2> SUFFICES ASSUME r + 1 < n PROVE Consumed(pos) < pos[n]
    OBVIOUS
  <2>1. r + 1 \in 1..(n + 1) /\ n \in 1..(n + 1) /\ r < n /\ n > 0
    BY <1>5
  <2>2. pos[r + 1] + Size(sent[r + 1]) <= pos[n]
    BY <1>4, <2>1 DEF Positions
  <2>3. Size(sent[r + 1]) \in Nat
    BY <1>7, <1>8, <2>1, SMTT(60)
  <2> QED BY <1>5, <1>8, <2>1, <2>2, <2>3
<1>11. n <= r + 1 /\ (torn <=> Taken # 0)
  <2>1. CASE torn
    <3>1. n > 0 /\ pos[n] < Consumed(pos) /\ Consumed(pos) < pos[n + 1]
      BY <1>4, <1>5, <2>1 DEF Ends
    <3>2. n <= r + 1
      BY <1>5, <1>10, <3>1
    <3>3. r # n
      BY <1>5, <3>1
    <3>4. n = r + 1
      BY <1>5, <3>2, <3>3
    <3> QED BY <1>5, <2>1, <3>1, <3>4
  <2>2. CASE ~torn /\ Consumed(pos) = pos[n + 1]
    <3>1. r = n
      BY <1>5, <1>9, <2>2
    <3> QED BY <1>5, <2>2, <3>1
  <2>3. CASE ~torn /\ n > 0 /\ Consumed(pos) = pos[n]
    <3>1. n <= r + 1
      BY <1>5, <1>10, <2>3
    <3>2. r # n
      <4> SUFFICES ASSUME r = n PROVE FALSE
        OBVIOUS
      <4>1. n \in 1..n /\ Len(sent[n]) \in Nat
        BY <1>5, <2>3, SentIsSeq DEF FrameInv, FrameTypes
      <4>2. pos[n + 1] = pos[n] + Size(sent[n]) /\ Size(sent[n]) > 0 /\ Size(sent[n]) \in Nat
        BY <1>4, <4>1, FrameConstants, SMTT(30) DEF Positions, Size
      <4> QED BY <1>5, <2>3, <4>2
    <3>3. n = r + 1
      BY <1>5, <3>1, <3>2
    <3> QED BY <1>5, <2>3, <3>3
  <2> QED BY <1>1, <1>4, <1>5, <2>1, <2>2, <2>3 DEF Ends, FrameInv, FrameTypes
<1>12. Reading'
  BY <1>1, <1>6, <1>11 DEF FrameInv, Reading, PutUint
<1> QED BY <1>2, <1>3, <1>12 DEF FrameInv

\* Every step keeps frames in their place.
LEMMA NextFrameInv == FrameInv /\ [FramesNext]_frameVars => FrameInv'
<1> SUFFICES ASSUME FrameInv, [FramesNext]_frameVars PROVE FrameInv'
  OBVIOUS
<1>1. ASSUME NEW g \in Go, NEW p \in Payload(WriteLimit), Send(g, p) PROVE FrameInv'
  BY <1>1, SendFrameInv
<1>2. CASE WriteByte
  BY <1>2, WriteByteFrameInv
<1>3. CASE Break
  BY <1>3, BreakFrameInv
<1>4. CASE ReadHeader
  BY <1>4, ReadHeaderFrameInv
<1>5. CASE ReadPayload
  BY <1>5, ReadPayloadFrameInv
<1>6. CASE ReadEnd
  BY <1>6, ReadEndFrameInv
<1>7. CASE UNCHANGED frameVars
  <2>1. UNCHANGED <<owner, rest, sent, wire, broken, torn, header, need, payload, rcvd, result>>
    BY <1>7 DEF frameVars
  <2>2. FrameTypes' /\ Writing' /\ Reading'
    BY <2>1, ZenonT(60) DEF FrameInv, FrameTypes, Writing, Reading, PutUint, Size
  <2>3. Stream' = Stream /\ Taken' = Taken
    BY <2>1 DEF Stream, Taken
  <2>4. Whole'
    BY <2>1, <2>3, StreamKept DEF FrameInv
  <2> QED BY <2>2, <2>4 DEF FrameInv
<1> QED BY <1>1, <1>2, <1>3, <1>4, <1>5, <1>6, <1>7 DEF FramesNext

\* FrameInv is an invariant of the connection.
LEMMA FrameInvHolds == FramesSpec => []FrameInv
<1> QED BY InitFrameInv, NextFrameInv, PTL DEF FramesSpec

\* The buffers of WriteFrame and ReadFrame hold bytes, and ReadFrame holds no more of
\* a prefix than its size and allocates no payload above the limit.
THEOREM FramesTyped == FramesSpec => []FramesTypeOK
<1>1. FrameInv => FramesTypeOK
  <2> SUFFICES ASSUME FrameInv PROVE FramesTypeOK
    OBVIOUS
  <2>1. Len(header) <= PrefixSize
    <3>1. CASE header = <<>>
      BY <3>1, FrameConstants, SMTT(60)
    <3>2. CASE header # <<>>
      BY <3>2, StreamTypes, FrameConstants DEF FrameInv, Reading
    <3> QED BY <3>1, <3>2
  <2>2. need + Len(payload) \in 0..MaxFrameSize
    <3>1. Len(payload) \in Nat /\ need \in Nat
      BY StreamTypes DEF FrameInv, FrameTypes
    <3>2. CASE need = 0
      BY <3>2, FrameConstants DEF FrameInv, Reading
    <3>3. CASE need > 0
      <4>1. need + Len(payload) <= MaxFrameSize
        BY <3>3 DEF FrameInv, Reading
      <4> QED BY <3>1, <4>1, FrameConstants
    <3> QED BY <3>1, <3>2, <3>3
  <2> QED BY <2>1, <2>2 DEF FrameInv, FrameTypes, FramesTypeOK
<1> QED BY <1>1, FrameInvHolds, PTL

\* Whatever goroutines share the connection, in whatever pieces bytes travel and
\* wherever the stream breaks, ReadFrame returns the payloads sent, whole and in the
\* order in which Send took the lock.
THEOREM FramesStayIntact == FramesSpec => []FramesIntact
<1>1. FrameInv => FramesIntact
  <2> SUFFICES ASSUME FrameInv PROVE FramesIntact
    OBVIOUS
  <2>1. /\ Len(rcvd) \in Nat /\ Len(sent) \in Nat /\ Len(rcvd) <= Len(sent)
        /\ \A k \in 1..Len(rcvd) : rcvd[k] = sent[k]
    BY StreamTypes DEF FrameInv, Reading
  <2>2. rcvd = SubSeq(sent, 1, Len(rcvd))
    BY <2>1 DEF FrameInv, FrameTypes
  <2> QED BY <2>1, <2>2, SMTT(30) DEF FramesIntact
<1> QED BY <1>1, FrameInvHolds, PTL

\* For every frame limit and length prefix, ReadFrame reports a clean end only when no
\* frame was cut, a cut only when one was, and too large only for a payload above the
\* limit, which it never waits for.
THEOREM ReadVerdictExact == FramesSpec => []VerdictExact
<1>1. FrameInv => VerdictExact
  <2> SUFFICES ASSUME FrameInv PROVE VerdictExact
    OBVIOUS
  <2>1. Len(rcvd) \in Nat /\ Len(sent) \in Nat /\ Len(payload) \in Nat /\ need \in Nat
    BY StreamTypes DEF FrameInv, FrameTypes
  <2>2. need + Len(payload) <= MaxFrameSize
    <3>1. CASE need = 0
      BY <3>1, FrameConstants DEF FrameInv, Reading
    <3>2. CASE need > 0
      BY <3>2 DEF FrameInv, Reading
    <3> QED BY <2>1, <3>1, <3>2
  <2>3. result = "TooLarge" => Len(rcvd) + 1 <= Len(sent)
    BY <2>1 DEF FrameInv, Reading
  <2> QED BY <2>2, <2>3 DEF FrameInv, Reading, VerdictExact
<1> QED BY <1>1, FrameInvHolds, PTL

=============================================================================
