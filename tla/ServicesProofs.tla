--------------------------- MODULE ServicesProofs ---------------------------
(***************************************************************************)
(* Theorems of the parts of the backend that MCServices puts side by side: *)
(* the rate limit, the access token of the broker, the market monitor and  *)
(* the way of the news; and at the end those of Session, the tabs of a     *)
(* browser and the service that issues their tokens.  For each an          *)
(* inductive invariant, and from it the invariant that is checked, for     *)
(* every value of the constants.                                           *)
(***************************************************************************)
EXTENDS RateLimit, AccessToken, AlertMonitor, NewsPipeline, Session,
        FiniteSetTheorems, SequenceTheorems, TLAPS

-----------------------------------------------------------------------------
(* The limit: what was served and what was counted *)

Attempt == [at : 0 .. MaxTime, answer : {"served", "429", "503"}]

\* Whatever was counted lies in the time the counter lives.
CountedIn ==
  ~lost => \A i \in DOMAIN attempts : attempts[i].answer = "served" =>
    attempts[i].at + Window <= (IF counter = NoKey THEN time ELSE counter.ends)

\* The requests served in a window that is not over have been counted.
ServedAreCounted ==
  ~lost => \A from \in 0 .. MaxTime : from + Window > time =>
    Cardinality(Served(from)) <= counter.count

\* The counter runs out a window after the last attempt, if not before.
EndsWithLast ==
  counter # NoKey => /\ counter.count <= Len(attempts)
                     /\ counter.ends <= attempts[Len(attempts)].at + Window

LInv ==
  /\ attempts \in Seq(Attempt) /\ counter \in [count : Nat, ends : Nat]
  /\ LimitInv /\ CountedIn /\ ServedAreCounted /\ EndsWithLast

USE LimitAssumption

\* The requests served since any time are finitely many.
LEMMA ServedIsFinite ==
  ASSUME attempts \in Seq(Attempt), NEW from
  PROVE  IsFiniteSet(Served(from)) /\ Cardinality(Served(from)) \in Nat
<1>1. Served(from) \subseteq 1 .. Len(attempts) /\ IsFiniteSet(1 .. Len(attempts))
  BY FS_Interval DEF Served
<1>2. QED BY <1>1, FS_Subset, FS_CardinalityType

\* A reply is added at the end; it counts as served in the stretches of time it
\* falls in.
LEMMA Appended ==
  ASSUME attempts \in Seq(Attempt), time \in 0 .. MaxTime,
         NEW a \in {"served", "429", "503"}, Replies(a)
  PROVE  /\ attempts' \in Seq(Attempt) /\ Len(attempts') = Len(attempts) + 1
         /\ \A i \in 1 .. Len(attempts) : attempts'[i] = attempts[i]
         /\ attempts'[Len(attempts) + 1] = [at |-> time, answer |-> a]
BY DEF Replies, Attempt

\* The requests served in a stretch of time after a reply: those before, and the
\* new one if it was served and falls into it.
LEMMA ServedNext ==
  ASSUME attempts \in Seq(Attempt), time \in 0 .. MaxTime,
         NEW a \in {"served", "429", "503"}, Replies(a), NEW from \in 0 .. MaxTime
  PROVE  /\ Served(from)' = Served(from) \/ Served(from)' = Served(from) \cup {Len(attempts) + 1}
         /\ (a # "served" \/ time >= from + Window) => Served(from)' = Served(from)
<1> DEFINE n == Len(attempts)
<1>1. /\ Len(attempts') = n + 1 /\ attempts' \in Seq(Attempt) /\ n \in Nat
      /\ \A i \in 1 .. n : attempts'[i] = attempts[i]
      /\ attempts'[n + 1] = [at |-> time, answer |-> a]
  BY Appended
<1>2. DOMAIN attempts = 1 .. n /\ DOMAIN attempts' = 1 .. n + 1
  BY <1>1
<1>3. 1 .. n + 1 = (1 .. n) \cup {n + 1} /\ n + 1 \notin 1 .. n
  BY <1>1
<1> HIDE DEF n
<1>4. Served(from) = {i \in 1 .. n : attempts'[i].answer = "served"
                         /\ attempts'[i].at >= from /\ attempts'[i].at < from + Window}
  BY <1>1, <1>2 DEF Served
<1>5. Served(from)' = {i \in (1 .. n) \cup {n + 1} : attempts'[i].answer = "served"
                         /\ attempts'[i].at >= from /\ attempts'[i].at < from + Window}
  BY <1>2, <1>3 DEF Served
<1>6. QED BY <1>1, <1>3, <1>4, <1>5 DEF n

\* What a reply does to the number served.
LEMMA ServedCount ==
  ASSUME attempts \in Seq(Attempt), time \in 0 .. MaxTime,
         NEW a \in {"served", "429", "503"}, Replies(a), NEW from \in 0 .. MaxTime
  PROVE  /\ Cardinality(Served(from))' \in Nat /\ Cardinality(Served(from)) \in Nat
         /\ Cardinality(Served(from))' <= Cardinality(Served(from)) + 1
         /\ (a # "served" \/ time >= from + Window)
              => Cardinality(Served(from))' = Cardinality(Served(from))
<1>1. IsFiniteSet(Served(from)) /\ Cardinality(Served(from)) \in Nat
  BY ServedIsFinite
<1>2. \A S, x : IsFiniteSet(S) /\ Cardinality(S) \in Nat
        => Cardinality(S \cup {x}) \in Nat /\ Cardinality(S \cup {x}) <= Cardinality(S) + 1
  <2> SUFFICES ASSUME NEW S, NEW x, IsFiniteSet(S), Cardinality(S) \in Nat
               PROVE  /\ Cardinality(S \cup {x}) \in Nat
                      /\ Cardinality(S \cup {x}) <= Cardinality(S) + 1
    OBVIOUS
  <2>1. Cardinality(S \cup {x}) = IF x \in S THEN Cardinality(S) ELSE Cardinality(S) + 1
    BY FS_AddElement
  <2>2. QED BY <2>1
<1>3. QED
  <2>1. \/ Served(from)' = Served(from)
        \/ Served(from)' = Served(from) \cup {Len(attempts) + 1}
    BY ServedNext
  <2>2. (a # "served" \/ time >= from + Window) => Served(from)' = Served(from)
    BY ServedNext
  <2>3. CASE Served(from)' = Served(from)
    BY <1>1, <2>3
  <2>4. CASE Served(from)' # Served(from)
    BY <1>1, <1>2, <2>1, <2>2, <2>4
  <2>5. QED BY <2>3, <2>4

\* Nothing is counted in the beginning, and every step keeps the invariant.
LEMMA InitLInv == LimitInit => LInv
<1> SUFFICES ASSUME LimitInit PROVE LInv
  OBVIOUS
<1>1. attempts \in Seq(Attempt) /\ attempts = <<>> /\ Len(attempts) = 0
  BY DEF LimitInit
<1>2. \A from : Served(from) = {}
  BY <1>1 DEF Served
<1>3. \A from : Cardinality(Served(from)) = 0
  BY <1>2, FS_EmptySet
<1>4. LimitTypeOK
  <2>1. DOMAIN attempts = {}
    BY <1>1
  <2>2. counter = NoKey /\ counter.count = 0
    BY DEF LimitInit, NoKey
  <2>3. time \in 0 .. MaxTime /\ 0 \in 0 .. MaxAttempts
    BY DEF LimitInit
  <2>4. lost \in BOOLEAN
    BY DEF LimitInit
  <2>5. Len(attempts) <= MaxAttempts
    BY <1>1
  <2>6. QED BY <2>1, <2>2, <2>3, <2>4, <2>5 DEF LimitTypeOK
<1>5. NoWindowHasMore /\ RetryAfterIsEnough
  BY <1>1, <1>3 DEF NoWindowHasMore, RetryAfterIsEnough
<1>6. CountedIn /\ ServedAreCounted /\ EndsWithLast
  BY <1>1, <1>3 DEF LimitInit, CountedIn, ServedAreCounted, EndsWithLast, NoKey
<1>7. QED BY <1>1, <1>4, <1>5, <1>6 DEF LInv, LimitInv, LimitInit, NoKey

\* An attempt that is answered `a' and may have been counted.
LEMMA AttemptLInv ==
  ASSUME LInv, NEW a \in {"served", "429", "503"}, Replies(a), Len(attempts) < MaxAttempts,
         counter' = Incremented \/ (counter' = counter /\ a = "503"),
         a = "served" => counter'.count <= MaxRequests,
         a = "429" => counter' = Incremented /\ counter'.count > MaxRequests,
         UNCHANGED <<time, lost>>
  PROVE  LInv'
<1> DEFINE n == Len(attempts)
<1>1. /\ attempts \in Seq(Attempt) /\ counter \in [count : Nat, ends : Nat]
      /\ time \in 0 .. MaxTime /\ n \in Nat /\ MaxTime \in Nat
      /\ DOMAIN attempts = 1 .. n /\ \A i \in 1 .. n : attempts[i] \in Attempt
      /\ Window \in Nat \ {0} /\ MaxRequests \in Nat \ {0}
  BY DEF LInv, LimitInv, LimitTypeOK
<1>2. /\ Len(attempts') = n + 1 /\ attempts' \in Seq(Attempt)
      /\ \A i \in 1 .. n : attempts'[i] = attempts[i]
      /\ attempts'[n + 1] = [at |-> time, answer |-> a]
      /\ DOMAIN attempts' = 1 .. n + 1
  BY <1>1, Appended
<1>3. /\ counter' \in [count : Nat, ends : Nat]
      /\ counter' = Incremented =>
           counter'.count = counter.count + 1 /\ counter'.ends = time + Window /\ counter' # NoKey
  BY <1>1 DEF Incremented, NoKey
<1>4. counter.count <= n /\ (counter # NoKey => counter.ends <= time + Window)
      /\ (counter = NoKey <=> counter.count = 0) /\ (counter # NoKey => time < counter.ends)
  <2>1. (counter # NoKey => counter.count <= n) /\ (counter = NoKey => counter.count = 0)
    BY DEF LInv, EndsWithLast, NoKey
  <2>2. QED BY <1>1, <2>1 DEF LInv, LimitInv, LimitTypeOK
<1>5. LimitTypeOK'
  <2>1. counter'.count \in 0 .. MaxAttempts
    BY <1>1, <1>3, <1>4 DEF LInv, LimitInv, LimitTypeOK
  <2>2. (counter' = NoKey <=> counter'.count = 0)
        /\ (counter' # NoKey => time < counter'.ends /\ counter'.ends <= time + Window)
    BY <1>1, <1>3, <1>4
  <2>3. \A i \in 1 .. n + 1 : attempts'[i] \in Attempt
    BY <1>2, ElementOfSeq
  <2>4. QED BY <1>1, <1>2, <2>1, <2>2, <2>3 DEF LInv, LimitInv, LimitTypeOK, Attempt
<1>6. NoWindowHasMore' /\ ServedAreCounted'
  <2> SUFFICES ASSUME ~lost, NEW from \in 0 .. MaxTime
               PROVE  /\ Cardinality(Served(from))' <= MaxRequests
                      /\ from + Window > time => Cardinality(Served(from))' <= counter'.count
    BY DEF NoWindowHasMore, ServedAreCounted
  <2> DEFINE c == Cardinality(Served(from))  d == Cardinality(Served(from))'
  <2>1. /\ c \in Nat /\ d \in Nat /\ d <= c + 1
        /\ (a # "served" \/ time >= from + Window) => d = c
    BY <1>1, ServedCount
  <2>2. c <= MaxRequests /\ (from + Window > time => c <= counter.count)
    BY DEF LInv, LimitInv, NoWindowHasMore, ServedAreCounted
  <2> HIDE DEF c, d
  <2>3. from + Window > time => d <= counter'.count
    BY <1>1, <1>3, <2>1, <2>2
  <2>4. d <= MaxRequests
    BY <1>1, <1>3, <2>1, <2>2, <2>3
  <2>5. QED BY <2>3, <2>4 DEF c, d
<1>7. RetryAfterIsEnough'
  <2> SUFFICES ASSUME NEW i \in 1 .. n + 1, attempts'[i].answer = "429"
               PROVE  i > MaxRequests /\ attempts'[i].at < attempts'[i - 1].at + Window
    BY <1>2 DEF RetryAfterIsEnough
  <2>1. CASE i \in 1 .. n
    <3>1. i > MaxRequests /\ attempts[i].at < attempts[i - 1].at + Window
      BY <1>1, <1>2, <2>1 DEF LInv, LimitInv, RetryAfterIsEnough
    <3>2. i - 1 \in 1 .. n
      BY <1>1, <2>1, <3>1
    <3>3. QED BY <1>2, <2>1, <3>1, <3>2
  <2>2. CASE i = n + 1
    <3>1. a = "429"
      BY <1>2, <2>2
    <3>2. counter.count >= MaxRequests /\ counter # NoKey
      BY <1>1, <1>3, <1>4, <3>1 DEF NoKey
    <3>3. n >= MaxRequests /\ n \in 1 .. n
      BY <1>1, <1>4, <3>2
    <3>4. time < attempts[n].at + Window
      <4>1. counter.ends <= attempts[n].at + Window
        BY <3>2 DEF LInv, EndsWithLast
      <4>2. attempts[n].at \in Nat /\ counter.ends \in Nat /\ time \in Nat /\ time < counter.ends
        BY <1>1, <1>4, <3>2, <3>3 DEF Attempt
      <4>3. QED BY <1>1, <4>1, <4>2
    <3>5. QED BY <1>1, <1>2, <2>2, <3>3, <3>4
  <2>3. QED BY <1>1, <2>1, <2>2
<1>8. CountedIn'
  <2> SUFFICES ASSUME ~lost, NEW i \in 1 .. n + 1, attempts'[i].answer = "served"
               PROVE  attempts'[i].at + Window <= (IF counter' = NoKey THEN time ELSE counter'.ends)
    BY <1>2 DEF CountedIn
  <2>1. CASE i \in 1 .. n
    <3>1. attempts[i].at + Window <= (IF counter = NoKey THEN time ELSE counter.ends)
      BY <1>1, <1>2, <2>1 DEF LInv, CountedIn
    <3>2. attempts[i].at \in Nat
      BY <1>1, <2>1 DEF Attempt
    <3>3. CASE counter' = counter
      BY <1>2, <2>1, <3>1, <3>3
    <3>4. CASE counter' = Incremented
      <4>1. counter' # NoKey /\ counter'.ends = time + Window
        BY <1>3, <3>4
      <4>2. attempts[i].at + Window <= time + Window
        <5>1. CASE counter = NoKey
          BY <1>1, <3>1, <3>2, <5>1
        <5>2. CASE counter # NoKey
          <6>1. counter.ends <= time + Window /\ counter.ends \in Nat
            BY <1>1, <1>4, <5>2
          <6>2. QED BY <1>1, <3>1, <3>2, <5>2, <6>1
        <5>3. QED BY <5>1, <5>2
      <4>3. QED BY <1>2, <2>1, <4>1, <4>2
    <3>5. QED BY <3>3, <3>4
  <2>2. CASE i = n + 1
    <3>1. a = "served"
      BY <1>2, <2>2
    <3>2. QED BY <1>1, <1>2, <1>3, <2>2, <3>1
  <2>3. QED BY <1>1, <2>1, <2>2
<1>9. EndsWithLast'
  <2> SUFFICES ASSUME counter' # NoKey
               PROVE  counter'.count <= n + 1 /\ counter'.ends <= time + Window
    BY <1>1, <1>2 DEF EndsWithLast
  <2>1. QED BY <1>1, <1>3, <1>4
<1>10. QED BY <1>2, <1>3, <1>5, <1>6, <1>7, <1>8, <1>9 DEF LInv, LimitInv

\* The clock goes on; what the key stood for is over when it runs out.
LEMMA TimeLInv ==
  ASSUME LInv, TimePasses
  PROVE  LInv'
<1>1. /\ attempts' = attempts /\ lost' = lost /\ time' = time + 1 /\ time' \in 0 .. MaxTime
      /\ counter \in [count : Nat, ends : Nat] /\ time \in 0 .. MaxTime /\ MaxTime \in Nat
      /\ attempts \in Seq(Attempt) /\ DOMAIN attempts = 1 .. Len(attempts)
      /\ \A i \in 1 .. Len(attempts) : attempts[i] \in Attempt
      /\ Window \in Nat \ {0} /\ Len(attempts) \in Nat
  BY DEF LInv, LimitInv, LimitTypeOK, TimePasses
<1>2. \/ counter' = counter /\ (counter # NoKey => counter.ends # time')
      \/ counter' = NoKey /\ counter # NoKey /\ counter.ends = time'
  BY DEF TimePasses
<1>3. counter' \in [count : Nat, ends : Nat]
  BY <1>1, <1>2 DEF NoKey
<1>4. LimitTypeOK'
  <2>1. (counter # NoKey => time < counter.ends /\ counter.ends <= time + Window)
        /\ (counter = NoKey <=> counter.count = 0)
    BY DEF LInv, LimitInv, LimitTypeOK
  <2>2. (counter' # NoKey => time' < counter'.ends /\ counter'.ends <= time' + Window)
    BY <1>1, <1>2, <2>1
  <2>3. (counter' = NoKey <=> counter'.count = 0) /\ counter'.count \in 0 .. MaxAttempts
    BY <1>1, <1>2, <2>1 DEF NoKey, LInv, LimitInv, LimitTypeOK
  <2>4. QED BY <1>1, <2>2, <2>3 DEF LInv, LimitInv, LimitTypeOK
<1>5. \A from : Served(from)' = Served(from)
  BY <1>1 DEF Served
<1>6. NoWindowHasMore' /\ RetryAfterIsEnough'
  BY <1>1, <1>5 DEF LInv, LimitInv, NoWindowHasMore, RetryAfterIsEnough
<1>7. CountedIn'
  <2> SUFFICES ASSUME ~lost, NEW i \in 1 .. Len(attempts), attempts[i].answer = "served"
               PROVE  attempts[i].at + Window <= (IF counter' = NoKey THEN time' ELSE counter'.ends)
    BY <1>1 DEF CountedIn
  <2>1. attempts[i].at + Window <= (IF counter = NoKey THEN time ELSE counter.ends)
    BY <1>1 DEF LInv, CountedIn
  <2>2. attempts[i].at \in Nat
    BY <1>1 DEF Attempt
  <2>3. QED BY <1>1, <1>2, <2>1, <2>2
<1>8. ServedAreCounted'
  <2> SUFFICES ASSUME ~lost, NEW from \in 0 .. MaxTime, from + Window > time'
               PROVE  Cardinality(Served(from)) <= counter'.count
    BY <1>1, <1>5 DEF ServedAreCounted
  <2>1. Cardinality(Served(from)) <= counter.count
    BY <1>1 DEF LInv, ServedAreCounted
  <2>2. CASE counter' = NoKey /\ counter # NoKey /\ counter.ends = time'
    <3>1. \A i \in 1 .. Len(attempts) : attempts[i].answer = "served" => attempts[i].at < from
      <4> SUFFICES ASSUME NEW i \in 1 .. Len(attempts), attempts[i].answer = "served"
                   PROVE  attempts[i].at < from
        OBVIOUS
      <4>1. attempts[i].at + Window <= time' /\ attempts[i].at \in Nat
        BY <1>1, <2>2 DEF LInv, CountedIn, Attempt
      <4>2. QED BY <1>1, <4>1
    <3>2. Served(from) = {}
      <4> SUFFICES ASSUME NEW i \in Served(from) PROVE FALSE
        OBVIOUS
      <4>1. i \in 1 .. Len(attempts) /\ attempts[i].answer = "served" /\ attempts[i].at >= from
        BY <1>1 DEF Served
      <4>2. attempts[i].at \in Nat
        BY <1>1, <4>1 DEF Attempt
      <4>3. QED BY <3>1, <4>1, <4>2
    <3>3. QED BY <2>2, <3>2, FS_EmptySet DEF NoKey
  <2>3. QED BY <1>2, <2>1, <2>2
<1>9. EndsWithLast'
  BY <1>1, <1>2 DEF LInv, EndsWithLast
<1>10. QED BY <1>1, <1>3, <1>4, <1>6, <1>7, <1>8, <1>9 DEF LInv, LimitInv

\* A counter that Redis loses is no limit any more; the hint to retry still holds.
LEMMA LossLInv ==
  ASSUME LInv, RedisLosesCounter
  PROVE  LInv'
<1>1. attempts' = attempts /\ time' = time /\ counter' = NoKey /\ lost'
  BY DEF RedisLosesCounter
<1>2. LimitTypeOK' /\ RetryAfterIsEnough'
  BY <1>1 DEF LInv, LimitInv, LimitTypeOK, RetryAfterIsEnough, NoKey, RedisLosesCounter
<1>3. QED BY <1>1, <1>2 DEF LInv, LimitInv, NoWindowHasMore, CountedIn, ServedAreCounted,
                        EndsWithLast, NoKey

\* All steps together.
LEMMA NextLInv == LInv /\ [LimitNext]_limitVars => LInv'
<1> SUFFICES ASSUME LInv, [LimitNext]_limitVars PROVE LInv'
  OBVIOUS
<1>1. CASE Attempts
  <2>1. CASE counter' = Incremented /\ Replies(IF Over(counter'.count) THEN "429" ELSE "served")
    <3>1. counter'.count \in Int /\ MaxRequests \in Int
      BY <2>1 DEF Incremented, LInv
    <3>2. CASE Over(counter'.count)
      BY <1>1, <2>1, <3>2, AttemptLInv DEF Attempts, Over
    <3>3. CASE ~Over(counter'.count)
      <4>1. Replies("served") /\ counter'.count <= MaxRequests
        BY <2>1, <3>1, <3>3 DEF Over
      <4>2. QED BY <1>1, <2>1, <4>1, AttemptLInv DEF Attempts
    <3>4. QED BY <3>2, <3>3
  <2>2. CASE counter' \in {counter, Incremented} /\ Replies("503")
    BY <1>1, <2>2, AttemptLInv DEF Attempts
  <2>3. QED BY <1>1, <2>1, <2>2 DEF Attempts
<1>2. CASE UNCHANGED limitVars
  <2>1. attempts' = attempts /\ time' = time /\ counter' = counter /\ lost' = lost
    BY <1>2 DEF limitVars
  <2>2. \A from : Served(from)' = Served(from)
    BY <2>1 DEF Served
  <2>3. QED BY <2>1, <2>2 DEF LInv, LimitInv, LimitTypeOK, NoWindowHasMore, RetryAfterIsEnough,
                          CountedIn, ServedAreCounted, EndsWithLast
<1>3. QED BY <1>1, <1>2, TimeLInv, LossLInv DEF LimitNext

\* check_rate_limit: however the attempts are spread, no window has more than
\* max_requests served, and a 429 comes only less than a window after the attempt
\* before it: for every limit, every window and any number of attempts.
THEOREM LimitsHold == LimitSpec => []LimitInv
<1>1. LInv => LimitInv
  BY DEF LInv
<1>2. QED BY <1>1, InitLInv, NextLInv, PTL DEF LimitSpec

HIDE LimitAssumption

-----------------------------------------------------------------------------
(* The token: one lock, three copies *)

CallerState ==
  [at : {"rest", "wait", "call"} \cup Locked \cup Drops, attempt : {1, 2}, token : Nat, refused : Nat]

\* Whoever has the lock has found no usable token in memory, or has just put one there.
LockState ==
  \A c \in Callers :
    /\ caller[c].at \in {"redis", "look", "issue"} => ~Usable(copies.memory)
    /\ caller[c].at \in {"keep", "write"} =>
         granted # 0 /\ copies.memory = granted /\ caller[c].token = granted

\* The newest token stays in memory until the broker ends it.
NewestIsKept == granted # 0 /\ granted \notin ended => copies.memory = granted

\* A request that was told its token is invalid, until it has its answer.
Refused(c) == caller[c].at \in Drops \/ caller[c].attempt = 2

\* What a token that was refused is gone from, step by step.
RefusedIsGone(c) ==
  LET x == caller[c].refused IN
  /\ x # 0 /\ copies.memory # x
  /\ caller[c].at # "drop" => copies.redis # x
  /\ caller[c].at \notin Drops => copies.file # x
  /\ caller[c].at = "call" => caller[c].token # x
  /\ \A d \in Callers :
       /\ caller[d].at \in {"keep", "write"} => caller[d].token # x
       /\ caller[d].at = "look" /\ caller[c].at \notin Drops => caller[d].token # x

CopiesState ==
  /\ LockState /\ NewestIsKept
  /\ \A c \in Callers : caller[c].at = "call" => caller[c].token # 0
  /\ \A c \in Callers : Refused(c) => RefusedIsGone(c)

TInv ==
  /\ copies \in [memory : Nat, redis : Nat, file : Nat] /\ caller \in [Callers -> CallerState]
  /\ \A c \in Callers : caller[c].at = "rest" => caller[c].attempt = 1
  /\ TokenInv
  /\ ~muddled => CopiesState

TokenTypes ==
  /\ copies \in [memory : Nat, redis : Nat, file : Nat] /\ caller \in [Callers -> CallerState]
  /\ \A c \in Callers : caller[c].at = "rest" => caller[c].attempt = 1
  /\ TokenTypeOK

\* The name of nobody is nobody's.
LEMMA Free == Nobody \notin Callers /\ MaxTokens \in Nat
BY TokenAssumption

\* There is no token in the beginning.
LEMMA InitTInv == TokenInit => TInv
<1> SUFFICES ASSUME TokenInit PROVE TInv
  OBVIOUS
<1>1. /\ copies = [memory |-> 0, redis |-> 0, file |-> 0] /\ granted = 0 /\ ended = {} /\ expired = {}
      /\ holder = Nobody /\ muddled = FALSE /\ caller = [c \in Callers |-> Rest]
  BY DEF TokenInit
<1>2. \A c \in Callers : /\ caller[c].at = "rest" /\ caller[c].attempt = 1
                         /\ caller[c].token = 0 /\ caller[c].refused = 0
  BY <1>1 DEF Rest
<1>3. caller \in [Callers -> CallerState]
  BY <1>1 DEF Rest, CallerState
<1>4. TokenTypeOK
  <2>1. \A place \in {"memory", "redis", "file"} : copies[place] \in 0 .. granted
    BY <1>1
  <2>2. muddled \in BOOLEAN
    BY <1>1
  <2>3. ended \subseteq Granted /\ expired \subseteq ended /\ granted \in 0 .. MaxTokens
    BY <1>1, Free
  <2>4. \A c \in Callers :
          /\ caller[c].at \in {"rest", "wait", "call"} \cup Locked \cup Drops
          /\ caller[c].at \in Locked <=> holder = c
    BY <1>1, <1>2, Free DEF Locked
  <2>5. \A c \in Callers : /\ caller[c].attempt \in {1, 2}
                           /\ caller[c].token \in 0 .. granted /\ caller[c].refused \in 0 .. granted
    BY <1>1, <1>2
  <2>6. QED BY <1>1, <2>1, <2>2, <2>3, <2>4, <2>5 DEF TokenTypeOK
<1>5. OneTokenAtATime /\ SecondTryHasAnother
  BY <1>1, <1>2 DEF OneTokenAtATime, SecondTryHasAnother, Granted
<1>6. CopiesState
  BY <1>1, <1>2 DEF CopiesState, LockState, NewestIsKept, Refused, Drops
<1>7. copies \in [memory : Nat, redis : Nat, file : Nat]
  BY <1>1
<1>8. QED BY <1>2, <1>3, <1>4, <1>5, <1>6, <1>7 DEF TInv, TokenInv

\* Only c moves.
Moves(c) == /\ caller' \in [Callers -> CallerState]
            /\ \A d \in Callers : d # c => caller'[d] = caller[d]

\* What has to be shown of a step for the types.
LEMMA TypesStep ==
  ASSUME TokenTypes, NEW c \in Callers, Moves(c),
         copies' \in [memory : 0 .. granted', redis : 0 .. granted', file : 0 .. granted'],
         granted \in 0 .. granted', granted' \in 0 .. MaxTokens, ended' = ended, expired' = expired,
         caller'[c].at = "rest" => caller'[c].attempt = 1,
         caller'[c].token \in 0 .. granted', caller'[c].refused \in 0 .. granted',
         \/ caller[c].at \in Locked /\ caller'[c].at \in Locked /\ holder' = holder
         \/ caller[c].at \in Locked /\ caller'[c].at \notin Locked /\ holder' = Nobody
         \/ caller[c].at \notin Locked /\ caller'[c].at \notin Locked /\ holder' = holder
         \/ caller[c].at \notin Locked /\ caller'[c].at \in Locked /\ holder = Nobody /\ holder' = c,
         muddled' \in BOOLEAN
  PROVE  TokenTypes'
<1>1. copies' \in [memory : Nat, redis : Nat, file : Nat]
  BY Free
<1>2. \A d \in Callers : caller'[d].at = "rest" => caller'[d].attempt = 1
  BY DEF TokenTypes, Moves
<1>3. \A d \in Callers : caller'[d].at \in Locked <=> holder' = d
  BY Free DEF TokenTypes, TokenTypeOK, Moves
<1>4. \A d \in Callers : caller'[d].token \in 0 .. granted' /\ caller'[d].refused \in 0 .. granted'
  BY Free DEF TokenTypes, TokenTypeOK, Moves
<1>5. \A d \in Callers : /\ caller'[d].at \in {"rest", "wait", "call"} \cup Locked \cup Drops
                         /\ caller'[d].attempt \in {1, 2}
  BY DEF Moves, CallerState
<1>6. holder' \in Callers \cup {Nobody}
  BY DEF TokenTypes, TokenTypeOK
<1>7. ended' \subseteq 1 .. granted' /\ expired' \subseteq ended'
  BY Free DEF TokenTypes, TokenTypeOK, Granted
<1>8. \A place \in {"memory", "redis", "file"} : copies'[place] \in 0 .. granted'
  OBVIOUS
<1>9. QED BY <1>1, <1>2, <1>3, <1>4, <1>5, <1>6, <1>7, <1>8
          DEF TokenTypes, TokenTypeOK, Moves, Granted

\* What has to be shown of a step that muddled nothing.
LEMMA TInvStep ==
  ASSUME TInv, TokenTypes', muddled => muddled',
         ~muddled' => /\ LockState' /\ NewestIsKept' /\ OneTokenAtATime'
                      /\ \A d \in Callers : caller'[d].at = "call" => caller'[d].token # 0
                      /\ \A d \in Callers : Refused(d)' => RefusedIsGone(d)'
  PROVE  TInv'
<1>1. ~muddled' => CopiesState' /\ OneTokenAtATime' /\ SecondTryHasAnother'
  BY DEF CopiesState, SecondTryHasAnother, Refused, RefusedIsGone
<1>2. QED BY <1>1 DEF TInv, TokenTypes, TokenInv, OneTokenAtATime, SecondTryHasAnother

\* A request looks at the token in memory.
LEMMA StartsTInv ==
  ASSUME TInv, NEW c \in Callers, Starts(c)
  PROVE  TInv'
<1>1. TokenTypes /\ copies \in [memory : 0 .. granted, redis : 0 .. granted, file : 0 .. granted]
  BY DEF TInv, TokenTypes, TokenInv, TokenTypeOK
<1>2. Moves(c)
  BY <1>1 DEF Starts, Asks, Usable, TokenTypes, CallerState, Moves, Locked, Drops
<1>3. /\ caller[c].at = "rest"
      /\ caller'[c].attempt = caller[c].attempt /\ caller'[c].refused = caller[c].refused
      /\ \/ caller'[c].at = "call" /\ Usable(copies.memory) /\ caller'[c].token = copies.memory
         \/ caller'[c].at = "wait" /\ caller'[c].token = caller[c].token
      /\ UNCHANGED <<copies, granted, ended, expired, holder, muddled>>
  BY <1>1 DEF Starts, Asks, Usable, TokenTypes, CallerState
<1>4. TokenTypes'
  BY <1>1, <1>2, <1>3, Free, TypesStep DEF TokenTypes, TokenTypeOK, Locked, Drops
<1>5. muddled => muddled'
  BY <1>3
<1> SUFFICES ASSUME ~muddled'
             PROVE  /\ LockState' /\ NewestIsKept' /\ OneTokenAtATime'
                    /\ \A d \in Callers : caller'[d].at = "call" => caller'[d].token # 0
                    /\ \A d \in Callers : Refused(d)' => RefusedIsGone(d)'
  BY <1>4, <1>5, TInvStep
<1>6. CopiesState /\ OneTokenAtATime
  BY <1>5 DEF TInv, TokenInv
<1>7. LockState'
  BY <1>1, <1>2, <1>3, <1>6, Free
     DEF CopiesState, LockState, Moves, Usable, TokenTypes, TokenTypeOK, Locked
<1>8. NewestIsKept' /\ OneTokenAtATime'
  BY <1>1, <1>3, <1>6
     DEF CopiesState, LockState, NewestIsKept, OneTokenAtATime, Granted, Usable,
         TokenTypes, TokenTypeOK
<1>9. \A d \in Callers : caller'[d].at = "call" => caller'[d].token # 0
  BY <1>2, <1>3, <1>6 DEF CopiesState, LockState, Moves, Usable
<1>10. \A d \in Callers : Refused(d)' => RefusedIsGone(d)'
  BY <1>1, <1>2, <1>3, <1>6, Free
     DEF CopiesState, LockState, Moves, Refused, RefusedIsGone, TokenTypes, TokenTypeOK,
         Locked, Drops
<1>11. QED BY <1>7, <1>8, <1>9, <1>10

\* With the lock it looks again.
LEMMA LocksTInv ==
  ASSUME TInv, NEW c \in Callers, Locks(c)
  PROVE  TInv'
<1>1. TokenTypes /\ copies \in [memory : 0 .. granted, redis : 0 .. granted, file : 0 .. granted]
  BY DEF TInv, TokenTypes, TokenInv, TokenTypeOK
<1>2. Moves(c)
  BY <1>1
     DEF Locks, LooksAgain, Given, To, Usable, TokenTypes, CallerState, Moves, Locked,
         Drops
<1>3. /\ caller[c].at = "wait" /\ holder = Nobody
      /\ caller'[c].attempt = caller[c].attempt /\ caller'[c].refused = caller[c].refused
      /\ \/ /\ caller'[c].at = "call" /\ Usable(copies.memory) /\ caller'[c].token = copies.memory
            /\ holder' = Nobody
         \/ /\ caller'[c].at = "redis" /\ ~Usable(copies.memory) /\ caller'[c].token = caller[c].token
            /\ holder' = c
      /\ UNCHANGED <<copies, granted, ended, expired, muddled>>
  BY <1>1 DEF Locks, LooksAgain, Given, To, Usable, TokenTypes, CallerState
<1>4. TokenTypes'
  BY <1>1, <1>2, <1>3, Free, TypesStep DEF TokenTypes, TokenTypeOK, Locked, Drops
<1>5. muddled => muddled'
  BY <1>3
<1> SUFFICES ASSUME ~muddled'
             PROVE  /\ LockState' /\ NewestIsKept' /\ OneTokenAtATime'
                    /\ \A d \in Callers : caller'[d].at = "call" => caller'[d].token # 0
                    /\ \A d \in Callers : Refused(d)' => RefusedIsGone(d)'
  BY <1>4, <1>5, TInvStep
<1>6. CopiesState /\ OneTokenAtATime
  BY <1>5 DEF TInv, TokenInv
<1>7. LockState'
  BY <1>1, <1>2, <1>3, <1>6, Free
     DEF CopiesState, LockState, Moves, Usable, TokenTypes, TokenTypeOK, Locked
<1>8. NewestIsKept' /\ OneTokenAtATime'
  BY <1>1, <1>3, <1>6
     DEF CopiesState, LockState, NewestIsKept, OneTokenAtATime, Granted, Usable,
         TokenTypes, TokenTypeOK
<1>9. \A d \in Callers : caller'[d].at = "call" => caller'[d].token # 0
  BY <1>2, <1>3, <1>6 DEF CopiesState, LockState, Moves, Usable
<1>10. \A d \in Callers : Refused(d)' => RefusedIsGone(d)'
  BY <1>1, <1>2, <1>3, <1>6, Free
     DEF CopiesState, LockState, Moves, Refused, RefusedIsGone, TokenTypes, TokenTypeOK,
         Locked, Drops
<1>11. QED BY <1>7, <1>8, <1>9, <1>10

\* It takes what Redis has, if that answers.
LEMMA ReadsRedisTInv ==
  ASSUME TInv, NEW c \in Callers, ReadsRedis(c)
  PROVE  TInv'
<1>1. TokenTypes /\ copies \in [memory : 0 .. granted, redis : 0 .. granted, file : 0 .. granted]
  BY DEF TInv, TokenTypes, TokenInv, TokenTypeOK
<1>2. Moves(c)
  <2>1. PICK t \in {copies.redis, 0} :
          caller' = [caller EXCEPT ![c] = [caller[c] EXCEPT !.at = "look", !.token = t]]
    BY <1>1 DEF ReadsRedis, May, TokenTypes, CallerState
  <2>2. [caller[c] EXCEPT !.at = "look", !.token = t] \in CallerState
    <3>1. t \in Nat /\ caller[c] \in CallerState
      BY <1>1 DEF TokenTypes
    <3>2. QED BY <3>1 DEF CallerState, Locked
  <2>3. QED BY <1>1, <2>1, <2>2 DEF TokenTypes, Moves
<1>3. /\ caller[c].at = "redis"
      /\ caller'[c].attempt = caller[c].attempt /\ caller'[c].refused = caller[c].refused
      /\ caller'[c].at = "look" /\ caller'[c].token \in {copies.redis, 0}
      /\ UNCHANGED <<copies, granted, ended, expired, holder, muddled>>
  BY <1>1 DEF ReadsRedis, May, TokenTypes, CallerState
<1>4. TokenTypes'
  BY <1>1, <1>2, <1>3, Free, TypesStep DEF TokenTypes, TokenTypeOK, Locked, Drops
<1>5. muddled => muddled'
  BY <1>3
<1> SUFFICES ASSUME ~muddled'
             PROVE  /\ LockState' /\ NewestIsKept' /\ OneTokenAtATime'
                    /\ \A d \in Callers : caller'[d].at = "call" => caller'[d].token # 0
                    /\ \A d \in Callers : Refused(d)' => RefusedIsGone(d)'
  BY <1>4, <1>5, TInvStep
<1>6. CopiesState /\ OneTokenAtATime
  BY <1>5 DEF TInv, TokenInv
<1>7. LockState'
  BY <1>1, <1>2, <1>3, <1>6, Free
     DEF CopiesState, LockState, Moves, Usable, TokenTypes, TokenTypeOK, Locked
<1>8. NewestIsKept' /\ OneTokenAtATime'
  BY <1>1, <1>3, <1>6
     DEF CopiesState, LockState, NewestIsKept, OneTokenAtATime, Granted, Usable,
         TokenTypes, TokenTypeOK
<1>9. \A d \in Callers : caller'[d].at = "call" => caller'[d].token # 0
  BY <1>2, <1>3, <1>6 DEF CopiesState, LockState, Moves, Usable
<1>10. \A d \in Callers : Refused(d)' => RefusedIsGone(d)'
  BY <1>1, <1>2, <1>3, <1>6, Free
     DEF CopiesState, LockState, Moves, Refused, RefusedIsGone, TokenTypes, TokenTypeOK,
         Locked, Drops
<1>11. QED BY <1>7, <1>8, <1>9, <1>10

\* What Redis or the file has goes to memory, unless neither can be used.
LEMMA LooksTInv ==
  ASSUME TInv, NEW c \in Callers, Looks(c)
  PROVE  TInv'
<1>1. TokenTypes /\ copies \in [memory : 0 .. granted, redis : 0 .. granted, file : 0 .. granted]
  BY DEF TInv, TokenTypes, TokenInv, TokenTypeOK
<1>2. Moves(c)
  BY <1>1 DEF Looks, May, Usable, Given, To, TokenTypes, CallerState, Moves, Locked, Drops
<1>3. /\ caller[c].at = "look"
      /\ caller'[c].attempt = caller[c].attempt /\ caller'[c].refused = caller[c].refused
      /\ \/ /\ caller'[c].at = "call" /\ Usable(caller'[c].token)
            /\ caller'[c].token \in {caller[c].token, copies.file}
            /\ copies' = [copies EXCEPT !.memory = caller'[c].token] /\ holder' = Nobody
            /\ muddled' = (muddled \/ \E d \in Callers : caller[d].at \in Drops)
         \/ /\ caller'[c].at = "issue" /\ caller'[c].token = caller[c].token
            /\ UNCHANGED <<copies, holder, muddled>>
      /\ UNCHANGED <<granted, ended, expired>>
  BY <1>1 DEF Looks, May, Usable, Given, To, TokenTypes, CallerState
<1>4. TokenTypes'
  <2>1. muddled' \in BOOLEAN
    BY <1>1, <1>3 DEF TokenTypes, TokenTypeOK
  <2>2. caller'[c].token \in 0 .. granted /\ caller'[c].refused \in 0 .. granted
    BY <1>1, <1>3 DEF TokenTypes, TokenTypeOK
  <2>3. copies' \in [memory : 0 .. granted, redis : 0 .. granted, file : 0 .. granted]
    BY <1>1, <1>3, <2>2
  <2>4. \/ caller[c].at \in Locked /\ caller'[c].at \in Locked /\ holder' = holder
        \/ caller[c].at \in Locked /\ caller'[c].at \notin Locked /\ holder' = Nobody
    BY <1>3 DEF Locked
  <2>5. QED BY <1>1, <1>2, <1>3, <2>1, <2>2, <2>3, <2>4, Free, TypesStep DEF TokenTypes, TokenTypeOK
<1>5. muddled => muddled'
  BY <1>3
<1> SUFFICES ASSUME ~muddled'
             PROVE  /\ LockState' /\ NewestIsKept' /\ OneTokenAtATime'
                    /\ \A d \in Callers : caller'[d].at = "call" => caller'[d].token # 0
                    /\ \A d \in Callers : Refused(d)' => RefusedIsGone(d)'
  BY <1>4, <1>5, TInvStep
<1>6. CopiesState /\ OneTokenAtATime
  BY <1>5 DEF TInv, TokenInv
<1>7. LockState'
  BY <1>1, <1>2, <1>3, <1>6, Free
     DEF CopiesState, LockState, Moves, Usable, TokenTypes, TokenTypeOK, Locked
<1>8. NewestIsKept' /\ OneTokenAtATime'
  BY <1>1, <1>3, <1>6
     DEF CopiesState, LockState, NewestIsKept, OneTokenAtATime, Granted, Usable,
         TokenTypes, TokenTypeOK
<1>9. \A d \in Callers : caller'[d].at = "call" => caller'[d].token # 0
  BY <1>2, <1>3, <1>6 DEF CopiesState, LockState, Moves, Usable
<1>10. \A d \in Callers : Refused(d)' => RefusedIsGone(d)'
  <2> SUFFICES ASSUME NEW d \in Callers, Refused(d)' PROVE RefusedIsGone(d)'
    OBVIOUS
  <2>1. Refused(d) /\ RefusedIsGone(d) /\ caller'[d].refused = caller[d].refused
    BY <1>2, <1>3, <1>6 DEF CopiesState, Refused, Moves, Drops
  <2>2. \A e \in Callers : caller'[e].at \in {"keep", "write", "look"} => caller'[e] = caller[e]
    BY <1>2, <1>3 DEF Moves
  <2>3. CASE caller'[c].at = "call"
    <3>1. caller[d].at \notin Drops
      BY <1>3, <2>3
    <3>2. caller'[c].token # caller[d].refused /\ copies'.redis = copies.redis
          /\ copies'.file = copies.file /\ copies'.memory # caller[d].refused
      BY <1>1, <1>3, <2>1, <2>3, <3>1 DEF RefusedIsGone, Drops
    <3>3. caller'[d].at = "call" => caller'[d].token # caller[d].refused
      BY <1>2, <2>1, <3>2 DEF Moves, RefusedIsGone
    <3>4. QED BY <1>2, <1>3, <2>1, <2>2, <3>1, <3>2, <3>3 DEF RefusedIsGone, Drops
  <2>4. CASE caller'[c].at = "issue"
    <3>1. copies' = copies
      BY <1>3, <2>4
    <3>2. caller'[d].at \in {"drop", "call"} \cup Drops => caller'[d] = caller[d]
      BY <1>2, <2>4 DEF Moves, Drops
    <3>3. caller[d].at \in Drops => caller'[d] = caller[d]
      BY <1>2, <1>3 DEF Moves, Drops
    <3>4. QED BY <2>1, <2>2, <3>1, <3>2, <3>3 DEF RefusedIsGone, Drops
  <2>5. QED BY <1>3, <2>3, <2>4
<1>11. QED BY <1>7, <1>8, <1>9, <1>10

\* A token is issued, or the request fails.
LEMMA IssuesTInv ==
  ASSUME TInv, NEW c \in Callers, Issues(c)
  PROVE  TInv'
<1>1. TokenTypes /\ copies \in [memory : 0 .. granted, redis : 0 .. granted, file : 0 .. granted]
  BY DEF TInv, TokenTypes, TokenInv, TokenTypeOK
<1>2. Moves(c)
  BY <1>1 DEF Issues, IssueFails, Rest, TokenTypes, CallerState, Moves, Locked, Drops
<1>3. /\ caller[c].at = "issue"
      /\ \/ /\ caller'[c].at = "keep" /\ caller'[c].token = granted'
            /\ caller'[c].attempt = caller[c].attempt /\ caller'[c].refused = caller[c].refused
            /\ granted < MaxTokens /\ granted' = granted + 1
            /\ copies' = [copies EXCEPT !.memory = granted'] /\ holder' = holder
         \/ caller'[c] = Rest /\ holder' = Nobody /\ UNCHANGED <<copies, granted>>
      /\ UNCHANGED <<ended, expired, muddled>>
  BY <1>1 DEF Issues, IssueFails, Rest, TokenTypes, CallerState
<1>4. TokenTypes'
  BY <1>1, <1>2, <1>3, Free, TypesStep DEF TokenTypes, TokenTypeOK, Locked, Drops, Rest
<1>5. muddled => muddled'
  BY <1>3
<1> SUFFICES ASSUME ~muddled'
             PROVE  /\ LockState' /\ NewestIsKept' /\ OneTokenAtATime'
                    /\ \A d \in Callers : caller'[d].at = "call" => caller'[d].token # 0
                    /\ \A d \in Callers : Refused(d)' => RefusedIsGone(d)'
  BY <1>4, <1>5, TInvStep
<1>6. CopiesState /\ OneTokenAtATime
  BY <1>5 DEF TInv, TokenInv
<1>7. LockState'
  BY <1>1, <1>2, <1>3, <1>6, Free
     DEF CopiesState, LockState, Moves, Usable, TokenTypes, TokenTypeOK, Locked, Rest
<1>8. NewestIsKept' /\ OneTokenAtATime'
  BY <1>1, <1>3, <1>6
     DEF CopiesState, LockState, NewestIsKept, OneTokenAtATime, Granted, Usable,
         TokenTypes, TokenTypeOK
<1>9. \A d \in Callers : caller'[d].at = "call" => caller'[d].token # 0
  BY <1>2, <1>3, <1>6 DEF CopiesState, LockState, Moves, Usable, Rest
<1>10. \A d \in Callers : Refused(d)' => RefusedIsGone(d)'
  BY <1>1, <1>2, <1>3, <1>6, Free
     DEF CopiesState, LockState, Moves, Refused, RefusedIsGone, TokenTypes, TokenTypeOK,
         Locked, Drops, Rest
<1>11. QED BY <1>7, <1>8, <1>9, <1>10

\* The new token goes to Redis.
LEMMA KeepsInRedisTInv ==
  ASSUME TInv, NEW c \in Callers, KeepsInRedis(c)
  PROVE  TInv'
<1>1. TokenTypes /\ copies \in [memory : 0 .. granted, redis : 0 .. granted, file : 0 .. granted]
  BY DEF TInv, TokenTypes, TokenInv, TokenTypeOK
<1>2. Moves(c)
  BY <1>1 DEF KeepsInRedis, May, To, TokenTypes, CallerState, Moves, Locked, Drops
<1>3. /\ caller[c].at = "keep"
      /\ caller'[c].attempt = caller[c].attempt /\ caller'[c].refused = caller[c].refused
      /\ caller'[c].at = "write" /\ caller'[c].token = caller[c].token
      /\ \E t \in {caller[c].token, copies.redis} : copies' = [copies EXCEPT !.redis = t]
      /\ UNCHANGED <<granted, ended, expired, holder, muddled>>
  BY <1>1 DEF KeepsInRedis, May, To, TokenTypes, CallerState
<1>4. TokenTypes'
  BY <1>1, <1>2, <1>3, Free, TypesStep DEF TokenTypes, TokenTypeOK, Locked, Drops
<1>5. muddled => muddled'
  BY <1>3
<1> SUFFICES ASSUME ~muddled'
             PROVE  /\ LockState' /\ NewestIsKept' /\ OneTokenAtATime'
                    /\ \A d \in Callers : caller'[d].at = "call" => caller'[d].token # 0
                    /\ \A d \in Callers : Refused(d)' => RefusedIsGone(d)'
  BY <1>4, <1>5, TInvStep
<1>6. CopiesState /\ OneTokenAtATime
  BY <1>5 DEF TInv, TokenInv
<1>7. LockState'
  BY <1>1, <1>2, <1>3, <1>6, Free
     DEF CopiesState, LockState, Moves, Usable, TokenTypes, TokenTypeOK, Locked
<1>8. NewestIsKept' /\ OneTokenAtATime'
  BY <1>1, <1>3, <1>6
     DEF CopiesState, LockState, NewestIsKept, OneTokenAtATime, Granted, Usable,
         TokenTypes, TokenTypeOK
<1>9. \A d \in Callers : caller'[d].at = "call" => caller'[d].token # 0
  BY <1>2, <1>3, <1>6 DEF CopiesState, LockState, Moves, Usable
<1>10. \A d \in Callers : Refused(d)' => RefusedIsGone(d)'
  BY <1>1, <1>2, <1>3, <1>6, Free
     DEF CopiesState, LockState, Moves, Refused, RefusedIsGone, TokenTypes, TokenTypeOK,
         Locked, Drops
<1>11. QED BY <1>7, <1>8, <1>9, <1>10

\* And to the file; what memory has is returned.
LEMMA KeepsInFileTInv ==
  ASSUME TInv, NEW c \in Callers, KeepsInFile(c)
  PROVE  TInv'
<1>1. TokenTypes /\ copies \in [memory : 0 .. granted, redis : 0 .. granted, file : 0 .. granted]
  BY DEF TInv, TokenTypes, TokenInv, TokenTypeOK
<1>2. Moves(c)
  BY <1>1 DEF KeepsInFile, May, Given, TokenTypes, CallerState, Moves, Locked, Drops
<1>3. /\ caller[c].at = "write"
      /\ caller'[c].attempt = caller[c].attempt /\ caller'[c].refused = caller[c].refused
      /\ caller'[c].at = "call" /\ caller'[c].token = copies.memory /\ holder' = Nobody
      /\ \E t \in {caller[c].token, copies.file} : copies' = [copies EXCEPT !.file = t]
      /\ UNCHANGED <<granted, ended, expired, muddled>>
  BY <1>1 DEF KeepsInFile, May, Given, TokenTypes, CallerState
<1>4. TokenTypes'
  BY <1>1, <1>2, <1>3, Free, TypesStep DEF TokenTypes, TokenTypeOK, Locked, Drops
<1>5. muddled => muddled'
  BY <1>3
<1> SUFFICES ASSUME ~muddled'
             PROVE  /\ LockState' /\ NewestIsKept' /\ OneTokenAtATime'
                    /\ \A d \in Callers : caller'[d].at = "call" => caller'[d].token # 0
                    /\ \A d \in Callers : Refused(d)' => RefusedIsGone(d)'
  BY <1>4, <1>5, TInvStep
<1>6. CopiesState /\ OneTokenAtATime
  BY <1>5 DEF TInv, TokenInv
<1>7. LockState'
  BY <1>1, <1>2, <1>3, <1>6, Free
     DEF CopiesState, LockState, Moves, Usable, TokenTypes, TokenTypeOK, Locked
<1>8. NewestIsKept' /\ OneTokenAtATime'
  BY <1>1, <1>3, <1>6
     DEF CopiesState, LockState, NewestIsKept, OneTokenAtATime, Granted, Usable,
         TokenTypes, TokenTypeOK
<1>9. \A d \in Callers : caller'[d].at = "call" => caller'[d].token # 0
  BY <1>2, <1>3, <1>6 DEF CopiesState, LockState, Moves, Usable
<1>10. \A d \in Callers : Refused(d)' => RefusedIsGone(d)'
  BY <1>1, <1>2, <1>3, <1>6, Free
     DEF CopiesState, LockState, Moves, Refused, RefusedIsGone, TokenTypes, TokenTypeOK,
         Locked, Drops
<1>11. QED BY <1>7, <1>8, <1>9, <1>10

\* The price request: done, or its token is to be dropped.
LEMMA CalledTInv ==
  ASSUME TInv, NEW c \in Callers, Called(c)
  PROVE  TInv'
<1>1. TokenTypes /\ copies \in [memory : 0 .. granted, redis : 0 .. granted, file : 0 .. granted]
  BY DEF TInv, TokenTypes, TokenInv, TokenTypeOK
<1>2. Moves(c)
  BY <1>1 DEF Called, Rest, TokenTypes, CallerState, Moves, Locked, Drops
<1>3. /\ caller[c].at = "call"
      /\ \/ caller'[c] = Rest /\ UNCHANGED <<copies, muddled>>
         \/ /\ caller'[c].at = "drop" /\ caller'[c].token = caller[c].token
            /\ caller'[c].attempt = caller[c].attempt /\ caller'[c].refused = caller[c].token
            /\ caller[c].attempt = 1 /\ caller[c].token \in ended \cup {0}
            /\ copies' = [copies EXCEPT !.memory = 0]
            /\ muddled' = (muddled \/ holder # Nobody \/ copies.memory # caller[c].token)
      /\ UNCHANGED <<granted, ended, expired, holder>>
  BY <1>1 DEF Called, Rest, TokenTypes, CallerState
<1>4. TokenTypes'
  <2>1. muddled' \in BOOLEAN
    BY <1>1, <1>3 DEF TokenTypes, TokenTypeOK
  <2>2. caller'[c].token \in 0 .. granted /\ caller'[c].refused \in 0 .. granted
    BY <1>1, <1>3, Free DEF TokenTypes, TokenTypeOK, Rest
  <2>3. copies' \in [memory : 0 .. granted, redis : 0 .. granted, file : 0 .. granted]
    BY <1>1, <1>3, Free DEF TokenTypes, TokenTypeOK
  <2>4. caller[c].at \notin Locked /\ caller'[c].at \notin Locked /\ holder' = holder
    BY <1>3 DEF Locked, Rest
  <2>5. caller'[c].at = "rest" => caller'[c].attempt = 1
    BY <1>3 DEF Rest
  <2>6. QED BY <1>1, <1>2, <1>3, <2>1, <2>2, <2>3, <2>4, <2>5, Free, TypesStep
            DEF TokenTypes, TokenTypeOK
<1>5. muddled => muddled'
  BY <1>3
<1> SUFFICES ASSUME ~muddled'
             PROVE  /\ LockState' /\ NewestIsKept' /\ OneTokenAtATime'
                    /\ \A d \in Callers : caller'[d].at = "call" => caller'[d].token # 0
                    /\ \A d \in Callers : Refused(d)' => RefusedIsGone(d)'
  BY <1>4, <1>5, TInvStep
<1>6. CopiesState /\ OneTokenAtATime
  BY <1>5 DEF TInv, TokenInv
<1>7. LockState'
  <2>1. \A d \in Callers : caller'[d].at \in Locked => caller'[d] = caller[d]
    BY <1>2, <1>3 DEF Moves, Rest, Locked
  <2>2. CASE copies' = copies
    BY <1>3, <1>6, <2>1, <2>2 DEF CopiesState, LockState, Locked, Usable
  <2>3. CASE copies' # copies
    <3>1. \A d \in Callers : caller[d].at \notin Locked
      BY <1>1, <1>3, <2>3, Free DEF TokenTypes, TokenTypeOK
    <3>2. QED BY <2>1, <3>1 DEF LockState, Locked
  <2>4. QED BY <2>2, <2>3
<1>8. NewestIsKept' /\ OneTokenAtATime'
  BY <1>1, <1>3, <1>6
     DEF CopiesState, LockState, NewestIsKept, OneTokenAtATime, Granted, Usable,
         TokenTypes, TokenTypeOK
<1>9. \A d \in Callers : caller'[d].at = "call" => caller'[d].token # 0
  BY <1>2, <1>3, <1>6 DEF CopiesState, LockState, Moves, Usable, Rest
<1>10. \A d \in Callers : Refused(d)' => RefusedIsGone(d)'
  <2> SUFFICES ASSUME NEW d \in Callers, Refused(d)' PROVE RefusedIsGone(d)'
    OBVIOUS
  <2>1. \A e \in Callers : caller'[e].at \in {"keep", "write", "look"} => caller'[e] = caller[e]
    BY <1>2, <1>3 DEF Moves, Rest
  <2>2. CASE d = c
    <3>1. caller'[c].at = "drop" /\ caller'[c].refused = caller[c].token /\ copies'.memory = 0
      BY <1>1, <1>3, <2>2 DEF Refused, Rest, Drops
    <3>2. holder = Nobody /\ caller[c].token # 0
      <4>1. muddled' = (muddled \/ holder # Nobody \/ copies.memory # caller[c].token)
        BY <1>3, <3>1 DEF Rest
      <4>2. holder = Nobody
        BY <4>1
      <4>3. caller[c].token # 0
        BY <1>3, <1>6 DEF CopiesState
      <4>4. QED BY <4>2, <4>3
    <3>3. \A e \in Callers : caller[e].at \notin Locked
      BY <1>1, <3>2, Free DEF TokenTypes, TokenTypeOK
    <3>4. QED BY <2>1, <2>2, <3>1, <3>2, <3>3 DEF RefusedIsGone, Locked, Drops
  <2>3. CASE d # c
    <3>1. caller'[d] = caller[d] /\ RefusedIsGone(d)
      BY <1>2, <1>6, <2>3 DEF Moves, Refused, CopiesState
    <3>2. copies'.redis = copies.redis /\ copies'.file = copies.file /\ copies'.memory \in {0, copies.memory}
      BY <1>1, <1>3
    <3>3. QED BY <2>1, <3>1, <3>2 DEF RefusedIsGone
  <2>4. QED BY <2>2, <2>3
<1>11. QED BY <1>7, <1>8, <1>9, <1>10

\* The refused token is dropped from Redis.
LEMMA DropsInRedisTInv ==
  ASSUME TInv, NEW c \in Callers, DropsInRedis(c)
  PROVE  TInv'
<1>1. TokenTypes /\ copies \in [memory : 0 .. granted, redis : 0 .. granted, file : 0 .. granted]
  BY DEF TInv, TokenTypes, TokenInv, TokenTypeOK
<1>2. Moves(c)
  BY <1>1 DEF DropsInRedis, May, To, TokenTypes, CallerState, Moves, Locked, Drops
<1>3. /\ caller[c].at = "drop"
      /\ caller'[c].attempt = caller[c].attempt /\ caller'[c].refused = caller[c].refused
      /\ caller'[c].at = "remove" /\ caller'[c].token = caller[c].token
      /\ \E t \in {0, copies.redis} :
           /\ copies' = [copies EXCEPT !.redis = t]
           /\ muddled' = (muddled \/ holder # Nobody \/ t # 0)
      /\ UNCHANGED <<granted, ended, expired, holder>>
  BY <1>1 DEF DropsInRedis, May, To, TokenTypes, CallerState
<1>4. TokenTypes'
  BY <1>1, <1>2, <1>3, Free, TypesStep DEF TokenTypes, TokenTypeOK, Locked, Drops
<1>5. muddled => muddled'
  BY <1>3
<1> SUFFICES ASSUME ~muddled'
             PROVE  /\ LockState' /\ NewestIsKept' /\ OneTokenAtATime'
                    /\ \A d \in Callers : caller'[d].at = "call" => caller'[d].token # 0
                    /\ \A d \in Callers : Refused(d)' => RefusedIsGone(d)'
  BY <1>4, <1>5, TInvStep
<1>6. CopiesState /\ OneTokenAtATime
  BY <1>5 DEF TInv, TokenInv
<1>7. LockState'
  BY <1>1, <1>2, <1>3, <1>6, Free
     DEF CopiesState, LockState, Moves, Usable, TokenTypes, TokenTypeOK, Locked
<1>8. NewestIsKept' /\ OneTokenAtATime'
  BY <1>1, <1>3, <1>6
     DEF CopiesState, LockState, NewestIsKept, OneTokenAtATime, Granted, Usable,
         TokenTypes, TokenTypeOK
<1>9. \A d \in Callers : caller'[d].at = "call" => caller'[d].token # 0
  BY <1>2, <1>3, <1>6 DEF CopiesState, LockState, Moves, Usable
<1>10. \A d \in Callers : Refused(d)' => RefusedIsGone(d)'
  <2> SUFFICES ASSUME NEW d \in Callers, Refused(d)' PROVE RefusedIsGone(d)'
    OBVIOUS
  <2>1. \A e \in Callers : caller'[e].at \in {"keep", "write", "look"} => caller'[e] = caller[e]
    BY <1>2, <1>3 DEF Moves
  <2>2. Refused(d) /\ RefusedIsGone(d) /\ caller'[d].refused = caller[d].refused
    BY <1>2, <1>3, <1>6 DEF CopiesState, Refused, Moves, Drops
  <2>3. copies'.memory = copies.memory /\ copies'.file = copies.file /\ copies'.redis = 0
    BY <1>1, <1>3
  <2>4. CASE d = c
    BY <1>3, <2>1, <2>2, <2>3, <2>4 DEF RefusedIsGone, Drops
  <2>5. CASE d # c
    <3>1. caller'[d] = caller[d]
      BY <1>2, <2>5 DEF Moves
    <3>2. QED BY <2>1, <2>2, <2>3, <3>1 DEF RefusedIsGone
  <2>6. QED BY <2>4, <2>5
<1>11. QED BY <1>7, <1>8, <1>9, <1>10

\* And from the file; the second attempt looks at the memory.
LEMMA DropsFileTInv ==
  ASSUME TInv, NEW c \in Callers, DropsFile(c)
  PROVE  TInv'
<1>1. TokenTypes /\ copies \in [memory : 0 .. granted, redis : 0 .. granted, file : 0 .. granted]
  BY DEF TInv, TokenTypes, TokenInv, TokenTypeOK
<1>2. Moves(c)
  BY <1>1
     DEF DropsFile, WithoutFile, Asks, Usable, TokenTypes, CallerState, Moves, Locked,
         Drops
<1>3. /\ caller[c].at = "remove"
      /\ caller'[c].attempt = 2 /\ caller'[c].refused = caller[c].refused
      /\ \/ caller'[c].at = "call" /\ Usable(copies.memory) /\ caller'[c].token = copies.memory
         \/ caller'[c].at = "wait" /\ caller'[c].token = caller[c].token
      /\ \/ copies' = [copies EXCEPT !.file = 0] /\ muddled' = (muddled \/ holder # Nobody)
         \/ copies' = copies /\ muddled' = TRUE
      /\ UNCHANGED <<granted, ended, expired, holder>>
  BY <1>1 DEF DropsFile, WithoutFile, Asks, Usable, TokenTypes, CallerState
<1>4. TokenTypes'
  <2>1. muddled' \in BOOLEAN
    BY <1>1, <1>3 DEF TokenTypes, TokenTypeOK
  <2>2. caller'[c].token \in 0 .. granted /\ caller'[c].refused \in 0 .. granted
    BY <1>1, <1>3 DEF TokenTypes, TokenTypeOK
  <2>3. copies' \in [memory : 0 .. granted, redis : 0 .. granted, file : 0 .. granted]
    BY <1>1, <1>3, Free DEF TokenTypes, TokenTypeOK
  <2>4. caller[c].at \notin Locked /\ caller'[c].at \notin Locked /\ holder' = holder
    BY <1>3 DEF Locked
  <2>5. QED BY <1>1, <1>2, <1>3, <2>1, <2>2, <2>3, <2>4, Free, TypesStep
            DEF TokenTypes, TokenTypeOK
<1>5. muddled => muddled'
  BY <1>3
<1> SUFFICES ASSUME ~muddled'
             PROVE  /\ LockState' /\ NewestIsKept' /\ OneTokenAtATime'
                    /\ \A d \in Callers : caller'[d].at = "call" => caller'[d].token # 0
                    /\ \A d \in Callers : Refused(d)' => RefusedIsGone(d)'
  BY <1>4, <1>5, TInvStep
<1>6. CopiesState /\ OneTokenAtATime
  BY <1>5 DEF TInv, TokenInv
<1>7. LockState'
  BY <1>1, <1>2, <1>3, <1>6, Free
     DEF CopiesState, LockState, Moves, Usable, TokenTypes, TokenTypeOK, Locked
<1>8. NewestIsKept' /\ OneTokenAtATime'
  BY <1>1, <1>3, <1>6
     DEF CopiesState, LockState, NewestIsKept, OneTokenAtATime, Granted, Usable,
         TokenTypes, TokenTypeOK
<1>9. \A d \in Callers : caller'[d].at = "call" => caller'[d].token # 0
  BY <1>2, <1>3, <1>6 DEF CopiesState, LockState, Moves, Usable
<1>10. \A d \in Callers : Refused(d)' => RefusedIsGone(d)'
  <2> SUFFICES ASSUME NEW d \in Callers, Refused(d)' PROVE RefusedIsGone(d)'
    OBVIOUS
  <2>1. \A e \in Callers : caller'[e].at \in {"keep", "write", "look"} => caller'[e] = caller[e]
    BY <1>2, <1>3 DEF Moves
  <2>2. Refused(d) /\ RefusedIsGone(d) /\ caller'[d].refused = caller[d].refused
    BY <1>2, <1>3, <1>6 DEF CopiesState, Refused, Moves, Drops
  <2>3. copies'.memory = copies.memory /\ copies'.redis = copies.redis /\ copies'.file = 0
        /\ holder = Nobody
    BY <1>1, <1>3
  <2>4. CASE d = c
    <3>1. \A e \in Callers : caller[e].at \notin Locked
      BY <1>1, <2>3, Free DEF TokenTypes, TokenTypeOK
    <3>2. copies.memory # caller[c].refused /\ copies.redis # caller[c].refused /\ caller[c].refused # 0
      BY <1>3, <2>2, <2>4 DEF RefusedIsGone
    <3>3. caller'[c].at = "call" => caller'[c].token = copies.memory
      BY <1>3
    <3>4. QED BY <2>1, <2>2, <2>3, <2>4, <3>1, <3>2, <3>3 DEF RefusedIsGone, Locked, Drops
  <2>5. CASE d # c
    <3>1. caller'[d] = caller[d]
      BY <1>2, <2>5 DEF Moves
    <3>2. QED BY <2>1, <2>2, <2>3, <3>1 DEF RefusedIsGone
  <2>6. QED BY <2>4, <2>5
<1>11. QED BY <1>7, <1>8, <1>9, <1>10


\* Tokens end and lapse, and that makes none of them newer or usable again.
LEMMA EndsTInv ==
  ASSUME TInv, TokenEnds \/ TokenLapses
  PROVE  TInv'
<1>1. /\ UNCHANGED <<copies, granted, holder, caller, muddled>>
      /\ ended \subseteq ended' /\ expired \subseteq expired'
      /\ ended' \subseteq Granted /\ expired' \subseteq ended'
  BY DEF TInv, TokenInv, TokenTypeOK, TokenEnds, TokenLapses
<1>2. TokenTypes'
  BY <1>1 DEF TInv, TokenInv, TokenTypes, TokenTypeOK, Granted
<1>3. SUFFICES ASSUME ~muddled, CopiesState, OneTokenAtATime
               PROVE  /\ LockState' /\ NewestIsKept' /\ OneTokenAtATime'
                      /\ \A d \in Callers : caller'[d].at = "call" => caller'[d].token # 0
                      /\ \A d \in Callers : Refused(d)' => RefusedIsGone(d)'
  BY <1>1, <1>2, TInvStep DEF TInv, TokenInv
<1>4. LockState'
  BY <1>1, <1>3 DEF CopiesState, LockState, Usable
<1>5. NewestIsKept' /\ OneTokenAtATime'
  BY <1>1, <1>3 DEF CopiesState, NewestIsKept, OneTokenAtATime, Granted
<1>6. \A d \in Callers : Refused(d)' => RefusedIsGone(d)'
  BY <1>1, <1>3 DEF CopiesState, Refused, RefusedIsGone
<1>7. QED BY <1>1, <1>3, <1>4, <1>5, <1>6 DEF CopiesState

\* All steps together.
LEMMA NextTInv == TInv /\ [TokenNext]_tokenVars => TInv'
<1> SUFFICES ASSUME TInv, [TokenNext]_tokenVars PROVE TInv'
  OBVIOUS
<1>1. CASE UNCHANGED tokenVars
  BY <1>1 DEF tokenVars, TInv, TokenInv, TokenTypeOK, OneTokenAtATime, SecondTryHasAnother,
              CopiesState, LockState, NewestIsKept, Refused, RefusedIsGone, Granted, Usable
<1>2. QED BY <1>1, EndsTInv, StartsTInv, LocksTInv, ReadsRedisTInv, LooksTInv, IssuesTInv,
             KeepsInRedisTInv, KeepsInFileTInv, CalledTInv, DropsInRedisTInv, DropsFileTInv
          DEF TokenNext

\* KISClient: while no copy of a token is dropped under another request's hands,
\* one token is issued for all that find none, and a refused one is not tried
\* again: for any number of requests and tokens, with Redis, the file and the
\* broker failing as they like.
THEOREM TokensAreShared == TokenSpec => []TokenInv
<1>1. TInv => TokenInv
  BY DEF TInv
<1>2. QED BY <1>1, InitTInv, NextTInv, PTL DEF TokenSpec

-----------------------------------------------------------------------------
(* The alerts: lists that are loaded, lengthened and written *)

MonitorState ==
  [at : {"down", "load cool", "sleep", "save notes", "save cool"}, notes : Seq(0 .. MaxClock),
   cool : {Never} \cup 0 .. MaxClock, dirty : BOOLEAN]

\* No alert is of a time to come, and no list is too long.
ListIsPast(notes) == Len(notes) <= MaxAlerts /\ \A i \in DOMAIN notes : notes[i] <= clock

\* Whoever wrote last, if anyone, is past loading and has its list in Redis until
\* it raises another alert.
WriterState ==
  /\ wrote = {} \/ \E r \in Replicas : wrote = {r}
  /\ \A r \in wrote : /\ monitor[r].at \notin {"down", "load cool"}
                      /\ monitor[r].at = "save cool" => shared.notes = monitor[r].notes

AInv ==
  /\ monitor \in [Replicas -> MonitorState]
  /\ shared \in [notes : Seq(0 .. MaxClock), cool : {Never} \cup 0 .. MaxClock]
  /\ MonitorInv
  /\ ListIsPast(shared.notes) /\ \A r \in Replicas : ListIsPast(monitor[r].notes)
  /\ WriterState

\* The newest alert in front, the list cut at its end.
LEMMA CutList ==
  ASSUME NEW notes \in Seq(0 .. MaxClock), NEW t \in 0 .. MaxClock
  PROVE  LET new == Cut(<<t>> \o notes) IN
         /\ new \in Seq(0 .. MaxClock) /\ Len(new) <= MaxAlerts
         /\ Len(new) \in 1 .. Len(notes) + 1
         /\ new[1] = t /\ \A i \in 2 .. Len(new) : new[i] = notes[i - 1]
<1> DEFINE long == <<t>> \o notes
           n    == IF Len(long) > MaxAlerts THEN MaxAlerts ELSE Len(long)
<1>1. /\ long \in Seq(0 .. MaxClock) /\ Len(long) = Len(notes) + 1 /\ long[1] = t
      /\ \A i \in 2 .. Len(long) : long[i] = notes[i - 1] /\ Len(notes) \in Nat
  OBVIOUS
<1>2. MaxAlerts \in Nat \ {0} /\ Len(notes) \in Nat
  BY MonitorAssumption
<1>3. n \in 1 .. Len(long) /\ n <= MaxAlerts
  BY <1>1, <1>2
<1>4. Cut(<<t>> \o notes) = SubSeq(long, 1, n)
  BY DEF Cut
<1> HIDE DEF long, n
<1>5. \A i \in 1 .. n : long[i] \in 0 .. MaxClock
  <2>1. \A i \in 1 .. n : i \in 1 .. Len(long)
    BY <1>1, <1>2, <1>3
  <2>2. QED BY <1>1, <2>1, ElementOfSeq
<1>6. /\ SubSeq(long, 1, n) \in Seq(0 .. MaxClock) /\ Len(SubSeq(long, 1, n)) = n
      /\ \A i \in 1 .. n : SubSeq(long, 1, n)[i] = long[i]
  <2>1. n \in Int /\ 1 <= n /\ n - 1 + 1 = n /\ \A i \in 1 .. n : 1 + i - 1 = i
    BY <1>1, <1>2, <1>3
  <2>2. /\ SubSeq(long, 1, n) \in Seq(0 .. MaxClock)
        /\ Len(SubSeq(long, 1, n)) = IF 1 <= n THEN n - 1 + 1 ELSE 0
        /\ \A i \in 1 .. n - 1 + 1 : SubSeq(long, 1, n)[i] = long[1 + i - 1]
    BY <1>5, <2>1, SubSeqProperties
  <2>3. QED BY <2>1, <2>2
<1> DEFINE new == Cut(<<t>> \o notes)
<1>7. /\ new \in Seq(0 .. MaxClock) /\ Len(new) = n
      /\ \A i \in 1 .. n : new[i] = long[i]
  BY <1>4, <1>6
<1> HIDE DEF new
<1>8. /\ Len(new) <= MaxAlerts /\ Len(new) \in 1 .. Len(notes) + 1
      /\ new[1] = t /\ \A i \in 2 .. Len(new) : new[i] = notes[i - 1]
  BY <1>1, <1>2, <1>3, <1>7
<1>9. QED BY <1>7, <1>8 DEF new

\* An alert after the cooldown keeps the list in order.
LEMMA FitsAfter ==
  ASSUME NEW notes \in Seq(0 .. MaxClock), NEW cool \in {Never} \cup 0 .. MaxClock,
         clock \in 0 .. MaxClock, ListIsPast(notes), clock - cool >= Cooldown,
         Fits(notes, cool)
  PROVE  Fits(Cut(<<clock>> \o notes), clock) /\ ListIsPast(Cut(<<clock>> \o notes))
<1> DEFINE new == Cut(<<clock>> \o notes)
<1>1. /\ new \in Seq(0 .. MaxClock) /\ Len(new) <= MaxAlerts /\ Len(new) \in 1 .. Len(notes) + 1
      /\ new[1] = clock /\ \A i \in 2 .. Len(new) : new[i] = notes[i - 1]
  BY CutList
<1>2. MaxClock \in Nat /\ Len(notes) \in Nat /\ DOMAIN notes = 1 .. Len(notes)
      /\ \A i \in 1 .. Len(notes) : notes[i] \in 0 .. clock
  BY MonitorAssumption DEF ListIsPast
<1> HIDE DEF new
<1>3. \A i \in 1 .. Len(new) : new[i] \in 0 .. clock
  <2> SUFFICES ASSUME NEW i \in 1 .. Len(new) PROVE new[i] \in 0 .. clock
    OBVIOUS
  <2>1. CASE i = 1
    BY <1>1, <1>2, <2>1
  <2>2. CASE i # 1
    <3>1. i \in 2 .. Len(new) /\ i - 1 \in 1 .. Len(notes)
      BY <1>1, <1>2, <2>2
    <3>2. QED BY <1>1, <1>2, <3>1
  <2>3. QED BY <2>1, <2>2
<1>4. \A i \in 1 .. Len(new) - 1 : new[i] - new[i + 1] >= Cooldown
  <2> SUFFICES ASSUME NEW i \in 1 .. Len(new) - 1 PROVE new[i] - new[i + 1] >= Cooldown
    OBVIOUS
  <2>1. i + 1 \in 2 .. Len(new) /\ i \in 1 .. Len(notes) /\ new[i + 1] = notes[i]
    BY <1>1, <1>2
  <2>2. CASE i = 1
    <3>1. clock - notes[1] < Cooldown => cool >= notes[1]
      BY <1>2, <2>1, <2>2 DEF Fits
    <3>2. QED BY <1>1, <1>2, <2>1, <2>2, <3>1 DEF Cooldown, Never
  <2>3. CASE i # 1
    <3>1. i \in 2 .. Len(new) /\ new[i] = notes[i - 1] /\ i - 1 \in 1 .. Len(notes) - 1
      BY <1>1, <1>2, <2>1, <2>3
    <3>2. notes[i - 1] - notes[(i - 1) + 1] >= Cooldown /\ (i - 1) + 1 = i
      BY <3>1 DEF Fits
    <3>3. QED BY <2>1, <3>1, <3>2
  <2>4. QED BY <2>2, <2>3
<1>5. DOMAIN new = 1 .. Len(new)
  BY <1>1
<1>6. QED BY <1>1, <1>2, <1>3, <1>4, <1>5 DEF Fits, ListIsPast, new

\* The last writer is one, if there is one.
LEMMA OneWriter ==
  ASSUME NEW W, W = {} \/ \E q \in Replicas : W = {q}
  PROVE  Cardinality(W) <= 1
<1>1. CASE W = {}
  BY <1>1, FS_EmptySet
<1>2. CASE \E q \in Replicas : W = {q}
  <2>1. PICK q \in Replicas : W = {q}
    BY <1>2
  <2>2. Cardinality(W) = 1
    BY <2>1, FS_Singleton, Zenon
  <2>3. QED BY <2>2
<1>3. QED BY <1>1, <1>2

\* No replica has started.
LEMMA InitAInv == MonitorInit => AInv
<1> SUFFICES ASSUME MonitorInit PROVE AInv
  OBVIOUS
<1>1. /\ clock = 0 /\ shared = [notes |-> <<>>, cool |-> Never] /\ wrote = {}
      /\ \A r \in Replicas : monitor[r] = Started
      /\ monitor = [r \in Replicas |-> Started] /\ torn = [r \in Replicas |-> FALSE]
  BY DEF MonitorInit
<1>2. /\ <<>> \in Seq(0 .. MaxClock) /\ ListIsPast(<<>>) /\ 0 \in 0 .. MaxClock /\ 0 <= MaxAlerts
  BY MonitorAssumption DEF ListIsPast
<1>3. Started \in MonitorState
  BY <1>2 DEF Started, MonitorState
<1>4. MonitorTypeOK
  <2>1. torn \in [Replicas -> BOOLEAN] /\ Cardinality(wrote) <= 1
    BY <1>1, FS_EmptySet
  <2>2. QED BY <1>1, <1>2, <2>1 DEF MonitorTypeOK, Started
<1>5. AlertsAreApart /\ RaisedIsWritten /\ WriterState
  BY <1>1 DEF AlertsAreApart, RaisedIsWritten, WriterState, Started
<1>6. QED BY <1>1, <1>2, <1>3, <1>4, <1>5 DEF AInv, MonitorInv, Started

\* Only r moves, to m.
BecomesM(r, m) == monitor' = [monitor EXCEPT ![r] = m]

\* What has to be shown of a step of one replica.
LEMMA AInvStep ==
  ASSUME AInv, NEW r \in Replicas, NEW m \in MonitorState, BecomesM(r, m), clock' = clock,
         ListIsPast(m.notes),
         shared' \in [notes : Seq(0 .. MaxClock), cool : {Never} \cup 0 .. MaxClock],
         ListIsPast(shared'.notes),
         torn' \in [Replicas -> BOOLEAN], \A q \in Replicas : q # r => torn'[q] = torn[q],
         m.at \notin {"down", "load cool"} /\ ~torn'[r] => Fits(m.notes, m.cool),
         WriterState', RaisedIsWritten'
  PROVE  AInv'
<1>1. monitor \in [Replicas -> MonitorState] /\ monitor' \in [Replicas -> MonitorState]
      /\ monitor'[r] = m /\ \A q \in Replicas : q # r => monitor'[q] = monitor[q]
  BY DEF AInv, BecomesM
<1>2. \A notes : ListIsPast(notes)' <=> ListIsPast(notes)
  BY DEF ListIsPast
<1>3. \A notes, cool : Fits(notes, cool)' <=> Fits(notes, cool)
  BY DEF Fits
<1>4. \A q \in Replicas : ListIsPast(monitor'[q].notes)
  BY <1>1 DEF AInv
<1>5. MonitorTypeOK'
  <2>1. Cardinality(wrote') <= 1 /\ wrote' \subseteq Replicas
    <3>1. wrote' = {} \/ \E q \in Replicas : wrote' = {q}
      BY DEF WriterState
    <3>2. Cardinality(wrote') <= 1
      BY ONLY <3>1, OneWriter
    <3>3. wrote' \subseteq Replicas
      BY ONLY <3>1
    <3>4. QED BY <3>2, <3>3
  <2>2. \A q \in Replicas : Len(monitor'[q].notes) <= MaxAlerts
    BY <1>4 DEF ListIsPast
  <2>3. QED BY <1>1, <2>1, <2>2 DEF AInv, MonitorInv, MonitorTypeOK, MonitorState
<1>6. AlertsAreApart'
  <2> SUFFICES ASSUME NEW q \in Replicas, monitor'[q].at \notin {"down", "load cool"}, ~torn'[q]
               PROVE  Fits(monitor'[q].notes, monitor'[q].cool)
    BY <1>3 DEF AlertsAreApart, Fits
  <2>1. CASE q = r
    BY <1>1, <2>1
  <2>2. CASE q # r
    BY <1>1, <2>2 DEF AInv, MonitorInv, AlertsAreApart
  <2>3. QED BY <2>1, <2>2
<1>7. ListIsPast(shared.notes)' /\ \A q \in Replicas : ListIsPast(monitor[q].notes)'
  BY <1>4 DEF ListIsPast
<1>8. QED BY <1>1, <1>5, <1>6, <1>7 DEF AInv, MonitorInv

\* The lists are loaded, one after the other.
LEMMA LoadsAInv ==
  ASSUME AInv, NEW r \in Replicas, LoadsNotes(r) \/ LoadsCool(r)
  PROVE  AInv'
<1>1. /\ monitor[r] \in MonitorState /\ UNCHANGED <<clock, shared, wrote>>
      /\ shared \in [notes : Seq(0 .. MaxClock), cool : {Never} \cup 0 .. MaxClock]
      /\ ListIsPast(shared.notes) /\ ListIsPast(monitor[r].notes)
      /\ torn \in [Replicas -> BOOLEAN] /\ monitor \in [Replicas -> MonitorState]
  BY DEF AInv, MonitorInv, MonitorTypeOK, LoadsNotes, LoadsCool
<1>2. r \notin wrote
  BY DEF AInv, WriterState, LoadsNotes, LoadsCool
<1>3. WriterState' /\ RaisedIsWritten'
  <2>1. \A q \in Replicas : q # r => monitor'[q] = monitor[q]
    BY <1>1 DEF LoadsNotes, LoadsCool
  <2>2. wrote \subseteq Replicas
    BY DEF AInv, WriterState
  <2>3. QED BY <1>1, <1>2, <2>1, <2>2 DEF AInv, MonitorInv, WriterState, RaisedIsWritten
<1>4. CASE LoadsNotes(r)
  <2>1. PICK notes \in {shared.notes, <<>>} :
          BecomesM(r, [monitor[r] EXCEPT !.at = "load cool", !.notes = notes])
    BY <1>1, <1>4 DEF LoadsNotes, BecomesM, MonitorState
  <2> DEFINE m == [monitor[r] EXCEPT !.at = "load cool", !.notes = notes]
  <2>2. m \in MonitorState /\ m.at = "load cool" /\ m.notes = notes
    <3>1. shared.notes \in Seq(0 .. MaxClock) /\ <<>> \in Seq(0 .. MaxClock)
      BY <1>1
    <3>2. notes \in Seq(0 .. MaxClock)
      BY <2>1, <3>1
    <3>3. QED BY <1>1, <3>2 DEF MonitorState
  <2>3. ListIsPast(notes) /\ torn' = torn
    <3>1. ListIsPast(<<>>)
      BY MonitorAssumption DEF ListIsPast
    <3>2. QED BY <1>1, <1>4, <3>1 DEF LoadsNotes
  <2> HIDE DEF m
  <2>4. QED BY <1>1, <1>3, <2>1, <2>2, <2>3, AInvStep DEF m
<1>5. CASE LoadsCool(r)
  <2>1. PICK cool \in {shared.cool, Never} :
          /\ BecomesM(r, [monitor[r] EXCEPT !.at = "sleep", !.cool = cool])
          /\ torn' = [torn EXCEPT ![r] = ~Fits(monitor[r].notes, cool)]
    BY <1>1, <1>5 DEF LoadsCool, LoadedCool, BecomesM, MonitorState
  <2> DEFINE m == [monitor[r] EXCEPT !.at = "sleep", !.cool = cool]
             fit == Fits(monitor[r].notes, cool)
  <2>2. m \in MonitorState /\ m.at = "sleep" /\ m.notes = monitor[r].notes /\ m.cool = cool
    BY <1>1 DEF MonitorState
  <2> HIDE DEF m
  <2>3. torn' \in [Replicas -> BOOLEAN] /\ (torn'[r] <=> ~fit)
        /\ \A q \in Replicas : q # r => torn'[q] = torn[q]
    <3>1. fit \in BOOLEAN
      BY DEF Fits
    <3> HIDE DEF fit
    <3>2. torn' = [torn EXCEPT ![r] = ~fit]
      BY <2>1 DEF fit
    <3>3. QED BY <1>1, <3>1, <3>2
  <2>4. QED BY <1>1, <1>3, <2>1, <2>2, <2>3, AInvStep DEF m
<1>6. QED BY <1>4, <1>5

\* An alert is raised.
LEMMA ChecksAInv ==
  ASSUME AInv, NEW r \in Replicas, Checks(r)
  PROVE  AInv'
<1>1. /\ monitor[r] \in MonitorState /\ UNCHANGED <<clock, shared, torn, wrote>>
      /\ shared \in [notes : Seq(0 .. MaxClock), cool : {Never} \cup 0 .. MaxClock]
      /\ ListIsPast(shared.notes) /\ ListIsPast(monitor[r].notes) /\ clock \in 0 .. MaxClock
      /\ torn \in [Replicas -> BOOLEAN] /\ monitor \in [Replicas -> MonitorState]
  BY DEF AInv, MonitorInv, MonitorTypeOK, Checks
<1> DEFINE new == Cut(<<clock>> \o monitor[r].notes)
           m   == [AfterNote(monitor[r]) EXCEPT !.at =
                     IF AfterNote(monitor[r]).dirty THEN "save notes" ELSE "sleep"]
<1>2. monitor[r].at = "sleep" /\ clock - monitor[r].cool >= Cooldown /\ BecomesM(r, m)
  BY <1>1 DEF Checks, BecomesM
<1>3. new \in Seq(0 .. MaxClock)
  BY <1>1, CutList DEF MonitorState
<1>4. ListIsPast(new)
  <2>1. Len(new) <= MaxAlerts /\ Len(new) \in 1 .. Len(monitor[r].notes) + 1 /\ new[1] = clock
        /\ \A i \in 2 .. Len(new) : new[i] = monitor[r].notes[i - 1]
    BY <1>1, CutList DEF MonitorState
  <2> HIDE DEF new
  <2>2. DOMAIN new = 1 .. Len(new) /\ Len(monitor[r].notes) \in Nat
        /\ DOMAIN monitor[r].notes = 1 .. Len(monitor[r].notes) /\ MaxClock \in Nat
    <3>1. monitor[r].notes \in Seq(0 .. MaxClock)
      BY <1>1 DEF MonitorState
    <3>2. QED BY <1>3, <3>1, MonitorAssumption
  <2>3. \A i \in 1 .. Len(new) : new[i] <= clock
    <3> SUFFICES ASSUME NEW i \in 1 .. Len(new) PROVE new[i] <= clock
      OBVIOUS
    <3>1. CASE i = 1
      BY <1>1, <2>1, <2>2, <3>1
    <3>2. CASE i # 1
      <4>1. i \in 2 .. Len(new) /\ i - 1 \in 1 .. Len(monitor[r].notes)
        BY <2>1, <2>2, <3>2
      <4>2. QED BY <1>1, <2>1, <2>2, <4>1 DEF ListIsPast
    <3>3. QED BY <3>1, <3>2
  <2>4. QED BY <2>1, <2>2, <2>3 DEF ListIsPast
<1>5. ~torn[r] => Fits(new, clock)
  <2>1. ~torn[r] => Fits(monitor[r].notes, monitor[r].cool)
    BY <1>2 DEF AInv, MonitorInv, AlertsAreApart
  <2>2. QED BY <1>1, <1>2, <2>1, FitsAfter DEF MonitorState
<1> HIDE DEF new
<1>6. m \in MonitorState /\ m.at = "save notes" /\ m.notes = new /\ m.cool = clock
  <2> DEFINE after == AfterNote(monitor[r])
  <2>1. after = [monitor[r] EXCEPT !.notes = new, !.cool = clock, !.dirty = TRUE]
    BY DEF AfterNote, new
  <2>2. /\ after \in MonitorState /\ after.dirty = TRUE
        /\ after.notes = new /\ after.cool = clock
    BY <1>1, <1>3, <2>1 DEF MonitorState
  <2> HIDE DEF after
  <2>3. m = [after EXCEPT !.at = "save notes"]
    BY <2>2 DEF after
  <2>4. QED BY <2>2, <2>3 DEF MonitorState
<1> HIDE DEF m
<1>7. WriterState' /\ RaisedIsWritten'
  <2>1. monitor'[r] = m /\ \A q \in Replicas : q # r => monitor'[q] = monitor[q]
    BY <1>1, <1>2 DEF BecomesM
  <2>2. wrote \subseteq Replicas
    BY DEF AInv, WriterState
  <2>3. QED BY <1>1, <1>2, <1>6, <2>1, <2>2 DEF AInv, MonitorInv, WriterState, RaisedIsWritten
<1>8. QED BY <1>1, <1>2, <1>4, <1>5, <1>6, <1>7, AInvStep

\* The two writes.
LEMMA SavesAInv ==
  ASSUME AInv, NEW r \in Replicas, SavesNotes(r) \/ SavesCool(r)
  PROVE  AInv'
<1>1. /\ monitor[r] \in MonitorState /\ UNCHANGED <<clock, torn>>
      /\ shared \in [notes : Seq(0 .. MaxClock), cool : {Never} \cup 0 .. MaxClock]
      /\ ListIsPast(shared.notes) /\ ListIsPast(monitor[r].notes)
      /\ torn \in [Replicas -> BOOLEAN] /\ monitor \in [Replicas -> MonitorState]
      /\ ~torn[r] => Fits(monitor[r].notes, monitor[r].cool)
      /\ wrote \subseteq Replicas
      /\ monitor[r].at \in {"save notes", "save cool"}
  BY DEF AInv, MonitorInv, MonitorTypeOK, SavesNotes, SavesCool, AlertsAreApart
<1>2. CASE SavesNotes(r)
  <2> DEFINE m == [monitor[r] EXCEPT !.at = "save cool"]
  <2>1. /\ m \in MonitorState /\ m.at = "save cool" /\ m.notes = monitor[r].notes
        /\ m.cool = monitor[r].cool /\ BecomesM(r, m)
    BY <1>1, <1>2 DEF SavesNotes, BecomesM, MonitorState
  <2>2. \/ shared' = [shared EXCEPT !.notes = monitor[r].notes] /\ wrote' = {r}
        \/ shared' = shared /\ wrote' = {}
    BY <1>2 DEF SavesNotes
  <2> HIDE DEF m
  <2>3. shared' \in [notes : Seq(0 .. MaxClock), cool : {Never} \cup 0 .. MaxClock]
        /\ ListIsPast(shared'.notes) /\ (wrote' = {r} => shared'.notes = monitor[r].notes)
    BY <1>1, <2>2 DEF MonitorState
  <2>4. monitor'[r] = m
    BY <1>1, <2>1 DEF BecomesM
  <2>5. WriterState' /\ RaisedIsWritten'
    BY <2>1, <2>2, <2>3, <2>4 DEF WriterState, RaisedIsWritten
  <2>6. QED BY <1>1, <2>1, <2>3, <2>5, AInvStep
<1>3. CASE SavesCool(r)
  <2> DEFINE m == [monitor[r] EXCEPT !.at = "sleep", !.dirty = FALSE]
  <2>1. /\ m \in MonitorState /\ m.at = "sleep" /\ m.notes = monitor[r].notes
        /\ m.cool = monitor[r].cool /\ BecomesM(r, m)
    BY <1>1, <1>3 DEF SavesCool, BecomesM, MonitorState
  <2>2. \/ shared' = [shared EXCEPT !.cool = monitor[r].cool] /\ wrote' = wrote \cap {r}
        \/ shared' = shared /\ wrote' = {}
    BY <1>3 DEF SavesCool
  <2> HIDE DEF m
  <2>3. shared' \in [notes : Seq(0 .. MaxClock), cool : {Never} \cup 0 .. MaxClock]
        /\ ListIsPast(shared'.notes) /\ shared'.notes = shared.notes
        /\ (wrote' # {} => shared'.cool = monitor[r].cool)
    BY <1>1, <2>2 DEF MonitorState
  <2>4. monitor'[r] = m
    BY <1>1, <2>1 DEF BecomesM
  <2>5. r \in wrote => shared.notes = monitor[r].notes
    BY <1>3 DEF AInv, WriterState, SavesCool
  <2>6. wrote' = {} \/ (wrote' = {r} /\ r \in wrote)
    BY <2>2
  <2>7. WriterState' /\ RaisedIsWritten'
    BY <2>1, <2>3, <2>4, <2>5, <2>6 DEF WriterState, RaisedIsWritten
  <2>8. QED BY <1>1, <2>1, <2>3, <2>7, AInvStep
<1>4. QED BY <1>2, <1>3

\* A replica dies.
LEMMA DiesAInv ==
  ASSUME AInv, NEW r \in Replicas, MonitorDies(r)
  PROVE  AInv'
<1>1. /\ UNCHANGED <<clock, shared>> /\ BecomesM(r, Started)
      /\ shared \in [notes : Seq(0 .. MaxClock), cool : {Never} \cup 0 .. MaxClock]
      /\ ListIsPast(shared.notes) /\ torn \in [Replicas -> BOOLEAN]
      /\ monitor \in [Replicas -> MonitorState] /\ torn' = [torn EXCEPT ![r] = FALSE]
      /\ wrote' = wrote \ {r} /\ wrote \subseteq Replicas
  BY DEF AInv, MonitorInv, MonitorTypeOK, MonitorDies, BecomesM
<1>2. Started \in MonitorState /\ ListIsPast(Started.notes) /\ Started.at = "down"
  BY MonitorAssumption DEF Started, MonitorState, ListIsPast
<1>3. WriterState' /\ RaisedIsWritten'
  <2>1. \A q \in wrote' : q # r /\ q \in wrote /\ monitor'[q] = monitor[q]
    BY <1>1 DEF BecomesM
  <2>2. wrote' = {} \/ \E q \in Replicas : wrote' = {q}
    BY <1>1 DEF AInv, WriterState
  <2>3. QED BY <1>1, <2>1, <2>2 DEF AInv, MonitorInv, WriterState, RaisedIsWritten
<1>4. torn' \in [Replicas -> BOOLEAN] /\ \A q \in Replicas : q # r => torn'[q] = torn[q]
  BY <1>1
<1>5. QED BY <1>1, <1>2, <1>3, <1>4, AInvStep

\* The clock goes on, and the alerts are only longer ago.
LEMMA TimeAInv ==
  ASSUME AInv, TimeGoesOn
  PROVE  AInv'
<1>1. /\ UNCHANGED <<monitor, shared, torn, wrote>> /\ clock' = clock + 1
      /\ clock \in 0 .. MaxClock /\ clock' \in 0 .. MaxClock /\ MaxClock \in Nat
  <2>1. clock \in 0 .. MaxClock /\ clock < MaxClock /\ clock' = clock + 1
    BY DEF AInv, MonitorInv, MonitorTypeOK, TimeGoesOn
  <2>2. QED BY <2>1, MonitorAssumption DEF TimeGoesOn
<1>2. \A notes \in Seq(0 .. MaxClock) : ListIsPast(notes) => ListIsPast(notes)'
  <2> SUFFICES ASSUME NEW notes \in Seq(0 .. MaxClock), ListIsPast(notes), NEW i \in DOMAIN notes
               PROVE  notes[i] <= clock'
    BY DEF ListIsPast
  <2>1. i \in 1 .. Len(notes) /\ notes[i] <= clock
    BY DEF ListIsPast
  <2>2. notes[i] \in 0 .. MaxClock
    BY <2>1, ElementOfSeq
  <2>3. QED BY <1>1, <2>1, <2>2
<1>3. \A notes \in Seq(0 .. MaxClock), cool \in {Never} \cup 0 .. MaxClock :
        Fits(notes, cool) => Fits(notes, cool)'
  <2> SUFFICES ASSUME NEW notes \in Seq(0 .. MaxClock), NEW cool \in {Never} \cup 0 .. MaxClock,
                      Fits(notes, cool), NEW i \in DOMAIN notes, clock' - notes[i] < Cooldown
               PROVE  cool >= notes[i]
    BY DEF Fits
  <2>1. i \in 1 .. Len(notes)
    OBVIOUS
  <2>2. notes[i] \in 0 .. MaxClock
    BY <2>1, ElementOfSeq
  <2>3. clock - notes[i] < Cooldown
    BY <1>1, <2>2 DEF Cooldown
  <2>4. QED BY <2>3 DEF Fits
<1>4. shared.notes \in Seq(0 .. MaxClock)
      /\ \A r \in Replicas : /\ monitor[r].notes \in Seq(0 .. MaxClock)
                             /\ monitor[r].cool \in {Never} \cup 0 .. MaxClock
  BY DEF AInv, MonitorInv, MonitorTypeOK
<1>5. AlertsAreApart'
  BY <1>1, <1>3, <1>4 DEF AInv, MonitorInv, AlertsAreApart
<1>6. ListIsPast(shared.notes)' /\ \A r \in Replicas : ListIsPast(monitor[r].notes)'
  BY <1>1, <1>2, <1>4 DEF AInv
<1>7. MonitorTypeOK' /\ RaisedIsWritten' /\ WriterState'
  BY <1>1 DEF AInv, MonitorInv, MonitorTypeOK, RaisedIsWritten, WriterState
<1>8. QED BY <1>1, <1>5, <1>6, <1>7 DEF AInv, MonitorInv

\* All steps together.
LEMMA NextAInv == AInv /\ [AlertNext]_alertVars => AInv'
<1> SUFFICES ASSUME AInv, [AlertNext]_alertVars PROVE AInv'
  OBVIOUS
<1>1. CASE UNCHANGED alertVars
  BY <1>1 DEF alertVars, AInv, MonitorInv, MonitorTypeOK, AlertsAreApart, RaisedIsWritten,
              WriterState, ListIsPast, Fits
<1>2. QED BY <1>1, LoadsAInv, ChecksAInv, SavesAInv, DiesAInv, TimeAInv DEF AlertNext

\* The market monitor: for any number of replicas, with any crashes and failing
\* calls, what a replica shows keeps the cooldown if what it loaded did, and what
\* the last to write shows is all in Redis.
THEOREM AlertsKeepTheCooldown == AlertSpec => []MonitorInv
<1>1. AInv => MonitorInv
  BY DEF AInv
<1>2. QED BY <1>1, InitAInv, NextAInv, PTL DEF AlertSpec

-----------------------------------------------------------------------------
(* The news: what is sent, written down and read *)

\* What a turn has in hand: what it has seen is what it loaded and what it collected.
TurnState ==
  /\ turn.at = "asleep" => turn = NoTurn
  /\ turn.at # "asleep" =>
       turn.seen = seenFile \cup turn.pending /\ seenFile \cap turn.pending = {}
  /\ turn.at \in {"send", "flush"} =>
       Len(topic) + Cardinality(turn.pending) <= MaxTopic

\* What has been delivered is in the file, forgotten, or about to be saved; what
\* is about to be saved has been delivered or given up.
DeliveredState ==
  /\ turn.at # "save" => Delivered \subseteq seenFile \cup forgotten
  /\ turn.at = "save" => /\ Delivered \subseteq turn.seen \cup forgotten
                         /\ turn.seen \subseteq Delivered \cup undelivered

\* What a consumer has read it has stored, or tried to.
SinkState ==
  \A s \in Sinks : \A i \in 1 .. sink[s].next : topic[i] \in sink[s].stored \cup unstored[s]

NInv ==
  /\ sink \in [Sinks -> [next : Nat, commit : Nat, stored : SUBSET Articles]]
  /\ unstored \in [Sinks -> SUBSET Articles]
  /\ NewsInv /\ TurnState /\ DeliveredState /\ SinkState

NewsTypes ==
  /\ sink \in [Sinks -> [next : Nat, commit : Nat, stored : SUBSET Articles]]
  /\ unstored \in [Sinks -> SUBSET Articles]
  /\ NewsTypeOK

\* Sets of links can be counted.
LEMMA ArticlesAreFinite ==
  ASSUME NEW S \in SUBSET Articles
  PROVE  IsFiniteSet(S) /\ Cardinality(S) \in Nat
BY NewsAssumption, FS_Subset, FS_CardinalityType

\* A set put in sequence: each element once.
LEMMA SequenceOf ==
  ASSUME NEW S \in SUBSET Articles
  PROVE  /\ SetToSeq(S) \in Seq(S) /\ Len(SetToSeq(S)) = Cardinality(S)
         /\ \A i, j \in 1 .. Cardinality(S) : SetToSeq(S)[i] = SetToSeq(S)[j] => i = j
         /\ S = {SetToSeq(S)[i] : i \in 1 .. Cardinality(S)}
<1> DEFINE n == Cardinality(S)  f == SetToSeq(S)
<1>1. n \in Nat /\ IsFiniteSet(S) /\ ExistsBijection(1 .. n, S)
  BY ArticlesAreFinite, FS_CardinalityType
<1>2. \E g \in [1 .. n -> S] : IsInjective(g)
  BY <1>1 DEF ExistsBijection, Bijection, Injection
<1>3. f \in [1 .. n -> S] /\ IsInjective(f)
  BY <1>2 DEF SetToSeq
<1>4. f \in Injection(1 .. n, S)
  BY <1>3 DEF Injection
<1>5. Cardinality(1 .. n) = n
  BY <1>1, FS_Interval
<1>6. f \in Surjection(1 .. n, S)
  BY <1>1, <1>4, <1>5, FS_Injection
<1> HIDE DEF n, f
<1>7. S = {f[i] : i \in 1 .. n}
  BY <1>3, <1>6 DEF Surjection
<1>8. f \in Seq(S) /\ Len(f) = n
  BY <1>1, <1>3
<1>9. \A i, j \in 1 .. n : f[i] = f[j] => i = j
  BY <1>3 DEF IsInjective
<1>10. QED BY <1>7, <1>8, <1>9 DEF n, f

\* What a delivery does to the topic.
LEMMA Delivery ==
  ASSUME NEW t \in Seq(Articles), NEW got \in SUBSET Articles, NEW u, u = t \o SetToSeq(got)
  PROVE  /\ u \in Seq(Articles) /\ Len(u) = Len(t) + Cardinality(got)
         /\ ToSet(u) = ToSet(t) \cup got
         /\ \A i \in 1 .. Len(t) : u[i] = t[i]
         /\ \A i, j \in 1 .. Len(u) : i # j /\ u[i] = u[j] =>
              (i \in 1 .. Len(t) /\ j \in 1 .. Len(t)) \/ u[i] \in got \cap ToSet(t)
<1> DEFINE s == SetToSeq(got)  m == Len(t)  n == Cardinality(got)
<1>1. /\ s \in Seq(got) /\ Len(s) = n /\ got = {s[i] : i \in 1 .. n}
      /\ \A i, j \in 1 .. n : s[i] = s[j] => i = j
  BY SequenceOf
<1>2. m \in Nat /\ n \in Nat
  BY ArticlesAreFinite
<1>3. s \in Seq(Articles)
  BY <1>1, SeqMonotonic
<1> HIDE DEF s, n
<1>4. /\ u \in Seq(Articles) /\ Len(u) = m + n
      /\ \A i \in 1 .. m : u[i] = t[i]
      /\ \A k \in 1 .. n : u[m + k] = s[k]
  <2>1. u = t \o s
    BY DEF s
  <2>2. /\ t \o s \in Seq(Articles) /\ Len(t \o s) = Len(t) + Len(s)
        /\ \A i \in 1 .. Len(t) + Len(s) :
             (t \o s)[i] = IF i <= Len(t) THEN t[i] ELSE s[i - Len(t)]
    BY ONLY t \in Seq(Articles), <1>3, ConcatProperties
  <2>3. \A i \in 1 .. m : i \in 1 .. m + n /\ i <= m
    BY <1>2
  <2>4. \A k \in 1 .. n : m + k \in 1 .. m + n /\ ~(m + k <= m) /\ (m + k) - m = k
    BY <1>2
  <2>5. /\ u \in Seq(Articles) /\ Len(u) = m + n
        /\ \A i \in 1 .. m + n : u[i] = IF i <= m THEN t[i] ELSE s[i - m]
    BY <1>1, <2>1, <2>2
  <2> HIDE DEF m
  <2>6. QED BY <2>3, <2>4, <2>5
<1> HIDE DEF m
<1>5. \A i \in 1 .. m + n : i \in 1 .. m \/ \E k \in 1 .. n : i = m + k
  <2> SUFFICES ASSUME NEW i \in 1 .. m + n, i \notin 1 .. m PROVE \E k \in 1 .. n : i = m + k
    OBVIOUS
  <2>1. i - m \in 1 .. n /\ i = m + (i - m)
    BY <1>2
  <2>2. QED BY <2>1
<1>6. DOMAIN u = 1 .. m + n /\ DOMAIN t = 1 .. m
  BY <1>4 DEF m
<1>7. ToSet(u) = ToSet(t) \cup got
  <2>1. \A k \in 1 .. n : m + k \in 1 .. m + n
    BY <1>2
  <2>2. \A i \in 1 .. m : i \in 1 .. m + n
    BY <1>2
  <2>3. /\ \A x : x \in ToSet(u) <=> \E i \in 1 .. m + n : x = u[i]
        /\ \A x : x \in ToSet(t) <=> \E i \in 1 .. m : x = t[i]
        /\ \A x : x \in got <=> \E i \in 1 .. n : x = s[i]
    BY <1>1, <1>6 DEF ToSet
  <2>4. ToSet(u) \subseteq ToSet(t) \cup got
    <3> SUFFICES ASSUME NEW i \in 1 .. m + n PROVE u[i] \in ToSet(t) \cup got
      BY <2>3
    <3>1. CASE i \in 1 .. m
      BY <1>4, <2>3, <3>1
    <3>2. CASE \E k \in 1 .. n : i = m + k
      BY <1>4, <2>3, <3>2
    <3>3. QED BY <1>5, <3>1, <3>2
  <2>5. ToSet(t) \subseteq ToSet(u)
    BY <1>4, <2>2, <2>3
  <2>6. got \subseteq ToSet(u)
    <3> SUFFICES ASSUME NEW k \in 1 .. n PROVE s[k] \in ToSet(u)
      BY <2>3
    <3>1. s[k] = u[m + k] /\ m + k \in 1 .. m + n
      BY <1>4, <2>1
    <3>2. QED BY <2>3, <3>1
  <2>7. QED BY <2>4, <2>5, <2>6
<1>8. \A i, j \in 1 .. m + n : i # j /\ u[i] = u[j] =>
        (i \in 1 .. m /\ j \in 1 .. m) \/ u[i] \in got \cap ToSet(t)
  <2> SUFFICES ASSUME NEW i \in 1 .. m + n, NEW j \in 1 .. m + n, i # j, u[i] = u[j]
               PROVE  (i \in 1 .. m /\ j \in 1 .. m) \/ u[i] \in got \cap ToSet(t)
    OBVIOUS
  <2>1. \A k \in 1 .. n : s[k] \in got
    BY <1>1
  <2>2. \A k \in 1 .. m : t[k] \in ToSet(t)
    BY <1>6 DEF ToSet
  <2>3. CASE i \in 1 .. m
    BY <1>4, <1>5, <2>1, <2>2, <2>3
  <2>4. CASE \E k \in 1 .. n : i = m + k
    <3>1. PICK k \in 1 .. n : i = m + k
      BY <2>4
    <3>2. CASE j \in 1 .. m
      BY <1>4, <2>1, <2>2, <3>1, <3>2
    <3>3. CASE \E l \in 1 .. n : j = m + l
      <4>1. PICK l \in 1 .. n : j = m + l
        BY <3>3
      <4>2. s[k] = s[l]
        BY <1>4, <3>1, <4>1
      <4>3. QED BY <1>1, <3>1, <4>1, <4>2
    <3>4. QED BY <1>5, <3>2, <3>3
  <2>5. QED BY <1>5, <2>3, <2>4
<1>9. QED BY <1>4, <1>7, <1>8 DEF m, n

\* Nothing has been crawled.
LEMMA InitNInv == NewsInit => NInv
<1> SUFFICES ASSUME NewsInit PROVE NInv
  OBVIOUS
<1>1. /\ seenFile = {} /\ turn = NoTurn /\ topic = <<>> /\ undelivered = {} /\ forgotten = {}
      /\ sink = [s \in Sinks |-> [next |-> 0, commit |-> 0, stored |-> {}]]
      /\ unstored = [s \in Sinks |-> {}]
  BY DEF NewsInit
<1>2. Len(topic) = 0 /\ topic \in Seq(Articles) /\ Delivered = {}
  BY <1>1 DEF Delivered, ToSet
<1>3. sink \in [Sinks -> [next : Nat, commit : Nat, stored : SUBSET Articles]]
      /\ unstored \in [Sinks -> SUBSET Articles]
  BY <1>1
<1>4. Cardinality(seenFile) <= SeenKeep
  <2>1. Cardinality(seenFile) = 0
    BY <1>1, FS_EmptySet
  <2>2. QED BY <2>1, NewsAssumption
<1>5. NewsTypeOK
  BY <1>1, <1>2, <1>4, NewsAssumption DEF NewsTypeOK, NoTurn
<1>6. TurnState /\ DeliveredState /\ SinkState
  BY <1>1, <1>2 DEF TurnState, DeliveredState, SinkState, NoTurn
<1>7. WrittenDownWasDelivered /\ ProducedOnceUnlessForgotten /\ ReadMeansStored
  BY <1>1, <1>2 DEF WrittenDownWasDelivered, ProducedOnceUnlessForgotten, ReadMeansStored
<1>8. QED BY <1>3, <1>5, <1>6, <1>7 DEF NInv, NewsInv

\* A sink that has read the topic to its end has stored what is in it.
LEMMA ReadToTheEnd == topic \in Seq(Articles) /\ SinkState => ReadMeansStored
BY DEF SinkState, ReadMeansStored, Delivered, ToSet

\* What has to be shown of a step of the producer that delivers `got'.
LEMMA ProducerNInv ==
  ASSUME NInv, UNCHANGED <<sink, unstored>>,
         NEW got \in SUBSET Articles, topic' = topic \o SetToSeq(got) \/ (got = {} /\ topic' = topic),
         Len(topic) + Cardinality(got) <= MaxTopic,
         seenFile' \subseteq Articles, Cardinality(seenFile') <= SeenKeep,
         turn' \in [at : {"asleep", "send", "flush", "save"}, seen : SUBSET Articles,
                    pending : SUBSET Articles],
         turn'.pending \subseteq turn'.seen,
         undelivered \subseteq undelivered', undelivered' \subseteq Articles,
         forgotten \subseteq forgotten', forgotten' \subseteq Articles,
         got \cap Delivered \subseteq forgotten',
         TurnState', DeliveredState', WrittenDownWasDelivered'
  PROVE  NInv'
<1>1. /\ topic \in Seq(Articles) /\ NewsTypes /\ SinkState /\ ProducedOnceUnlessForgotten
      /\ Len(topic) \in Nat /\ Cardinality(got) \in Nat /\ MaxTopic \in Nat
  BY ArticlesAreFinite, NewsAssumption DEF NInv, NewsInv, NewsTypes, NewsTypeOK
<1>2. /\ topic' \in Seq(Articles) /\ Len(topic) <= Len(topic') /\ Len(topic') <= MaxTopic
      /\ Delivered \subseteq Delivered'
      /\ \A i \in 1 .. Len(topic) : topic'[i] = topic[i]
      /\ \A i, j \in 1 .. Len(topic') : i # j /\ topic'[i] = topic'[j] =>
           (i \in 1 .. Len(topic) /\ j \in 1 .. Len(topic)) \/ topic'[i] \in got \cap Delivered
  <2>1. CASE topic' = topic \o SetToSeq(got)
    <3>1. topic \in Seq(Articles) /\ got \in SUBSET Articles
      BY <1>1
    <3>2. /\ topic' \in Seq(Articles) /\ Len(topic') = Len(topic) + Cardinality(got)
          /\ ToSet(topic') = ToSet(topic) \cup got
          /\ \A i \in 1 .. Len(topic) : topic'[i] = topic[i]
          /\ \A i, j \in 1 .. Len(topic') : i # j /\ topic'[i] = topic'[j] =>
               (i \in 1 .. Len(topic) /\ j \in 1 .. Len(topic)) \/ topic'[i] \in got \cap ToSet(topic)
      BY ONLY <2>1, <3>1, Delivery
    <3>3. QED BY <1>1, <3>2 DEF Delivered
  <2>2. CASE topic' = topic
    BY <1>1, <2>2 DEF NewsTypes, NewsTypeOK, Delivered
  <2>3. QED BY <2>1, <2>2
<1>3. NewsTypeOK'
  BY <1>1, <1>2 DEF NewsTypes, NewsTypeOK
<1>4. ProducedOnceUnlessForgotten'
  BY <1>1, <1>2 DEF ProducedOnceUnlessForgotten
<1>5. SinkState'
  <2> SUFFICES ASSUME NEW s \in Sinks, NEW i \in 1 .. sink[s].next
               PROVE  topic'[i] \in sink[s].stored \cup unstored[s]
    BY DEF SinkState
  <2>1. i \in 1 .. Len(topic)
    BY <1>1 DEF NewsTypes, NewsTypeOK
  <2>2. QED BY <1>1, <1>2, <2>1 DEF SinkState
<1>6. ReadMeansStored'
  <2>1. (topic \in Seq(Articles) /\ SinkState => ReadMeansStored)'
    BY ReadToTheEnd, PTL
  <2>2. QED BY <1>2, <1>5, <2>1
<1>7. QED BY <1>1, <1>3, <1>4, <1>5, <1>6 DEF NInv, NewsInv, NewsTypes

\* There is always room in the topic for nothing.
LEMMA RoomForNothing ==
  ASSUME NInv
  PROVE  Len(topic) + Cardinality({}) <= MaxTopic
<1>1. topic \in Seq(Articles) /\ Len(topic) <= MaxTopic /\ Len(topic) \in Nat
  BY DEF NInv, NewsInv, NewsTypeOK
<1>2. Cardinality({}) = 0
  BY FS_EmptySet
<1>3. Len(topic) + 0 = Len(topic)
  BY <1>1
<1>4. QED BY <1>1, <1>2, <1>3

\* A turn collects what it has not seen.
LEMMA CollectsNInv ==
  ASSUME NInv, Collects
  PROVE  NInv'
<1>1. PICK got \in SUBSET (Articles \ seenFile) :
        /\ Len(topic) + Cardinality(got) <= MaxTopic
        /\ turn' = [at |-> "send", seen |-> seenFile \cup got, pending |-> got]
  BY DEF Collects, Fresh
<1>2. /\ UNCHANGED <<seenFile, topic, sink, undelivered, forgotten, unstored>>
      /\ turn.at = "asleep" /\ NewsTypes /\ DeliveredState /\ WrittenDownWasDelivered
  BY DEF Collects, NInv, NewsInv, NewsTypes
<1>3. Delivered' = Delivered
  BY <1>2 DEF Delivered
<1>4. TurnState' /\ DeliveredState' /\ WrittenDownWasDelivered'
  BY <1>1, <1>2, <1>3 DEF TurnState, DeliveredState, WrittenDownWasDelivered
<1>5. Len(topic) + Cardinality({}) <= MaxTopic
  BY RoomForNothing
<1>6. QED BY <1>1, <1>2, <1>4, <1>5, ProducerNInv DEF NewsTypes, NewsTypeOK

\* It sends its events.
LEMMA SendsNInv ==
  ASSUME NInv, Sends
  PROVE  NInv'
<1>1. /\ UNCHANGED <<seenFile, topic, sink, undelivered, forgotten, unstored>>
      /\ turn.at = "send" /\ turn' = [turn EXCEPT !.at = "flush"]
      /\ NewsTypes /\ TurnState /\ DeliveredState /\ WrittenDownWasDelivered
  BY DEF Sends, NInv, NewsInv, NewsTypes
<1>2. /\ turn' \in [at : {"asleep", "send", "flush", "save"}, seen : SUBSET Articles,
                    pending : SUBSET Articles]
      /\ turn'.at = "flush" /\ turn'.seen = turn.seen /\ turn'.pending = turn.pending
      /\ turn'.pending \subseteq turn'.seen
  BY <1>1 DEF NewsTypes, NewsTypeOK
<1>3. Delivered' = Delivered
  BY <1>1 DEF Delivered
<1>4. TurnState' /\ DeliveredState' /\ WrittenDownWasDelivered'
  BY <1>1, <1>2, <1>3 DEF TurnState, DeliveredState, WrittenDownWasDelivered
<1>5. Len(topic) + Cardinality({}) <= MaxTopic
  BY RoomForNothing
<1>6. /\ seenFile' \subseteq Articles /\ Cardinality(seenFile') <= SeenKeep
      /\ undelivered \subseteq undelivered' /\ undelivered' \subseteq Articles
      /\ forgotten \subseteq forgotten' /\ forgotten' \subseteq Articles
      /\ topic' = topic /\ UNCHANGED <<sink, unstored>>
  BY <1>1 DEF NewsTypes, NewsTypeOK
<1>7. {} \in SUBSET Articles /\ {} \cap Delivered \subseteq forgotten'
  OBVIOUS
<1>8. QED BY ONLY NInv, <1>2, <1>4, <1>5, <1>6, <1>7, ProducerNInv

\* What was delivered before the flush is not among what it delivers, unless it
\* was forgotten.
LEMMA PendingIsNew ==
  ASSUME NInv, turn.at \in {"send", "flush"}
  PROVE  turn.pending \cap Delivered \subseteq forgotten
BY DEF NInv, TurnState, DeliveredState

\* And there is room for it in the topic.
LEMMA PendingFits ==
  ASSUME NInv, turn.at \in {"send", "flush"}, NEW got \in SUBSET turn.pending
  PROVE  Len(topic) + Cardinality(got) <= MaxTopic
<1>1. turn.pending \in SUBSET Articles /\ topic \in Seq(Articles)
  BY DEF NInv, NewsInv, NewsTypeOK
<1>2. Cardinality(got) <= Cardinality(turn.pending)
      /\ Cardinality(got) \in Nat /\ Cardinality(turn.pending) \in Nat
  <2>1. IsFiniteSet(turn.pending)
    BY <1>1, ArticlesAreFinite
  <2>2. QED BY <1>1, <2>1, ArticlesAreFinite, FS_Subset
<1>3. Len(topic) + Cardinality(turn.pending) <= MaxTopic
  BY DEF NInv, TurnState
<1>4. QED BY <1>1, <1>2, <1>3, NewsAssumption

\* The flush delivers them, or gives some of them up.
LEMMA FlushesNInv ==
  ASSUME NInv, Flushes
  PROVE  NInv'
<1>1. PICK missed \in SUBSET turn.pending :
        topic' = topic \o SetToSeq(turn.pending \ missed) /\ undelivered' = undelivered \cup missed
  BY DEF Flushes, Deliver
<1>2. /\ UNCHANGED <<seenFile, sink, forgotten, unstored>>
      /\ turn.at = "flush" /\ turn' = [turn EXCEPT !.at = "save"]
      /\ NewsTypes /\ TurnState /\ DeliveredState /\ WrittenDownWasDelivered
  BY DEF Flushes, NInv, NewsInv, NewsTypes
<1>3. /\ turn' \in [at : {"asleep", "send", "flush", "save"}, seen : SUBSET Articles,
                    pending : SUBSET Articles]
      /\ turn'.at = "save" /\ turn'.seen = turn.seen /\ turn'.pending = turn.pending
      /\ turn.pending \in SUBSET Articles /\ topic \in Seq(Articles)
  BY <1>2 DEF NewsTypes, NewsTypeOK
<1> DEFINE got == turn.pending \ missed
<1>4. got \in SUBSET Articles /\ got \in SUBSET turn.pending
  BY <1>3
<1>5. Delivered' = Delivered \cup got
  <2>1. topic' = topic \o SetToSeq(got)
    BY <1>1
  <2> HIDE DEF got
  <2>2. ToSet(topic') = ToSet(topic) \cup got
    BY ONLY <1>3, <1>4, <2>1, Delivery
  <2>3. QED BY <2>2 DEF Delivered
<1>6. TurnState' /\ DeliveredState' /\ WrittenDownWasDelivered'
  BY <1>1, <1>2, <1>3, <1>5 DEF TurnState, DeliveredState, WrittenDownWasDelivered
<1>7. got \cap Delivered \subseteq forgotten' /\ Len(topic) + Cardinality(got) <= MaxTopic
  BY <1>2, <1>4, PendingIsNew, PendingFits
<1>8. topic' = topic \o SetToSeq(got)
  BY <1>1
<1> HIDE DEF got
<1>9. QED BY <1>1, <1>2, <1>3, <1>4, <1>6, <1>7, <1>8, ProducerNInv DEF NewsTypes, NewsTypeOK

\* The file is written, whatever of it survives.
LEMMA SavesFile ==
  ASSUME NInv, NEW file, Saves_(file),
         file \subseteq turn.seen, Cardinality(file) <= SeenKeep
  PROVE  NInv'
<1>1. /\ UNCHANGED <<topic, sink, undelivered, unstored>>
      /\ turn.at = "save" /\ turn' = NoTurn /\ seenFile' = file
      /\ forgotten' = forgotten \cup (turn.seen \ file)
      /\ NewsTypes /\ DeliveredState
  BY DEF Saves_, NInv, NewsInv, NewsTypes
<1>2. /\ turn' \in [at : {"asleep", "send", "flush", "save"}, seen : SUBSET Articles,
                    pending : SUBSET Articles]
      /\ turn'.pending \subseteq turn'.seen /\ turn'.at = "asleep"
      /\ turn.seen \in SUBSET Articles
  BY <1>1 DEF NoTurn, NewsTypes, NewsTypeOK
<1>3. Delivered' = Delivered
  BY <1>1 DEF Delivered
<1>4. TurnState' /\ DeliveredState' /\ WrittenDownWasDelivered'
  BY <1>1, <1>2, <1>3 DEF TurnState, DeliveredState, WrittenDownWasDelivered
<1>5. Len(topic) + Cardinality({}) <= MaxTopic
  BY RoomForNothing
<1>6. QED BY <1>1, <1>2, <1>4, <1>5, ProducerNInv DEF NewsTypes, NewsTypeOK

\* As many kept as are links, or what a failed write leaves.
LEMMA SavesNInv ==
  ASSUME NInv, SavesSeen
  PROVE  NInv'
<1>1. /\ turn.seen \in SUBSET Articles /\ seenFile \subseteq Articles
      /\ Cardinality(seenFile) <= SeenKeep /\ TurnState
  BY DEF NInv, NewsInv, NewsTypeOK
<1>2. CASE \E links \in SUBSET turn.seen :
             Cardinality(links) = KeptCount(Cardinality(turn.seen)) /\ Saves_(links)
  <2>1. PICK links \in SUBSET turn.seen :
               Cardinality(links) = KeptCount(Cardinality(turn.seen)) /\ Saves_(links)
    BY <1>2
  <2>2. Cardinality(turn.seen) \in Nat
    BY <1>1, ArticlesAreFinite
  <2>3. Cardinality(links) <= SeenKeep
    BY <2>1, <2>2, NewsAssumption DEF KeptCount
  <2>4. QED BY <2>1, <2>3, SavesFile
<1>3. CASE Saves_(seenFile)
  <2>1. seenFile \subseteq turn.seen
    BY <1>1, <1>3 DEF Saves_, TurnState
  <2>2. QED BY <1>1, <1>3, <2>1, SavesFile
<1>4. CASE Saves_({})
  <2>1. Cardinality({}) = 0
    BY FS_EmptySet
  <2>2. Cardinality({}) <= SeenKeep
    BY <2>1, NewsAssumption
  <2>3. QED BY <1>4, <2>2, SavesFile
<1>5. QED BY <1>2, <1>3, <1>4 DEF SavesSeen

\* The producer dies, with or without its container.
LEMMA ProducerDiesNInv ==
  ASSUME NInv, ProducerDies
  PROVE  NInv'
<1>1. PICK got \in SUBSET turn.pending, file \in {seenFile, {}} :
        /\ got # {} => turn.at = "flush"
        /\ topic' = topic \o SetToSeq(got) /\ seenFile' = file
        /\ forgotten' = forgotten \cup got \cup (seenFile \ file)
                          \cup (IF turn.at = "save" THEN turn.pending ELSE {})
  BY DEF ProducerDies, Deliver
<1>2. /\ UNCHANGED <<sink, undelivered, unstored>> /\ turn' = NoTurn
      /\ NewsTypes /\ TurnState /\ DeliveredState /\ WrittenDownWasDelivered
  BY DEF ProducerDies, NInv, NewsInv, NewsTypes
<1>3. /\ turn' \in [at : {"asleep", "send", "flush", "save"}, seen : SUBSET Articles,
                    pending : SUBSET Articles]
      /\ turn'.pending \subseteq turn'.seen /\ turn'.at = "asleep"
      /\ turn.pending \in SUBSET Articles /\ topic \in Seq(Articles) /\ seenFile \subseteq Articles
      /\ turn.at \in {"asleep", "send", "flush", "save"}
  BY <1>2 DEF NoTurn, NewsTypes, NewsTypeOK
<1>4. got \in SUBSET Articles
  BY <1>3
<1>5. Delivered' = Delivered \cup got
  BY ONLY <1>1, <1>3, <1>4, Delivery DEF Delivered
<1>6. Len(topic) + Cardinality(got) <= MaxTopic
  <2>1. CASE got = {}
    <3>1. Cardinality(got) = 0
      BY <2>1, FS_EmptySet, Zenon
    <3>2. QED BY <1>2, <3>1 DEF NewsTypes, NewsTypeOK
  <2>2. CASE got # {}
    BY <1>1, <2>2, PendingFits
  <2>3. QED BY <2>1, <2>2
<1>7. Cardinality(seenFile') <= SeenKeep /\ seenFile' \subseteq Articles
  <2>1. CASE file = seenFile
    BY <1>1, <1>2, <2>1 DEF NewsTypes, NewsTypeOK
  <2>2. CASE file = {}
    <3>1. Cardinality(seenFile') = 0
      BY <1>1, <2>2, FS_EmptySet, Zenon
    <3>2. QED BY <1>1, <2>2, <3>1, NewsAssumption
  <2>3. QED BY <2>1, <2>2
<1>8. TurnState'
  BY <1>2, <1>3 DEF TurnState
<1>9. DeliveredState' /\ WrittenDownWasDelivered'
  <2>1. Delivered \subseteq seenFile' \cup forgotten'
    <3>1. CASE turn.at = "save"
      BY <1>1, <1>2, <3>1 DEF DeliveredState, TurnState
    <3>2. CASE turn.at # "save"
      BY <1>1, <1>2, <3>2 DEF DeliveredState
    <3>3. QED BY <3>1, <3>2
  <2>2. QED BY <1>1, <1>2, <1>3, <1>5, <2>1 DEF DeliveredState, WrittenDownWasDelivered
<1>10. forgotten \subseteq forgotten' /\ forgotten' \subseteq Articles /\ got \subseteq forgotten'
  BY <1>1, <1>2, <1>3 DEF NewsTypes, NewsTypeOK
<1>11. QED BY <1>1, <1>2, <1>3, <1>4, <1>6, <1>7, <1>8, <1>9, <1>10, ProducerNInv
           DEF NewsTypes, NewsTypeOK

\* What has to be shown of a step of a consumer.
LEMMA ConsumerNInv ==
  ASSUME NInv, UNCHANGED <<seenFile, turn, topic, undelivered, forgotten>>,
         sink' \in [Sinks -> [next : Nat, commit : Nat, stored : SUBSET Articles]],
         unstored' \in [Sinks -> SUBSET Articles],
         \A s \in Sinks : /\ sink'[s].commit <= sink'[s].next /\ sink'[s].next <= Len(topic)
                          /\ sink'[s].stored \subseteq Delivered,
         SinkState'
  PROVE  NInv'
<1>1. Delivered' = Delivered
  BY DEF Delivered
<1>2. NewsTypeOK'
  BY <1>1 DEF NInv, NewsInv, NewsTypeOK
<1>3. TurnState' /\ DeliveredState' /\ WrittenDownWasDelivered' /\ ProducedOnceUnlessForgotten'
  BY <1>1 DEF NInv, NewsInv, TurnState, DeliveredState, WrittenDownWasDelivered,
              ProducedOnceUnlessForgotten
<1>4. ReadMeansStored'
  <2>1. (topic \in Seq(Articles) /\ SinkState => ReadMeansStored)'
    BY ReadToTheEnd, PTL
  <2>2. QED BY <2>1 DEF NInv, NewsInv, NewsTypeOK
<1>5. QED BY <1>2, <1>3, <1>4 DEF NInv, NewsInv

\* A consumer reads, commits, or starts again at what it has committed.
LEMMA ConsumesNInv ==
  ASSUME NInv, NEW s \in Sinks, Consumes(s)
  PROVE  NInv'
<1> DEFINE link == topic[sink[s].next + 1]
<1>1. /\ UNCHANGED <<seenFile, turn, topic, undelivered, forgotten>>
      /\ sink[s].next < Len(topic) /\ NewsTypes /\ SinkState /\ topic \in Seq(Articles)
      /\ sink[s].next \in Nat /\ sink[s].commit \in Nat /\ Len(topic) \in Nat
  BY DEF Consumes, NInv, NewsInv, NewsTypes, NewsTypeOK
<1>2. sink[s].next + 1 \in 1 .. Len(topic) /\ link \in Articles
  BY <1>1
<1>3. link \in Delivered
  BY <1>1, <1>2 DEF Delivered, ToSet
<1> HIDE DEF link
<1>4. /\ sink' \in [Sinks -> [next : Nat, commit : Nat, stored : SUBSET Articles]]
      /\ unstored' \in [Sinks -> SUBSET Articles]
      /\ \A q \in Sinks : q # s => sink'[q] = sink[q] /\ unstored'[q] = unstored[q]
      /\ sink'[s].next = sink[s].next + 1 /\ sink'[s].commit = sink[s].commit
      /\ sink[s].stored \subseteq sink'[s].stored /\ unstored[s] \subseteq unstored'[s]
      /\ link \in sink'[s].stored \cup unstored'[s]
      /\ sink'[s].stored \subseteq sink[s].stored \cup {link}
  <2>1. /\ sink[s] \in [next : Nat, commit : Nat, stored : SUBSET Articles]
        /\ sink[s].next + 1 \in Nat /\ sink[s].stored \cup {link} \in SUBSET Articles
        /\ unstored[s] \cup {link} \in SUBSET Articles
    BY <1>1, <1>2 DEF NewsTypes
  <2>2. CASE /\ sink' = [sink EXCEPT ![s].next = @ + 1, ![s].stored = @ \cup {link}]
             /\ UNCHANGED unstored
    BY <1>1, <2>1, <2>2 DEF NewsTypes
  <2>3. CASE /\ sink' = [sink EXCEPT ![s].next = @ + 1]
             /\ unstored' = [unstored EXCEPT ![s] = @ \cup {link}]
    BY <1>1, <2>1, <2>3 DEF NewsTypes
  <2>4. QED BY <2>2, <2>3 DEF Consumes, link
<1>5. \A q \in Sinks : /\ sink'[q].commit <= sink'[q].next /\ sink'[q].next <= Len(topic)
                       /\ sink'[q].stored \subseteq Delivered
  <2> SUFFICES ASSUME NEW q \in Sinks
               PROVE  /\ sink'[q].commit <= sink'[q].next /\ sink'[q].next <= Len(topic)
                      /\ sink'[q].stored \subseteq Delivered
    OBVIOUS
  <2>1. CASE q = s
    BY <1>1, <1>3, <1>4, <2>1 DEF NewsTypes, NewsTypeOK
  <2>2. CASE q # s
    BY <1>1, <1>4, <2>2 DEF NewsTypes, NewsTypeOK
  <2>3. QED BY <2>1, <2>2
<1>6. SinkState'
  <2> SUFFICES ASSUME NEW q \in Sinks, NEW i \in 1 .. sink'[q].next
               PROVE  topic[i] \in sink'[q].stored \cup unstored'[q]
    BY <1>1 DEF SinkState
  <2>1. CASE q = s /\ i = sink[s].next + 1
    BY <1>4, <2>1 DEF link
  <2>2. CASE q = s /\ i # sink[s].next + 1
    <3>1. i \in 1 .. sink[s].next
      BY <1>1, <1>4, <2>2
    <3>2. QED BY <1>1, <1>4, <2>2, <3>1 DEF SinkState
  <2>3. CASE q # s
    BY <1>1, <1>4, <2>3 DEF SinkState
  <2>4. QED BY <2>1, <2>2, <2>3
<1>7. QED BY <1>1, <1>4, <1>5, <1>6, ConsumerNInv

\* Offsets move between what is committed and what is read.
LEMMA OffsetsNInv ==
  ASSUME NInv, NEW s \in Sinks, Commits(s) \/ ConsumerRestarts(s)
  PROVE  NInv'
<1>1. /\ UNCHANGED <<seenFile, turn, topic, undelivered, forgotten, unstored>>
      /\ NewsTypes /\ SinkState /\ topic \in Seq(Articles) /\ Len(topic) \in Nat
      /\ sink[s].next \in Nat /\ sink[s].commit \in Nat /\ sink[s].commit <= sink[s].next
  BY DEF Commits, ConsumerRestarts, NInv, NewsInv, NewsTypes, NewsTypeOK
<1>2. /\ sink' \in [Sinks -> [next : Nat, commit : Nat, stored : SUBSET Articles]]
      /\ \A q \in Sinks : q # s => sink'[q] = sink[q]
      /\ sink'[s].stored = sink[s].stored
      /\ sink'[s].commit <= sink'[s].next /\ sink'[s].next <= sink[s].next
  <2>1. sink[s] \in [next : Nat, commit : Nat, stored : SUBSET Articles]
    BY <1>1 DEF NewsTypes
  <2>2. CASE sink' = [sink EXCEPT ![s].commit = sink[s].next]
    <3>1. sink'[s] = [sink[s] EXCEPT !.commit = sink[s].next]
          /\ \A q \in Sinks : q # s => sink'[q] = sink[q]
      BY <1>1, <2>2 DEF NewsTypes
    <3>2. sink'[s] \in [next : Nat, commit : Nat, stored : SUBSET Articles]
      BY <1>1, <2>1, <3>1
    <3>3. sink' \in [Sinks -> [next : Nat, commit : Nat, stored : SUBSET Articles]]
      BY <1>1, <2>2, <3>1, <3>2 DEF NewsTypes
    <3>4. QED BY <1>1, <2>1, <3>1, <3>3
  <2>3. CASE sink' = [sink EXCEPT ![s].next = sink[s].commit]
    <3>1. sink'[s] = [sink[s] EXCEPT !.next = sink[s].commit]
          /\ \A q \in Sinks : q # s => sink'[q] = sink[q]
      BY <1>1, <2>3 DEF NewsTypes
    <3>2. sink'[s] \in [next : Nat, commit : Nat, stored : SUBSET Articles]
      BY <1>1, <2>1, <3>1
    <3>3. sink' \in [Sinks -> [next : Nat, commit : Nat, stored : SUBSET Articles]]
      BY <1>1, <2>3, <3>1, <3>2 DEF NewsTypes
    <3>4. QED BY <1>1, <2>1, <3>1, <3>3
  <2>4. QED BY <2>2, <2>3 DEF Commits, ConsumerRestarts, StartsAt
<1>3. \A q \in Sinks : /\ sink'[q].commit <= sink'[q].next /\ sink'[q].next <= sink[q].next
                       /\ sink'[q].stored = sink[q].stored
                       /\ sink[q].next \in Nat /\ sink'[q].next \in Nat
                       /\ sink[q].next <= Len(topic) /\ sink[q].commit <= sink[q].next
                       /\ sink[q].stored \subseteq Delivered
  BY <1>1, <1>2 DEF NewsTypes, NewsTypeOK
<1>4. SinkState'
  <2> SUFFICES ASSUME NEW q \in Sinks, NEW i \in 1 .. sink'[q].next
               PROVE  topic[i] \in sink'[q].stored \cup unstored[q]
    BY <1>1 DEF SinkState
  <2>1. i \in 1 .. sink[q].next
    BY <1>3
  <2>2. QED BY <1>1, <1>3, <2>1 DEF SinkState
<1>5. \A q \in Sinks : sink'[q].next <= Len(topic)
  BY <1>1, <1>3
<1>6. QED BY <1>1, <1>2, <1>3, <1>4, <1>5, ConsumerNInv DEF NewsTypes

\* All steps together.
LEMMA NextNInv == NInv /\ [NewsNext]_newsVars => NInv'
<1> SUFFICES ASSUME NInv, [NewsNext]_newsVars PROVE NInv'
  OBVIOUS
<1>1. CASE UNCHANGED newsVars
  <2>1. SinkState'
    BY <1>1 DEF newsVars, NInv, SinkState
  <2>2. QED BY <1>1, <2>1, ConsumerNInv DEF newsVars, NInv, NewsInv, NewsTypeOK
<1>2. QED BY <1>1, CollectsNInv, SendsNInv, FlushesNInv, SavesNInv, ProducerDiesNInv,
             ConsumesNInv, OffsetsNInv DEF NewsNext

\* From crawl to store: for any articles, any number of sinks, and any crashes,
\* failing deliveries and failing upserts, nothing written down is missing in the
\* topic, nothing is produced twice unforgotten, nothing read is missing in a sink.
THEOREM NewsArrives == NewsSpec => []NewsInv
<1>1. NInv => NewsInv
  BY DEF NInv
<1>2. QED BY <1>1, InitNInv, NextNInv, PTL DEF NewsSpec

-----------------------------------------------------------------------------
(* Session: for every number of tabs, tokens and flows and whichever calls *)
(* fail, after a logout nobody overtook no cookie comes back, the refresh  *)
(* token in the browser is one the service accepts, and a tab that shows a *)
(* user has an expiry. Each of the three is about flows at rest, and is    *)
(* kept through the flows under way: TabState, LeftState and RotationState *)
(* say what these carry.                                                   *)

\* A flow that knows its user belongs to initAuth of a tab that has an expiry.
TabState(t) ==
  /\ tab[t].user /\ ~tab[t].loading => tab[t].expiry # "none"
  /\ \A k \in Kinds : flow[t][k].leg = "known" => k = "init" /\ tab[t].expiry # "none"

\* A flow that brings no cookies whatever it is answered.
Harmless(f) == f.at \notin {"passed", "issued"} /\ (f.at = "sent" => f.ref = 0)

\* After a logout nothing under way brings cookies back, but a sign-in.
LeftState ==
  left => /\ jar.access = 0 /\ jar.refresh = 0
          /\ \A t \in Tabs, k \in Kinds : Harmless(flow[t][k])

\* The flows whose answer is on its way to the browser.
Bearer(t, k) == flow[t][k].at = "issued"

\* Unforked, at most one answer is on its way, and the token it brings is the one
\* stored; when none is, that is the browser's.  Or nothing is stored.
RotationState ==
  ~forked =>
    /\ \A t \in Tabs, k \in Kinds : Bearer(t, k) => kept \in {0, flow[t][k].ref}
    /\ \A t, u \in Tabs : \A k, j \in Kinds : Bearer(t, k) /\ Bearer(u, j) => t = u /\ k = j
    /\ (\A t \in Tabs, k \in Kinds : ~Bearer(t, k))
         => jar.refresh = 0 \/ kept \in {0, jar.refresh}

SInv == TypeOK /\ (\A t \in Tabs : TabState(t)) /\ LeftState /\ RotationState

-----------------------------------------------------------------------------
(* The records a step makes *)

Legs == {"", "known", "last"}

\* What a flow at rest is.
LEMMA IdleFlow == Idle \in Flow /\ Idle.at = "idle" /\ Idle.leg = ""
BY SessionAssumption DEF Idle, Flow, Tokens

\* What a refresh is sent with: without cookies it carries no token.
LEMMA RefreshingFlow ==
  ASSUME NEW got \in Tokens, NEW leg \in Legs, NEW j \in Jar
  PROVE  /\ Refreshing(got, leg, j) \in Flow
         /\ Refreshing(got, leg, j).at = "sent"
         /\ Refreshing(got, leg, j).leg = leg
         /\ j.refresh = 0 => Refreshing(got, leg, j).ref = 0
<1> DEFINE n == IF j.csrf THEN j.refresh ELSE 0
           m == [Idle EXCEPT !.at = "sent", !.ref = n, !.got = got, !.leg = leg]
<1>1. n \in Tokens /\ (j.refresh = 0 => n = 0)
  BY SessionAssumption DEF Jar, Tokens
<1>2. Refreshing(got, leg, j) = m
  BY DEF Refreshing
<1> HIDE DEF n
<1>3. m \in Flow /\ m.at = "sent" /\ m.leg = leg /\ m.ref = n
  BY <1>1, IdleFlow DEF Flow, Legs
<1>4. QED BY <1>1, <1>2, <1>3

\* What a request for the user is sent with.
LEMMA AskingFlow ==
  ASSUME NEW got \in Tokens, NEW leg \in Legs, NEW j \in Jar
  PROVE  /\ Asking(got, leg, j) \in Flow
         /\ Asking(got, leg, j).at = "asked"
         /\ Asking(got, leg, j).leg = leg
BY IdleFlow, SessionAssumption DEF Flow, Tokens, Asking, Jar, Legs

\* The flows of a page that has just been opened.
LEMMA OpeningFlows ==
  ASSUME NEW j \in Jar
  PROVE  /\ Opening(j) \in [Kinds -> Flow]
         /\ \A k \in Kinds : Opening(j)[k].at \in {"idle", "asked"} /\ Opening(j)[k].leg = ""
<1>1. 0 \in Tokens /\ "" \in Legs
  BY SessionAssumption DEF Tokens, Legs
<1>2. /\ Asking(0, "", j) \in Flow /\ Asking(0, "", j).at = "asked"
      /\ Asking(0, "", j).leg = ""
  BY <1>1, AskingFlow
<1>3. QED BY <1>2, IdleFlow DEF Opening

\* A logout cuts the other flows and leaves what they carry.
LEMMA LogoutFlows ==
  ASSUME TypeOK, NEW fs \in [Kinds -> Flow]
  PROVE  /\ LogoutBegins(fs) \in [Kinds -> Flow]
         /\ LogoutBegins(fs)["logout"].at = "gone" /\ LogoutBegins(fs)["logout"].leg = ""
         /\ \A k \in Kinds \ {"logout"} :
              /\ LogoutBegins(fs)[k].at = fs[k].at
              /\ LogoutBegins(fs)[k].ref = fs[k].ref
              /\ LogoutBegins(fs)[k].leg = fs[k].leg
<1>1. jar.access \in Tokens
  BY DEF TypeOK, Jar
<1>2. /\ [Idle EXCEPT !.at = "gone", !.use = jar.access] \in Flow
      /\ [Idle EXCEPT !.at = "gone", !.use = jar.access].at = "gone"
      /\ [Idle EXCEPT !.at = "gone", !.use = jar.access].leg = ""
  BY <1>1, IdleFlow DEF Flow
<1>3. ASSUME NEW k \in Kinds
      PROVE  /\ [fs[k] EXCEPT !.cut = TRUE] \in Flow
             /\ [fs[k] EXCEPT !.cut = TRUE].at = fs[k].at
             /\ [fs[k] EXCEPT !.cut = TRUE].ref = fs[k].ref
             /\ [fs[k] EXCEPT !.cut = TRUE].leg = fs[k].leg
  <2>1. fs[k] \in Flow
    OBVIOUS
  <2>2. QED BY <2>1 DEF Flow
<1>4. LogoutBegins(fs)["logout"] = [Idle EXCEPT !.at = "gone", !.use = jar.access]
  BY DEF LogoutBegins, Kinds
<1>5. ASSUME NEW k \in Kinds \ {"logout"}
      PROVE  LogoutBegins(fs)[k] \in {fs[k], [fs[k] EXCEPT !.cut = TRUE]}
  BY DEF LogoutBegins
<1>6. ASSUME NEW k \in Kinds PROVE LogoutBegins(fs)[k] \in Flow
  BY <1>2, <1>3, <1>4, <1>5
<1>7. LogoutBegins(fs) \in [Kinds -> Flow]
  BY <1>6 DEF LogoutBegins
<1>8. QED BY <1>2, <1>3, <1>4, <1>5, <1>7

-----------------------------------------------------------------------------
(* What has to be shown of a step *)

\* A step that puts the flows `fs' and the state `b' in one tab.
LEMMA TurnOfTab ==
  ASSUME SInv, NEW t \in Tabs, NEW fs \in [Kinds -> Flow], NEW b \in Tab,
         flow' = [flow EXCEPT ![t] = fs], tab' = [tab EXCEPT ![t] = b],
         b.user /\ ~b.loading => b.expiry # "none",
         \A k \in Kinds : fs[k].leg = "known" => k = "init" /\ b.expiry # "none"
  PROVE  /\ flow' \in [Tabs -> [Kinds -> Flow]] /\ tab' \in [Tabs -> Tab]
         /\ flow'[t] = fs /\ \A u \in Tabs \ {t} : flow'[u] = flow[u]
         /\ \A u \in Tabs : TabState(u)'
<1>1. flow \in [Tabs -> [Kinds -> Flow]] /\ tab \in [Tabs -> Tab]
  BY DEF SInv, TypeOK
<1>2. /\ flow' \in [Tabs -> [Kinds -> Flow]] /\ tab' \in [Tabs -> Tab]
      /\ flow'[t] = fs /\ tab'[t] = b
      /\ \A u \in Tabs \ {t} : flow'[u] = flow[u] /\ tab'[u] = tab[u]
  BY <1>1
<1>3. ASSUME NEW u \in Tabs PROVE TabState(u)'
  <2>1. CASE u = t
    BY <2>1, <1>2 DEF TabState
  <2>2. CASE u # t
    BY <2>2, <1>2 DEF TabState, SInv
  <2>3. QED BY <2>1, <2>2
<1>4. QED BY <1>2, <1>3

\* A step of one tab that keeps or ends what a logout left.
LEMMA TurnAfterLogout ==
  ASSUME SInv, NEW t \in Tabs, flow' \in [Tabs -> [Kinds -> Flow]],
         \A u \in Tabs \ {t} : flow'[u] = flow[u],
         left' => left,
         left => /\ jar'.access = 0 /\ jar'.refresh = 0
                 /\ \A k \in Kinds : Harmless(flow'[t][k])
  PROVE  LeftState'
<1>1. ASSUME left', NEW u \in Tabs, NEW k \in Kinds PROVE Harmless(flow'[u][k])
  <2>1. left BY <1>1
  <2>2. CASE u = t BY <2>1, <2>2
  <2>3. CASE u # t BY <2>1, <2>3 DEF SInv, LeftState
  <2>4. QED BY <2>2, <2>3
<1>2. QED BY <1>1 DEF LeftState, Harmless

\* A step of one tab that brings no answer on its way nor takes one away.
LEMMA TurnWithoutCookies ==
  ASSUME SInv, NEW t \in Tabs,
         \A u \in Tabs \ {t} : flow'[u] = flow[u],
         ~forked' => ~forked,
         ~forked' => kept' \in {0, kept} /\ jar'.refresh \in {0, jar.refresh},
         ~forked' => \A k \in Kinds :
           /\ flow'[t][k].at = "issued" <=> flow[t][k].at = "issued"
           /\ flow'[t][k].at = "issued" => flow'[t][k].ref = flow[t][k].ref
  PROVE  RotationState'
<1> SUFFICES ASSUME ~forked' PROVE RotationState'
  BY DEF RotationState
<1>1. ASSUME NEW u \in Tabs, NEW k \in Kinds
      PROVE  /\ flow'[u][k].at = "issued" <=> flow[u][k].at = "issued"
             /\ flow'[u][k].at = "issued" => flow'[u][k].ref = flow[u][k].ref
  <2>1. CASE u = t BY <2>1
  <2>2. CASE u # t BY <2>2
  <2>3. QED BY <2>1, <2>2
<1>2. QED BY <1>1 DEF SInv, RotationState, Bearer

\* A step that issues a token: its answer is the only one on its way.
LEMMA TurnThatIssues ==
  ASSUME NEW t \in Tabs, NEW k \in Kinds,
         ~forked' => kept' = flow'[t][k].ref,
         flow'[t][k].at = "issued",
         ~forked' => \A u \in Tabs, j \in Kinds : <<u, j>> # <<t, k>> => flow'[u][j].at # "issued"
  PROVE  RotationState'
<1> SUFFICES ASSUME ~forked' PROVE RotationState'
  BY DEF RotationState
<1>1. ASSUME NEW u \in Tabs, NEW j \in Kinds, Bearer(u, j)'
      PROVE  u = t /\ j = k
  BY <1>1 DEF Bearer
<1>2. QED BY <1>1 DEF RotationState, Bearer

-----------------------------------------------------------------------------
(* Steps of a flow *)

\* A step that changes one flow of a tab, and not what the tab holds.
LEMMA PutStep ==
  ASSUME SInv, NEW t \in Tabs, NEW k \in Kinds, NEW f \in Flow,
         Put(t, k, f), UNCHANGED tab,
         f.leg = "known" => flow[t][k].leg = "known"
  PROVE  /\ flow' \in [Tabs -> [Kinds -> Flow]] /\ tab' \in [Tabs -> Tab]
         /\ \A u \in Tabs \ {t} : flow'[u] = flow[u]
         /\ \A u \in Tabs : TabState(u)'
         /\ flow'[t][k] = f /\ \A j \in Kinds \ {k} : flow'[t][j] = flow[t][j]
<1> DEFINE fs == [flow[t] EXCEPT ![k] = f]
<1>1. flow \in [Tabs -> [Kinds -> Flow]] /\ tab \in [Tabs -> Tab]
  BY DEF SInv, TypeOK
<1>2. flow' = [flow EXCEPT ![t] = fs]
  BY <1>1 DEF Put
<1>3. fs \in [Kinds -> Flow] /\ fs[k] = f /\ \A j \in Kinds \ {k} : fs[j] = flow[t][j]
  BY <1>1
<1>4. tab' = [tab EXCEPT ![t] = tab[t]] /\ tab[t] \in Tab
  BY <1>1
<1>5. TabState(t)
  BY DEF SInv
<1>6. \A j \in Kinds : fs[j].leg = "known" => j = "init" /\ tab[t].expiry # "none"
  BY <1>3, <1>5 DEF TabState
<1>7. tab[t].user /\ ~tab[t].loading => tab[t].expiry # "none"
  BY <1>5 DEF TabState
<1> HIDE DEF fs
<1>8. /\ flow' \in [Tabs -> [Kinds -> Flow]] /\ tab' \in [Tabs -> Tab]
      /\ flow'[t] = fs /\ \A u \in Tabs \ {t} : flow'[u] = flow[u]
      /\ \A u \in Tabs : TabState(u)'
  <2> DEFINE b == tab[t]
  <2> HIDE DEF b
  <2>1. /\ b \in Tab /\ tab' = [tab EXCEPT ![t] = b]
        /\ b.user /\ ~b.loading => b.expiry # "none"
        /\ \A j \in Kinds : fs[j].leg = "known" => j = "init" /\ b.expiry # "none"
    BY <1>4, <1>6, <1>7 DEF b
  <2>2. QED BY ONLY SInv, <1>2, <1>3, <2>1, TurnOfTab
<1>9. QED BY <1>3, <1>8

\* A refresh that is over: the flow goes on without cookies of its own, and
\* initAuth ends only where the user is known.
LEMMA ReturnStep ==
  ASSUME SInv, NEW t \in Tabs, NEW k \in Kinds, NEW tok \in Tokens, jar' \in Jar,
         RefreshReturns(t, k, tok)
  PROVE  /\ flow' \in [Tabs -> [Kinds -> Flow]] /\ tab' \in [Tabs -> Tab]
         /\ \A u \in Tabs \ {t} : flow'[u] = flow[u]
         /\ \A u \in Tabs : TabState(u)'
         /\ flow'[t][k].at \in {"idle", "asked"}
         /\ \A j \in Kinds \ {k} : flow'[t][j] = flow[t][j]
<1> DEFINE f  == flow[t][k]
           g  == AfterRefresh(f, k, tok, jar')
           fs == [flow[t] EXCEPT ![k] = g]
           n  == tab[t].loading /\ f.leg # "known"
           b  == [tab[t] EXCEPT !.loading = n]
<1>1. flow \in [Tabs -> [Kinds -> Flow]] /\ tab \in [Tabs -> Tab]
  BY DEF SInv, TypeOK
<1>2. "last" \in Legs
  BY DEF Legs
<1>3. /\ Asking(tok, "last", jar') \in Flow
      /\ Asking(tok, "last", jar').at = "asked"
      /\ Asking(tok, "last", jar').leg = "last"
  BY <1>2, AskingFlow
<1>4. g \in Flow /\ g.at \in {"idle", "asked"} /\ g.leg # "known"
  BY <1>3, IdleFlow DEF AfterRefresh
<1>5. flow' = [flow EXCEPT ![t] = fs] /\ tab' = [tab EXCEPT ![t] = b]
  BY <1>1 DEF RefreshReturns, Put, TabAfterRefresh
<1>6. fs \in [Kinds -> Flow] /\ fs[k] = g /\ \A j \in Kinds \ {k} : fs[j] = flow[t][j]
  <2> HIDE DEF g
  <2>1. QED BY <1>1, <1>4
<1>7. /\ n \in BOOLEAN
      /\ ~n => ~tab[t].loading \/ f.leg = "known"
  BY DEF n
<1>8. /\ b \in Tab /\ b.user = tab[t].user /\ b.expiry = tab[t].expiry /\ b.loading = n
  <2> HIDE DEF n
  <2>1. tab[t] \in Tab
    BY <1>1
  <2>2. QED BY <1>7, <2>1 DEF Tab
<1>9. TabState(t)
  BY DEF SInv
<1> HIDE DEF fs, n, b, g
<1>10. b.user /\ ~b.loading => b.expiry # "none"
  BY <1>7, <1>8, <1>9 DEF TabState
<1>11. \A j \in Kinds : fs[j].leg = "known" => j = "init" /\ b.expiry # "none"
  BY <1>4, <1>6, <1>8, <1>9 DEF TabState
<1>12. /\ flow' \in [Tabs -> [Kinds -> Flow]] /\ tab' \in [Tabs -> Tab]
       /\ flow'[t] = fs /\ \A u \in Tabs \ {t} : flow'[u] = flow[u]
       /\ \A u \in Tabs : TabState(u)'
  BY <1>5, <1>6, <1>8, <1>10, <1>11, TurnOfTab
<1>13. QED BY <1>4, <1>6, <1>12

\* The other variables of TypeOK, for a step that leaves most of them alone.
LEMMA TypesKept ==
  ASSUME SInv, flow' \in [Tabs -> [Kinds -> Flow]], tab' \in [Tabs -> Tab],
         jar' \in Jar, kept' \in Tokens, issued' \in Tokens, lapsed' \in Tokens,
         saved' \in Expiry, ghosts' \in 0 .. 1, forked' \in BOOLEAN, left' \in BOOLEAN
  PROVE  TypeOK'
BY DEF TypeOK

\* The service's answer to a refresh: it passes, or the flow goes on without.
LEMMA RefreshCheckStep ==
  ASSUME SInv, NEW t \in Tabs, NEW k \in Kinds, RefreshCheck(t, k)
  PROVE  SInv'
<1> DEFINE f == flow[t][k]
<1>1. TypeOK /\ f \in Flow /\ TabState(t)
  BY DEF SInv, TypeOK
<1>2. /\ Busy(t, k, {"sent"}) /\ UNCHANGED <<jar, kept, issued, ghosts, lapsed, saved, forked, left>>
  BY DEF RefreshCheck, server
<1>3. f.at = "sent"
  BY <1>2 DEF Busy
<1>4. CASE /\ f.ref # 0 /\ UNCHANGED tab
           /\ Put(t, k, [f EXCEPT !.at = "passed"])
  <2> DEFINE g == [f EXCEPT !.at = "passed"]
  <2>1. g \in Flow /\ g.at = "passed" /\ g.leg = f.leg
    BY <1>1 DEF Flow
  <2> HIDE DEF g
  <2>2. /\ flow' \in [Tabs -> [Kinds -> Flow]] /\ tab' \in [Tabs -> Tab]
        /\ \A u \in Tabs \ {t} : flow'[u] = flow[u]
        /\ \A u \in Tabs : TabState(u)'
        /\ flow'[t][k] = g /\ \A j \in Kinds \ {k} : flow'[t][j] = flow[t][j]
    BY <1>4, <2>1, PutStep DEF g
  <2>3. ~left
    BY <1>3, <1>4 DEF SInv, LeftState, Harmless
  <2>4. LeftState'
    BY <1>2, <2>3 DEF LeftState
  <2>5. RotationState'
    BY <1>2, <1>3, <2>1, <2>2, TurnWithoutCookies
  <2>6. TypeOK'
    BY <1>1, <1>2, <2>2, TypesKept DEF TypeOK
  <2>7. QED BY <2>2, <2>4, <2>5, <2>6 DEF SInv
<1>5. CASE RefreshReturns(t, k, 0)
  <2>1. 0 \in Tokens /\ jar' \in Jar
    BY <1>1, <1>2, SessionAssumption DEF Tokens, TypeOK
  <2>2. /\ flow' \in [Tabs -> [Kinds -> Flow]] /\ tab' \in [Tabs -> Tab]
        /\ \A u \in Tabs \ {t} : flow'[u] = flow[u]
        /\ \A u \in Tabs : TabState(u)'
        /\ flow'[t][k].at \in {"idle", "asked"}
        /\ \A j \in Kinds \ {k} : flow'[t][j] = flow[t][j]
    BY <1>5, <2>1, ReturnStep
  <2>3. left => /\ jar'.access = 0 /\ jar'.refresh = 0
                /\ \A j \in Kinds : Harmless(flow'[t][j])
    BY <1>2, <2>2 DEF SInv, LeftState, Harmless
  <2>4. LeftState'
    BY <1>2, <2>2, <2>3, TurnAfterLogout
  <2>5. RotationState'
    BY <1>2, <1>3, <2>2, TurnWithoutCookies
  <2>6. TypeOK'
    BY <1>1, <1>2, <2>2, TypesKept DEF TypeOK
  <2>7. QED BY <2>2, <2>4, <2>5, <2>6 DEF SInv
<1>6. QED
  BY <1>4, <1>5 DEF RefreshCheck, Accepted

\* The service issues a pair: unforked, no other answer is on its way.
LEMMA RefreshIssueStep ==
  ASSUME SInv, NEW t \in Tabs, NEW k \in Kinds, RefreshIssue(t, k)
  PROVE  SInv'
<1> DEFINE f == flow[t][k]
           g == [f EXCEPT !.at = "issued", !.use = issued', !.ref = issued']
<1>1. TypeOK /\ f \in Flow
  BY DEF SInv, TypeOK
<1>2. /\ f.at = "passed" /\ Issue /\ Put(t, k, g)
      /\ forked' = (forked \/ Overlapped(t, k) \/ kept' # issued')
      /\ UNCHANGED <<jar, ghosts, lapsed, saved, tab, left>>
  BY DEF RefreshIssue, Busy
<1>3. issued' \in Tokens /\ kept' \in Tokens
  BY <1>1, <1>2, SessionAssumption DEF Issue, TypeOK, Tokens
<1>4. g \in Flow /\ g.at = "issued" /\ g.leg = f.leg /\ g.ref = issued'
  BY <1>1, <1>3 DEF Flow
<1> HIDE DEF g
<1>5. /\ flow' \in [Tabs -> [Kinds -> Flow]] /\ tab' \in [Tabs -> Tab]
      /\ \A u \in Tabs \ {t} : flow'[u] = flow[u]
      /\ \A u \in Tabs : TabState(u)'
      /\ flow'[t][k] = g /\ \A j \in Kinds \ {k} : flow'[t][j] = flow[t][j]
  BY <1>2, <1>4, PutStep
<1>6. ~left
  BY <1>2 DEF SInv, LeftState, Harmless
<1>7. LeftState'
  BY <1>2, <1>6 DEF LeftState
<1>8. ASSUME ~forked', NEW u \in Tabs, NEW j \in Kinds, <<u, j>> # <<t, k>>
      PROVE  flow'[u][j].at # "issued"
  <2>1. flow[u][j].at # "issued"
    BY <1>2, <1>8 DEF Overlapped, Busy
  <2>2. QED BY <1>5, <1>8, <2>1
<1>9. ~forked' => kept' = flow'[t][k].ref
  BY <1>2, <1>4, <1>5
<1>10. RotationState'
  BY <1>4, <1>5, <1>8, <1>9, TurnThatIssues
<1>11. forked' \in BOOLEAN
  BY <1>2
<1>12. TypeOK'
  BY <1>1, <1>2, <1>3, <1>5, <1>11, TypesKept DEF TypeOK
<1>13. QED BY <1>5, <1>7, <1>10, <1>12 DEF SInv

\* The answer arrives: the browser's refresh token is now the one that was stored.
LEMMA CookiesArriveStep ==
  ASSUME SInv, NEW t \in Tabs, NEW k \in Kinds, CookiesArrive(t, k)
  PROVE  SInv'
<1> DEFINE f == flow[t][k]
<1>1. TypeOK /\ f \in Flow
  BY DEF SInv, TypeOK
<1>2. /\ f.at = "issued" /\ jar' = Cookies(f.use, f.ref) /\ RefreshReturns(t, k, f.use)
      /\ UNCHANGED <<kept, issued, ghosts, lapsed, saved, forked, left>>
  BY DEF CookiesArrive, Busy, server
<1>3. f.use \in Tokens /\ f.ref \in Tokens
  BY <1>1 DEF Flow
<1>4. jar' \in Jar /\ jar'.refresh = f.ref
  BY <1>2, <1>3 DEF Cookies, Jar
<1>5. /\ flow' \in [Tabs -> [Kinds -> Flow]] /\ tab' \in [Tabs -> Tab]
      /\ \A u \in Tabs \ {t} : flow'[u] = flow[u]
      /\ \A u \in Tabs : TabState(u)'
      /\ flow'[t][k].at \in {"idle", "asked"}
      /\ \A j \in Kinds \ {k} : flow'[t][j] = flow[t][j]
  BY <1>2, <1>3, <1>4, ReturnStep
<1>6. ~left
  BY <1>2 DEF SInv, LeftState, Harmless
<1>7. LeftState'
  BY <1>2, <1>6 DEF LeftState
<1>8. RotationState'
  <2> SUFFICES ASSUME ~forked' PROVE RotationState'
    BY DEF RotationState
  <2>1. kept \in {0, f.ref}
    BY <1>2 DEF SInv, RotationState, Bearer
  <2>2. ASSUME NEW u \in Tabs, NEW j \in Kinds PROVE flow'[u][j].at # "issued"
    <3>1. CASE u = t /\ j = k
      BY <3>1, <1>5
    <3>2. CASE ~(u = t /\ j = k)
      <4>1. flow[u][j].at # "issued"
        BY <1>2, <3>2 DEF SInv, RotationState, Bearer
      <4>2. flow'[u][j] = flow[u][j]
        BY <1>5, <3>2
      <4>3. QED BY <4>1, <4>2
    <3>3. QED BY <3>1, <3>2
  <2>3. QED BY <1>2, <1>4, <2>1, <2>2 DEF RotationState, Bearer
<1>9. TypeOK'
  BY <1>1, <1>2, <1>4, <1>5, TypesKept DEF TypeOK
<1>10. QED BY <1>5, <1>7, <1>8, <1>9 DEF SInv

\* The browser gives up: an answer with cookies that is lost forks.
LEMMA RefreshLostStep ==
  ASSUME SInv, NEW t \in Tabs, NEW k \in Kinds, RefreshLost(t, k)
  PROVE  SInv'
<1> DEFINE f == flow[t][k]
<1>1. TypeOK /\ f \in Flow
  BY DEF SInv, TypeOK
<1>2. /\ f.at \in {"sent", "passed", "issued"} /\ RefreshReturns(t, k, 0)
      /\ forked' = (forked \/ Busy(t, k, {"issued"}))
      /\ UNCHANGED <<jar, kept, issued, lapsed, saved, left>>
  BY DEF RefreshLost, Busy
<1>3. 0 \in Tokens /\ jar' \in Jar
  BY <1>1, <1>2, SessionAssumption DEF Tokens, TypeOK
<1>4. ghosts' \in 0 .. 1
  BY <1>1 DEF RefreshLost, TypeOK
<1>5. forked' \in BOOLEAN /\ (~forked' => ~forked /\ f.at # "issued")
  BY <1>2 DEF Busy
<1>6. /\ flow' \in [Tabs -> [Kinds -> Flow]] /\ tab' \in [Tabs -> Tab]
      /\ \A u \in Tabs \ {t} : flow'[u] = flow[u]
      /\ \A u \in Tabs : TabState(u)'
      /\ flow'[t][k].at \in {"idle", "asked"}
      /\ \A j \in Kinds \ {k} : flow'[t][j] = flow[t][j]
  BY <1>2, <1>3, ReturnStep
<1>7. left => /\ jar'.access = 0 /\ jar'.refresh = 0
              /\ \A j \in Kinds : Harmless(flow'[t][j])
  BY <1>2, <1>6 DEF SInv, LeftState, Harmless
<1>8. LeftState'
  BY <1>2, <1>6, <1>7, TurnAfterLogout
<1>9. ~forked' => \A j \in Kinds :
        /\ flow'[t][j].at = "issued" <=> flow[t][j].at = "issued"
        /\ flow'[t][j].at = "issued" => flow'[t][j].ref = flow[t][j].ref
  BY <1>5, <1>6
<1>10. RotationState'
  BY <1>2, <1>5, <1>6, <1>9, TurnWithoutCookies
<1>11. TypeOK'
  BY <1>1, <1>2, <1>3, <1>4, <1>5, <1>6, TypesKept DEF TypeOK
<1>12. QED BY <1>6, <1>8, <1>10, <1>11 DEF SInv

\* The service goes on with a refresh whose browser gave up.
LEMMA GhostIssuesStep ==
  ASSUME SInv, GhostIssues
  PROVE  SInv'
<1>1. /\ TypeOK /\ Issue /\ ghosts' = 0 /\ forked' = TRUE
      /\ UNCHANGED <<jar, lapsed, saved, tab, flow, left>>
  BY DEF GhostIssues, SInv
<1>2. issued' \in Tokens /\ kept' \in Tokens
  BY <1>1, SessionAssumption DEF Issue, TypeOK, Tokens
<1>3. TypeOK'
  BY <1>1, <1>2, TypesKept DEF TypeOK
<1>4. LeftState' /\ RotationState' /\ \A t \in Tabs : TabState(t)'
  BY <1>1 DEF SInv, LeftState, RotationState, TabState
<1>5. QED BY <1>3, <1>4 DEF SInv

-----------------------------------------------------------------------------
(* Steps of a tab *)

\* What a tab holds after an answer of /me: whoever it shows has an expiry.
LEMMA SignedTab ==
  ASSUME NEW b \in Tab, NEW f \in Flow, NEW k \in Kinds, NEW ok \in BOOLEAN,
         b.user /\ ~b.loading => b.expiry # "none"
  PROVE  /\ Signed(b, f, k, ok) \in Tab
         /\ Signed(b, f, k, ok).expiry = IF ok THEN "ahead" ELSE b.expiry
         /\ Signed(b, f, k, ok).user /\ ~Signed(b, f, k, ok).loading
              => Signed(b, f, k, ok).expiry # "none"
<1> DEFINE c == IF ok THEN Welcome(b) ELSE b
           d == [c EXCEPT !.loading = FALSE, !.user = ok]
<1>1. /\ Welcome(b) \in Tab /\ Welcome(b).user = TRUE /\ Welcome(b).expiry = "ahead"
      /\ Welcome(b).loading = b.loading
  BY DEF Welcome, Tab, Expiry
<1>2. CASE ok
  <2>1. c \in Tab /\ c.expiry = "ahead"
    BY <1>1, <1>2
  <2> HIDE DEF c
  <2>2. d \in Tab /\ d.expiry = "ahead"
    BY <2>1 DEF Tab
  <2>3. Signed(b, f, k, ok) \in {c, d}
    BY DEF Signed, c
  <2>4. QED BY <1>2, <2>1, <2>2, <2>3
<1>3. CASE ~ok
  <2>1. c = b
    BY <1>3
  <2> HIDE DEF c
  <2>2. d \in Tab /\ d.expiry = b.expiry /\ ~d.user
    BY <1>3, <2>1 DEF Tab
  <2>3. Signed(b, f, k, ok) \in {c, d}
    BY DEF Signed, c
  <2>4. QED BY <1>3, <2>1, <2>2, <2>3
<1>4. QED BY <1>2, <1>3

\* What a flow does after an answer of /me: only a found user makes it know one.
LEMMA AfterMeFlow ==
  ASSUME TypeOK, NEW f \in Flow, NEW k \in Kinds, NEW ok \in BOOLEAN
  PROVE  /\ AfterMe(f, k, ok) \in Flow
         /\ AfterMe(f, k, ok).at \in {"idle", "sent"}
         /\ AfterMe(f, k, ok).leg = "known" => k = "init" /\ ok
         /\ jar.refresh = 0 => Harmless(AfterMe(f, k, ok))
<1>1. jar \in Jar /\ 0 \in Tokens
  BY SessionAssumption DEF TypeOK, Tokens
<1>2. CASE k = "init" /\ f.leg = ""
  <2> DEFINE leg == IF ok THEN "known" ELSE "last"
  <2>1. leg \in Legs /\ (leg = "known" => ok)
    BY DEF Legs
  <2>2. AfterMe(f, k, ok) = Refreshing(0, leg, jar)
    BY <1>2 DEF AfterMe
  <2> HIDE DEF leg
  <2>3. /\ Refreshing(0, leg, jar) \in Flow
        /\ Refreshing(0, leg, jar).at = "sent"
        /\ Refreshing(0, leg, jar).leg = leg
        /\ jar.refresh = 0 => Refreshing(0, leg, jar).ref = 0
    BY <1>1, <2>1, RefreshingFlow
  <2>4. QED BY <1>2, <2>1, <2>2, <2>3 DEF Harmless
<1>3. CASE ~(k = "init" /\ f.leg = "")
  <2>1. AfterMe(f, k, ok) = Idle
    BY <1>3 DEF AfterMe
  <2>2. QED BY <2>1, IdleFlow DEF Harmless
<1>4. QED BY <1>2, <1>3

\* The answer of /me, after which the interval may log out.
LEMMA AnsweredStep ==
  ASSUME SInv, NEW t \in Tabs, NEW k \in Kinds, Answered(t, k)
  PROVE  SInv'
<1> DEFINE f == flow[t][k]
<1>1. TypeOK /\ f \in Flow /\ flow[t] \in [Kinds -> Flow] /\ tab[t] \in Tab /\ TabState(t)
  BY DEF SInv, TypeOK
<1>2. f.at = "asked" /\ UNCHANGED <<jar, kept, issued, ghosts, lapsed, forked, left>>
  BY DEF Answered, Busy, server
<1>3. PICK ok \in BOOLEAN :
        /\ tab' = [tab EXCEPT ![t] = Signed(@, f, k, ok)]
        /\ saved' = IF ok THEN "ahead" ELSE saved
        /\ LET done == [flow[t] EXCEPT ![k] = AfterMe(@, k, ok)] IN
           flow' = [flow EXCEPT ![t] =
                      IF EndsSession(k, ok) /\ done["logout"] = Idle
                      THEN LogoutBegins(done) ELSE done]
  BY DEF Answered
<1> DEFINE g    == AfterMe(f, k, ok)
           done == [flow[t] EXCEPT ![k] = g]
           fs   == IF EndsSession(k, ok) /\ done["logout"] = Idle THEN LogoutBegins(done) ELSE done
           b    == Signed(tab[t], f, k, ok)
<1>4. flow' = [flow EXCEPT ![t] = fs] /\ tab' = [tab EXCEPT ![t] = b]
  BY <1>1, <1>3 DEF TypeOK
<1>5. /\ g \in Flow /\ g.at \in {"idle", "sent"} /\ (g.leg = "known" => k = "init" /\ ok)
      /\ (jar.refresh = 0 => Harmless(g))
  BY <1>1, AfterMeFlow
<1>6. /\ b \in Tab /\ b.expiry = IF ok THEN "ahead" ELSE tab[t].expiry
      /\ b.user /\ ~b.loading => b.expiry # "none"
  BY <1>1, SignedTab DEF TabState
<1> HIDE DEF g, b
<1>7. /\ done \in [Kinds -> Flow] /\ done[k] = g
      /\ \A j \in Kinds \ {k} : done[j] = flow[t][j]
  BY <1>1, <1>5
<1> HIDE DEF done
<1>8. /\ fs \in [Kinds -> Flow]
      /\ \A j \in Kinds :
           \/ fs[j].at = done[j].at /\ fs[j].ref = done[j].ref /\ fs[j].leg = done[j].leg
           \/ fs[j].at = "gone" /\ fs[j].leg = "" /\ done[j] = Idle
  <2>1. CASE fs = done
    BY <2>1, <1>7
  <2>2. CASE fs = LogoutBegins(done) /\ done["logout"] = Idle
    <3>1. /\ LogoutBegins(done) \in [Kinds -> Flow]
          /\ LogoutBegins(done)["logout"].at = "gone" /\ LogoutBegins(done)["logout"].leg = ""
          /\ \A j \in Kinds \ {"logout"} :
               /\ LogoutBegins(done)[j].at = done[j].at
               /\ LogoutBegins(done)[j].ref = done[j].ref
               /\ LogoutBegins(done)[j].leg = done[j].leg
      BY <1>1, <1>7, LogoutFlows
    <3>2. QED BY <2>2, <3>1
  <2>3. QED BY <2>1, <2>2
<1> HIDE DEF fs
<1>9. \A j \in Kinds : fs[j].leg = "known" => j = "init" /\ b.expiry # "none"
  <2> SUFFICES ASSUME NEW j \in Kinds, fs[j].leg = "known" PROVE j = "init" /\ b.expiry # "none"
    OBVIOUS
  <2>1. done[j].leg = "known"
    BY <1>8
  <2>2. CASE j = k
    BY <1>5, <1>6, <1>7, <2>1, <2>2
  <2>3. CASE j # k
    BY <1>1, <1>6, <1>7, <2>1, <2>3 DEF TabState
  <2>4. QED BY <2>2, <2>3
<1>10. /\ flow' \in [Tabs -> [Kinds -> Flow]] /\ tab' \in [Tabs -> Tab]
       /\ flow'[t] = fs /\ \A u \in Tabs \ {t} : flow'[u] = flow[u]
       /\ \A u \in Tabs : TabState(u)'
  BY <1>4, <1>6, <1>8, <1>9, TurnOfTab
<1>11. left => /\ jar'.access = 0 /\ jar'.refresh = 0
               /\ \A j \in Kinds : Harmless(flow'[t][j])
  <2> SUFFICES ASSUME left PROVE /\ jar.access = 0 /\ jar.refresh = 0
                                 /\ \A j \in Kinds : Harmless(fs[j])
    BY <1>2, <1>10
  <2>1. jar.access = 0 /\ jar.refresh = 0 /\ \A j \in Kinds : Harmless(flow[t][j])
    BY DEF SInv, LeftState
  <2>2. \A j \in Kinds : Harmless(done[j])
    BY <1>5, <1>7, <2>1
  <2>3. QED BY <1>8, <2>1, <2>2 DEF Harmless
<1>12. LeftState'
  BY <1>2, <1>10, <1>11, TurnAfterLogout
<1>13. \A j \in Kinds :
         /\ flow'[t][j].at = "issued" <=> flow[t][j].at = "issued"
         /\ flow'[t][j].at = "issued" => flow'[t][j].ref = flow[t][j].ref
  <2> SUFFICES ASSUME NEW j \in Kinds
               PROVE  /\ fs[j].at = "issued" <=> flow[t][j].at = "issued"
                      /\ fs[j].at = "issued" => fs[j].ref = flow[t][j].ref
    BY <1>10
  <2>1. /\ done[j].at = "issued" <=> flow[t][j].at = "issued"
        /\ done[j].at = "issued" => done[j].ref = flow[t][j].ref
    BY <1>2, <1>5, <1>7
  <2>2. QED BY <1>8, <2>1, IdleFlow
<1>14. RotationState'
  BY <1>2, <1>10, <1>13, TurnWithoutCookies
<1>15. saved' \in Expiry
  BY <1>1, <1>3 DEF TypeOK, Expiry
<1>16. TypeOK'
  BY <1>1, <1>2, <1>10, <1>15, TypesKept DEF TypeOK
<1>17. QED BY <1>10, <1>12, <1>14, <1>16 DEF SInv

\* Every 15 minutes a refresh is sent with the cookies of this moment.
LEMMA WarmTickStep ==
  ASSUME SInv, NEW t \in Tabs, WarmTick(t)
  PROVE  SInv'
<1> DEFINE g == Refreshing(0, "", jar)
<1>1. TypeOK /\ "warm" \in Kinds
  BY DEF SInv, Kinds
<1>2. /\ flow[t]["warm"] = Idle /\ Put(t, "warm", g)
      /\ UNCHANGED <<jar, kept, issued, ghosts, lapsed, saved, tab, forked, left>>
  BY DEF WarmTick, server, Kinds
<1>3. jar \in Jar /\ 0 \in Tokens /\ "" \in Legs
  BY <1>1, SessionAssumption DEF TypeOK, Tokens, Legs
<1>4. g \in Flow /\ g.at = "sent" /\ g.leg = "" /\ (jar.refresh = 0 => g.ref = 0)
  BY <1>3, RefreshingFlow
<1> HIDE DEF g
<1>5. /\ flow' \in [Tabs -> [Kinds -> Flow]] /\ tab' \in [Tabs -> Tab]
      /\ \A u \in Tabs \ {t} : flow'[u] = flow[u]
      /\ \A u \in Tabs : TabState(u)'
      /\ flow'[t]["warm"] = g /\ \A j \in Kinds \ {"warm"} : flow'[t][j] = flow[t][j]
  BY <1>1, <1>2, <1>4, PutStep
<1>6. left => /\ jar'.access = 0 /\ jar'.refresh = 0
              /\ \A j \in Kinds : Harmless(flow'[t][j])
  BY <1>2, <1>4, <1>5 DEF SInv, LeftState, Harmless
<1>7. LeftState'
  BY <1>2, <1>5, <1>6, TurnAfterLogout
<1>8. RotationState'
  BY <1>2, <1>4, <1>5, IdleFlow, TurnWithoutCookies
<1>9. TypeOK'
  BY <1>1, <1>2, <1>5, TypesKept DEF TypeOK
<1>10. QED BY <1>5, <1>7, <1>8, <1>9 DEF SInv

\* A logout is asked for: what AuthContext has under way is cut.
LEMMA LogoutStartStep ==
  ASSUME SInv, NEW t \in Tabs, LogoutStart(t)
  PROVE  SInv'
<1> DEFINE fs == LogoutBegins(flow[t])
           b  == tab[t]
<1>1. /\ TypeOK /\ flow[t] \in [Kinds -> Flow] /\ b \in Tab /\ TabState(t)
      /\ flow \in [Tabs -> [Kinds -> Flow]] /\ tab \in [Tabs -> Tab]
  BY DEF SInv, TypeOK
<1>a. b \in Tab
  BY <1>1
<1>2. /\ flow[t]["logout"] = Idle
      /\ flow' = [flow EXCEPT ![t] = fs]
      /\ UNCHANGED <<jar, kept, issued, ghosts, lapsed, saved, tab, forked, left>>
  BY DEF LogoutStart, server
<1>3. /\ fs \in [Kinds -> Flow] /\ fs["logout"].at = "gone" /\ fs["logout"].leg = ""
      /\ \A j \in Kinds \ {"logout"} :
           fs[j].at = flow[t][j].at /\ fs[j].ref = flow[t][j].ref /\ fs[j].leg = flow[t][j].leg
  BY <1>1, LogoutFlows
<1>4. tab' = [tab EXCEPT ![t] = b]
  BY <1>1, <1>2
<1> HIDE DEF fs
<1>5. \A j \in Kinds : fs[j].leg = "known" => j = "init" /\ b.expiry # "none"
  BY <1>1, <1>3 DEF TabState
<1>6. b.user /\ ~b.loading => b.expiry # "none"
  BY <1>1 DEF TabState
<1>b. fs \in [Kinds -> Flow] /\ flow' = [flow EXCEPT ![t] = fs]
  BY <1>2, <1>3
<1> HIDE DEF b
<1>7. /\ flow' \in [Tabs -> [Kinds -> Flow]] /\ tab' \in [Tabs -> Tab]
      /\ flow'[t] = fs /\ \A u \in Tabs \ {t} : flow'[u] = flow[u]
      /\ \A u \in Tabs : TabState(u)'
  BY ONLY SInv, <1>a, <1>b, <1>4, <1>5, <1>6, TurnOfTab
<1>8. left => /\ jar'.access = 0 /\ jar'.refresh = 0
              /\ \A j \in Kinds : Harmless(flow'[t][j])
  <2> SUFFICES ASSUME left PROVE /\ jar.access = 0 /\ jar.refresh = 0
                                 /\ \A j \in Kinds : Harmless(fs[j])
    BY <1>2, <1>7
  <2>1. jar.access = 0 /\ jar.refresh = 0 /\ \A j \in Kinds : Harmless(flow[t][j])
    BY DEF SInv, LeftState
  <2>2. QED BY <1>3, <2>1 DEF Harmless
<1>9. LeftState'
  BY <1>2, <1>7, <1>8, TurnAfterLogout
<1>10. \A j \in Kinds :
         /\ flow'[t][j].at = "issued" <=> flow[t][j].at = "issued"
         /\ flow'[t][j].at = "issued" => flow'[t][j].ref = flow[t][j].ref
  BY <1>2, <1>3, <1>7, IdleFlow
<1>11. RotationState'
  BY <1>2, <1>7, <1>10, TurnWithoutCookies
<1>12. TypeOK'
  BY <1>1, <1>2, <1>7, TypesKept DEF TypeOK
<1>13. QED BY <1>7, <1>9, <1>11, <1>12 DEF SInv

\* The service has seen the logout: nothing is stored, or what was.
LEMMA LogoutHandledStep ==
  ASSUME SInv, NEW t \in Tabs, LogoutHandled(t)
  PROVE  SInv'
<1> DEFINE f == flow[t]["logout"]
           g == [f EXCEPT !.at = "cleared"]
<1>1. TypeOK /\ "logout" \in Kinds
  BY DEF SInv, Kinds
<1>2. f \in Flow
  BY <1>1 DEF TypeOK
<1>3. /\ f.at = "gone" /\ kept' \in {0, kept} /\ Put(t, "logout", g)
      /\ UNCHANGED <<jar, issued, ghosts, lapsed, saved, tab, forked, left>>
  BY DEF LogoutHandled, Busy
<1>4. g \in Flow /\ g.at = "cleared" /\ g.leg = f.leg
  BY <1>2 DEF Flow
<1>5. kept' \in Tokens
  BY <1>1, <1>3, SessionAssumption DEF TypeOK, Tokens
<1> HIDE DEF g
<1>6. /\ flow' \in [Tabs -> [Kinds -> Flow]] /\ tab' \in [Tabs -> Tab]
      /\ \A u \in Tabs \ {t} : flow'[u] = flow[u]
      /\ \A u \in Tabs : TabState(u)'
      /\ flow'[t]["logout"] = g /\ \A j \in Kinds \ {"logout"} : flow'[t][j] = flow[t][j]
  BY <1>1, <1>3, <1>4, PutStep
<1>7. left => /\ jar'.access = 0 /\ jar'.refresh = 0
              /\ \A j \in Kinds : Harmless(flow'[t][j])
  BY <1>3, <1>4, <1>6 DEF SInv, LeftState, Harmless
<1>8. LeftState'
  BY <1>3, <1>6, <1>7, TurnAfterLogout
<1>9. RotationState'
  BY <1>3, <1>4, <1>6, TurnWithoutCookies
<1>10. TypeOK'
  BY <1>1, <1>3, <1>5, <1>6, TypesKept DEF TypeOK
<1>11. QED BY <1>6, <1>8, <1>9, <1>10 DEF SInv

\* A page that mounts again: its flows are new, and an answer on its way is lost.
LEMMA RemountStep ==
  ASSUME SInv, NEW t \in Tabs, NEW b \in Tab, b.loading, jar' \in Jar, Remount(t, b)
  PROVE  /\ flow' \in [Tabs -> [Kinds -> Flow]] /\ tab' \in [Tabs -> Tab]
         /\ \A u \in Tabs \ {t} : flow'[u] = flow[u]
         /\ \A u \in Tabs : TabState(u)'
         /\ \A k \in Kinds : Harmless(flow'[t][k]) /\ flow'[t][k].at \in {"idle", "asked"}
         /\ ghosts' \in 0 .. 1 /\ forked' \in BOOLEAN
         /\ ~forked' => ~forked /\ \A k \in Kinds : flow[t][k].at # "issued"
<1> DEFINE fs == Opening(jar')
<1>1. TypeOK
  BY DEF SInv
<1>2. /\ fs \in [Kinds -> Flow]
      /\ \A k \in Kinds : fs[k].at \in {"idle", "asked"} /\ fs[k].leg = ""
  BY OpeningFlows
<1>3. tab' = [tab EXCEPT ![t] = b] /\ flow' = [flow EXCEPT ![t] = fs]
  BY DEF Remount
<1> HIDE DEF fs
<1>4. /\ flow' \in [Tabs -> [Kinds -> Flow]] /\ tab' \in [Tabs -> Tab]
      /\ flow'[t] = fs /\ \A u \in Tabs \ {t} : flow'[u] = flow[u]
      /\ \A u \in Tabs : TabState(u)'
  BY <1>2, <1>3, TurnOfTab
<1>5. ghosts' \in 0 .. 1
  BY <1>1 DEF Remount, TypeOK
<1>6. forked' \in BOOLEAN /\ (~forked' => ~forked /\ \A k \in Kinds : flow[t][k].at # "issued")
  BY DEF Remount, Busy
<1>7. QED BY <1>2, <1>4, <1>5, <1>6 DEF Harmless

\* A tab just mounted.
LEMMA MountedTab ==
  ASSUME NEW user \in BOOLEAN, NEW expiry \in Expiry
  PROVE  Mounted(user, expiry) \in Tab /\ Mounted(user, expiry).loading
BY DEF Mounted, Tab

\* The tab reloads, with or without its cookies.
LEMMA LogoutEndsStep ==
  ASSUME SInv, NEW t \in Tabs, LogoutEnds(t)
  PROVE  SInv'
<1> DEFINE b == Mounted(FALSE, "none")
<1>1. TypeOK
  BY DEF SInv
<1>2. PICK heard \in BOOLEAN :
        jar' = AfterLogout(heard) /\ left' = (heard /\ ~Overtaken(t))
  BY DEF LogoutEnds
<1>3. /\ saved' = "none" /\ Remount(t, b) /\ UNCHANGED <<kept, issued, lapsed>>
  BY DEF LogoutEnds
<1>4. /\ jar' \in Jar /\ jar'.refresh \in {0, jar.refresh}
      /\ heard => jar'.access = 0 /\ jar'.refresh = 0
  <2>1. Empty \in Jar /\ Empty.access = 0 /\ Empty.refresh = 0
    BY SessionAssumption DEF Empty, Jar, Tokens
  <2>2. [jar EXCEPT !.csrf = FALSE] \in Jar /\ [jar EXCEPT !.csrf = FALSE].refresh = jar.refresh
    BY <1>1 DEF TypeOK, Jar
  <2>3. CASE heard BY <1>2, <2>1, <2>3 DEF AfterLogout
  <2>4. CASE ~heard BY <1>2, <2>2, <2>4 DEF AfterLogout
  <2>5. QED BY <2>3, <2>4
<1>5. b \in Tab /\ b.loading
  BY MountedTab DEF Expiry
<1> HIDE DEF b
<1>6. /\ flow' \in [Tabs -> [Kinds -> Flow]] /\ tab' \in [Tabs -> Tab]
      /\ \A u \in Tabs \ {t} : flow'[u] = flow[u]
      /\ \A u \in Tabs : TabState(u)'
      /\ \A k \in Kinds : Harmless(flow'[t][k]) /\ flow'[t][k].at \in {"idle", "asked"}
      /\ ghosts' \in 0 .. 1 /\ forked' \in BOOLEAN
      /\ ~forked' => ~forked /\ \A k \in Kinds : flow[t][k].at # "issued"
  BY <1>3, <1>4, <1>5, RemountStep
<1>7. LeftState'
  <2> SUFFICES ASSUME left' PROVE LeftState'
    BY DEF LeftState
  <2>1. heard /\ ~Overtaken(t)
    BY <1>2
  <2>2. ASSUME NEW u \in Tabs, NEW k \in Kinds PROVE Harmless(flow'[u][k])
    <3>1. CASE u = t BY <1>6, <3>1
    <3>2. CASE u # t
      <4>1. flow[u][k].at \notin {"sent", "passed", "issued"}
        BY <2>1, <3>2 DEF Overtaken, Busy
      <4>2. flow'[u][k] = flow[u][k]
        BY <1>6, <3>2
      <4>3. QED BY <4>1, <4>2 DEF Harmless
    <3>3. QED BY <3>1, <3>2
  <2>3. QED BY <1>4, <2>1, <2>2 DEF LeftState, Harmless
<1>8. RotationState'
  BY <1>3, <1>4, <1>6, TurnWithoutCookies
<1>9. left' \in BOOLEAN /\ saved' \in Expiry
  BY <1>2, <1>3 DEF Expiry
<1>10. TypeOK'
  BY <1>1, <1>3, <1>4, <1>6, <1>9, TypesKept DEF TypeOK
<1>11. QED BY <1>6, <1>7, <1>8, <1>10 DEF SInv

\* A reload restores the user, and asks for it again.
LEMMA ReloadStep ==
  ASSUME SInv, NEW t \in Tabs, Reload(t)
  PROVE  SInv'
<1> DEFINE b == Mounted(tab[t].user, saved)
<1>1. TypeOK /\ jar \in Jar /\ tab[t].user \in BOOLEAN /\ saved \in Expiry
  BY DEF SInv, TypeOK, Tab
<1>2. Remount(t, b) /\ UNCHANGED <<jar, kept, issued, lapsed, saved, left>>
  BY DEF Reload
<1>3. b \in Tab /\ b.loading
  BY <1>1, MountedTab
<1> HIDE DEF b
<1>4. /\ flow' \in [Tabs -> [Kinds -> Flow]] /\ tab' \in [Tabs -> Tab]
      /\ \A u \in Tabs \ {t} : flow'[u] = flow[u]
      /\ \A u \in Tabs : TabState(u)'
      /\ \A k \in Kinds : Harmless(flow'[t][k]) /\ flow'[t][k].at \in {"idle", "asked"}
      /\ ghosts' \in 0 .. 1 /\ forked' \in BOOLEAN
      /\ ~forked' => ~forked /\ \A k \in Kinds : flow[t][k].at # "issued"
  BY <1>1, <1>2, <1>3, RemountStep
<1>5. left => jar'.access = 0 /\ jar'.refresh = 0
  BY <1>2 DEF SInv, LeftState
<1>6. LeftState'
  BY <1>2, <1>4, <1>5, TurnAfterLogout
<1>7. RotationState'
  BY <1>2, <1>4, TurnWithoutCookies
<1>8. TypeOK'
  BY <1>1, <1>2, <1>4, TypesKept DEF TypeOK
<1>9. QED BY <1>4, <1>6, <1>7, <1>8 DEF SInv

-----------------------------------------------------------------------------
(* Signing in, and time *)

\* The login form is sent.
LEMMA LoginSubmitStep ==
  ASSUME SInv, NEW t \in Tabs, LoginSubmit(t)
  PROVE  SInv'
<1> DEFINE g == [Idle EXCEPT !.at = "login"]
<1>1. TypeOK /\ "sign" \in Kinds
  BY DEF SInv, Kinds
<1>2. /\ flow[t]["sign"] = Idle /\ Put(t, "sign", g)
      /\ UNCHANGED <<jar, kept, issued, ghosts, lapsed, saved, tab, forked, left>>
  BY DEF LoginSubmit, server
<1>3. g \in Flow /\ g.at = "login" /\ g.leg = ""
  BY IdleFlow DEF Flow
<1> HIDE DEF g
<1>4. /\ flow' \in [Tabs -> [Kinds -> Flow]] /\ tab' \in [Tabs -> Tab]
      /\ \A u \in Tabs \ {t} : flow'[u] = flow[u]
      /\ \A u \in Tabs : TabState(u)'
      /\ flow'[t]["sign"] = g /\ \A j \in Kinds \ {"sign"} : flow'[t][j] = flow[t][j]
  BY <1>1, <1>2, <1>3, PutStep
<1>5. left => /\ jar'.access = 0 /\ jar'.refresh = 0
              /\ \A j \in Kinds : Harmless(flow'[t][j])
  BY <1>2, <1>3, <1>4 DEF SInv, LeftState, Harmless
<1>6. LeftState'
  BY <1>2, <1>4, <1>5, TurnAfterLogout
<1>7. RotationState'
  BY <1>2, <1>3, <1>4, IdleFlow, TurnWithoutCookies
<1>8. TypeOK'
  BY <1>1, <1>2, <1>4, TypesKept DEF TypeOK
<1>9. QED BY <1>4, <1>6, <1>7, <1>8 DEF SInv

\* The service refuses, or issues a pair.
LEMMA LoginAnswerStep ==
  ASSUME SInv, NEW t \in Tabs, LoginAnswer(t)
  PROVE  SInv'
<1> DEFINE f == flow[t]["sign"]
<1>1. TypeOK /\ "sign" \in Kinds
  BY DEF SInv, Kinds
<1>2. f \in Flow
  BY <1>1 DEF TypeOK
<1>3. f.at = "login" /\ UNCHANGED <<jar, ghosts, lapsed, saved, tab>>
  BY DEF LoginAnswer, Busy
<1>4. CASE Put(t, "sign", Idle) /\ UNCHANGED <<issued, kept, forked, left>>
  <2>1. /\ flow' \in [Tabs -> [Kinds -> Flow]] /\ tab' \in [Tabs -> Tab]
        /\ \A u \in Tabs \ {t} : flow'[u] = flow[u]
        /\ \A u \in Tabs : TabState(u)'
        /\ flow'[t]["sign"] = Idle /\ \A j \in Kinds \ {"sign"} : flow'[t][j] = flow[t][j]
    BY <1>1, <1>3, <1>4, IdleFlow, PutStep
  <2>2. left => /\ jar'.access = 0 /\ jar'.refresh = 0
                /\ \A j \in Kinds : Harmless(flow'[t][j])
    BY <1>3, <2>1, IdleFlow DEF SInv, LeftState, Harmless
  <2>3. LeftState'
    BY <1>4, <2>1, <2>2, TurnAfterLogout
  <2>4. RotationState'
    BY <1>3, <1>4, <2>1, IdleFlow, TurnWithoutCookies
  <2>5. TypeOK'
    BY <1>1, <1>3, <1>4, <2>1, TypesKept DEF TypeOK
  <2>6. QED BY <2>1, <2>3, <2>4, <2>5 DEF SInv
<1> DEFINE g == [f EXCEPT !.at = "issued", !.use = issued', !.ref = issued']
<1>5. CASE /\ Issue /\ Put(t, "sign", g) /\ left' = FALSE
           /\ forked' = (forked \/ Overlapped(t, "sign") \/ kept' # issued')
  <2>1. issued' \in Tokens /\ kept' \in Tokens
    BY <1>1, <1>5, SessionAssumption DEF Issue, TypeOK, Tokens
  <2>2. g \in Flow /\ g.at = "issued" /\ g.leg = f.leg /\ g.ref = issued'
    BY <1>2, <2>1 DEF Flow
  <2> HIDE DEF g
  <2>3. /\ flow' \in [Tabs -> [Kinds -> Flow]] /\ tab' \in [Tabs -> Tab]
        /\ \A u \in Tabs \ {t} : flow'[u] = flow[u]
        /\ \A u \in Tabs : TabState(u)'
        /\ flow'[t]["sign"] = g /\ \A j \in Kinds \ {"sign"} : flow'[t][j] = flow[t][j]
    BY <1>1, <1>3, <1>5, <2>2, PutStep
  <2>4. LeftState'
    BY <1>5 DEF LeftState
  <2>5. ASSUME ~forked', NEW u \in Tabs, NEW j \in Kinds, <<u, j>> # <<t, "sign">>
        PROVE  flow'[u][j].at # "issued"
    <3>1. flow[u][j].at # "issued"
      BY <1>5, <2>5 DEF Overlapped, Busy
    <3>2. QED BY <2>3, <2>5, <3>1
  <2>6. ~forked' => kept' = flow'[t]["sign"].ref
    BY <1>5, <2>2, <2>3
  <2>7. RotationState'
    BY <1>1, <2>2, <2>3, <2>5, <2>6, TurnThatIssues
  <2>8. forked' \in BOOLEAN
    BY <1>5
  <2>9. TypeOK'
    BY <1>1, <1>3, <1>5, <2>1, <2>3, <2>8, TypesKept DEF TypeOK
  <2>10. QED BY <2>3, <2>4, <2>7, <2>9 DEF SInv
<1>6. QED BY <1>4, <1>5 DEF LoginAnswer

\* Back from the provider: the new pair is in the browser and in the service.
LEMMA OAuthReturnStep ==
  ASSUME SInv, NEW t \in Tabs, OAuthReturn(t)
  PROVE  SInv'
<1> DEFINE b  == Mounted(tab[t].user, saved)
           g  == Refreshing(0, "last", jar')
           fs == [Opening(jar') EXCEPT !["sign"] = g]
<1>1. TypeOK /\ tab[t].user \in BOOLEAN /\ saved \in Expiry /\ "sign" \in Kinds
  BY DEF SInv, TypeOK, Tab, Kinds
<1>2. /\ \A k \in Kinds : flow[t][k] = Idle
      /\ Issue /\ jar' = Cookies(issued', issued') /\ left' = FALSE
      /\ tab' = [tab EXCEPT ![t] = b] /\ flow' = [flow EXCEPT ![t] = fs]
      /\ forked' = (forked \/ Overlapped(t, "sign") \/ kept' # issued')
      /\ UNCHANGED <<ghosts, lapsed, saved>>
  BY DEF OAuthReturn
<1>3. issued' \in Tokens /\ kept' \in Tokens /\ 0 \in Tokens /\ "last" \in Legs
  BY <1>1, <1>2, SessionAssumption DEF Issue, TypeOK, Tokens, Legs
<1>4. jar' \in Jar /\ jar'.refresh = issued'
  BY <1>2, <1>3 DEF Cookies, Jar
<1>5. g \in Flow /\ g.at = "sent" /\ g.leg = "last"
  BY <1>3, <1>4, RefreshingFlow
<1>6. /\ Opening(jar') \in [Kinds -> Flow]
      /\ \A k \in Kinds : Opening(jar')[k].at \in {"idle", "asked"} /\ Opening(jar')[k].leg = ""
  BY <1>4, OpeningFlows
<1> HIDE DEF g
<1>7. /\ fs \in [Kinds -> Flow]
      /\ \A k \in Kinds : fs[k].at \in {"idle", "asked", "sent"} /\ fs[k].leg # "known"
  BY <1>1, <1>5, <1>6
<1>8. b \in Tab /\ b.loading
  BY <1>1, MountedTab
<1> HIDE DEF b, fs
<1>9. /\ flow' \in [Tabs -> [Kinds -> Flow]] /\ tab' \in [Tabs -> Tab]
      /\ flow'[t] = fs /\ \A u \in Tabs \ {t} : flow'[u] = flow[u]
      /\ \A u \in Tabs : TabState(u)'
  BY <1>2, <1>7, <1>8, TurnOfTab
<1>10. LeftState'
  BY <1>2 DEF LeftState
<1>11. RotationState'
  <2> SUFFICES ASSUME ~forked' PROVE RotationState'
    BY DEF RotationState
  <2>1. ASSUME NEW u \in Tabs, NEW j \in Kinds PROVE flow'[u][j].at # "issued"
    <3>1. CASE u = t BY <1>7, <1>9, <3>1
    <3>2. CASE u # t
      <4>1. flow[u][j].at # "issued"
        BY <1>2, <3>2 DEF Overlapped, Busy
      <4>2. QED BY <1>9, <3>2, <4>1
    <3>3. QED BY <3>1, <3>2
  <2>2. QED BY <1>2, <1>4, <2>1 DEF RotationState, Bearer
<1>12. forked' \in BOOLEAN
  BY <1>2
<1>13. TypeOK'
  BY <1>1, <1>2, <1>3, <1>4, <1>9, <1>12, TypesKept DEF TypeOK
<1>14. QED BY <1>9, <1>10, <1>11, <1>13 DEF SInv

\* Two hours pass: a tab that had an expiry has one still, ahead or past.
LEMMA LapseStep ==
  ASSUME SInv, Lapse
  PROVE  SInv'
<1>1. TypeOK /\ \A t \in Tabs : tab[t] \in Tab
  BY DEF SInv, TypeOK
<1>2. PICK extended \in SUBSET {u \in Tabs : tab[u].expiry # "none"} :
        /\ tab' = [t \in Tabs |->
                     [tab[t] EXCEPT !.expiry =
                        CASE t \in extended -> "ahead"
                          [] t \notin extended /\ tab[t].expiry = "ahead" -> "past"
                          [] OTHER -> @]]
        /\ saved' = CASE extended # {} -> "ahead"
                      [] extended = {} /\ saved = "ahead" -> "past"
                      [] OTHER -> saved
  BY DEF Lapse
<1>3. /\ lapsed' = issued /\ jar' = [jar EXCEPT !.access = 0, !.csrf = FALSE]
      /\ UNCHANGED <<kept, issued, ghosts, flow, forked, left>>
  BY DEF Lapse, server
<1>4. ASSUME NEW t \in Tabs
      PROVE  /\ tab'[t] \in Tab
             /\ tab'[t].user = tab[t].user /\ tab'[t].loading = tab[t].loading
             /\ tab[t].expiry # "none" => tab'[t].expiry # "none"
  <2> DEFINE x == CASE t \in extended -> "ahead"
                    [] t \notin extended /\ tab[t].expiry = "ahead" -> "past"
                    [] OTHER -> tab[t].expiry
  <2>1. x \in Expiry /\ (tab[t].expiry # "none" => x # "none")
    BY <1>1 DEF Tab, Expiry
  <2>2. tab'[t] = [tab[t] EXCEPT !.expiry = x]
    BY <1>2
  <2> HIDE DEF x
  <2>3. QED BY <1>1, <2>1, <2>2 DEF Tab
<1>5. tab' \in [Tabs -> Tab]
  <2>1. /\ \A t \in Tabs : tab'[t] \in Tab
        /\ tab' = [t \in Tabs |-> tab'[t]]
    BY <1>2, <1>4
  <2>2. QED BY <2>1
<1>6. saved' \in Expiry
  BY <1>1, <1>2 DEF TypeOK, Expiry
<1>7. /\ jar' \in Jar /\ jar'.access = 0 /\ jar'.refresh = jar.refresh
  <2>1. jar \in Jar /\ 0 \in Tokens
    BY <1>1, SessionAssumption DEF TypeOK, Tokens
  <2>2. QED BY <1>3, <2>1 DEF Jar
<1>8. TypeOK'
  BY <1>1, <1>3, <1>5, <1>6, <1>7, TypesKept DEF TypeOK
<1>9. \A t \in Tabs : TabState(t)'
  BY <1>3, <1>4 DEF SInv, TabState
<1>10. LeftState' /\ RotationState'
  BY <1>3, <1>7 DEF SInv, LeftState, RotationState, Bearer
<1>11. QED BY <1>8, <1>9, <1>10 DEF SInv

-----------------------------------------------------------------------------
(* The theorems *)

\* At the start nobody is signed in and every tab asks for its user.
LEMMA InitSInv == Init => SInv
<1> SUFFICES ASSUME Init PROVE SInv
  OBVIOUS
<1>1. Empty \in Jar /\ Empty.refresh = 0 /\ 0 \in Tokens
  BY SessionAssumption DEF Empty, Jar, Tokens
<1>2. /\ Opening(Empty) \in [Kinds -> Flow]
      /\ \A k \in Kinds : Opening(Empty)[k].at \in {"idle", "asked"} /\ Opening(Empty)[k].leg = ""
  BY <1>1, OpeningFlows
<1>3. Mounted(FALSE, "none") \in Tab /\ Mounted(FALSE, "none").loading
  BY MountedTab DEF Expiry
<1>4. TypeOK
  <2>1. flow \in [Tabs -> [Kinds -> Flow]]
    BY <1>2 DEF Init
  <2>2. tab \in [Tabs -> Tab]
    BY <1>3 DEF Init
  <2>3. jar \in Jar /\ forked \in BOOLEAN /\ left \in BOOLEAN
    BY <1>1 DEF Init
  <2>4. kept \in Tokens /\ issued \in Tokens /\ lapsed \in Tokens /\ ghosts \in 0 .. 1
    BY <1>1 DEF Init
  <2>5. QED BY <2>1, <2>2, <2>3, <2>4 DEF Init, TypeOK, Expiry
<1>5. \A t \in Tabs : TabState(t)
  BY <1>2, <1>3 DEF Init, TabState
<1>6. LeftState /\ RotationState
  BY <1>1, <1>2 DEF Init, LeftState, RotationState, Bearer
<1>7. QED BY <1>4, <1>5, <1>6 DEF SInv

\* Every step keeps what is carried through the flows.
LEMMA NextSInv == SInv /\ [Next]_vars => SInv'
<1> SUFFICES ASSUME SInv, [Next]_vars PROVE SInv'
  OBVIOUS
<1>1. CASE UNCHANGED vars
  BY <1>1 DEF vars, SInv, TypeOK, TabState, LeftState, RotationState, Bearer
<1>2. ASSUME NEW t \in Tabs, NEW k \in Kinds, Step(t, k) PROVE SInv'
  BY <1>2, RefreshCheckStep, RefreshIssueStep, CookiesArriveStep, RefreshLostStep,
     AnsweredStep DEF Step
<1>3. ASSUME NEW t \in Tabs, Progress(t) PROVE SInv'
  BY <1>3, LogoutHandledStep, LogoutEndsStep, LoginAnswerStep DEF Progress
<1>4. ASSUME NEW t \in Tabs,
             \/ WarmTick(t) \/ LogoutStart(t) \/ ExpiryCheck(t) \/ Reload(t)
             \/ LoginSubmit(t) \/ OAuthReturn(t)
      PROVE  SInv'
  BY <1>4, WarmTickStep, LogoutStartStep, ReloadStep, LoginSubmitStep, OAuthReturnStep
     DEF ExpiryCheck
<1>5. CASE GhostIssues \/ Lapse
  BY <1>5, GhostIssuesStep, LapseStep
<1>6. QED BY <1>1, <1>2, <1>3, <1>4, <1>5 DEF Next

\* The inductive invariant of the session: what each flow carries agrees with the
\* browser's cookies and the token the service has stored.
THEOREM SessionInvariant == Spec => []SInv
BY InitSInv, NextSInv, PTL DEF Spec

\* For any number of tabs, whichever refreshes, logouts and sign-ins overlap, and
\* with any calls failing: the next refresh is accepted unless answers forked
\* (refresh_token), a logout that nothing overtook lasts (logout, middleware.ts),
\* and a user that is shown has an expiry (AuthContext).
THEOREM SessionsAgree == Spec => []SessionInv
<1>1. ASSUME SInv PROVE SessionInv
  <2>1. NextRefreshIsAccepted
    BY <1>1, IdleFlow DEF SInv, RotationState, NextRefreshIsAccepted, Quiet, Accepted, Bearer
  <2>2. SignedOutStaysOut /\ ShownUserExpires
    BY <1>1 DEF SInv, LeftState, TabState, SignedOutStaysOut, ShownUserExpires
  <2>3. QED BY <1>1, <2>1, <2>2 DEF SInv, SessionInv
<1>2. QED BY <1>1, SessionInvariant, PTL

=============================================================================
