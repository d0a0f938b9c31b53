----------------------------- MODULE RateLimit -----------------------------
(***************************************************************************)
(* The limit on requests of one client to one endpoint: a counter in Redis *)
(* that each attempt increments and whose expiry each attempt renews, the  *)
(* refused ones, too.  Each endpoint that has a limit is among those that  *)
(* are closed while Redis does not answer.                                 *)
(***************************************************************************)
EXTENDS Integers, Sequences, FiniteSets

CONSTANTS
  MaxRequests,  \* max_requests
  Window,       \* window_seconds
  MaxAttempts,  \* bound on attempts
  MaxTime,      \* bound on time
  LimitFaults   \* those of {"redis", "loss"} that happen

ASSUME LimitAssumption ==
  /\ MaxRequests \in Nat \ {0} /\ Window \in Nat \ {0} /\ MaxAttempts \in Nat /\ MaxTime \in Nat
  /\ LimitFaults \subseteq {"redis", "loss"}

VARIABLES
  time,
  counter,   \* Redis: the count, and when the key expires
  attempts,  \* history: when, and what was answered
  lost       \* history: Redis has lost the counter

limitVars == <<time, counter, attempts, lost>>

NoKey == [count |-> 0, ends |-> 0]

LimitTypeOK ==
  /\ time \in 0 .. MaxTime /\ lost \in BOOLEAN
  /\ counter.count \in 0 .. MaxAttempts /\ (counter = NoKey <=> counter.count = 0)
  /\ counter # NoKey => time < counter.ends /\ counter.ends <= time + Window
  /\ Len(attempts) <= MaxAttempts
  /\ \A i \in DOMAIN attempts :
       attempts[i] \in [at : 0 .. MaxTime, answer : {"served", "429", "503"}]

LimitInit == time = 0 /\ counter = NoKey /\ attempts = <<>> /\ lost = FALSE

-----------------------------------------------------------------------------

\* Variant with a bug: only the first attempt of a window sets the expiry.
IncrementedOnce ==
  [count |-> counter.count + 1, ends |-> IF counter = NoKey THEN time + Window ELSE counter.ends]

\* rate_limit_increment: INCR and EXPIRE in one pipeline.
Incremented == [count |-> counter.count + 1, ends |-> time + Window]

Replies(a) == attempts' = Append(attempts, [at |-> time, answer |-> a])

Over(count) == count > MaxRequests

\* check_rate_limit.  Without an answer of Redis it is not known whether the
\* attempt was counted; the endpoint is closed.
Attempts ==
  /\ Len(attempts) < MaxAttempts
  /\ \/ /\ counter' = Incremented
        /\ Replies(IF Over(counter'.count) THEN "429" ELSE "served")
     \/ /\ "redis" \in LimitFaults
        /\ counter' \in {counter, Incremented}
        /\ Replies("503")
  /\ UNCHANGED <<time, lost>>

TimePasses ==
  /\ time < MaxTime /\ time' = time + 1
  /\ counter' = IF counter # NoKey /\ counter.ends = time' THEN NoKey ELSE counter
  /\ UNCHANGED <<attempts, lost>>

RedisLosesCounter ==
  /\ "loss" \in LimitFaults /\ counter # NoKey
  /\ counter' = NoKey /\ lost' = TRUE
  /\ UNCHANGED <<time, attempts>>

LimitNext == Attempts \/ TimePasses \/ RedisLosesCounter

LimitSpec == LimitInit /\ [][LimitNext]_limitVars

-----------------------------------------------------------------------------
(* Properties *)

Served(from) ==
  {i \in DOMAIN attempts :
     attempts[i].answer = "served" /\ attempts[i].at >= from /\ attempts[i].at < from + Window}

\* However the attempts are spread, no stretch of time as long as the window has
\* more requests served than allowed: not at the seam of two windows either.
NoWindowHasMore ==
  ~lost => \A from \in 0 .. MaxTime : Cardinality(Served(from)) <= MaxRequests

\* A client that was refused and stays away for as long as Retry-After says is
\* not refused again: whoever gets a 429 has tried less than a window before.
RetryAfterIsEnough ==
  \A i \in DOMAIN attempts : attempts[i].answer = "429" =>
    i > MaxRequests /\ attempts[i].at < attempts[i - 1].at + Window

\* The limit holds for every stretch of time, and who keeps to its answer is served.
LimitInv == LimitTypeOK /\ NoWindowHasMore /\ RetryAfterIsEnough

=============================================================================
