---------------------------- MODULE AccessToken ----------------------------
(***************************************************************************)
(* The access token of the broker's API in one process (KISClient): kept   *)
(* in memory, in Redis and in a file, fetched under a lock that is held    *)
(* across awaits.  A price request that is told its token is invalid       *)
(* drops all three copies, without the lock, and tries once more.          *)
(***************************************************************************)
EXTENDS Integers, FiniteSets

CONSTANTS
  Callers,      \* price requests
  MaxTokens,    \* bound on tokens granted
  TokenFaults   \* those of {"redis", "file", "broker"} that happen

Nobody == "nobody"   \* has the lock while it is free

ASSUME TokenAssumption ==
  /\ Nobody \notin Callers /\ MaxTokens \in Nat
  /\ TokenFaults \subseteq {"redis", "file", "broker"}

VARIABLES
  copies,   \* the token in memory, in Redis, in the file; 0 is none
  granted,  \* tokens issued so far: 1 .. granted
  ended,    \* those the broker no longer takes
  expired,  \* those past their expired_at, for everyone who looks
  holder,   \* who has the lock
  caller,   \* per request: its step, the attempt, the token it has, the one refused
  muddled   \* history: a copy was dropped while another request was at the copies,
            \* or could not be dropped

tokenVars == <<copies, granted, ended, expired, holder, caller, muddled>>

Granted == 1 .. granted

Usable(t) == t # 0 /\ t \notin expired

Locked  == {"redis", "look", "issue", "keep", "write"}  \* steps under the lock
Drops   == {"drop", "remove"}                           \* those of an invalidation

TokenTypeOK ==
  /\ granted \in 0 .. MaxTokens /\ ended \subseteq Granted /\ expired \subseteq ended
  /\ \A place \in {"memory", "redis", "file"} : copies[place] \in 0 .. granted
  /\ holder \in Callers \cup {Nobody} /\ muddled \in BOOLEAN
  /\ \A c \in Callers :
       /\ caller[c].at \in {"rest", "wait", "call"} \cup Locked \cup Drops
       /\ caller[c].at \in Locked <=> holder = c
       /\ caller[c].attempt \in {1, 2}
       /\ caller[c].token \in 0 .. granted /\ caller[c].refused \in 0 .. granted

Rest == [at |-> "rest", attempt |-> 1, token |-> 0, refused |-> 0]

TokenInit ==
  /\ copies = [memory |-> 0, redis |-> 0, file |-> 0]
  /\ granted = 0 /\ ended = {} /\ expired = {} /\ holder = Nobody /\ muddled = FALSE
  /\ caller = [c \in Callers |-> Rest]

-----------------------------------------------------------------------------
(* _get_access_token *)

To(c, step)   == caller' = [caller EXCEPT ![c].at = step]
Given(c, t)   == caller' = [caller EXCEPT ![c].at = "call", ![c].token = t]
May(fault, v) == IF fault \in TokenFaults THEN {v} ELSE {}

\* The token in memory, or else the lock.
Asks(me) ==
  IF Usable(copies.memory) THEN [me EXCEPT !.at = "call", !.token = copies.memory]
                           ELSE [me EXCEPT !.at = "wait"]

Starts(c) ==
  /\ caller[c].at = "rest"
  /\ caller' = [caller EXCEPT ![c] = Asks(@)]
  /\ UNCHANGED <<copies, granted, ended, expired, holder, muddled>>

\* With the lock, the memory is looked at again.
LooksAgain(c) ==
  IF Usable(copies.memory) THEN Given(c, copies.memory) /\ UNCHANGED holder
                           ELSE To(c, "redis") /\ holder' = c

Locks(c) ==
  /\ caller[c].at = "wait" /\ holder = Nobody
  /\ LooksAgain(c)
  /\ UNCHANGED <<copies, granted, ended, expired, muddled>>

ReadsRedis(c) ==
  /\ caller[c].at = "redis"
  /\ \E t \in {copies.redis} \cup May("redis", 0) :
       caller' = [caller EXCEPT ![c].at = "look", ![c].token = t]
  /\ UNCHANGED <<copies, granted, ended, expired, holder, muddled>>

\* What Redis had, or else the file, goes to memory; or a token is asked for.
Looks(c) ==
  /\ caller[c].at = "look"
  /\ \E file \in {copies.file} \cup May("file", 0) :
       LET t == IF Usable(caller[c].token) THEN caller[c].token ELSE file IN
       IF Usable(t)
         THEN /\ copies' = [copies EXCEPT !.memory = t]
              /\ Given(c, t) /\ holder' = Nobody
              /\ muddled' = (muddled \/ \E d \in Callers : caller[d].at \in Drops)
         ELSE To(c, "issue") /\ UNCHANGED <<copies, holder, muddled>>
  /\ UNCHANGED <<granted, ended, expired>>

\* HTTPException(500), out of `async with'.
IssueFails(c) == caller' = [caller EXCEPT ![c] = Rest] /\ holder' = Nobody

\* The broker issues a token, which goes to memory; or the request fails.
Issues(c) ==
  /\ caller[c].at = "issue"
  /\ \/ /\ granted < MaxTokens /\ granted' = granted + 1
        /\ copies' = [copies EXCEPT !.memory = granted']
        /\ caller' = [caller EXCEPT ![c].at = "keep", ![c].token = granted']
        /\ UNCHANGED holder
     \/ /\ "broker" \in TokenFaults
        /\ IssueFails(c)
        /\ UNCHANGED <<copies, granted>>
  /\ UNCHANGED <<ended, expired, muddled>>

KeepsInRedis(c) ==
  /\ caller[c].at = "keep"
  /\ \E t \in {caller[c].token} \cup May("redis", copies.redis) :
       copies' = [copies EXCEPT !.redis = t]
  /\ To(c, "write")
  /\ UNCHANGED <<granted, ended, expired, holder, muddled>>

\* What is returned is what memory has by then.
KeepsInFile(c) ==
  /\ caller[c].at = "write"
  /\ \E t \in {caller[c].token} \cup May("file", copies.file) :
       copies' = [copies EXCEPT !.file = t]
  /\ Given(c, copies.memory) /\ holder' = Nobody
  /\ UNCHANGED <<granted, ended, expired, muddled>>

-----------------------------------------------------------------------------
(* get_current_price and _invalidate_token_cache *)

\* The price comes, or the second try fails, or the token is to be dropped, from
\* memory at once.
Called(c) ==
  /\ caller[c].at = "call"
  /\ LET me == caller[c] IN
     IF (me.token # 0 /\ me.token \notin ended) \/ me.attempt = 2
       THEN caller' = [caller EXCEPT ![c] = Rest] /\ UNCHANGED <<copies, muddled>>
       ELSE /\ caller' = [caller EXCEPT ![c].at = "drop", ![c].refused = me.token]
            /\ copies' = [copies EXCEPT !.memory = 0]
            /\ muddled' = (muddled \/ holder # Nobody \/ copies.memory # me.token)
  /\ UNCHANGED <<granted, ended, expired, holder>>

DropsInRedis(c) ==
  /\ caller[c].at = "drop"
  /\ \E t \in {0} \cup May("redis", copies.redis) :
       /\ copies' = [copies EXCEPT !.redis = t]
       /\ muddled' = (muddled \/ holder # Nobody \/ t # 0)
  /\ To(c, "remove")
  /\ UNCHANGED <<granted, ended, expired, holder>>

\* Variant with a bug: the file is forgotten.
WithoutFileNot(cs) == cs

WithoutFile(cs) == [cs EXCEPT !.file = 0]

\* The file goes, and the second attempt asks for a token.
DropsFile(c) ==
  /\ caller[c].at = "remove"
  /\ \/ copies' = WithoutFile(copies) /\ muddled' = (muddled \/ holder # Nobody)
     \/ "file" \in TokenFaults /\ UNCHANGED copies /\ muddled' = TRUE
  /\ caller' = [caller EXCEPT ![c] = Asks([@ EXCEPT !.attempt = 2])]
  /\ UNCHANGED <<granted, ended, expired, holder>>

-----------------------------------------------------------------------------
(* The broker and the clock *)

TokenEnds ==
  /\ \E t \in Granted \ ended : ended' = ended \cup {t}
  /\ UNCHANGED <<copies, granted, expired, holder, caller, muddled>>

\* A token is taken as expired a minute before the broker ends it.
TokenLapses ==
  /\ \E t \in Granted \ expired : expired' = expired \cup {t} /\ ended' = ended \cup {t}
  /\ UNCHANGED <<copies, granted, holder, caller, muddled>>

TokenNext ==
  \/ \E c \in Callers :
       \/ Starts(c) \/ Locks(c) \/ ReadsRedis(c) \/ Looks(c) \/ Issues(c) \/ KeepsInRedis(c)
       \/ KeepsInFile(c) \/ Called(c) \/ DropsInRedis(c) \/ DropsFile(c)
  \/ TokenEnds \/ TokenLapses

TokenSpec == TokenInit /\ [][TokenNext]_tokenVars

-----------------------------------------------------------------------------
(* Properties *)

\* However many requests find no token, one is issued for all of them: a new one
\* only when those before have ended, even with Redis and the file out of order.
OneTokenAtATime == ~muddled => \A t \in Granted : t < granted => t \in ended

\* The second try has a token other than the one that was refused: no copy of
\* that is left in any of the three places.
SecondTryHasAnother ==
  \A c \in Callers :
    ~muddled /\ caller[c].at = "call" /\ caller[c].attempt = 2 => caller[c].token # caller[c].refused

\* Three copies, one lock and drops without it: one token is issued for all, and
\* a refused one is not tried again.
TokenInv == TokenTypeOK /\ OneTokenAtATime /\ SecondTryHasAnother

=============================================================================
