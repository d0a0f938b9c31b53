---------------------------- MODULE PriceStream ----------------------------
(***************************************************************************)
(* The price streams of the frontend: the socket for the held symbols      *)
(* (context/AssetContext.tsx), the one for all symbols of the market       *)
(* (context/MarketPriceContext.tsx) and the hook lib/hooks/useMarketPrices,*)
(* each with its fallback: a REST poll every 30 s while no socket is       *)
(* connected.  `client' is the component a behaviour follows.               *)
(*                                                                         *)
(* close() only asks: the close event comes later, when an effect that has *)
(* run since may have installed another socket in the same ref.  A socket  *)
(* is `mine' while the effect run that opened it is the current one.       *)
(***************************************************************************)
EXTENDS Integers, FiniteSets

CONSTANTS
  Sockets,     \* sockets not yet closed at one time
  MaxChanges   \* bound on the changes of the held symbols and of the pages

ASSUME StreamAssumption == MaxChanges \in Nat /\ 0 \notin Sockets

VARIABLES
  client,     \* "holdings", "market" or "hook"
  on,         \* there are held symbols; for the other two: mounted
  sock,       \* the sockets
  ref,        \* wsRef: a socket or 0
  connected,  \* wsConnectedRef
  status,     \* the badge
  timer,      \* reconnectTimerRef is armed
  rest,       \* REST calls in flight: of this effect run, of an earlier one
  priced,     \* what is shown has got a price from the market
  changes     \* bound

streamVars == <<client, on, sock, ref, connected, status, timer, rest, priced, changes>>

Clients  == {"holdings", "market", "hook"}
Socket   == [at : {"none", "connecting", "open", "closing"}, mine : BOOLEAN]
NoSocket == [at |-> "none", mine |-> FALSE]

StreamTypeOK ==
  /\ client \in Clients /\ on \in BOOLEAN
  /\ sock \in [Sockets -> Socket]
  /\ ref \in Sockets \cup {0}
  /\ connected \in BOOLEAN
  /\ status \in {"connecting", "connected", "reconnecting", "fallback"}
  /\ timer \in BOOLEAN
  /\ rest \in SUBSET {"now", "old"}
  /\ priced \in BOOLEAN
  /\ changes \in 0 .. MaxChanges
  /\ ref # 0 => sock[ref] # NoSocket

StreamInit ==
  /\ client \in Clients /\ on = FALSE
  /\ sock = [i \in Sockets |-> NoSocket] /\ ref = 0
  /\ connected = FALSE /\ status = "connecting"
  /\ timer = FALSE /\ rest = {} /\ priced = FALSE
  /\ changes = 0

-----------------------------------------------------------------------------
(* An effect run *)

\* connectWs with the ref empty.
Connects(i, socks) ==
  /\ socks[i] = NoSocket
  /\ sock' = [socks EXCEPT ![i] = [at |-> "connecting", mine |-> TRUE]]
  /\ ref' = i
  /\ status' = IF status = "connected" THEN "reconnecting" ELSE "connecting"

\* The cleanup: no socket is of the current run any more, that of the ref is
\* told to close.
Closed ==
  [i \in Sockets |->
     [at |-> IF i = ref THEN "closing" ELSE sock[i].at, mine |-> FALSE]]

Aged == IF rest = {} THEN {} ELSE {"old"}

\* The held symbols change (holdingSymbolsKey): cleanup, then a new run of the
\* effect, which connects and asks once by REST.
SymbolsChange ==
  /\ client = "holdings"
  /\ changes < MaxChanges /\ changes' = changes + 1
  /\ timer' = FALSE /\ priced' = FALSE
  /\ \/ /\ on' = TRUE
        /\ rest' = Aged \cup {"now"}
        /\ \E i \in Sockets : Connects(i, Closed)
     \/ /\ on' = FALSE
        /\ on
        /\ rest' = Aged
        /\ sock' = Closed /\ ref' = 0
        /\ status' = "fallback"
  /\ UNCHANGED <<client, connected>>

\* fetchHoldings puts average prices in place of the market's: with the same
\* symbols the effect does not run again.
HoldingsRead ==
  /\ client = "holdings" /\ on /\ priced
  /\ priced' = FALSE
  /\ UNCHANGED <<client, on, sock, ref, connected, status, timer, rest, changes>>

\* MarketPriceProvider mounts: prices less than two minutes old are shown at
\* once.  It stays mounted as long as the page.
MarketMount ==
  /\ client = "market" /\ ~on
  /\ on' = TRUE
  /\ priced' \in BOOLEAN
  /\ rest' = {"now"}
  /\ \E i \in Sockets : Connects(i, sock)
  /\ UNCHANGED <<client, connected, timer, changes>>

\* A page with the hook is opened.
HookMount ==
  /\ client = "hook" /\ ~on
  /\ \A i \in Sockets : sock[i] = NoSocket
  /\ rest = {}
  /\ on' = TRUE /\ rest' = {"now"}
  /\ \E i \in Sockets : Connects(i, sock)
  /\ UNCHANGED <<client, connected, timer, priced, changes>>

\* It is left.
HookUnmount ==
  /\ client = "hook" /\ on
  /\ changes < MaxChanges /\ changes' = changes + 1
  /\ on' = FALSE /\ timer' = FALSE /\ priced' = FALSE
  /\ sock' = Closed /\ ref' = 0
  /\ rest' = Aged
  /\ UNCHANGED <<client, connected, status>>

-----------------------------------------------------------------------------
(* Socket events *)

Opens(i) ==
  /\ sock[i].at = "connecting"
  /\ sock' = [sock EXCEPT ![i].at = "open"]
  /\ connected' = TRUE /\ status' = "connected"
  /\ UNCHANGED <<client, on, ref, timer, rest, priced, changes>>

\* Frames of an earlier effect run are ignored; after an unmount, too.
Tick(i) ==
  /\ sock[i].at = "open" /\ sock[i].mine
  /\ priced' = TRUE
  /\ UNCHANGED <<client, on, sock, ref, connected, status, timer, rest, changes>>

\* onerror, which a close follows.
Fails(i) ==
  /\ sock[i].at \in {"connecting", "open"}
  /\ sock' = [sock EXCEPT ![i].at = "closing"]
  /\ connected' = FALSE /\ status' = "fallback"
  /\ UNCHANGED <<client, on, ref, timer, rest, priced, changes>>

\* Variant with a bug: whoever closes, another try is scheduled.
RetriesAlways(i) == TRUE

\* `active' of the effect run, mountedRef of the other two.
Retries(i) == IF client = "holdings" THEN sock[i].mine ELSE on

AfterClose == FALSE

RefEmptied == 0

\* onclose, of whichever socket: it empties the ref.
Closes(i) ==
  /\ sock[i].at \in {"open", "closing"}
  /\ sock' = [sock EXCEPT ![i] = NoSocket]
  /\ ref' = RefEmptied
  /\ connected' = AfterClose /\ status' = "reconnecting"
  /\ timer' = (timer \/ Retries(i))
  /\ UNCHANGED <<client, on, rest, priced, changes>>

\* Two seconds later: connectWs, which does nothing while the ref is taken.
TimerFires ==
  /\ timer
  /\ timer' = FALSE
  /\ \/ /\ ref # 0
        /\ UNCHANGED <<sock, ref, status>>
     \/ /\ ref = 0
        /\ \E i \in Sockets : Connects(i, sock)
  /\ UNCHANGED <<client, on, connected, rest, priced, changes>>

-----------------------------------------------------------------------------
(* REST *)

\* Every 30 seconds, while no socket is connected.
Poll ==
  /\ on /\ ~connected
  /\ rest' = rest \cup {"now"}
  /\ rest' # rest
  /\ UNCHANGED <<client, on, sock, ref, connected, status, timer, priced, changes>>

\* refreshPrices ends: coins, shares and currencies fail one by one, which
\* leaves their prices as they were.  What an earlier run asked for is applied
\* too, to the symbols still held; it tells nothing of the others.
HoldingsRest(r, ok) ==
  /\ client = "holdings" /\ r \in rest
  /\ rest' = rest \ {r}
  /\ priced' = (priced \/ (ok /\ r = "now" /\ on))
  /\ status' = IF connected THEN status ELSE "fallback"
  /\ UNCHANGED <<client, on, sock, ref, connected, timer, changes>>

\* fetchPrices of MarketPriceProvider: nothing at all changes nothing.
MarketRest(r, ok) ==
  /\ client = "market" /\ r \in rest
  /\ rest' = rest \ {r}
  /\ priced' = (priced \/ ok)
  /\ status' = IF ok /\ ~connected THEN "fallback" ELSE status
  /\ UNCHANGED <<client, on, sock, ref, connected, timer, changes>>

\* fetchPrices of the hook; after it was left nothing is shown.
HookRest(r, ok) ==
  /\ client = "hook" /\ r \in rest
  /\ rest' = rest \ {r}
  /\ priced' = (priced \/ (ok /\ on /\ r = "now"))
  /\ status' = IF ok /\ on /\ ~connected THEN "fallback" ELSE status
  /\ UNCHANGED <<client, on, sock, ref, connected, timer, changes>>

RestEnds(ok) ==
  \E r \in {"now", "old"} : HoldingsRest(r, ok) \/ MarketRest(r, ok) \/ HookRest(r, ok)

-----------------------------------------------------------------------------
(* Specification *)

StreamNext ==
  \/ SymbolsChange \/ HoldingsRead \/ MarketMount \/ HookMount \/ HookUnmount
  \/ \E i \in Sockets : Opens(i) \/ Tick(i) \/ Fails(i) \/ Closes(i)
  \/ TimerFires \/ Poll
  \/ \E ok \in BOOLEAN : RestEnds(ok)

\* Connections are made or fail, a close that was asked for comes, an open
\* socket delivers, timers fire; the poll's is not in step with sockets that come
\* and go, and of many REST calls one succeeds.
StreamFairness ==
  /\ \A i \in Sockets :
       /\ WF_streamVars(sock[i].at = "connecting" /\ (Opens(i) \/ Fails(i)))
       /\ WF_streamVars(sock[i].at = "closing" /\ Closes(i))
       /\ WF_streamVars(Tick(i) /\ ~priced)
  /\ WF_streamVars(TimerFires)
  /\ SF_streamVars(Poll)
  /\ WF_streamVars(\E ok \in BOOLEAN : RestEnds(ok))
  /\ SF_streamVars(RestEnds(TRUE))

StreamSpec == StreamInit /\ [][StreamNext]_streamVars /\ StreamFairness

-----------------------------------------------------------------------------
(* Properties *)

Alive(i) == sock[i].mine /\ sock[i].at # "none"
Mine     == {i \in Sockets : Alive(i)}

\* While there is something to stream, exactly one attempt is under way: one
\* socket of the current run, or the timer for the next; never two, and none
\* when there is nothing.  A late close of an older socket disturbs neither.
OneAttempt ==
  /\ on => (timer /\ Mine = {}) \/ (~timer /\ \E i \in Sockets : Mine = {i})
  /\ ~on => ~timer /\ Mine = {}

\* `Connected', which silences the REST poll, needs a socket that is open or
\* whose close event is still to come.
ConnectedHasASocket ==
  connected => \E i \in Sockets : sock[i].at \in {"open", "closing"}

\* A page that was left keeps no socket open.  (AssetProvider does not unmount;
\* it may leave sockets of earlier symbols open.)
LeftPagesClose ==
  client = "hook" /\ ~on => \A i \in Sockets : sock[i].at \in {"none", "closing"}

\* The connection, through any order of late closes, timers and changes of symbols.
StreamInv == StreamTypeOK /\ OneAttempt /\ ConnectedHasASocket /\ LeftPagesClose

\* Whatever happens to the sockets, a price of the market comes back for what
\* is shown.
PricesReturn == (on /\ ~priced) ~> (priced \/ ~on)

=============================================================================
