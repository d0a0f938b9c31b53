--------------------------- MODULE BrowserProofs ---------------------------
(***************************************************************************)
(* Theorems of what the tabs of the browser share with the service: the    *)
(* price streams, the held assets, their entry and the upload of a file,   *)
(* each about its own specification, for any number of sockets, changes,   *)
(* rows and holdings.                                                      *)
(***************************************************************************)
EXTENDS MCSite, SequenceTheorems, FiniteSetTheorems, TLAPS

-----------------------------------------------------------------------------
(* PriceStream: one attempt to be connected, through late closes *)

\* A socket that is not there belongs to nobody.
Absent(i) == sock[i].at = "none"

\* Who is Alive, element by element.
OneAlive ==
  /\ on /\ timer => \A i \in Sockets : ~Alive(i)
  /\ on /\ ~timer => \E i \in Sockets : \A j \in Sockets : Alive(j) <=> j = i
  /\ ~on => ~timer /\ \A i \in Sockets : ~Alive(i)

\* The timer runs with an empty ref only, so that it does connect.  Where Retries
\* asks the page and not the socket, every socket is of the page that is shown: a
\* market page is not left, and a hook is mounted again when all have closed.
StreamState ==
  /\ timer => ref = 0
  /\ \A i \in Sockets : Absent(i) => ~sock[i].mine
  /\ client = "market" /\ ~on => \A i \in Sockets : Absent(i)
  /\ client # "holdings" /\ on => \A i \in Sockets : ~Absent(i) => sock[i].mine /\ i = ref

StreamIInv ==
  StreamTypeOK /\ OneAlive /\ StreamState /\ ConnectedHasASocket /\ LeftPagesClose

LEMMA OneAliveMeans == OneAlive => OneAttempt
<1> SUFFICES ASSUME OneAlive PROVE OneAttempt
  OBVIOUS
<1>1. ASSUME \A i \in Sockets : ~Alive(i) PROVE Mine = {}
  BY <1>1, Zenon DEF Mine
<1>2. ASSUME NEW i \in Sockets, \A j \in Sockets : Alive(j) <=> j = i PROVE Mine = {i}
  BY <1>2, Zenon DEF Mine
<1>3. on /\ timer => Mine = {}
  BY <1>1 DEF OneAlive
<1>4. on /\ ~timer => \E i \in Sockets : Mine = {i}
  BY <1>2, Zenon DEF OneAlive
<1>5. ~on => ~timer /\ Mine = {}
  BY <1>1 DEF OneAlive
<1>6. on \in BOOLEAN \/ TRUE
  OBVIOUS
<1>7. QED BY <1>3, <1>4, <1>5, Zenon DEF OneAttempt

\* The sockets a step makes, field by field.
LEMMA SocketFields ==
  /\ NoSocket \in Socket /\ NoSocket.at = "none" /\ NoSocket.mine = FALSE
  /\ [at |-> "connecting", mine |-> TRUE] \in Socket
  /\ [at |-> "connecting", mine |-> TRUE].at = "connecting"
  /\ [at |-> "connecting", mine |-> TRUE].mine = TRUE
  /\ \A s \in Socket : s.at \in {"none", "connecting", "open", "closing"} /\ s.mine \in BOOLEAN
  /\ \A s \in Socket : s.at = "none" /\ s.mine = FALSE => s = NoSocket
  /\ \A s \in Socket, a \in {"none", "connecting", "open", "closing"} :
       /\ [s EXCEPT !.at = a] \in Socket /\ [s EXCEPT !.at = a].at = a
       /\ [s EXCEPT !.at = a].mine = s.mine
       /\ [at |-> a, mine |-> FALSE] \in Socket /\ [at |-> a, mine |-> FALSE].at = a
       /\ [at |-> a, mine |-> FALSE].mine = FALSE
<1>1. NoSocket \in Socket /\ NoSocket.at = "none" /\ NoSocket.mine = FALSE
  BY DEF NoSocket, Socket
<1>2. /\ [at |-> "connecting", mine |-> TRUE] \in Socket
      /\ [at |-> "connecting", mine |-> TRUE].at = "connecting"
      /\ [at |-> "connecting", mine |-> TRUE].mine = TRUE
  BY DEF Socket
<1>3. \A s \in Socket : s.at \in {"none", "connecting", "open", "closing"} /\ s.mine \in BOOLEAN
  BY DEF Socket
<1>4. \A s \in Socket : s.at = "none" /\ s.mine = FALSE => s = NoSocket
  BY DEF Socket, NoSocket
<1>5. \A s \in Socket, a \in {"none", "connecting", "open", "closing"} :
        /\ [s EXCEPT !.at = a] \in Socket /\ [s EXCEPT !.at = a].at = a
        /\ [s EXCEPT !.at = a].mine = s.mine
  BY DEF Socket
<1>6. \A a \in {"none", "connecting", "open", "closing"} :
       /\ [at |-> a, mine |-> FALSE] \in Socket /\ [at |-> a, mine |-> FALSE].at = a
       /\ [at |-> a, mine |-> FALSE].mine = FALSE
  BY DEF Socket
<1>7. QED BY <1>1, <1>2, <1>3, <1>4, <1>5, <1>6

\* What Connects(i, socks) does to the sockets.
LEMMA ConnectsMakes ==
  ASSUME NEW socks \in [Sockets -> Socket], NEW i \in Sockets, Connects(i, socks)
  PROVE  /\ sock' \in [Sockets -> Socket] /\ ref' = i
         /\ socks[i].at = "none"
         /\ sock'[i].at = "connecting" /\ sock'[i].mine /\ sock'[i] # NoSocket
         /\ \A j \in Sockets : j # i => sock'[j] = socks[j]
         /\ status' \in {"connecting", "connected", "reconnecting", "fallback"}
<1>1. /\ socks[i] = NoSocket
      /\ sock' = [socks EXCEPT ![i] = [at |-> "connecting", mine |-> TRUE]]
      /\ ref' = i
      /\ status' \in {"connecting", "connected", "reconnecting", "fallback"}
  BY DEF Connects
<1> DEFINE new == [at |-> "connecting", mine |-> TRUE]
<1>2. new \in Socket /\ new.at = "connecting" /\ new.mine = TRUE /\ NoSocket.at = "none"
  BY SocketFields
<1> HIDE DEF new
<1>3. sock' = [socks EXCEPT ![i] = new]
  BY <1>1 DEF new
<1>4. sock' \in [Sockets -> Socket] /\ sock'[i] = new
  BY <1>2, <1>3
<1>5. \A j \in Sockets : j # i => sock'[j] = socks[j]
  BY <1>3
<1>6. new # NoSocket
  BY <1>2
<1>7. QED BY <1>1, <1>2, <1>4, <1>5, <1>6

\* The sockets after the cleanup.
LEMMA ClosedMakes ==
  ASSUME StreamTypeOK
  PROVE  /\ Closed \in [Sockets -> Socket]
         /\ \A i \in Sockets :
              /\ ~Closed[i].mine
              /\ i = ref => Closed[i].at = "closing"
              /\ i # ref => Closed[i].at = sock[i].at
<1>1. \A i \in Sockets : sock[i] \in Socket
  BY DEF StreamTypeOK
<1> DEFINE a(i) == IF i = ref THEN "closing" ELSE sock[i].at
           s(i) == [at |-> a(i), mine |-> FALSE]
<1>2. \A i \in Sockets : a(i) \in {"none", "connecting", "open", "closing"}
  BY <1>1, SocketFields
<1>3. \A i \in Sockets : (i = ref => a(i) = "closing") /\ (i # ref => a(i) = sock[i].at)
  OBVIOUS
<1> HIDE DEF a
<1>4. \A b \in {"none", "connecting", "open", "closing"} :
        /\ [at |-> b, mine |-> FALSE] \in Socket
        /\ [at |-> b, mine |-> FALSE].at = b
        /\ [at |-> b, mine |-> FALSE].mine = FALSE
  BY SocketFields
<1>5. \A i \in Sockets : s(i) \in Socket /\ s(i).at = a(i) /\ s(i).mine = FALSE
  BY <1>2, <1>4
<1> HIDE DEF s
<1>6. Closed = [i \in Sockets |-> s(i)]
  BY DEF Closed, s, a
<1>7. QED BY <1>3, <1>5, <1>6

\* A step that keeps everything the inductive invariant speaks of but `priced',
\* `rest' and the badge.
StreamRest ==
  /\ UNCHANGED <<client, on, sock, ref, connected, timer>>
  /\ priced' \in BOOLEAN /\ rest' \in SUBSET {"now", "old"}
  /\ status' \in {"connecting", "connected", "reconnecting", "fallback"}
  /\ changes' \in 0 .. MaxChanges

LEMMA StreamRestKeeps == ASSUME StreamIInv, StreamRest PROVE StreamIInv'
<1>1. StreamTypeOK'
  BY DEF StreamIInv, StreamTypeOK, StreamRest
<1>2. OneAlive' /\ StreamState' /\ ConnectedHasASocket' /\ LeftPagesClose'
  BY DEF StreamIInv, StreamRest, OneAlive, StreamState, ConnectedHasASocket, LeftPagesClose,
         Alive, Absent
<1>3. QED BY <1>1, <1>2 DEF StreamIInv

LEMMA StreamQuiet ==
  ASSUME StreamIInv,
         \/ HoldingsRead \/ Poll \/ (\E i \in Sockets : Tick(i))
         \/ \E ok \in BOOLEAN : RestEnds(ok)
         \/ UNCHANGED streamVars
  PROVE  StreamIInv'
<1>0. StreamTypeOK
  BY DEF StreamIInv
<1>1. CASE HoldingsRead
  BY <1>0, <1>1, StreamRestKeeps DEF HoldingsRead, StreamRest, StreamTypeOK
<1>2. CASE Poll
  BY <1>0, <1>2, StreamRestKeeps DEF Poll, StreamRest, StreamTypeOK
<1>3. CASE \E i \in Sockets : Tick(i)
  BY <1>0, <1>3, StreamRestKeeps DEF Tick, StreamRest, StreamTypeOK
<1>4. CASE \E ok \in BOOLEAN : RestEnds(ok)
  <2>1. PICK ok \in BOOLEAN : RestEnds(ok)
    BY <1>4
  <2>2. PICK r \in {"now", "old"} : HoldingsRest(r, ok) \/ MarketRest(r, ok) \/ HookRest(r, ok)
    BY <2>1 DEF RestEnds
  <2>3. UNCHANGED <<client, on, sock, ref, connected, timer, changes>> /\ rest' = rest \ {r}
    BY <2>2 DEF HoldingsRest, MarketRest, HookRest
  <2>4. status' \in {status, "fallback"}
    BY <2>2 DEF HoldingsRest, MarketRest, HookRest
  <2>5. priced' \in BOOLEAN
    BY <1>0, <2>2, Zenon DEF HoldingsRest, MarketRest, HookRest, StreamTypeOK
  <2>6. QED BY <1>0, <2>3, <2>4, <2>5, StreamRestKeeps DEF StreamRest, StreamTypeOK
<1>5. CASE UNCHANGED streamVars
  BY <1>0, <1>5, StreamRestKeeps DEF streamVars, StreamRest, StreamTypeOK
<1>6. QED BY <1>1, <1>2, <1>3, <1>4, <1>5

\* The invariant of the first state and of one with a new socket i, the other
\* sockets being those of `socks', none of which is of the current run.
LEMMA StreamStarts == StreamInit => StreamIInv
<1> SUFFICES ASSUME StreamInit PROVE StreamIInv
  OBVIOUS
<1>1. /\ \A i \in Sockets : sock[i] = NoSocket
      /\ sock = [i \in Sockets |-> NoSocket]
  BY DEF StreamInit
<1>2. \A i \in Sockets : Absent(i) /\ ~sock[i].mine
  BY <1>1, SocketFields DEF Absent
<1>3. sock \in [Sockets -> Socket]
  BY <1>1, SocketFields
<1>4. StreamTypeOK
  <2>1. changes \in 0 .. MaxChanges
    BY StreamAssumption DEF StreamInit
  <2>2. QED BY <1>3, <2>1 DEF StreamInit, StreamTypeOK
<1>5. OneAlive
  BY <1>2 DEF StreamInit, OneAlive, Alive
<1>6. StreamState
  BY <1>2 DEF StreamInit, StreamState
<1>7. ConnectedHasASocket
  BY DEF StreamInit, ConnectedHasASocket
<1>8. LeftPagesClose
  BY <1>2 DEF LeftPagesClose, Absent
<1>9. QED BY <1>4, <1>5, <1>6, <1>7, <1>8 DEF StreamIInv

LEMMA StreamConnects ==
  ASSUME StreamIInv,
         NEW socks \in [Sockets -> Socket], NEW i \in Sockets, Connects(i, socks),
         \A j \in Sockets : socks[j].at = "none" \/ ~socks[j].mine,
         \A j \in Sockets : socks[j].at = "none" => ~socks[j].mine,
         client # "holdings" => \A j \in Sockets : socks[j].at = "none",
         connected => \E j \in Sockets : socks[j].at \in {"open", "closing"},
         client' = client, on' = TRUE, timer' = FALSE, connected' = connected,
         priced' \in BOOLEAN, rest' \in SUBSET {"now", "old"}, changes' \in 0 .. MaxChanges
  PROVE  StreamIInv'
<1>0. StreamTypeOK
  BY DEF StreamIInv
<1>1. /\ sock' \in [Sockets -> Socket] /\ ref' = i
      /\ socks[i].at = "none"
      /\ sock'[i].at = "connecting" /\ sock'[i].mine /\ sock'[i] # NoSocket
      /\ \A j \in Sockets : j # i => sock'[j] = socks[j]
      /\ status' \in {"connecting", "connected", "reconnecting", "fallback"}
  BY ConnectsMakes
<1>2. StreamTypeOK'
  BY <1>0, <1>1 DEF StreamTypeOK
<1>3. Alive(i)' /\ \A j \in Sockets : j # i => ~Alive(j)'
  BY <1>1 DEF Alive
<1>4. OneAlive'
  <2>1. \A j \in Sockets : Alive(j)' <=> j = i
    BY <1>3
  <2>2. QED BY <2>1 DEF OneAlive
<1>5. StreamState'
  BY <1>1 DEF StreamState, Absent
<1>6. ConnectedHasASocket'
  BY <1>1 DEF ConnectedHasASocket
<1>7. LeftPagesClose'
  BY DEF LeftPagesClose
<1>8. QED BY <1>2, <1>4, <1>5, <1>6, <1>7 DEF StreamIInv

\* Nothing to stream any more.
LEMMA StreamStops ==
  ASSUME StreamIInv, client # "market",
         sock' = Closed, ref' = 0, client' = client, on' = FALSE, timer' = FALSE,
         connected' = connected, priced' \in BOOLEAN, rest' \in SUBSET {"now", "old"},
         changes' \in 0 .. MaxChanges,
         status' \in {"connecting", "connected", "reconnecting", "fallback"},
         on
  PROVE  StreamIInv'
<1>0. StreamTypeOK /\ StreamState /\ ConnectedHasASocket
  BY DEF StreamIInv
<1>1. /\ sock' \in [Sockets -> Socket]
      /\ \A i \in Sockets :
           /\ ~sock'[i].mine
           /\ i = ref => sock'[i].at = "closing"
           /\ i # ref => sock'[i].at = sock[i].at
  BY <1>0, ClosedMakes
<1>2. StreamTypeOK'
  BY <1>0, <1>1 DEF StreamTypeOK
<1>3. OneAlive'
  BY <1>1 DEF OneAlive, Alive
<1>4. StreamState'
  BY <1>1 DEF StreamState, Absent
<1>5. ConnectedHasASocket'
  BY <1>0, <1>1 DEF ConnectedHasASocket
<1>6. LeftPagesClose'
  BY <1>0, <1>1 DEF LeftPagesClose, StreamState, Absent
<1>7. QED BY <1>2, <1>3, <1>4, <1>5, <1>6 DEF StreamIInv

LEMMA AnotherChange ==
  \A c \in 0 .. MaxChanges : c < MaxChanges => c + 1 \in 0 .. MaxChanges
BY StreamAssumption

LEMMA StreamPages ==
  ASSUME StreamIInv, SymbolsChange \/ MarketMount \/ HookMount \/ HookUnmount
  PROVE  StreamIInv'
<1>0. StreamTypeOK /\ OneAlive /\ StreamState /\ ConnectedHasASocket
  BY DEF StreamIInv
<1>1. /\ Closed \in [Sockets -> Socket]
      /\ \A i \in Sockets :
           /\ ~Closed[i].mine
           /\ i = ref => Closed[i].at = "closing"
           /\ i # ref => Closed[i].at = sock[i].at
  BY <1>0, ClosedMakes
<1>2. Aged \in SUBSET {"now", "old"} /\ Aged \cup {"now"} \in SUBSET {"now", "old"}
  BY DEF Aged
<1>3. CASE SymbolsChange
  <2>1. /\ client = "holdings" /\ client' = client /\ connected' = connected
        /\ timer' = FALSE /\ priced' \in BOOLEAN
    BY <1>3 DEF SymbolsChange
  <2>0. changes' \in 0 .. MaxChanges
    BY <1>0, <1>3, AnotherChange DEF SymbolsChange, StreamTypeOK
  <2>2. CASE /\ on' = TRUE /\ rest' = Aged \cup {"now"}
             /\ \E i \in Sockets : Connects(i, Closed)
    <3>1. PICK i \in Sockets : Connects(i, Closed)
      BY <2>2
    <3>2. connected => \E j \in Sockets : Closed[j].at \in {"open", "closing"}
      BY <1>0, <1>1 DEF ConnectedHasASocket
    <3>3. QED BY <1>1, <1>2, <2>0, <2>1, <2>2, <3>1, <3>2, StreamConnects
  <2>3. CASE on' = FALSE /\ on /\ rest' = Aged /\ sock' = Closed /\ ref' = 0 /\ status' = "fallback"
    BY <1>2, <2>0, <2>1, <2>3, StreamStops
  <2>4. QED BY <1>3, <2>2, <2>3 DEF SymbolsChange
<1>4. CASE MarketMount
  <2>1. PICK i \in Sockets : Connects(i, sock)
    BY <1>4 DEF MarketMount
  <2>2. \A j \in Sockets : sock[j].at = "none" /\ ~sock[j].mine
    BY <1>0, <1>4 DEF MarketMount, StreamState, Absent
  <2>3. /\ client' = client /\ on' = TRUE /\ connected' = connected /\ priced' \in BOOLEAN
        /\ rest' \in SUBSET {"now", "old"} /\ changes' \in 0 .. MaxChanges
        /\ timer' = timer /\ ~on /\ sock \in [Sockets -> Socket]
    BY <1>0, <1>4 DEF MarketMount, StreamTypeOK
  <2>4. timer' = FALSE
    BY <1>0, <2>3 DEF OneAlive, StreamTypeOK
  <2>5. connected => \E j \in Sockets : sock[j].at \in {"open", "closing"}
    BY <1>0 DEF ConnectedHasASocket
  <2>6. QED BY <2>1, <2>2, <2>3, <2>4, <2>5, StreamConnects
<1>5. CASE HookMount
  <2>1. PICK i \in Sockets : Connects(i, sock)
    BY <1>5 DEF HookMount
  <2>2. \A j \in Sockets : sock[j].at = "none" /\ ~sock[j].mine
    BY <1>5, SocketFields DEF HookMount
  <2>3. /\ client' = client /\ on' = TRUE /\ connected' = connected /\ priced' \in BOOLEAN
        /\ rest' \in SUBSET {"now", "old"} /\ changes' \in 0 .. MaxChanges
        /\ timer' = timer /\ ~on /\ sock \in [Sockets -> Socket]
    BY <1>0, <1>5 DEF HookMount, StreamTypeOK
  <2>4. timer' = FALSE
    BY <1>0, <2>3 DEF OneAlive, StreamTypeOK
  <2>5. connected => \E j \in Sockets : sock[j].at \in {"open", "closing"}
    BY <1>0 DEF ConnectedHasASocket
  <2>6. QED BY <2>1, <2>2, <2>3, <2>4, <2>5, StreamConnects
<1>6. CASE HookUnmount
  <2>1. /\ client # "market" /\ on /\ sock' = Closed /\ ref' = 0 /\ client' = client
        /\ on' = FALSE /\ timer' = FALSE /\ connected' = connected /\ priced' \in BOOLEAN
        /\ rest' = Aged
        /\ status' \in {"connecting", "connected", "reconnecting", "fallback"}
    BY <1>0, <1>6 DEF HookUnmount, StreamTypeOK
  <2>2. changes' \in 0 .. MaxChanges
    BY <1>0, <1>6, AnotherChange DEF HookUnmount, StreamTypeOK
  <2>3. QED BY <1>2, <2>1, <2>2, StreamStops
<1>7. QED BY <1>3, <1>4, <1>5, <1>6

\* One socket gets to `to', with the same owner.
LEMMA SocketMoves ==
  ASSUME StreamTypeOK, NEW i \in Sockets,
         NEW to \in {"none", "connecting", "open", "closing"},
         sock' = [sock EXCEPT ![i].at = to]
  PROVE  /\ sock' \in [Sockets -> Socket]
         /\ sock'[i].at = to /\ sock'[i].mine = sock[i].mine
         /\ \A j \in Sockets : j # i => sock'[j] = sock[j]
<1> DEFINE new == [sock[i] EXCEPT !.at = to]
<1>1. new \in Socket /\ new.at = to /\ new.mine = sock[i].mine
  <2>1. sock[i] \in Socket
    BY DEF StreamTypeOK
  <2>2. \A s \in Socket, a \in {"none", "connecting", "open", "closing"} :
          /\ [s EXCEPT !.at = a] \in Socket /\ [s EXCEPT !.at = a].at = a
          /\ [s EXCEPT !.at = a].mine = s.mine
    BY DEF Socket
  <2>3. QED BY <2>1, <2>2
<1>2. sock' = [sock EXCEPT ![i] = new]
  OBVIOUS
<1> HIDE DEF new
<1>3. sock \in [Sockets -> Socket]
  BY DEF StreamTypeOK
<1>4. sock'[i] = new
  BY <1>2, <1>3
<1>5. QED BY <1>1, <1>2, <1>3, <1>4

LEMMA StreamOpens ==
  ASSUME StreamIInv, NEW i \in Sockets, Opens(i) \/ Fails(i)
  PROVE  StreamIInv'
<1>0. StreamTypeOK /\ OneAlive /\ StreamState /\ ConnectedHasASocket /\ LeftPagesClose
  BY DEF StreamIInv
<1>1. PICK to \in {"open", "closing"} :
         /\ sock' = [sock EXCEPT ![i].at = to]
         /\ sock[i].at \in {"connecting", "open"}
         /\ to = "open" => sock[i].at = "connecting"
         /\ connected' = (to = "open") /\ connected' \in BOOLEAN
         /\ UNCHANGED <<client, on, ref, timer, rest, priced, changes>>
         /\ status' \in {"connected", "fallback"}
  <2>1. CASE Opens(i)
    BY <2>1 DEF Opens
  <2>2. CASE Fails(i)
    BY <2>2 DEF Fails
  <2>3. QED BY <2>1, <2>2
<1>2. /\ sock' \in [Sockets -> Socket]
      /\ sock'[i].at = to /\ sock'[i].mine = sock[i].mine
      /\ \A j \in Sockets : j # i => sock'[j] = sock[j]
  BY <1>0, <1>1, SocketMoves
<1>3. StreamTypeOK'
  <2>1. ref # 0 => sock'[ref] # NoSocket
    BY <1>0, <1>1, <1>2, SocketFields DEF StreamTypeOK
  <2>2. QED BY <1>0, <1>1, <1>2, <2>1 DEF StreamTypeOK
<1>4. \A j \in Sockets : (Alive(j)' <=> Alive(j)) /\ (Absent(j)' <=> Absent(j))
                         /\ (sock'[j].mine = sock[j].mine)
  BY <1>1, <1>2 DEF Alive, Absent
<1>5. OneAlive'
  BY <1>0, <1>1, <1>4 DEF OneAlive
<1>6. StreamState'
  BY <1>0, <1>1, <1>4 DEF StreamState
<1>7. ConnectedHasASocket'
  BY <1>1, <1>2 DEF ConnectedHasASocket
<1>8. LeftPagesClose'
  BY <1>0, <1>1, <1>2 DEF LeftPagesClose
<1>9. QED BY <1>3, <1>5, <1>6, <1>7, <1>8 DEF StreamIInv

LEMMA StreamCloses ==
  ASSUME StreamIInv, NEW i \in Sockets, Closes(i)
  PROVE  StreamIInv'
<1>0. StreamTypeOK /\ OneAlive /\ StreamState /\ LeftPagesClose
  BY DEF StreamIInv
<1>1. /\ sock[i].at \in {"open", "closing"} /\ ~Absent(i)
      /\ sock' = [sock EXCEPT ![i] = NoSocket]
      /\ ref' = 0 /\ connected' = FALSE /\ status' = "reconnecting"
      /\ timer' = (timer \/ Retries(i))
      /\ UNCHANGED <<client, on, rest, priced, changes>>
  BY DEF Closes, RefEmptied, AfterClose, Absent
<1>2. /\ sock' \in [Sockets -> Socket]
      /\ Absent(i)' /\ ~sock'[i].mine /\ ~Alive(i)'
      /\ \A j \in Sockets : j # i => sock'[j] = sock[j]
  BY <1>0, <1>1, SocketFields DEF StreamTypeOK, Absent, Alive
<1>3. \A j \in Sockets : j # i => (Alive(j)' <=> Alive(j)) /\ (Absent(j)' <=> Absent(j))
                                   /\ (sock'[j].mine = sock[j].mine)
  BY <1>2 DEF Alive, Absent
<1>4. timer' \in BOOLEAN
  BY <1>1
<1>5. StreamTypeOK'
  BY <1>0, <1>1, <1>2, <1>4 DEF StreamTypeOK
<1>6. OneAlive'
  <2>1. CASE client = "holdings"
    <3>1. Retries(i) <=> Alive(i)
      BY <1>1, <2>1 DEF Retries, Alive, Absent
    <3>2. QED BY <1>0, <1>1, <1>2, <1>3, <3>1 DEF OneAlive
  <2>2. CASE client # "holdings" /\ on
    <3>1. timer'
      BY <1>1, <2>2 DEF Retries
    <3>2. \A j \in Sockets : j # i => Absent(j)
      BY <1>0, <1>1, <2>2 DEF StreamState
    <3>3. \A j \in Sockets : ~Alive(j)'
      BY <1>2, <1>3, <3>2 DEF Alive, Absent
    <3>4. QED BY <1>1, <2>2, <3>1, <3>3 DEF OneAlive
  <2>3. CASE client # "holdings" /\ ~on
    <3>1. ~timer'
      BY <1>0, <1>1, <2>3 DEF Retries, OneAlive
    <3>2. \A j \in Sockets : ~Alive(j)'
      BY <1>0, <1>2, <1>3, <2>3 DEF OneAlive
    <3>3. QED BY <1>1, <2>3, <3>1, <3>2 DEF OneAlive
  <2>4. QED BY <2>1, <2>2, <2>3
<1>7. StreamState'
  <2>1. client # "holdings" /\ on => \A j \in Sockets : Absent(j)'
    BY <1>0, <1>1, <1>2, <1>3 DEF StreamState
  <2>2. \A j \in Sockets : Absent(j)' => ~sock'[j].mine
    BY <1>0, <1>2, <1>3 DEF StreamState
  <2>3. client = "market" /\ ~on => \A j \in Sockets : Absent(j)'
    BY <1>0, <1>1 DEF StreamState
  <2>4. QED BY <1>1, <2>1, <2>2, <2>3 DEF StreamState
<1>8. ConnectedHasASocket'
  BY <1>1 DEF ConnectedHasASocket
<1>9. LeftPagesClose'
  BY <1>0, <1>1, <1>2 DEF LeftPagesClose, Absent
<1>10. QED BY <1>5, <1>6, <1>7, <1>8, <1>9 DEF StreamIInv

LEMMA StreamTimer ==
  ASSUME StreamIInv, TimerFires
  PROVE  StreamIInv'
<1>0. StreamTypeOK /\ OneAlive /\ StreamState /\ ConnectedHasASocket
  BY DEF StreamIInv
<1>1. timer /\ ref = 0 /\ on
  BY <1>0 DEF TimerFires, StreamState, OneAlive
<1>2. /\ timer' = FALSE
      /\ UNCHANGED <<client, on, connected, rest, priced, changes>>
      /\ \E i \in Sockets : Connects(i, sock)
  BY <1>1 DEF TimerFires
<1>3. PICK i \in Sockets : Connects(i, sock)
  BY <1>2
<1>4. \A j \in Sockets : ~Alive(j)
  BY <1>0, <1>1 DEF OneAlive
<1>5. /\ \A j \in Sockets : sock[j].at = "none" \/ ~sock[j].mine
      /\ \A j \in Sockets : sock[j].at = "none" => ~sock[j].mine
      /\ client # "holdings" => \A j \in Sockets : sock[j].at = "none"
  BY <1>0, <1>1, <1>4 DEF Alive, StreamState, Absent
<1>6. connected => \E j \in Sockets : sock[j].at \in {"open", "closing"}
  BY <1>0 DEF ConnectedHasASocket
<1>7. /\ sock \in [Sockets -> Socket] /\ on' = TRUE /\ client' = client
      /\ connected' = connected /\ priced' \in BOOLEAN /\ rest' \in SUBSET {"now", "old"}
      /\ changes' \in 0 .. MaxChanges
  BY <1>0, <1>1, <1>2 DEF StreamTypeOK
<1>8. QED BY <1>2, <1>3, <1>5, <1>6, <1>7, StreamConnects

LEMMA StreamKeeps == ASSUME StreamIInv, [StreamNext]_streamVars PROVE StreamIInv'
<1>1. CASE SymbolsChange \/ MarketMount \/ HookMount \/ HookUnmount
  BY <1>1, StreamPages
<1>2. CASE \E i \in Sockets : Opens(i) \/ Fails(i)
  BY <1>2, StreamOpens
<1>3. CASE \E i \in Sockets : Closes(i)
  BY <1>3, StreamCloses
<1>4. CASE TimerFires
  BY <1>4, StreamTimer
<1>5. CASE \/ HoldingsRead \/ Poll \/ (\E i \in Sockets : Tick(i))
           \/ \E ok \in BOOLEAN : RestEnds(ok)
           \/ UNCHANGED streamVars
  BY <1>5, StreamQuiet
<1>6. QED BY <1>1, <1>2, <1>3, <1>4, <1>5 DEF StreamNext

\* The price streams keep one attempt under way while there is something to
\* stream and none otherwise, claim to be connected only with a socket that is or
\* was open, and leave no socket behind on a page that was left: for any number of
\* sockets whose close events are late (AssetContext.tsx, MarketPriceContext.tsx,
\* useMarketPrices.ts).
THEOREM OneAttemptOnly == StreamSpec => []StreamInv
<1>1. StreamIInv => StreamInv
  BY OneAliveMeans DEF StreamIInv, StreamInv
<1>2. StreamIInv /\ [StreamNext]_streamVars => StreamIInv'
  BY StreamKeeps
<1>3. QED BY <1>1, <1>2, StreamStarts, PTL DEF StreamSpec

-----------------------------------------------------------------------------
(* AssetView: what the tab shows, through repetitions and reads that overlap *)

Spinning(f) == call[f].at \in {"reading", "read"}

\* This flow will bring the tab up to date.
Brings(f) == call[f].at = "reading" \/ (call[f].at = "read" /\ call[f].got = inStore)

\* A call that is under way has done nothing yet: only a refusal, which comes
\* before the API does anything, is repeated.
CallsSound ==
  /\ call \in [Flows -> Call]
  /\ \A f \in Flows :
       /\ call[f].done = 0
       /\ call[f].at = "resent" => call[f].use = "good"
       /\ call[f].at = "read" => call[f].got \in 0 .. inStore

\* Whoever is not up to date has a read that will change it.
UpToDate ==
  user = "member" /\ ~behind =>
    view.failed \/ view.shows = inStore \/ \E f \in Flows : Brings(f)

ViewIInv ==
  ViewTypeOK /\ CallsSound /\ ToldTheTruth /\ UpToDate /\ SpinnerHasACause

LEMMA ViewMeans == ViewIInv => ViewInv
<1> SUFFICES ASSUME ViewIInv PROVE ViewInv
  OBVIOUS
<1>1. ASSUME UnderWay = {}, NEW f \in Flows PROVE call[f].at = "idle"
  BY <1>1, Zenon DEF UnderWay
<1>2. UnderWay = {} => ~ \E f \in Flows : Brings(f)
  <2>1. SUFFICES ASSUME UnderWay = {}, NEW f \in Flows, Brings(f) PROVE FALSE
    OBVIOUS
  <2>2. call[f].at = "idle"
    BY <1>1, <2>1
  <2>3. QED BY <2>1, <2>2 DEF Brings
<1>3. ShowsWhatIsStored
  BY <1>2 DEF ViewIInv, UpToDate, ShowsWhatIsStored
<1>4. QED BY <1>3 DEF ViewIInv, ViewInv

\* The records of a flow that steps make.
LEMMA CallFields ==
  /\ NoCall \in Call /\ NoCall.at = "idle" /\ NoCall.done = 0 /\ NoCall.got = 0
  /\ Reading \in Call /\ Reading.at = "reading" /\ Reading.done = 0 /\ Reading # NoCall
  /\ Sending.at \in {"refreshing", "sent"} /\ Sending.done = 0
  /\ token \in {"none", "good", "stale"} => Sending \in Call
<1>1. NoCall \in Call
  BY ViewAssumption DEF NoCall, Call, Shown
<1>2. QED BY <1>1 DEF NoCall, Reading, Sending, Call

\* One flow gets another record; the API has carried out at least as much.
CallStep(f, new) ==
  /\ call' = [call EXCEPT ![f] = new]
  /\ new \in Call /\ new.done = 0
  /\ new.at = "resent" => new.use = "good"
  /\ new.at = "read" => new.got = inStore'
  /\ inStore' \in 0 .. MaxStored /\ inStore' >= inStore

LEMMA CallsStay ==
  ASSUME ViewIInv, NEW f \in Flows, NEW new, CallStep(f, new)
  PROVE  /\ CallsSound'
         /\ call'[f] = new
         /\ \A g \in Flows : g # f => call'[g] = call[g]
<1>0. inStore \in 0 .. MaxStored /\ MaxStored \in Nat
  BY ViewAssumption DEF ViewIInv, ViewTypeOK
<1>1. /\ call' \in [Flows -> Call] /\ call'[f] = new
      /\ \A g \in Flows : g # f => call'[g] = call[g]
  BY DEF ViewIInv, CallsSound, CallStep
<1>2. \A g \in Flows : call[g].at = "read" => call[g].got \in 0 .. inStore
  BY DEF ViewIInv, CallsSound
<1>3. inStore' \in 0 .. MaxStored /\ inStore' >= inStore
  BY DEF CallStep
<1>4. ASSUME NEW g \in Flows, call'[g].at = "read" PROVE call'[g].got \in 0 .. inStore'
  <2>1. CASE g = f
    BY <1>0, <1>1, <1>3, <1>4, <2>1 DEF CallStep
  <2>2. CASE g # f
    BY <1>0, <1>1, <1>2, <1>3, <1>4, <2>2
  <2>3. QED BY <2>1, <2>2
<1>5. \A g \in Flows : call'[g].done = 0 /\ (call'[g].at = "resent" => call'[g].use = "good")
  BY <1>1 DEF ViewIInv, CallsSound, CallStep
<1>6. CallsSound'
  BY <1>1, <1>4, <1>5 DEF CallsSound
<1>7. QED BY <1>1, <1>6

\* What is left to show of a step, once the flows are sound.
LEMMA ViewSame ==
  ASSUME ViewIInv, CallsSound',
         user' \in {"loading", "guest", "mock", "member"},
         token' \in {"none", "good", "stale"}, inStore' \in 0 .. MaxStored,
         view' \in View, stale' \in 0 .. MaxStale, behind' \in BOOLEAN, told' = "true",
         UpToDate', SpinnerHasACause'
  PROVE  ViewIInv'
<1>1. \A f \in Flows : call'[f] \in Call /\ (call'[f].at = "resent" => call'[f].use = "good")
  BY DEF CallsSound
<1>2. ViewTypeOK'
  BY <1>1 DEF ViewTypeOK
<1>3. QED BY <1>2 DEF ViewIInv, ToldTheTruth

LEMMA ViewStarts == ViewInit => ViewIInv
<1> SUFFICES ASSUME ViewInit PROVE ViewIInv
  OBVIOUS
<1>1. CallsSound
  BY CallFields DEF ViewInit, CallsSound
<1>2. inStore \in 0 .. MaxStored /\ stale \in 0 .. MaxStale
  BY ViewAssumption DEF ViewInit
<1>3. view \in View
  BY DEF ViewInit, View, Shown
<1>4. ViewTypeOK
  BY <1>1, <1>2, <1>3 DEF ViewInit, ViewTypeOK, CallsSound
<1>5. UpToDate /\ SpinnerHasACause /\ ToldTheTruth
  BY DEF ViewInit, UpToDate, SpinnerHasACause, ToldTheTruth
<1>6. QED BY <1>1, <1>4, <1>5 DEF ViewIInv

\* The list that is shown, field by field.
LEMMA ViewFields ==
  ASSUME view \in View
  PROVE  /\ view.shows \in Shown /\ view.failed \in BOOLEAN /\ view.loading \in BOOLEAN
         /\ [view EXCEPT !.loading = TRUE, !.failed = FALSE] \in View
         /\ [view EXCEPT !.loading = TRUE, !.failed = FALSE].shows = view.shows
         /\ \A s \in Shown, b \in BOOLEAN :
              /\ [shows |-> s, failed |-> b, loading |-> FALSE] \in View
              /\ [shows |-> s, failed |-> b, loading |-> FALSE].shows = s
              /\ [shows |-> s, failed |-> b, loading |-> FALSE].failed = b
              /\ [shows |-> s, failed |-> b, loading |-> FALSE].loading = FALSE
<1>1. view.shows \in Shown /\ view.failed \in BOOLEAN /\ view.loading \in BOOLEAN
  BY DEF View
<1>2. [view EXCEPT !.loading = TRUE, !.failed = FALSE] \in View
  BY DEF View
<1>3. [view EXCEPT !.loading = TRUE, !.failed = FALSE].shows = view.shows
  BY DEF View
<1>4. \A s \in Shown, b \in BOOLEAN :
        /\ [shows |-> s, failed |-> b, loading |-> FALSE] \in View
        /\ [shows |-> s, failed |-> b, loading |-> FALSE].shows = s
        /\ [shows |-> s, failed |-> b, loading |-> FALSE].failed = b
        /\ [shows |-> s, failed |-> b, loading |-> FALSE].loading = FALSE
  BY DEF View
<1>5. QED BY <1>1, <1>2, <1>3, <1>4

\* A page's read: of a member it is under way, of the others it is over.
LEMMA ViewReads ==
  ASSUME ViewIInv, Reads("page", user'),
         user' \in {"guest", "mock", "member"}, token' \in {"none", "good", "stale"},
         UNCHANGED <<inStore, stale, told>>
  PROVE  ViewIInv'
<1>0. ViewTypeOK /\ "page" \in Flows /\ view \in View /\ inStore \in Nat /\ told = "true"
  BY ViewAssumption DEF ViewIInv, ViewTypeOK, ToldTheTruth, Flows
<1>1. behind' \in BOOLEAN
  BY DEF Reads
<1>2. CASE /\ user' = "member"
           /\ call' = [call EXCEPT !["page"] = Reading]
           /\ view' = [view EXCEPT !.loading = TRUE, !.failed = FALSE]
  <2>1. CallStep("page", Reading)
    BY <1>0, <1>2, CallFields DEF CallStep, ViewTypeOK
  <2>2. CallsSound' /\ call'["page"] = Reading
    BY <1>0, <2>1, CallsStay
  <2>3. Brings("page")' /\ Spinning("page")'
    BY <2>2, CallFields DEF Brings, Spinning
  <2>4. UpToDate' /\ SpinnerHasACause'
    BY <1>0, <2>3 DEF UpToDate, SpinnerHasACause, Spinning
  <2>5. view' \in View
    BY <1>0, <1>2, ViewFields
  <2>6. QED BY <1>0, <1>1, <2>2, <2>4, <2>5, ViewSame DEF ViewTypeOK
<1>3. CASE /\ user' \in {"guest", "mock"}
           /\ call' = [call EXCEPT !["page"] = NoCall]
           /\ view' = [shows |-> Sample, failed |-> FALSE, loading |-> FALSE]
  <2>1. CallStep("page", NoCall)
    BY <1>0, <1>3, CallFields DEF CallStep, ViewTypeOK
  <2>2. CallsSound'
    BY <1>0, <2>1, CallsStay
  <2>3. view' \in View /\ view'.loading = FALSE
    BY <1>0, <1>3 DEF View, Shown
  <2>4. UpToDate' /\ SpinnerHasACause'
    BY <1>3, <2>3 DEF UpToDate, SpinnerHasACause
  <2>5. QED BY <1>0, <1>1, <2>2, <2>3, <2>4, ViewSame DEF ViewTypeOK
<1>4. QED BY <1>2, <1>3 DEF Reads

LEMMA ViewPages ==
  ASSUME ViewIInv, UserKnown \/ TokenRenewed \/ Reread
  PROVE  ViewIInv'
<1>0. ViewTypeOK
  BY DEF ViewIInv
<1>1. CASE UserKnown
  <2>1. PICK u \in {"guest", "mock", "member"} :
          /\ user' = u /\ Reads("page", u)
          /\ token' \in IF u = "member" THEN {"good", "none"} ELSE {"none"}
    BY <1>1 DEF UserKnown
  <2>2. token' \in {"none", "good", "stale"} /\ Reads("page", user')
    BY <2>1
  <2>3. UNCHANGED <<inStore, stale, told>>
    BY <1>1 DEF UserKnown
  <2>4. QED BY <2>1, <2>2, <2>3, ViewReads
<1>2. CASE TokenRenewed
  BY <1>2, ViewReads DEF TokenRenewed
<1>3. CASE Reread
  BY <1>0, <1>3, ViewReads DEF Reread, ViewTypeOK
<1>4. QED BY <1>1, <1>2, <1>3

\* A step of a flow that neither reads nor stops to: a change is sent or sent again.
LEMMA ViewFlowGoesOn ==
  ASSUME ViewIInv, NEW f \in Flows, NEW new, CallStep(f, new),
         ~Spinning(f), inStore' = inStore,
         behind' \in BOOLEAN, ~behind' => ~behind \/ \E g \in Flows : Brings(g)',
         UNCHANGED <<user, token, view, stale, told>>
  PROVE  ViewIInv'
<1>0. /\ ViewTypeOK /\ UpToDate /\ SpinnerHasACause /\ told = "true"
  BY DEF ViewIInv, ToldTheTruth
<1>1. CallsSound' /\ \A g \in Flows : g # f => call'[g] = call[g]
  BY CallsStay
<1>2. \A g \in Flows : Spinning(g) => Spinning(g)'
  BY <1>1 DEF Spinning
<1>3. \A g \in Flows : Brings(g) => Brings(g)'
  BY <1>1 DEF Spinning, Brings
<1>4. UpToDate'
  BY <1>0, <1>3 DEF UpToDate
<1>5. SpinnerHasACause'
  BY <1>0, <1>2 DEF SpinnerHasACause, Spinning
<1>6. QED BY <1>0, <1>1, <1>4, <1>5, ViewSame DEF ViewTypeOK

LEMMA SameStore ==
  ViewTypeOK /\ inStore' = inStore => inStore' \in 0 .. MaxStored /\ inStore' >= inStore
BY ViewAssumption DEF ViewTypeOK

LEMMA ViewStart ==
  ASSUME ViewIInv, NEW c \in Changes, ChangeStart(c)
  PROVE  ViewIInv'
<1>0. ViewTypeOK /\ c \in Flows
  BY DEF ViewIInv, Flows
<1>1. CallStep(c, Sending)
  BY <1>0, CallFields DEF ChangeStart, CallStep, ViewTypeOK
<1>2. ~Spinning(c)
  BY CallFields DEF ChangeStart, Spinning
<1>3. QED BY <1>0, <1>1, <1>2, ViewFlowGoesOn DEF ChangeStart, ViewTypeOK

LEMMA ViewRefreshed ==
  ASSUME ViewIInv, NEW c \in Changes, Refreshed(c)
  PROVE  ViewIInv'
<1>0. ViewTypeOK /\ c \in Flows /\ call[c] \in Call /\ call[c].done = 0
  BY DEF ViewIInv, CallsSound, Flows
<1>1. PICK to \in {"none", "good"} :
        call' = [call EXCEPT ![c].at = NextAfter(@, to), ![c].use = to]
  BY DEF Refreshed
<1> DEFINE at  == NextAfter(call[c].at, to)
           new == [call[c] EXCEPT !.at = at, !.use = to]
<1>2. at \in {"sent", "resent", "idle"} /\ (at = "resent" => to = "good")
  BY DEF Refreshed, NextAfter
<1> HIDE DEF at
<1>3. new \in Call /\ new.done = 0 /\ new.at = at /\ new.use = to
  BY <1>0, <1>2 DEF Call
<1>4. call' = [call EXCEPT ![c] = new]
  BY <1>0, <1>1 DEF at, ViewIInv, CallsSound
<1> HIDE DEF new
<1>5. CallStep(c, new)
  <2>1. inStore' \in 0 .. MaxStored /\ inStore' >= inStore
    BY <1>0, SameStore DEF Refreshed
  <2>2. QED BY <1>2, <1>3, <1>4, <2>1 DEF CallStep
<1>6. ~Spinning(c)
  BY DEF Refreshed, Spinning
<1>7. QED BY <1>0, <1>5, <1>6, ViewFlowGoesOn DEF Refreshed, ViewTypeOK

LEMMA ViewReadHandled ==
  ASSUME ViewIInv, NEW f \in Flows, ReadHandled(f)
  PROVE  ViewIInv'
<1>0. /\ ViewTypeOK /\ call[f] \in Call /\ call[f].done = 0 /\ told = "true"
      /\ UpToDate /\ SpinnerHasACause
  BY DEF ViewIInv, CallsSound, ToldTheTruth
<1> DEFINE new == [call[f] EXCEPT !.at = "read", !.got = inStore]
<1>1. new \in Call /\ new.done = 0 /\ new.at = "read" /\ new.got = inStore
  BY <1>0 DEF Call, Shown, ViewTypeOK
<1>2. call' = [call EXCEPT ![f] = new]
  BY DEF ReadHandled, ViewIInv, CallsSound
<1> HIDE DEF new
<1>3. CallStep(f, new)
  <2>1. inStore' = inStore /\ inStore' \in 0 .. MaxStored /\ inStore' >= inStore
    BY <1>0, SameStore DEF ReadHandled
  <2>2. QED BY <1>1, <1>2, <2>1 DEF CallStep
<1>4. CallsSound' /\ call'[f] = new /\ \A g \in Flows : g # f => call'[g] = call[g]
  BY <1>3, CallsStay
<1>5. Brings(f)' /\ Spinning(f)'
  BY <1>1, <1>4 DEF Brings, Spinning, ReadHandled
<1>6. UpToDate' /\ SpinnerHasACause'
  BY <1>5 DEF UpToDate, SpinnerHasACause, Spinning
<1>7. QED BY <1>0, <1>4, <1>6, ViewSame DEF ViewTypeOK, ReadHandled

LEMMA ViewReadAnswer ==
  ASSUME ViewIInv, NEW f \in Flows, ReadAnswer(f)
  PROVE  ViewIInv'
<1>0. /\ ViewTypeOK /\ call[f] \in Call /\ told = "true" /\ view \in View
      /\ UpToDate /\ SpinnerHasACause
      /\ inStore \in 0 .. MaxStored /\ MaxStored \in Nat
  BY ViewAssumption DEF ViewIInv, CallsSound, ToldTheTruth, ViewTypeOK
<1>1. PICK ok \in BOOLEAN :
        /\ ok => call[f].at = "read"
        /\ view' = AfterRead(view, ok, call[f].got)
        /\ behind' = (behind \/ (ok /\ call[f].got < view.shows))
  BY DEF ReadAnswer
<1>2. behind' \in BOOLEAN
  BY <1>1
<1>3. /\ call' = [call EXCEPT ![f] = NoCall]
      /\ UNCHANGED <<user, token, inStore, stale, told>>
  BY DEF ReadAnswer
<1>4. CallStep(f, NoCall)
  BY <1>0, <1>3, CallFields DEF CallStep
<1>5. CallsSound' /\ \A g \in Flows : g # f => call'[g] = call[g]
  BY <1>4, CallsStay
<1>6. call[f].got \in Shown /\ NoList \in Shown
  BY <1>0 DEF Call, Shown
<1>7. /\ view' \in View /\ view'.loading = FALSE
      /\ ok => view'.shows = call[f].got
      /\ ~ok \/ view.failed => view'.failed
  <2>1. CASE ok
    <3>1. view' = [shows |-> call[f].got, failed |-> view.failed, loading |-> FALSE]
      BY <1>0, <1>1, <2>1, ViewFields DEF AfterRead
    <3>2. QED BY <1>0, <1>6, <2>1, <3>1, ViewFields
  <2>2. CASE ~ok
    <3>1. view' = [shows |-> NoList, failed |-> TRUE, loading |-> FALSE]
      BY <1>1, <2>2 DEF AfterRead
    <3>2. QED BY <1>0, <1>6, <2>2, <3>1, ViewFields
  <2>3. QED BY <2>1, <2>2
<1>8. SpinnerHasACause'
  BY <1>7 DEF SpinnerHasACause
<1>9. UpToDate'
  <2>1. SUFFICES ASSUME user' = "member", ~behind', ~view'.failed
                 PROVE  view'.shows = inStore' \/ \E g \in Flows : Brings(g)'
    BY DEF UpToDate
  <2>2. ok /\ ~view.failed /\ ~behind /\ user = "member" /\ ~(call[f].got < view.shows)
    BY <1>1, <1>3, <1>7, <2>1
  <2>3. call[f].at = "read" /\ call[f].got \in 0 .. inStore
    BY <1>1, <2>2 DEF ViewIInv, CallsSound
  <2>4. CASE view.shows = inStore
    BY <1>0, <1>3, <1>7, <2>2, <2>3, <2>4
  <2>5. CASE \E g \in Flows : Brings(g)
    <3>1. PICK g \in Flows : Brings(g)
      BY <2>5
    <3>2. CASE g = f
      BY <1>3, <1>7, <2>2, <2>3, <3>1, <3>2 DEF Brings
    <3>3. CASE g # f
      BY <1>3, <1>5, <3>1, <3>3 DEF Brings
    <3>4. QED BY <3>2, <3>3
  <2>6. QED BY <1>0, <2>2, <2>4, <2>5 DEF UpToDate
<1>10. QED BY <1>0, <1>2, <1>3, <1>5, <1>7, <1>8, <1>9, ViewSame DEF ViewTypeOK

LEMMA ViewChangeAnswer ==
  ASSUME ViewIInv, NEW c \in Changes, ChangeAnswer(c)
  PROVE  ViewIInv'
<1>0. /\ ViewTypeOK /\ c \in Flows /\ call[c] \in Call /\ call[c].done = 0 /\ told = "true"
      /\ call[c].at = "resent" => call[c].use = "good"
      /\ view \in View /\ UpToDate /\ SpinnerHasACause
      /\ inStore \in 0 .. MaxStored /\ MaxStored \in Nat /\ ~Spinning(c)
      /\ call[c].at \in {"sent", "resent"}
  BY ViewAssumption
     DEF ViewIInv, CallsSound, ToldTheTruth, ViewTypeOK, Flows, ChangeAnswer, Spinning
<1>1. PICK verdict \in {"ok", "refused", "invalid", "lost"}, applied \in {0, 1} :
       /\ verdict = "ok" => applied = 1 /\ call[c].use # "stale"
       /\ verdict \in {"refused", "invalid"} => applied = 0
       /\ call[c].use = "stale" => applied = 0
       /\ inStore + applied <= MaxStored
       /\ inStore' = inStore + applied
       /\ LET f == [call[c] EXCEPT !.done = @ + applied] IN
          /\ call' = [call EXCEPT ![c] =
                        CASE Retried(f, verdict) -> [f EXCEPT !.at = "again"]
                          [] ~Retried(f, verdict) /\ Succeeds(verdict) -> AfterChange
                          [] OTHER -> NoCall]
          /\ view' = IF ~Retried(f, verdict) /\ Succeeds(verdict)
                     THEN [view EXCEPT !.loading = AfterChange # NoCall, !.failed = FALSE]
                     ELSE view
          /\ told' = IF \/ f.done > 1
                        \/ Succeeds(verdict) /\ f.done = 0
                        \/ ~Succeeds(verdict) /\ verdict # "lost" /\ f.done > 0
                     THEN "false" ELSE told
       /\ behind' = \/ behind /\ (verdict # "ok" \/ UnderWay # {c})
                    \/ verdict = "lost" /\ applied = 1
  BY DEF ChangeAnswer
<1>2. UNCHANGED <<user, token, stale>>
  BY DEF ChangeAnswer
<1> DEFINE f == [call[c] EXCEPT !.done = @ + applied]
<1>3. f \in Call /\ f.done = applied /\ f.at = call[c].at
  BY <1>0 DEF Call
<1>4. applied = 0 => f = call[c]
  BY <1>0 DEF Call
<1>5. behind' \in BOOLEAN
  BY <1>1
<1>6. inStore' \in 0 .. MaxStored /\ inStore' >= inStore
  BY <1>0, <1>1
<1> DEFINE Again == verdict = "refused" /\ call[c].at = "sent"
           new == CASE Retried(f, verdict) -> [f EXCEPT !.at = "again"]
                    [] ~Retried(f, verdict) /\ Succeeds(verdict) -> AfterChange
                    [] OTHER -> NoCall
<1>7. Retried(f, verdict) <=> Again
  BY <1>3 DEF Retried
<1>8. told' = "true"
  <2>1. told' = IF \/ f.done > 1
                   \/ Succeeds(verdict) /\ f.done = 0
                   \/ ~Succeeds(verdict) /\ verdict # "lost" /\ f.done > 0
                THEN "false" ELSE told
    BY <1>1
  <2> HIDE DEF f
  <2>2. /\ ~(f.done > 1)
        /\ ~(Succeeds(verdict) /\ f.done = 0)
        /\ ~(~Succeeds(verdict) /\ verdict # "lost" /\ f.done > 0)
    BY <1>1, <1>3 DEF Succeeds
  <2>3. QED BY <1>0, <2>1, <2>2
<1>9. call' = [call EXCEPT ![c] = new]
  BY <1>1
<1>10. CASE verdict = "ok"
  <2>1. ~Retried(f, verdict) /\ Succeeds(verdict)
    BY <1>7, <1>10 DEF Succeeds
  <2>2. new = Reading
    BY <2>1 DEF AfterChange
  <2>3. view' = [view EXCEPT !.loading = TRUE, !.failed = FALSE]
    <3>1. AfterChange # NoCall
      BY CallFields DEF AfterChange
    <3>2. view' = [view EXCEPT !.loading = AfterChange # NoCall, !.failed = FALSE]
      BY <1>1, <2>1
    <3>3. (AfterChange # NoCall) = TRUE
      BY <3>1
    <3>4. QED BY <3>2, <3>3, Zenon
  <2> HIDE DEF new
  <2>4. CallStep(c, Reading)
    BY <1>6, <1>9, <2>2, CallFields DEF CallStep
  <2>5. CallsSound' /\ call'[c] = Reading
    BY <1>0, <2>4, CallsStay
  <2>6. Brings(c)' /\ Spinning(c)'
    BY <2>5, CallFields DEF Brings, Spinning
  <2>7. UpToDate' /\ SpinnerHasACause'
    BY <1>0, <2>6 DEF UpToDate, SpinnerHasACause, Spinning
  <2>8. view' \in View
    BY <1>0, <2>3, ViewFields
  <2>9. QED BY <1>0, <1>2, <1>5, <1>6, <1>8, <2>5, <2>7, <2>8, ViewSame DEF ViewTypeOK
<1>11. CASE verdict # "ok"
  <2>1. ~Succeeds(verdict)
    BY <1>11 DEF Succeeds
  <2>2. view' = view
    BY <1>1, <2>1
  <2>3. new \in Call /\ new.done = 0 /\ new.at \in {"again", "idle"}
    <3>1. CASE Again
      <4>1. applied = 0
        BY <1>1, <3>1
      <4>2. new = [call[c] EXCEPT !.at = "again"]
        BY <1>4, <1>7, <3>1, <4>1
      <4> HIDE DEF new
      <4>3. QED BY <1>0, <4>2 DEF Call
    <3>2. CASE ~Again
      <4>1. new = NoCall
        BY <1>7, <2>1, <3>2
      <4>2. QED BY <4>1, CallFields
    <3>3. QED BY <3>1, <3>2
  <2> HIDE DEF new, f, Again
  <2>4. CallStep(c, new)
    BY <1>6, <1>9, <2>3 DEF CallStep
  <2>5. CallsSound' /\ \A g \in Flows : g # c => call'[g] = call[g]
    BY <1>0, <2>4, CallsStay
  <2>6. SpinnerHasACause'
    BY <1>0, <1>2, <2>2, <2>5 DEF SpinnerHasACause, Spinning
  <2>7. ~behind' => ~behind /\ inStore' = inStore
    BY <1>0, <1>1, <1>11
  <2>8. UpToDate'
    <3>1. SUFFICES ASSUME user' = "member", ~behind' PROVE
            view'.failed \/ view'.shows = inStore' \/ \E g \in Flows : Brings(g)'
      BY DEF UpToDate
    <3>2. CASE \E g \in Flows : Brings(g)
      <4>1. PICK g \in Flows : Brings(g)
        BY <3>2
      <4>2. g # c
        BY <1>0, <4>1 DEF Brings, Spinning
      <4>3. Brings(g)'
        BY <2>5, <2>7, <3>1, <4>1, <4>2 DEF Brings
      <4>4. QED BY <4>3
    <3>3. CASE ~ \E g \in Flows : Brings(g)
      BY <1>0, <1>2, <2>2, <2>7, <3>1, <3>3 DEF UpToDate
    <3>4. QED BY <3>2, <3>3
  <2>9. QED BY <1>0, <1>2, <1>5, <1>6, <1>8, <2>2, <2>5, <2>6, <2>8, ViewSame DEF ViewTypeOK
<1>12. QED BY <1>10, <1>11

\* Steps that no flow takes.
LEMMA ViewQuiet ==
  ASSUME ViewIInv, TokenEnds \/ MockChange \/ UNCHANGED viewVars
  PROVE  ViewIInv'
<1>0. /\ ViewTypeOK /\ CallsSound /\ told = "true" /\ view \in View
      /\ UpToDate /\ SpinnerHasACause /\ MaxStored \in Nat /\ MaxStale \in Nat
  BY ViewAssumption DEF ViewIInv, ToldTheTruth, ViewTypeOK
<1>1. call' = call /\ inStore' = inStore
  BY DEF TokenEnds, MockChange, viewVars
<1>2. CallsSound'
  BY <1>0, <1>1 DEF CallsSound
<1>3. CASE TokenEnds
  <2>1. stale' \in 0 .. MaxStale
    BY <1>0, <1>3 DEF TokenEnds, ViewTypeOK
  <2>2. QED BY <1>0, <1>2, <1>3, <2>1, ViewSame
            DEF TokenEnds, ViewTypeOK, UpToDate, Brings, SpinnerHasACause
<1>4. CASE MockChange
  <2>1. view' = [view EXCEPT !.shows = @ + 1] /\ user = "mock" /\ view.shows < MaxStored
    BY <1>4 DEF MockChange
  <2>2. view.shows + 1 \in Shown
    BY <1>0, <2>1, ViewFields DEF Shown, NoList, Sample
  <2>3. view' \in View /\ view'.loading = view.loading
    BY <1>0, <2>1, <2>2 DEF View
  <2>4. UpToDate'
    BY <1>4 DEF UpToDate, MockChange
  <2>5. SpinnerHasACause'
    BY <1>0, <1>1, <1>4, <2>3 DEF SpinnerHasACause, MockChange
  <2>6. QED BY <1>0, <1>2, <1>4, <2>3, <2>4, <2>5, ViewSame DEF MockChange, ViewTypeOK
<1>5. CASE UNCHANGED viewVars
  BY <1>0, <1>2, <1>5, ViewSame
     DEF viewVars, ViewTypeOK, UpToDate, Brings, SpinnerHasACause
<1>6. QED BY <1>3, <1>4, <1>5

LEMMA ViewKeeps == ASSUME ViewIInv, [ViewNext]_viewVars PROVE ViewIInv'
<1>1. CASE UserKnown \/ TokenRenewed \/ Reread
  BY <1>1, ViewPages
<1>2. CASE \E f \in Flows : ReadHandled(f) \/ ReadAnswer(f)
  BY <1>2, ViewReadHandled, ViewReadAnswer
<1>3. CASE \E c \in Changes : ChangeStart(c) \/ Refreshed(c) \/ ChangeAnswer(c)
  BY <1>3, ViewStart, ViewRefreshed, ViewChangeAnswer
<1>4. CASE TokenEnds \/ MockChange \/ UNCHANGED viewVars
  BY <1>4, ViewQuiet
<1>5. QED BY <1>1, <1>2, <1>3, <1>4 DEF ViewNext

\* The tab is told of a change what became of it, a repeated change is carried out
\* at most once, and with nothing under way a member sees what the API holds unless
\* a read failed, an answer was lost or reads answered out of order: for any number
\* of changes under way (AssetContext.tsx, fetchHoldings and apiMutate).
THEOREM TabAndStore == ViewSpec => []ViewInv
<1>1. ViewIInv /\ [ViewNext]_viewVars => ViewIInv'
  BY ViewKeeps
<1>2. QED BY <1>1, ViewStarts, ViewMeans, PTL DEF ViewSpec

-----------------------------------------------------------------------------
(* AssetEntry: rows on their way into the book *)

Requests == {"now", "old"}

\* Unless the cart has been changed since, it was sent as it is.
CartIsSent == ~edited /\ Submitting => cart \subseteq post["now"].rows

\* As long as no page was left with a request under way, a row that is stored was
\* answered for, or is of the request that is; none is stored twice before.
OneRequest ==
  ~outrun =>
    /\ post["old"] = NoPost
    /\ \A r \in Rows : stored[r] > 0 =>
         r \in heard \/ (post["now"].handled /\ r \in post["now"].rows)
    /\ \A r \in Rows : stored[r] > 1 => r \in heard

\* The rows of a request that was handled are stored, but for those it names.
HandledIsStored ==
  \A p \in Requests : post[p].handled => \A r \in post[p].rows \ post[p].failed : r \in Known

EntryIInv ==
  EntryTypeOK /\ CompleteWasAnswered /\ CartIsSent /\ OneRequest /\ HandledIsStored

LEMMA EntryMeans == EntryIInv => EntryInv
<1>1. OneRequest => NoSilentDouble
  BY DEF OneRequest, NoSilentDouble
<1>2. QED BY <1>1 DEF EntryIInv, EntryInv

LEMMA PostFields ==
  /\ NoPost \in Post /\ NoPost.rows = {} /\ NoPost.handled = FALSE
  /\ \A q \in Post : /\ q.from \in {"book", "direct", "confirm"} /\ q.rows \subseteq Rows
                     /\ q.failed \subseteq Rows /\ q.handled \in BOOLEAN
<1>1. NoPost \in Post
  BY DEF NoPost, Post
<1>2. NoPost.rows = {} /\ NoPost.handled = FALSE
  BY DEF NoPost
<1>3. ASSUME NEW q \in Post
      PROVE  /\ q.from \in {"book", "direct", "confirm"} /\ q.rows \subseteq Rows
             /\ q.failed \subseteq Rows /\ q.handled \in BOOLEAN
  BY DEF Post
<1>4. QED BY <1>1, <1>2, <1>3

\* Elements of the sets that steps put rows into.
LEMMA RowSets ==
  /\ \A r : r \in Sent <=> r \in post["now"].rows \/ r \in post["old"].rows
  /\ \A r : r \in Known <=> r \in Rows /\ stored[r] > 0
  /\ \A r \in FreshRows : r \in Rows
BY DEF Sent, Known, FreshRows

LEMMA EntryStarts == EntryInit => EntryIInv
<1> SUFFICES ASSUME EntryInit PROVE EntryIInv
  OBVIOUS
<1>1. \A p \in Requests : post[p] = NoPost
  BY DEF EntryInit, Requests
<1>2. post \in [{"now", "old"} -> Post]
  BY PostFields DEF EntryInit
<1>3. stored \in [Rows -> 0 .. MaxStore] /\ \A r \in Rows : stored[r] = 0
  BY EntryAssumption DEF EntryInit
<1>4. EntryTypeOK
  <2>1. page \in Pages /\ step \in 1 .. 3
    BY DEF EntryInit, Pages
  <2>4. signed \in BOOLEAN /\ reading \in BOOLEAN /\ edited \in BOOLEAN /\ outrun \in BOOLEAN
    BY DEF EntryInit
  <2>2. /\ pending \subseteq Rows /\ cart \subseteq Rows /\ blank \subseteq cart
        /\ dropped \subseteq Rows /\ heard \subseteq Rows
    BY DEF EntryInit
  <2>3. QED BY <1>2, <1>3, <2>1, <2>2, <2>4 DEF EntryTypeOK
<1>5. CompleteWasAnswered /\ CartIsSent
  BY DEF EntryInit, CompleteWasAnswered, CartIsSent
<1>6. OneRequest
  BY <1>1, <1>3 DEF OneRequest, Requests
<1>7. HandledIsStored
  BY <1>1, PostFields DEF HandledIsStored
<1>8. QED BY <1>4, <1>5, <1>6, <1>7 DEF EntryIInv

\* Nothing of the requests and of what is stored changes.
LEMMA EntryQuiet ==
  ASSUME EntryIInv, EntryTypeOK', UNCHANGED <<post, stored, heard, outrun>>,
         CompleteWasAnswered', CartIsSent'
  PROVE  EntryIInv'
<1>1. OneRequest'
  BY DEF EntryIInv, OneRequest
<1>2. Known' = Known
  BY DEF Known
<1>3. HandledIsStored'
  BY <1>2 DEF EntryIInv, HandledIsStored
<1>4. QED BY <1>1, <1>3 DEF EntryIInv

\* Nothing of the cart, either.
LEMMA EntryStill ==
  ASSUME EntryIInv, EntryTypeOK',
         UNCHANGED <<post, stored, heard, outrun, cart, edited, signed, page>>,
         step' = step \/ step' \in 1 .. 2
  PROVE  EntryIInv'
<1>1. CompleteWasAnswered'
  BY DEF EntryIInv, CompleteWasAnswered
<1>2. CartIsSent'
  BY DEF EntryIInv, CartIsSent, Submitting
<1>3. QED BY <1>1, <1>2, EntryQuiet

\* The requests when a page is left: that of the page becomes the older one, which
\* no other was.
LEMMA PostsMoved ==
  ASSUME EntryTypeOK,
         post["old"] = NoPost \/ ~Submitting,
         post' = IF Submitting THEN [now |-> NoPost, old |-> post["now"]] ELSE post
  PROVE  /\ post' \in [{"now", "old"} -> Post]
         /\ post'["now"] = NoPost
         /\ ~Submitting => post' = post
         /\ \A p \in Requests : post'[p].handled => \E q \in Requests : post'[p] = post[q]
         /\ \A r : r \in Sent <=> r \in Sent'
<1>0. post["now"] \in Post /\ post["old"] \in Post /\ post \in [{"now", "old"} -> Post]
  BY DEF EntryTypeOK
<1>1. CASE Submitting
  <2>1. post' = [now |-> NoPost, old |-> post["now"]] /\ post["old"] = NoPost
    BY <1>1
  <2>2. post'["now"] = NoPost /\ post'["old"] = post["now"]
    BY <2>1
  <2>3. post' \in [{"now", "old"} -> Post]
    <3>1. \A x, y \in Post : [now |-> x, old |-> y] \in [{"now", "old"} -> Post]
      OBVIOUS
    <3>2. QED BY <1>0, <2>1, <3>1, PostFields
  <2>4. \A r : r \in Sent <=> r \in Sent'
    BY <2>1, <2>2, PostFields DEF Sent
  <2>5. \A p \in Requests : post'[p].handled => \E q \in Requests : post'[p] = post[q]
    BY <2>2, PostFields DEF Requests
  <2>6. QED BY <1>1, <2>2, <2>3, <2>4, <2>5
<1>2. CASE ~Submitting
  <2>1. post' = post
    BY <1>2
  <2>2. post'["now"] = NoPost
    BY <1>2, <2>1 DEF Submitting
  <2>3. \A r : r \in Sent <=> r \in Sent'
    BY <2>1 DEF Sent
  <2>4. QED BY <1>0, <2>1, <2>2, <2>3
<1>3. QED BY <1>1, <1>2

\* A page is left.
LEMMA EntryLeft ==
  ASSUME EntryIInv, EntryTypeOK',
         post["old"] = NoPost \/ ~Submitting,
         post' = IF Submitting THEN [now |-> NoPost, old |-> post["now"]] ELSE post,
         outrun' = (outrun \/ Submitting), UNCHANGED <<stored, heard>>,
         page' = "direct" => step' \in 1 .. 2
  PROVE  EntryIInv'
<1>1. /\ post'["now"] = NoPost
      /\ ~Submitting => post' = post
      /\ \A p \in Requests : post'[p].handled => \E q \in Requests : post'[p] = post[q]
  BY PostsMoved DEF EntryIInv
<1>2. CompleteWasAnswered'
  BY DEF CompleteWasAnswered
<1>3. CartIsSent'
  BY <1>1 DEF CartIsSent, Submitting
<1>4. OneRequest'
  <2>1. ~outrun' => ~outrun /\ post' = post
    BY <1>1 DEF EntryIInv, EntryTypeOK
  <2>2. QED BY <2>1 DEF OneRequest, EntryIInv
<1>5. Known' = Known
  BY DEF Known
<1>6. HandledIsStored'
  BY <1>1, <1>5 DEF HandledIsStored, EntryIInv
<1>7. QED BY <1>2, <1>3, <1>4, <1>6 DEF EntryIInv

\* A page is shown with what was handed over.
LEMMA MountedTypes ==
  ASSUME NEW p \in Pages, NEW given \in SUBSET Rows, Mounted(p, given)
  PROVE  /\ page' = p /\ pending' \subseteq Rows /\ cart' \subseteq Rows /\ blank' \subseteq cart'
         /\ step' \in 1 .. 2 /\ step' \in 1 .. 3
         /\ cart' \subseteq given /\ pending' \subseteq given
         /\ p = "direct" => cart' = given
         /\ p # "direct" => pending' = given
BY DEF Mounted

LEMMA EntryGoes == ASSUME EntryIInv, EntryGo PROVE EntryIInv'
<1>0. EntryTypeOK
  BY DEF EntryIInv
<1>1. PICK p \in Pages : Mounted(p, pending)
  BY DEF EntryGo
<1>2. /\ post["old"] = NoPost \/ ~Submitting
      /\ post' = IF Submitting THEN [now |-> NoPost, old |-> post["now"]] ELSE post
      /\ outrun' = (outrun \/ Submitting)
      /\ dropped' = dropped \cup (cart \ (Sent \cup Known \cup pending))
      /\ edited' = FALSE
      /\ UNCHANGED <<signed, reading, stored, heard>>
  BY DEF EntryGo, PageLeft
<1>3. post' \in [{"now", "old"} -> Post]
  BY <1>0, <1>2, PostsMoved
<1>4. /\ page' = p /\ pending' \subseteq Rows /\ cart' \subseteq Rows /\ blank' \subseteq cart'
      /\ step' \in 1 .. 2 /\ step' \in 1 .. 3
  BY <1>0, <1>1, MountedTypes DEF EntryTypeOK
<1>5. outrun' \in BOOLEAN /\ edited' \in BOOLEAN
  BY <1>2
<1>6. dropped' \subseteq Rows
  BY <1>0, <1>2 DEF EntryTypeOK
<1>7. EntryTypeOK'
  BY <1>0, <1>2, <1>3, <1>4, <1>5, <1>6 DEF EntryTypeOK
<1>8. QED BY <1>2, <1>4, <1>7, EntryLeft

LEMMA EntryPushes ==
  ASSUME EntryIInv, NEW given \in SUBSET Rows, PushDirect(given),
         reading' \in BOOLEAN, UNCHANGED <<signed, stored, heard>>
  PROVE  EntryIInv'
<1>0. EntryTypeOK
  BY DEF EntryIInv
<1>1. CASE page = "direct"
  <2>1. /\ pending' = given /\ UNCHANGED <<page, cart, step, blank, post, outrun, edited>>
        /\ dropped' = dropped \cup (pending \ given)
    BY <1>1 DEF PushDirect
  <2>2. dropped' \subseteq Rows
    BY <1>0, <2>1 DEF EntryTypeOK
  <2>3. EntryTypeOK'
    BY <1>0, <2>1, <2>2 DEF EntryTypeOK
  <2>4. QED BY <2>1, <2>3, EntryStill
<1>2. CASE page # "direct"
  <2>1. /\ Mounted("direct", given)
        /\ post["old"] = NoPost \/ ~Submitting
        /\ post' = IF Submitting THEN [now |-> NoPost, old |-> post["now"]] ELSE post
        /\ outrun' = (outrun \/ Submitting)
        /\ dropped' = dropped \cup ((cart \cup pending) \ (given \cup Sent \cup Known))
        /\ edited' = FALSE
    BY <1>2 DEF PushDirect
  <2>2. post' \in [{"now", "old"} -> Post]
    BY <1>0, <2>1, PostsMoved
  <2>3. /\ page' = "direct" /\ pending' \subseteq Rows /\ cart' \subseteq Rows
        /\ blank' \subseteq cart' /\ step' \in 1 .. 2 /\ step' \in 1 .. 3
    <3>1. "direct" \in Pages
      BY DEF Pages
    <3>2. QED BY <2>1, <3>1, MountedTypes
  <2>4. outrun' \in BOOLEAN /\ edited' \in BOOLEAN
    BY <2>1
  <2>5. dropped' \subseteq Rows
    BY <1>0, <2>1 DEF EntryTypeOK
  <2>6. page' \in Pages
    BY <2>3 DEF Pages
  <2>7. EntryTypeOK'
    BY <1>0, <2>2, <2>3, <2>4, <2>5, <2>6 DEF EntryTypeOK
  <2>8. QED BY <2>1, <2>3, <2>7, EntryLeft
<1>3. QED BY <1>1, <1>2

LEMMA EntryUploads ==
  ASSUME EntryIInv, CsvHandsOver \/ OcrStart \/ OcrAnswer \/ OcrFails
  PROVE  EntryIInv'
<1>0. EntryTypeOK
  BY DEF EntryIInv
<1>1. \A rows \in SUBSET FreshRows : rows \in SUBSET Rows
  BY RowSets
<1>2. CASE CsvHandsOver
  <2>1. PICK rows \in SUBSET FreshRows : PushDirect(rows)
    BY <1>2 DEF CsvHandsOver
  <2>2. reading' \in BOOLEAN /\ UNCHANGED <<signed, stored, heard>>
    BY <1>0, <1>2 DEF CsvHandsOver, EntryTypeOK
  <2>3. QED BY <1>1, <2>1, <2>2, EntryPushes
<1>3. CASE OcrAnswer
  <2>1. PICK rows \in SUBSET Rows : PushDirect(rows)
    <3>1. pending \in SUBSET Rows
      BY <1>0 DEF EntryTypeOK
    <3>2. QED BY <1>1, <1>3, <3>1 DEF OcrAnswer
  <2>2. reading' \in BOOLEAN /\ UNCHANGED <<signed, stored, heard>>
    BY <1>3 DEF OcrAnswer
  <2>3. QED BY <2>1, <2>2, EntryPushes
<1>4. CASE OcrStart \/ OcrFails
  <2>1. /\ UNCHANGED <<page, signed, pending, step, cart, blank, post, stored, dropped, heard,
                       edited, outrun>>
        /\ reading' \in BOOLEAN
    BY <1>4 DEF OcrStart, OcrFails
  <2>2. EntryTypeOK'
    BY <1>0, <2>1 DEF EntryTypeOK
  <2>3. QED BY <2>1, <2>2, EntryStill
<1>5. QED BY <1>2, <1>3, <1>4

\* The rows of a page change, where the last step is not shown.
LEMMA EntryRows ==
  ASSUME EntryIInv, AddToCart \/ AddBlankRow \/ TableRemove \/ SideRemove \/ TableUpdate
  PROVE  EntryIInv'
<1>0. EntryTypeOK /\ CartIsSent /\ FreshRows \subseteq Rows
  BY RowSets DEF EntryIInv
<1>1. PICK rows \in SUBSET Rows :
        CartIs(rows) /\ blank' \subseteq rows /\ dropped' \subseteq Rows
  <2>1. CASE AddToCart
    <3>1. PICK r \in FreshRows : CartIs(cart \cup {r})
      BY <2>1 DEF AddToCart
    <3>2. /\ cart \cup {r} \in SUBSET Rows /\ blank' \subseteq cart \cup {r}
          /\ dropped' \subseteq Rows
      BY <1>0, <2>1, <3>1 DEF AddToCart, EntryTypeOK
    <3>3. QED BY <3>1, <3>2
  <2>2. CASE AddBlankRow
    <3>1. PICK r \in FreshRows : CartIs(cart \cup {r}) /\ blank' = blank \cup {r}
      BY <2>2 DEF AddBlankRow
    <3>2. /\ cart \cup {r} \in SUBSET Rows /\ blank' \subseteq cart \cup {r}
          /\ dropped' \subseteq Rows
      BY <1>0, <2>2, <3>1 DEF AddBlankRow, EntryTypeOK
    <3>3. QED BY <3>1, <3>2
  <2>3. CASE TableRemove \/ SideRemove
    <3>1. PICK r \in cart : RowRemoved(r)
      BY <2>3 DEF TableRemove, SideRemove
    <3>2. CartIs(cart \ {r})
      BY <3>1 DEF RowRemoved
    <3>3. cart \ {r} \in SUBSET Rows /\ blank' \subseteq cart \ {r} /\ dropped' \subseteq Rows
      BY <1>0, <3>1 DEF RowRemoved, EntryTypeOK
    <3>4. QED BY <3>2, <3>3
  <2>4. CASE TableUpdate
    <3>1. CartIs(cart)
      BY <2>4 DEF TableUpdate
    <3>2. cart \in SUBSET Rows /\ blank' \subseteq cart /\ dropped' \subseteq Rows
      BY <1>0, <2>4 DEF TableUpdate, EntryTypeOK
    <3>3. QED BY <3>1, <3>2
  <2>5. QED BY <2>1, <2>2, <2>3, <2>4
<1>2. /\ cart' = rows /\ edited' = (edited \/ Submitting)
      /\ UNCHANGED <<page, signed, pending, step, post, reading, stored, heard, outrun>>
  BY <1>1 DEF CartIs
<1>3. edited' \in BOOLEAN
  BY <1>2
<1>4. EntryTypeOK'
  BY <1>0, <1>1, <1>2, <1>3 DEF EntryTypeOK
<1>5. page # "direct" \/ step # 3
  BY DEF AddToCart, AddBlankRow, TableRemove, SideRemove, TableUpdate
<1>6. CompleteWasAnswered'
  BY <1>2, <1>5 DEF CompleteWasAnswered
<1>7. CartIsSent'
  BY <1>2 DEF CartIsSent, Submitting
<1>8. QED BY <1>2, <1>4, <1>6, <1>7, EntryQuiet

LEMMA EntrySteps ==
  ASSUME EntryIInv, ToReview \/ BackToFill \/ Sidebar \/ UNCHANGED entryVars
  PROVE  EntryIInv'
<1>0. EntryTypeOK
  BY DEF EntryIInv
<1>1. CASE ToReview \/ BackToFill \/ Sidebar
  <2>1. PICK n \in 1 .. 2 : StepIs(n)
    BY <1>1 DEF ToReview, BackToFill, Sidebar
  <2>2. /\ step' \in 1 .. 2 /\ step' \in 1 .. 3
        /\ UNCHANGED <<page, signed, pending, cart, blank, post, reading, stored, dropped, heard,
                       edited, outrun>>
    BY <2>1 DEF StepIs
  <2>3. EntryTypeOK'
    BY <1>0, <2>2 DEF EntryTypeOK
  <2>4. QED BY <2>2, <2>3, EntryStill
<1>2. CASE UNCHANGED entryVars
  <2>1. EntryTypeOK'
    BY <1>0, <1>2 DEF EntryTypeOK, entryVars
  <2>2. QED BY <1>2, <2>1, EntryStill DEF entryVars
<1>3. QED BY <1>1, <1>2

\* A page sends its rows; there is no other request of it.
LEMMA EntrySends ==
  ASSUME EntryIInv, MaySend, SendsCart, page \in {"direct", "confirm"},
         page = "direct" => step = 2
  PROVE  EntryIInv'
<1>0. EntryTypeOK
  BY DEF EntryIInv
<1> DEFINE spoilt == page = "direct" /\ blank # {}
           new == [from |-> page, rows |-> cart, handled |-> FALSE, failed |-> {},
                   spoilt |-> spoilt]
<1>1. /\ post' = [post EXCEPT !["now"] = new] /\ edited' = FALSE
      /\ UNCHANGED <<page, signed, pending, step, cart, blank, reading, stored, dropped, heard,
                     outrun>>
  BY DEF SendsCart
<1>2. new \in Post /\ new.rows = cart /\ new.handled = FALSE
  <2>1. spoilt \in BOOLEAN
    OBVIOUS
  <2> HIDE DEF spoilt
  <2>2. cart \in SUBSET Rows
    BY <1>0 DEF EntryTypeOK
  <2>3. QED BY <2>1, <2>2 DEF Post
<1> HIDE DEF new
<1>3. /\ post' \in [{"now", "old"} -> Post]
      /\ post'["now"] = new /\ post'["old"] = post["old"]
  BY <1>0, <1>1, <1>2 DEF EntryTypeOK
<1>4. edited' \in BOOLEAN
  BY <1>1
<1>5. EntryTypeOK'
  BY <1>0, <1>1, <1>3, <1>4 DEF EntryTypeOK
<1>6. CompleteWasAnswered'
  BY <1>1 DEF CompleteWasAnswered
<1>7. CartIsSent'
  BY <1>1, <1>2, <1>3 DEF CartIsSent
<1>8. ~post["now"].handled
  BY PostFields DEF MaySend, Submitting
<1>9. OneRequest'
  BY <1>1, <1>3, <1>8 DEF EntryIInv, OneRequest
<1>10. Known' = Known
  BY <1>1 DEF Known
<1>11. HandledIsStored'
  BY <1>2, <1>3, <1>10 DEF EntryIInv, HandledIsStored, Requests
<1>12. QED BY <1>5, <1>6, <1>7, <1>9, <1>11 DEF EntryIInv

LEMMA EntrySubmits == ASSUME EntryIInv, SubmitCart \/ Register PROVE EntryIInv'
<1>0. EntryTypeOK
  BY DEF EntryIInv
<1>1. CASE Register
  BY <1>1, EntrySends DEF Register
<1>2. CASE SubmitCart /\ SendsCart
  BY <1>2, EntrySends DEF SubmitCart
<1>3. CASE SubmitCart /\ ~SendsCart
  <2>1. /\ ~signed /\ ~Submitting
        /\ step' = 3 /\ pending' = {} /\ edited' = FALSE
        /\ dropped' = dropped \cup cart \cup pending
        /\ UNCHANGED <<page, signed, cart, blank, post, reading, stored, heard, outrun>>
    BY <1>3 DEF SubmitCart
  <2>2. /\ step' \in 1 .. 3 /\ pending' \subseteq Rows /\ dropped' \subseteq Rows
    BY <1>0, <2>1 DEF EntryTypeOK
  <2>3. edited' \in BOOLEAN
    BY <2>1
  <2>4. EntryTypeOK'
    BY <1>0, <2>1, <2>2, <2>3 DEF EntryTypeOK
  <2>5. CompleteWasAnswered' /\ CartIsSent'
    BY <2>1 DEF CompleteWasAnswered, CartIsSent, Submitting
  <2>6. QED BY <2>1, <2>4, <2>5, EntryQuiet
<1>4. QED BY <1>1, <1>2, <1>3

LEMMA EntryHandled ==
  ASSUME EntryIInv, NEW p \in Requests, PostHandled(p)
  PROVE  EntryIInv'
<1>0. EntryTypeOK /\ post[p] \in Post /\ MaxStore \in Nat /\ p \in {"now", "old"}
  BY EntryAssumption DEF EntryIInv, EntryTypeOK, Requests
<1>1. PICK failed \in SUBSET post[p].rows :
       /\ \A r \in post[p].rows \ failed : stored[r] < MaxStore
       /\ stored' = [r \in Rows |-> IF r \in post[p].rows \ failed
                                    THEN stored[r] + 1 ELSE stored[r]]
       /\ post' = [post EXCEPT ![p].handled = TRUE, ![p].failed = failed]
  BY DEF PostHandled
<1>2. /\ post[p] # NoPost /\ ~post[p].handled
      /\ UNCHANGED <<page, signed, pending, step, cart, blank, reading, dropped, heard, edited,
                     outrun>>
  BY DEF PostHandled
<1> DEFINE new == [post[p] EXCEPT !.handled = TRUE, !.failed = failed]
<1>3. /\ new \in Post /\ new.rows = post[p].rows /\ new.handled = TRUE /\ new.failed = failed
  <2>1. failed \in SUBSET Rows
    BY <1>0, <1>1, PostFields
  <2>2. new \in Post
    BY <1>0, <2>1 DEF Post
  <2>3. new.rows = post[p].rows /\ new.failed = failed
    BY <1>0 DEF Post
  <2>4. new.handled = TRUE
    BY <1>0 DEF Post
  <2>5. QED BY <2>2, <2>3, <2>4
<1>4. post' = [post EXCEPT ![p] = new]
  BY <1>0, <1>1 DEF EntryTypeOK
<1> HIDE DEF new
<1>5. /\ post' \in [{"now", "old"} -> Post] /\ post'[p] = new
      /\ \A q \in Requests : q # p => post'[q] = post[q]
  BY <1>0, <1>3, <1>4 DEF EntryTypeOK, Requests
<1>6. \A r \in Rows : stored[r] \in 0 .. MaxStore
  BY <1>0 DEF EntryTypeOK
<1>7. \A r \in Rows : /\ r \in new.rows \ failed => stored'[r] = stored[r] + 1 /\ stored[r] < MaxStore
                      /\ r \notin new.rows \ failed => stored'[r] = stored[r]
  BY <1>1, <1>3
<1>8. stored' \in [Rows -> 0 .. MaxStore]
  <2>1. \A r \in Rows : stored'[r] \in 0 .. MaxStore
    BY <1>0, <1>6, <1>7
  <2>2. QED BY <1>1, <2>1
<1>9. EntryTypeOK'
  BY <1>0, <1>2, <1>5, <1>8 DEF EntryTypeOK
<1>10. CompleteWasAnswered'
  BY <1>2 DEF EntryIInv, CompleteWasAnswered
<1>11. CartIsSent'
  <2>1. post'["now"].rows = post["now"].rows /\ (Submitting' => Submitting)
    BY <1>2, <1>3, <1>5 DEF Submitting, Requests
  <2>2. QED BY <1>2, <2>1 DEF CartIsSent, EntryIInv
<1>12. OneRequest'
  <2>1. SUFFICES ASSUME ~outrun'
                 PROVE  /\ post'["old"] = NoPost
                        /\ \A r \in Rows : stored'[r] > 0 =>
                             r \in heard' \/ (post'["now"].handled /\ r \in post'["now"].rows)
                        /\ \A r \in Rows : stored'[r] > 1 => r \in heard'
    BY DEF OneRequest
  <2>2. /\ post["old"] = NoPost
        /\ \A r \in Rows : stored[r] > 0 =>
             r \in heard \/ (post["now"].handled /\ r \in post["now"].rows)
        /\ \A r \in Rows : stored[r] > 1 => r \in heard
    BY <1>2, <2>1 DEF OneRequest, EntryIInv
  <2>3. p = "now"
    BY <1>2, <2>2 DEF Requests
  <2>4. \A r \in Rows : stored[r] > 0 => r \in heard
    BY <1>2, <2>2, <2>3
  <2>5. post'["old"] = NoPost
    BY <1>5, <2>2, <2>3 DEF Requests
  <2>6. ASSUME NEW r \in Rows, stored'[r] > 0
        PROVE  r \in heard' \/ (post'["now"].handled /\ r \in post'["now"].rows)
    <3>1. CASE r \in new.rows \ failed
      BY <1>3, <1>5, <2>3, <3>1
    <3>2. CASE r \notin new.rows \ failed
      BY <1>2, <1>7, <2>4, <2>6, <3>2
    <3>3. QED BY <3>1, <3>2
  <2>7. ASSUME NEW r \in Rows, stored'[r] > 1 PROVE r \in heard'
    <3>1. stored[r] > 0
      BY <1>0, <1>6, <1>7, <2>7
    <3>2. QED BY <1>2, <2>4, <3>1
  <2>8. QED BY <2>5, <2>6, <2>7
<1>13. \A r \in Known : r \in Known'
  <2>1. \A r \in Rows : stored[r] > 0 => stored'[r] > 0
    BY <1>6, <1>7
  <2>2. QED BY <2>1 DEF Known
<1>14. HandledIsStored'
  <2>1. SUFFICES ASSUME NEW q \in Requests, post'[q].handled,
                        NEW r \in post'[q].rows \ post'[q].failed
                 PROVE  r \in Known'
    BY DEF HandledIsStored
  <2>2. CASE q = p
    <3>1. r \in Rows /\ r \in new.rows \ failed
      BY <1>3, <1>5, <2>1, <2>2, PostFields
    <3>2. stored'[r] > 0
      BY <1>6, <1>7, <3>1
    <3>3. QED BY <3>1, <3>2 DEF Known
  <2>3. CASE q # p
    BY <1>5, <1>13, <2>1, <2>3 DEF HandledIsStored, EntryIInv
  <2>4. QED BY <2>2, <2>3
<1>15. QED BY <1>9, <1>10, <1>11, <1>12, <1>14 DEF EntryIInv

\* A request is over: the user has heard of its rows.
LEMMA EntryAnswered ==
  ASSUME EntryIInv, EntryTypeOK', NEW p \in Requests,
         post' = [post EXCEPT ![p] = NoPost], heard' = heard \cup post[p].rows,
         UNCHANGED <<stored, outrun>>, CompleteWasAnswered', CartIsSent'
  PROVE  EntryIInv'
<1>0. EntryTypeOK
  BY DEF EntryIInv
<1>1. post'[p] = NoPost /\ \A q \in Requests : q # p => post'[q] = post[q]
  BY <1>0 DEF EntryTypeOK, Requests
<1>2. OneRequest'
  <2>1. SUFFICES ASSUME ~outrun'
                 PROVE  /\ post'["old"] = NoPost
                        /\ \A r \in Rows : stored'[r] > 0 =>
                             r \in heard' \/ (post'["now"].handled /\ r \in post'["now"].rows)
                        /\ \A r \in Rows : stored'[r] > 1 => r \in heard'
    BY DEF OneRequest
  <2>2. /\ post["old"] = NoPost
        /\ \A r \in Rows : stored[r] > 0 =>
             r \in heard \/ (post["now"].handled /\ r \in post["now"].rows)
        /\ \A r \in Rows : stored[r] > 1 => r \in heard
    BY <2>1 DEF OneRequest, EntryIInv
  <2>3. post'["old"] = NoPost
    BY <1>1, <2>2 DEF Requests
  <2>4. \A r \in Rows : stored'[r] > 1 => r \in heard'
    BY <2>2
  <2>5. \A r \in Rows : stored'[r] > 0 =>
          r \in heard' \/ (post'["now"].handled /\ r \in post'["now"].rows)
    <3>1. CASE p = "now"
      BY <2>2, <3>1
    <3>2. CASE p # "now"
      BY <1>1, <2>2, <3>2 DEF Requests
    <3>3. QED BY <3>1, <3>2
  <2>6. QED BY <2>3, <2>4, <2>5
<1>3. Known' = Known
  BY DEF Known
<1>4. HandledIsStored'
  BY <1>1, <1>3, PostFields DEF HandledIsStored, EntryIInv
<1>5. QED BY <1>2, <1>4 DEF EntryIInv

LEMMA AnsweredTypes ==
  ASSUME EntryTypeOK, NEW p \in Requests, post' = [post EXCEPT ![p] = NoPost],
         heard' = heard \cup post[p].rows
  PROVE  /\ post' \in [{"now", "old"} -> Post] /\ heard' \subseteq Rows
         /\ post[p].rows \subseteq Rows /\ post[p].failed \subseteq Rows
<1>1. post[p] \in Post
  BY DEF EntryTypeOK, Requests
<1>2. post[p].rows \subseteq Rows /\ post[p].failed \subseteq Rows
  BY <1>1, PostFields
<1>3. post' \in [{"now", "old"} -> Post]
  BY PostFields DEF EntryTypeOK, Requests
<1>4. heard' \subseteq Rows
  BY <1>2 DEF EntryTypeOK
<1>5. QED BY <1>2, <1>3, <1>4

\* Which request a cart was sent with is not touched by the end of another.
LEMMA CartStaysSent ==
  ASSUME EntryIInv, NEW p \in Requests, post' = [post EXCEPT ![p] = NoPost],
         edited' = edited, cart' = cart
  PROVE  CartIsSent'
<1>1. post'[p] = NoPost /\ \A q \in Requests : q # p => post'[q] = post[q]
  BY DEF EntryIInv, EntryTypeOK, Requests
<1>2. CASE p = "now"
  BY <1>1, <1>2 DEF CartIsSent, Submitting
<1>3. CASE p # "now"
  BY <1>1, <1>3 DEF CartIsSent, Submitting, EntryIInv, Requests
<1>4. QED BY <1>2, <1>3

LEMMA EntrySaved ==
  ASSUME EntryIInv, NEW p \in Requests, CartSaved(p)
  PROVE  EntryIInv'
<1>0. EntryTypeOK
  BY DEF EntryIInv
<1>1. /\ post[p].handled /\ post' = [post EXCEPT ![p] = NoPost]
      /\ step' = IF p = "now" THEN 3 ELSE step
      /\ heard' = heard \cup post[p].rows
      /\ pending' = {}
      /\ dropped' = dropped \cup ((pending \cup post[p].failed) \ (cart \cup Known))
      /\ UNCHANGED <<page, signed, cart, blank, reading, stored, edited, outrun>>
  BY DEF CartSaved, Heard, Swept
<1>2. /\ post' \in [{"now", "old"} -> Post] /\ heard' \subseteq Rows
      /\ post[p].failed \subseteq Rows
  BY <1>0, <1>1, AnsweredTypes
<1>3. step' \in 1 .. 3 /\ dropped' \subseteq Rows /\ pending' \subseteq Rows
  BY <1>0, <1>1, <1>2 DEF EntryTypeOK
<1>4. EntryTypeOK'
  BY <1>0, <1>1, <1>2, <1>3 DEF EntryTypeOK
<1>5. CompleteWasAnswered'
  <2>1. CASE p = "now"
    <3>1. Submitting
      BY <1>1, <2>1, PostFields DEF Submitting
    <3>2. QED BY <1>1, <2>1, <3>1 DEF CompleteWasAnswered, CartIsSent, EntryIInv
  <2>2. CASE p # "now"
    BY <1>1, <2>2 DEF CompleteWasAnswered, EntryIInv
  <2>3. QED BY <2>1, <2>2
<1>6. CartIsSent'
  BY <1>1, CartStaysSent
<1>7. QED BY <1>1, <1>4, <1>5, <1>6, EntryAnswered

LEMMA EntryRegistered ==
  ASSUME EntryIInv, NEW p \in Requests, Registered(p)
  PROVE  EntryIInv'
<1>0. EntryTypeOK
  BY DEF EntryIInv
<1>1. /\ post' = [post EXCEPT ![p] = NoPost]
      /\ page' = "book" /\ cart' = {} /\ blank' = {} /\ step' = 1 /\ edited' = FALSE
      /\ pending' = {} /\ heard' = heard \cup post[p].rows
      /\ dropped' = dropped \cup ((pending \cup cart \cup post[p].failed) \ Known)
      /\ UNCHANGED <<signed, reading, stored, outrun>>
  BY DEF Registered, Heard
<1>2. /\ post' \in [{"now", "old"} -> Post] /\ heard' \subseteq Rows
      /\ post[p].failed \subseteq Rows
  BY <1>0, <1>1, AnsweredTypes
<1>3. /\ page' \in Pages /\ step' \in 1 .. 3
  BY <1>1 DEF Pages
<1>4. /\ cart' \subseteq Rows /\ blank' \subseteq cart' /\ pending' \subseteq Rows
      /\ dropped' \subseteq Rows
  BY <1>0, <1>1, <1>2 DEF EntryTypeOK
<1>5. edited' \in BOOLEAN
  BY <1>1
<1>6. EntryTypeOK'
  BY <1>0, <1>1, <1>2, <1>3, <1>4, <1>5 DEF EntryTypeOK
<1>7. CompleteWasAnswered' /\ CartIsSent'
  BY <1>1 DEF CompleteWasAnswered, CartIsSent
<1>8. QED BY <1>1, <1>6, <1>7, EntryAnswered

LEMMA EntryFails ==
  ASSUME EntryIInv, NEW p \in Requests, PostFails(p)
  PROVE  EntryIInv'
<1>0. EntryTypeOK
  BY DEF EntryIInv
<1>1. /\ post' = [post EXCEPT ![p] = NoPost]
      /\ heard' = heard \cup post[p].rows
      /\ dropped' = dropped \cup (post[p].rows \ (pending \cup cart \cup Known
                                                  \cup post'["now"].rows))
      /\ UNCHANGED <<page, signed, pending, step, cart, blank, reading, stored, edited, outrun>>
  BY DEF PostFails, Heard, AfterRefusal
<1>2. /\ post' \in [{"now", "old"} -> Post] /\ heard' \subseteq Rows
      /\ post[p].rows \subseteq Rows
  BY <1>0, <1>1, AnsweredTypes
<1>3. dropped' \subseteq Rows
  BY <1>0, <1>1, <1>2 DEF EntryTypeOK
<1>4. EntryTypeOK'
  BY <1>0, <1>1, <1>2, <1>3 DEF EntryTypeOK
<1>5. CompleteWasAnswered'
  BY <1>1 DEF CompleteWasAnswered, EntryIInv
<1>6. CartIsSent'
  BY <1>1, CartStaysSent
<1>7. QED BY <1>1, <1>4, <1>5, <1>6, EntryAnswered

LEMMA EntryKeeps == ASSUME EntryIInv, [EntryNext]_entryVars PROVE EntryIInv'
<1>1. CASE EntryGo
  BY <1>1, EntryGoes
<1>2. CASE CsvHandsOver \/ OcrStart \/ OcrAnswer \/ OcrFails
  BY <1>2, EntryUploads
<1>3. CASE AddToCart \/ AddBlankRow \/ TableRemove \/ SideRemove \/ TableUpdate
  BY <1>3, EntryRows
<1>4. CASE ToReview \/ BackToFill \/ Sidebar \/ UNCHANGED entryVars
  BY <1>4, EntrySteps
<1>5. CASE SubmitCart \/ Register
  BY <1>5, EntrySubmits
<1>6. CASE \E p \in {"now", "old"} :
             PostHandled(p) \/ CartSaved(p) \/ Registered(p) \/ PostFails(p)
  BY <1>6, EntryHandled, EntrySaved, EntryRegistered, EntryFails DEF Requests
<1>7. QED BY <1>1, <1>2, <1>3, <1>4, <1>5, <1>6 DEF EntryNext

\* The last step of the entry page is shown only for rows that were answered for,
\* and a row is stored twice only when the user has heard of the first time or left
\* a page with its request: for any rows, in any order of pages, answers and late
\* uploads (app/direct-input/page.tsx, app/confirm-input/page.tsx).
THEOREM RowsAreAnsweredFor == EntrySpec => []EntryInv
<1>1. EntryIInv /\ [EntryNext]_entryVars => EntryIInv'
  BY EntryKeeps
<1>2. QED BY <1>1, EntryStarts, EntryMeans, PTL DEF EntrySpec

\* Where a row can be.
Somewhere(r) == r \in pending \cup cart \cup Sent \cup Known \cup dropped

LEMMA SomewhereMeans ==
  ASSUME NEW r \in Rows
  PROVE  /\ Somewhere(r) <=> \/ r \in pending \/ r \in cart \/ r \in dropped
                             \/ r \in post["now"].rows \/ r \in post["old"].rows
                             \/ stored[r] > 0
         /\ Somewhere(r)' <=> \/ r \in pending' \/ r \in cart' \/ r \in dropped'
                              \/ r \in post'["now"].rows \/ r \in post'["old"].rows
                              \/ stored'[r] > 0
BY DEF Somewhere, Sent, Known

LEMMA RowIsKept ==
  ASSUME EntryIInv, EntryNext, NEW r \in pending \cup cart \cup Sent
  PROVE  Somewhere(r)'
<1>0. EntryTypeOK /\ r \in Rows
  <2>1. EntryTypeOK
    BY DEF EntryIInv
  <2>2. \A p \in Requests : post[p].rows \subseteq Rows
    BY <2>1, PostFields DEF EntryTypeOK, Requests
  <2>3. QED BY <2>1, <2>2 DEF EntryTypeOK, Sent, Requests
<1>1. /\ r \in pending \/ r \in cart \/ r \in Sent
      /\ r \in Known <=> stored[r] > 0
      /\ r \in Sent <=> r \in post["now"].rows \/ r \in post["old"].rows
  BY <1>0, RowSets
<1> DEFINE Found == \/ r \in pending' \/ r \in cart' \/ r \in dropped'
                    \/ r \in post'["now"].rows \/ r \in post'["old"].rows
                    \/ stored'[r] > 0
<1> SUFFICES Found
  BY <1>0, SomewhereMeans
<1>2. ASSUME UNCHANGED <<post, stored>>,
             \/ r \in Sent \/ r \in Known \/ r \in pending' \/ r \in cart' \/ r \in dropped'
      PROVE  Found
  BY <1>1, <1>2
<1>3. ASSUME post["old"] = NoPost \/ ~Submitting, stored' = stored,
             post' = IF Submitting THEN [now |-> NoPost, old |-> post["now"]] ELSE post,
             \/ r \in Sent \/ r \in Known \/ r \in pending' \/ r \in cart' \/ r \in dropped'
      PROVE  Found
  <2>1. \A x : x \in Sent <=> x \in Sent'
    BY <1>0, <1>3, PostsMoved
  <2>2. r \in Sent' => r \in post'["now"].rows \/ r \in post'["old"].rows
    BY DEF Sent
  <2>3. QED BY <1>1, <1>3, <2>1, <2>2
<1>4. ASSUME NEW p \in Requests, post' = [post EXCEPT ![p] = NoPost], stored' = stored,
             \/ \E q \in Requests : q # p /\ r \in post[q].rows
             \/ r \in pending' \/ r \in cart' \/ r \in dropped' \/ r \in Known
      PROVE  Found
  <2>1. \A q \in Requests : q # p => post'[q] = post[q]
    BY <1>0, <1>4 DEF EntryTypeOK, Requests
  <2>2. QED BY <1>1, <1>4, <2>1 DEF Requests
<1> HIDE DEF Found
<1>5. CASE EntryGo
  <2>1. PICK p \in Pages : Mounted(p, pending)
    BY <1>5 DEF EntryGo
  <2>2. (p = "direct" => cart' = pending) /\ (p # "direct" => pending' = pending)
    BY <1>0, <2>1, MountedTypes DEF EntryTypeOK
  <2>3. QED BY <1>1, <1>3, <1>5, <2>2 DEF EntryGo, PageLeft
<1>6. ASSUME NEW given \in SUBSET Rows, PushDirect(given), stored' = stored PROVE Found
  <2>1. CASE page = "direct"
    BY <1>1, <1>2, <1>6, <2>1 DEF PushDirect
  <2>2. CASE page # "direct"
    <3>1. Mounted("direct", given) /\ "direct" \in Pages
      BY <1>6, <2>2 DEF PushDirect, Pages
    <3>2. cart' = given
      BY <3>1, MountedTypes
    <3>3. QED BY <1>1, <1>3, <1>6, <2>2, <3>2 DEF PushDirect
  <2>3. QED BY <2>1, <2>2
<1>7. CASE CsvHandsOver \/ OcrAnswer
  <2>1. \A rows \in SUBSET FreshRows : rows \in SUBSET Rows
    BY RowSets
  <2>2. pending \in SUBSET Rows
    BY <1>0 DEF EntryTypeOK
  <2>3. QED BY <1>6, <1>7, <2>1, <2>2 DEF CsvHandsOver, OcrAnswer
<1>8. CASE OcrStart \/ OcrFails
  BY <1>1, <1>2, <1>8 DEF OcrStart, OcrFails
<1>9. ASSUME NEW rows, CartIs(rows), r \in cart => r \in rows \/ r \in dropped' \/ r \in Sent
                                                 \/ r \in Known \/ r \in pending
      PROVE  Found
  BY <1>1, <1>2, <1>9 DEF CartIs
<1>10. CASE AddToCart \/ AddBlankRow \/ TableUpdate
  <2>1. PICK rows : CartIs(rows) /\ cart \subseteq rows
    BY <1>10 DEF AddToCart, AddBlankRow, TableUpdate
  <2>2. QED BY <1>9, <2>1
<1>11. CASE TableRemove \/ SideRemove
  <2>1. PICK s \in cart : RowRemoved(s)
    BY <1>11 DEF TableRemove, SideRemove
  <2>2. /\ CartIs(cart \ {s})
        /\ dropped' = dropped \cup ({s} \ (Sent \cup Known \cup pending))
    BY <2>1 DEF RowRemoved
  <2>3. QED BY <1>9, <2>2
<1>12. CASE ToReview \/ BackToFill \/ Sidebar
  BY <1>1, <1>2, <1>12 DEF ToReview, BackToFill, Sidebar, StepIs
<1>13. CASE SubmitCart \/ Register
  <2>1. CASE SendsCart /\ ~Submitting
    <3>1. post'["now"].rows = cart /\ post'["old"] = post["old"]
      <4> DEFINE spoilt == page = "direct" /\ blank # {}
                 new == [from |-> page, rows |-> cart, handled |-> FALSE, failed |-> {},
                         spoilt |-> spoilt]
      <4> HIDE DEF spoilt
      <4>1. new.rows = cart
        OBVIOUS
      <4>2. post' = [post EXCEPT !["now"] = new]
        BY <2>1 DEF SendsCart, spoilt
      <4> HIDE DEF new
      <4>3. QED BY <1>0, <4>1, <4>2 DEF EntryTypeOK
    <3>2. post["now"].rows = {} /\ pending' = pending /\ cart' = cart
      BY <2>1, PostFields DEF Submitting, SendsCart
    <3>3. QED BY <1>1, <3>1, <3>2 DEF Found
  <2>2. CASE SubmitCart /\ ~SendsCart
    BY <1>1, <1>2, <2>2 DEF SubmitCart
  <2>3. QED BY <1>13, <2>1, <2>2 DEF SubmitCart, Register, MaySend
<1>14. ASSUME NEW p \in Requests, PostHandled(p) PROVE Found
  <2>1. PICK failed : post' = [post EXCEPT ![p].handled = TRUE, ![p].failed = failed]
    BY <1>14 DEF PostHandled
  <2>2. \A q \in Requests : post'[q].rows = post[q].rows
    BY <1>0, <2>1, PostFields DEF EntryTypeOK, Requests, Post
  <2>3. pending' = pending /\ cart' = cart
    BY <1>14 DEF PostHandled
  <2>4. QED BY <1>1, <2>2, <2>3 DEF Found, Requests
\* What a request that is over leaves unstored is named as failed.
<1>15. ASSUME NEW p \in Requests, post[p].handled, r \in post[p].rows
       PROVE  r \in Known \/ r \in post[p].failed
  BY <1>15 DEF EntryIInv, HandledIsStored
<1>16. \/ r \in pending \/ r \in cart \/ \E q \in Requests : r \in post[q].rows
  BY <1>1 DEF Requests
<1>17. ASSUME NEW p \in Requests, CartSaved(p) PROVE Found
  <2>1. /\ post[p].handled /\ post' = [post EXCEPT ![p] = NoPost] /\ stored' = stored
        /\ dropped' = dropped \cup ((pending \cup post[p].failed) \ (cart \cup Known))
        /\ cart' = cart
    BY <1>17 DEF CartSaved, Swept
  <2>2. QED BY <1>4, <1>15, <1>16, <2>1
<1>18. ASSUME NEW p \in Requests, Registered(p) PROVE Found
  <2>1. /\ post[p].handled /\ post' = [post EXCEPT ![p] = NoPost] /\ stored' = stored
        /\ dropped' = dropped \cup ((pending \cup cart \cup post[p].failed) \ Known)
    BY <1>18 DEF Registered
  <2>2. QED BY <1>4, <1>15, <1>16, <2>1
<1>19. ASSUME NEW p \in Requests, PostFails(p) PROVE Found
  <2>1. /\ post' = [post EXCEPT ![p] = NoPost] /\ stored' = stored
        /\ dropped' = dropped \cup (post[p].rows \ (pending \cup cart \cup Known
                                                    \cup post'["now"].rows))
        /\ cart' = cart /\ pending' = pending
    BY <1>19 DEF PostFails, AfterRefusal
  <2>2. r \in post'["now"].rows => Found
    BY DEF Found
  <2>3. QED BY <1>4, <1>16, <2>1, <2>2
<1>20. QED BY <1>5, <1>7, <1>8, <1>10, <1>11, <1>12, <1>13, <1>14, <1>17, <1>18, <1>19
           DEF EntryNext, Requests

\* Between a file or a form and the book no row gets lost: what was not thrown away
\* is waiting in the browser, shown, sent or stored.
THEOREM NoRowGetsLost == EntrySpec => NoRowIsMislaid
<1> DEFINE NoneLost == \A r \in pending \cup cart \cup Sent :
                         r \in (pending \cup cart \cup Sent \cup Known \cup dropped)'
<1>1. EntryIInv /\ [EntryNext]_entryVars => EntryIInv'
  BY EntryKeeps
<1>2. EntryIInv /\ EntryNext => NoneLost
  BY RowIsKept DEF Somewhere
<1>3. EntryIInv /\ [EntryNext]_entryVars => [NoneLost]_entryVars
  BY <1>2
<1>4. QED BY <1>1, <1>3, EntryStarts, PTL DEF EntrySpec, NoRowIsMislaid

-----------------------------------------------------------------------------
(* CsvUpload: the two lists that are copied over each other *)

\* A function on an initial segment of the numbers is a sequence.
LEMMA FunctionIsSeq ==
  ASSUME NEW S, NEW n \in Nat, NEW f \in [1 .. n -> S]
  PROVE  f \in Seq(S) /\ Len(f) = n /\ DOMAIN f = 1 .. n
<1>1. f \in Seq(S)
  BY SeqDef
<1>2. DOMAIN f = 1 .. n
  OBVIOUS
<1>3. Len(f) \in Nat /\ DOMAIN f = 1 .. Len(f)
  BY <1>1, LenProperties
<1>4. Len(f) = n
  BY <1>2, <1>3
<1>5. QED BY <1>1, <1>2, <1>4

\* No row of the file is there twice; rows that were added have no number.
OnceEach(s) == \A i, j \in DOMAIN s : s[i].no = s[j].no /\ s[i].no # 0 => i = j

\* After e edits of a file with f rows: as long as nothing was edited, a list is
\* the file or nothing.
Whole(s, e, f) == e = 0 => s = <<>> \/ (s = KeptRows(f) /\ f \in 1 .. MaxRows)

ListOfRows(s, e) == s \in Seq(Row) /\ Len(s) <= MaxRows + e /\ OnceEach(s)

Good(s, e, f) == ListOfRows(s, e) /\ Whole(s, e, f)

Scalars ==
  /\ csvStep \in 1 .. 4 /\ file \in {"none", "chosen"} /\ parsing \in -1 .. MaxRows + 1
  /\ dirty \in BOOLEAN /\ edits \in 0 .. MaxEdits /\ fileRows \in 0 .. MaxRows
  /\ \A i \in faulty : i \in Nat

\* While the grid is shown, either its effects or a render is due; elsewhere the
\* lists of the grid are not there.  A file is read before the grid is shown.
GridState ==
  /\ csvStep = 4 => (dirty <=> next = <<>>)
  /\ csvStep # 4 => ~dirty /\ next = <<>>
  /\ parsing >= 0 => csvStep < 4

Lists ==
  /\ Good(data, edits, fileRows) /\ Good(grid, edits, fileRows)
  /\ next = <<>> \/ (/\ next = <<next[1], next[2]>>
                 /\ Good(next[1], edits, fileRows) /\ Good(next[2], edits, fileRows))

Handed ==
  handed = <<>> \/ (/\ Good(handed[1], edits, fileRows) /\ handed[1] # <<>>
                    /\ \A i \in DOMAIN handed[1] : handed[1][i].ok)

CsvIInv == Scalars /\ GridState /\ Lists /\ Handed

\* What is known of rows, one by one.
LEMMA RowFields ==
  /\ \A n \in 0 .. MaxRows, b \in BOOLEAN, t \in {"detected", "chosen"} :
       /\ [no |-> n, ok |-> b, type |-> t] \in Row
       /\ [no |-> n, ok |-> b, type |-> t].no = n
       /\ [no |-> n, ok |-> b, type |-> t].ok = b
  /\ \A r \in Row : r.no \in 0 .. MaxRows /\ r.ok \in BOOLEAN
  /\ \A r \in Row, t \in {"detected", "chosen"} :
       [r EXCEPT !.type = t] \in Row /\ [r EXCEPT !.type = t].no = r.no
  /\ \A r \in Row, b \in BOOLEAN :
       [r EXCEPT !.ok = b] \in Row /\ [r EXCEPT !.ok = b].no = r.no
<1>1. ASSUME NEW n \in 0 .. MaxRows, NEW b \in BOOLEAN, NEW t \in {"detected", "chosen"}
      PROVE  /\ [no |-> n, ok |-> b, type |-> t] \in Row
             /\ [no |-> n, ok |-> b, type |-> t].no = n
  BY DEF Row
<1>2. ASSUME NEW n \in 0 .. MaxRows, NEW b \in BOOLEAN, NEW t \in {"detected", "chosen"}
      PROVE  [no |-> n, ok |-> b, type |-> t].ok = b
  OBVIOUS
<1>3. \A r \in Row : r.no \in 0 .. MaxRows /\ r.ok \in BOOLEAN
  BY DEF Row
<1>4. \A r \in Row, t \in {"detected", "chosen"} :
        [r EXCEPT !.type = t] \in Row /\ [r EXCEPT !.type = t].no = r.no
  BY DEF Row
<1>5. \A r \in Row, b \in BOOLEAN :
        [r EXCEPT !.ok = b] \in Row /\ [r EXCEPT !.ok = b].no = r.no
  BY DEF Row
<1>6. QED BY <1>1, <1>2, <1>3, <1>4, <1>5

\* The rows of a file.
LEMMA KeptRowsAre ==
  ASSUME NEW n \in 0 .. MaxRows
  PROVE  /\ KeptRows(n) \in Seq(Row) /\ Len(KeptRows(n)) = n
         /\ DOMAIN KeptRows(n) = 1 .. n
         /\ \A i \in 1 .. n : KeptRows(n)[i] = [no |-> i, ok |-> TRUE, type |-> "detected"]
<1>0. n \in Nat /\ \A i \in 1 .. n : i \in 0 .. MaxRows
  BY CsvAssumption
<1> DEFINE r(i) == [no |-> i, ok |-> TRUE, type |-> "detected"]
<1>1. \A i \in 1 .. n : r(i) \in Row
  BY <1>0, RowFields
<1> HIDE DEF r
<1>2. KeptRows(n) = [i \in 1 .. n |-> r(i)]
  BY DEF KeptRows, r
<1>3. KeptRows(n) \in [1 .. n -> Row]
  BY <1>1, <1>2
<1>4. \A i \in 1 .. n : KeptRows(n)[i] = r(i)
  BY <1>2
<1>5. QED BY <1>0, <1>3, <1>4, FunctionIsSeq DEF r

LEMMA KeptRowsListed ==
  ASSUME NEW e \in Nat, NEW n \in 1 .. MaxRows
  PROVE  ListOfRows(KeptRows(n), e)
<1>0. n \in 0 .. MaxRows /\ n <= MaxRows + e
  BY CsvAssumption
<1>1. /\ KeptRows(n) \in Seq(Row) /\ Len(KeptRows(n)) = n
      /\ DOMAIN KeptRows(n) = 1 .. n
      /\ \A i \in 1 .. n : KeptRows(n)[i] = [no |-> i, ok |-> TRUE, type |-> "detected"]
  BY <1>0, KeptRowsAre
<1>2. \A i \in 1 .. n : KeptRows(n)[i].no = i
  BY <1>1
<1>3. OnceEach(KeptRows(n))
  BY <1>1, <1>2 DEF OnceEach
<1>4. QED BY <1>0, <1>1, <1>3 DEF ListOfRows

LEMMA EmptyIsGood == ASSUME NEW e \in Nat, NEW f PROVE Good(<<>>, e, f)
<1>1. <<>> \in Seq(Row) /\ Len(<<>>) = 0
  BY EmptySeq
<1>2. 0 <= MaxRows + e
  BY CsvAssumption
<1>3. OnceEach(<<>>)
  BY DEF OnceEach
<1>4. QED BY <1>1, <1>2, <1>3 DEF Good, ListOfRows, Whole

\* Domain and elements of a list.
LEMMA ListMeans ==
  ASSUME NEW s, NEW e, ListOfRows(s, e)
  PROVE  /\ s \in Seq(Row) /\ Len(s) \in Nat /\ DOMAIN s = 1 .. Len(s)
         /\ s \in [1 .. Len(s) -> Row]
         /\ \A i \in DOMAIN s : s[i] \in Row /\ i \in Nat
         /\ \A i, j \in DOMAIN s : s[i].no = s[j].no /\ s[i].no # 0 => i = j
<1>1. s \in Seq(Row)
  BY DEF ListOfRows
<1>2. Len(s) \in Nat /\ DOMAIN s = 1 .. Len(s) /\ s \in [1 .. Len(s) -> Row]
  BY <1>1, LenProperties
<1>3. \A i \in DOMAIN s : s[i] \in Row /\ i \in Nat
  BY <1>2
<1>4. QED BY <1>1, <1>2, <1>3 DEF ListOfRows, OnceEach

\* A list with the numbers of another one, row by row.
LEMMA SameNumbers ==
  ASSUME NEW s, NEW e, ListOfRows(s, e), NEW t \in [DOMAIN s -> Row],
         \A i \in DOMAIN s : t[i].no = s[i].no
  PROVE  ListOfRows(t, e) /\ Len(t) = Len(s) /\ DOMAIN t = DOMAIN s
<1>1. Len(s) \in Nat /\ DOMAIN s = 1 .. Len(s)
  BY ListMeans
<1>2. t \in Seq(Row) /\ Len(t) = Len(s) /\ DOMAIN t = DOMAIN s
  BY <1>1, FunctionIsSeq
<1>3. OnceEach(t)
  BY <1>2 DEF OnceEach, ListOfRows
<1>4. QED BY <1>2, <1>3 DEF ListOfRows

LEMMA DetectIsGood ==
  ASSUME NEW s, NEW e, NEW f, Good(s, e, f)
  PROVE  Good(Detect(s), e, f)
<1>0. ListOfRows(s, e)
  BY DEF Good
<1>1. /\ \A i \in DOMAIN s : s[i] \in Row
      /\ s \in Seq(Row) /\ Len(s) \in Nat /\ DOMAIN s = 1 .. Len(s)
  BY <1>0, ListMeans
<1> DEFINE d(i) == [s[i] EXCEPT !.type = "detected"]
<1>2. \A i \in DOMAIN s : d(i) \in Row /\ d(i).no = s[i].no
  BY <1>1, RowFields
<1> HIDE DEF d
<1>3. Detect(s) = [i \in DOMAIN s |-> d(i)]
  BY DEF Detect, d
<1>4. Detect(s) \in [DOMAIN s -> Row] /\ \A i \in DOMAIN s : Detect(s)[i].no = s[i].no
  BY <1>2, <1>3
<1>5. ListOfRows(Detect(s), e) /\ Len(Detect(s)) = Len(s) /\ DOMAIN Detect(s) = DOMAIN s
  BY <1>0, <1>4, SameNumbers
<1>6. Whole(Detect(s), e, f)
  <2>1. SUFFICES ASSUME e = 0
        PROVE Detect(s) = <<>> \/ (Detect(s) = KeptRows(f) /\ f \in 1 .. MaxRows)
    BY DEF Whole
  <2>2. CASE s = <<>>
    <3>1. Detect(s) \in Seq(Row) /\ Len(Detect(s)) = 0
      BY <1>5, <2>2, EmptySeq DEF ListOfRows
    <3>2. QED BY <3>1, EmptySeq
  <2>3. CASE s = KeptRows(f) /\ f \in 1 .. MaxRows
    <3>1. /\ DOMAIN s = 1 .. f
          /\ \A i \in 1 .. f : s[i] = [no |-> i, ok |-> TRUE, type |-> "detected"]
      <4>1. f \in 0 .. MaxRows
        BY <2>3
      <4>2. QED BY <2>3, <4>1, KeptRowsAre
    <3>2. \A i \in DOMAIN s : d(i) = s[i]
      BY <3>1 DEF d
    <3>3. Detect(s) = s
      BY <1>1, <1>3, <3>2
    <3>4. QED BY <2>3, <3>3
  <2>4. QED BY <2>1, <2>2, <2>3 DEF Good, Whole
<1>7. QED BY <1>5, <1>6 DEF Good

LEMMA CsvMeans == CsvIInv => CsvInv
<1> SUFFICES ASSUME CsvIInv PROVE CsvInv
  OBVIOUS
<1>0. Scalars /\ Lists /\ Handed /\ MaxRows \in Nat /\ MaxEdits \in Nat
  BY CsvAssumption DEF CsvIInv
<1>1. ASSUME NEW s, Good(s, edits, fileRows) PROVE IsRowList(s)
  <2>1. ListOfRows(s, edits) /\ Len(s) <= MaxRows + edits
    BY <1>1 DEF Good, ListOfRows
  <2>2. Len(s) \in Nat /\ \A i \in DOMAIN s : s[i] \in Row
    BY <2>1, ListMeans
  <2>3. Len(s) <= MaxRows + MaxEdits
    BY <1>0, <2>1, <2>2 DEF Scalars
  <2>4. QED BY <2>2, <2>3 DEF IsRowList
<1>2. CsvTypeOK
  BY <1>0, <1>1 DEF CsvTypeOK, Scalars, Lists, Handed
<1>3. HandedRowsAreValid
  BY <1>0 DEF HandedRowsAreValid, Handed, Good, ListOfRows, OnceEach
<1>4. HandedWhole
  <2>1. SUFFICES ASSUME handed # <<>>, edits = 0
                 PROVE  /\ Len(handed[1]) = fileRows /\ fileRows <= MaxRows
                        /\ \A i \in DOMAIN handed[1] : handed[1][i].no = i
    BY DEF HandedWhole
  <2>2. handed[1] = KeptRows(fileRows) /\ fileRows \in 1 .. MaxRows
    BY <1>0, <2>1 DEF Handed, Good, Whole
  <2>3. fileRows \in 0 .. MaxRows /\ fileRows <= MaxRows
    BY <1>0, <2>2
  <2>4. /\ Len(KeptRows(fileRows)) = fileRows
        /\ DOMAIN KeptRows(fileRows) = 1 .. fileRows
        /\ \A i \in 1 .. fileRows :
             KeptRows(fileRows)[i] = [no |-> i, ok |-> TRUE, type |-> "detected"]
    BY <2>3, KeptRowsAre
  <2>5. QED BY <2>2, <2>3, <2>4
<1>5. QED BY <1>2, <1>3, <1>4 DEF CsvInv

LEMMA CsvStarts == CsvInit => CsvIInv
<1> SUFFICES ASSUME CsvInit PROVE CsvIInv
  OBVIOUS
<1>0. /\ csvStep \in 1 .. 4 /\ parsing \in -1 .. MaxRows + 1
      /\ edits \in 0 .. MaxEdits /\ fileRows \in 0 .. MaxRows /\ edits \in Nat
  BY CsvAssumption DEF CsvInit
<1>1. Scalars
  BY <1>0 DEF CsvInit, Scalars
<1>2. Good(<<>>, edits, fileRows)
  BY <1>0, EmptyIsGood
<1>3. Lists /\ Handed /\ GridState
  BY <1>2 DEF CsvInit, Lists, Handed, GridState
<1>4. QED BY <1>1, <1>3 DEF CsvIInv

\* A list stays good with one more edit.
LEMMA GoodStays ==
  ASSUME NEW s, NEW e \in Nat, NEW f, NEW g, Good(s, e, f)
  PROVE  Good(s, e + 1, g)
<1>1. s \in Seq(Row) /\ Len(s) <= MaxRows + e /\ OnceEach(s) /\ Len(s) \in Nat
  BY ListMeans DEF Good, ListOfRows
<1>2. Len(s) <= MaxRows + (e + 1) /\ e + 1 # 0
  BY <1>1, CsvAssumption
<1>3. QED BY <1>1, <1>2 DEF Good, ListOfRows, Whole

\* What is left to show of a step on the page.
LEMMA CsvSame ==
  ASSUME CsvIInv, Here, handed' = handed, Scalars', GridState', Lists'
  PROVE  CsvIInv'
BY DEF CsvIInv, Here, Handed

LEMMA CsvFile == ASSUME CsvIInv, FileSelect \/ FileRemove \/ FileParsed PROVE CsvIInv'
<1>0. Scalars /\ GridState /\ Lists /\ MaxRows \in Nat /\ MaxEdits \in Nat /\ edits \in Nat
  BY CsvAssumption DEF CsvIInv, Scalars
<1>1. CASE FileSelect
  <2>1. /\ Here /\ csvStep = 3 /\ parsing' \in 0 .. MaxRows + 1 /\ file' = "chosen"
        /\ UNCHANGED <<csvStep, data, grid, next, dirty, faulty, handed, edits, fileRows>>
    BY <1>1 DEF FileSelect
  <2>2. parsing' \in -1 .. MaxRows + 1
    BY <1>0, <2>1
  <2>3. Scalars'
    BY <1>0, <2>1, <2>2 DEF Scalars
  <2>4. GridState'
    BY <1>0, <2>1 DEF GridState
  <2>5. Lists'
    BY <1>0, <2>1 DEF Lists
  <2>6. QED BY <2>1, <2>3, <2>4, <2>5, CsvSame
<1>2. CASE FileRemove
  <2>1. /\ Here /\ file' = "none"
        /\ UNCHANGED <<csvStep, parsing, data, grid, next, dirty, faulty, handed, edits, fileRows>>
    BY <1>2 DEF FileRemove
  <2>2. Scalars' /\ GridState' /\ Lists'
    BY <1>0, <2>1 DEF Scalars, GridState, Lists
  <2>3. QED BY <2>1, <2>2, CsvSame
<1>3. CASE FileParsed
  <2>1. /\ Here /\ parsing >= 0 /\ parsing' = -1 /\ csvStep # 4
        /\ UNCHANGED <<faulty, handed, edits>>
    BY <1>0, <1>3 DEF FileParsed, GridState
  <2>2. parsing' \in -1 .. MaxRows + 1 /\ ~(parsing' >= 0)
    BY <1>0, <2>1
  <2>3. CASE /\ Fits(parsing) /\ data' = KeptRows(parsing) /\ fileRows' = parsing
             /\ csvStep' = 4 /\ grid' = IF csvStep = 4 THEN grid ELSE <<>>
             /\ dirty' = TRUE /\ next' = <<>> /\ UNCHANGED file
    <3>1. grid' = <<>> /\ parsing \in 1 .. MaxRows /\ parsing \in 0 .. MaxRows
      BY <1>0, <2>1, <2>3 DEF Fits
    <3>2. Scalars'
      BY <1>0, <2>1, <2>2, <2>3, <3>1 DEF Scalars
    <3>3. GridState'
      BY <2>2, <2>3 DEF GridState
    <3>4. Good(data', edits', fileRows')
      <4>1. ListOfRows(KeptRows(parsing), edits)
        BY <1>0, <3>1, KeptRowsListed
      <4>2. QED BY <2>1, <2>3, <3>1, <4>1 DEF Good, Whole
    <3>5. Good(grid', edits', fileRows')
      BY <1>0, <2>1, <3>1, EmptyIsGood
    <3>6. Lists'
      BY <2>3, <3>4, <3>5 DEF Lists
    <3>7. QED BY <2>1, <3>2, <3>3, <3>6, CsvSame
  <2>4. CASE file' = "none" /\ UNCHANGED <<csvStep, data, grid, dirty, next, fileRows>>
    <3>1. Scalars' /\ Lists'
      BY <1>0, <2>1, <2>2, <2>4 DEF Scalars, Lists
    <3>2. GridState'
      BY <1>0, <2>2, <2>4 DEF GridState
    <3>3. QED BY <2>1, <3>1, <3>2, CsvSame
  <2>5. QED BY <1>3, <2>3, <2>4 DEF FileParsed
<1>4. QED BY <1>1, <1>2, <1>3

LEMMA CsvCopies == ASSUME CsvIInv, GridEffects \/ GridRender PROVE CsvIInv'
<1>0. Scalars /\ GridState /\ Lists
  BY DEF CsvIInv
<1>1. CASE GridEffects
  <2>1. /\ Here /\ csvStep = 4 /\ next' = <<grid, Detect(data)>> /\ dirty' = FALSE
        /\ UNCHANGED <<csvStep, file, parsing, data, grid, faulty, handed, edits, fileRows>>
    BY <1>1 DEF GridEffects
  <2>2. Scalars'
    BY <1>0, <2>1 DEF Scalars
  <2>3. next' # <<>> /\ next'[1] = grid /\ next'[2] = Detect(data)
    BY <2>1
  <2>4. GridState'
    BY <1>0, <2>1, <2>3 DEF GridState
  <2>5. Lists'
    <3>1. Good(Detect(data), edits, fileRows)
      BY <1>0, DetectIsGood DEF Lists
    <3>2. Good(next'[1], edits', fileRows') /\ Good(next'[2], edits', fileRows')
      BY <1>0, <2>1, <2>3, <3>1 DEF Lists
    <3>3. next' = <<next'[1], next'[2]>>
      BY <2>1, <2>3
    <3>4. QED BY <1>0, <2>1, <3>2, <3>3 DEF Lists
  <2>6. QED BY <2>1, <2>2, <2>4, <2>5, CsvSame
<1>2. CASE GridRender
  <2>1. /\ Here /\ csvStep = 4 /\ next # <<>> /\ data' = next[1] /\ grid' = next[2]
        /\ next' = <<>> /\ dirty' = TRUE
        /\ UNCHANGED <<csvStep, file, parsing, faulty, handed, edits, fileRows>>
    BY <1>2 DEF GridRender
  <2>2. Scalars' /\ GridState' /\ Lists'
    BY <1>0, <2>1 DEF Scalars, GridState, Lists
  <2>3. QED BY <2>1, <2>2, CsvSame
<1>3. QED BY <1>1, <1>2

\* One edit in the grid, of rows that stay a list.
LEMMA CsvEdits ==
  ASSUME CsvIInv, NEW rows, Edits(rows), ListOfRows(rows, edits + 1)
  PROVE  CsvIInv'
<1>0. /\ Scalars /\ GridState /\ Lists /\ MaxEdits \in Nat /\ edits \in Nat
      /\ Here /\ csvStep = 4 /\ ~dirty /\ edits < MaxEdits /\ edits' = edits + 1
      /\ next' = <<next[1], rows>>
      /\ UNCHANGED <<csvStep, file, parsing, data, grid, dirty, faulty, handed, fileRows>>
  BY CsvAssumption DEF CsvIInv, Scalars, Edits
<1>1. edits' \in 0 .. MaxEdits
  BY <1>0
<1>2. Scalars'
  BY <1>0, <1>1 DEF Scalars
<1>3. next' # <<>> /\ next'[1] = next[1] /\ next'[2] = rows /\ next # <<>>
  BY <1>0 DEF GridState
<1>4. GridState'
  BY <1>0, <1>3 DEF GridState
<1>5. Good(rows, edits + 1, fileRows)
  BY <1>0 DEF Good, Whole
<1>6. /\ Good(data, edits + 1, fileRows) /\ Good(grid, edits + 1, fileRows)
      /\ Good(next[1], edits + 1, fileRows)
  BY <1>0, <1>3, GoodStays DEF Lists
<1>7. Good(next'[1], edits', fileRows') /\ Good(next'[2], edits', fileRows')
  BY <1>0, <1>3, <1>5, <1>6
<1>8. next' = <<next'[1], next'[2]>>
  BY <1>0, <1>3
<1>9. Good(data', edits', fileRows') /\ Good(grid', edits', fileRows')
  BY <1>0, <1>6
<1>10. Lists'
  BY <1>7, <1>8, <1>9 DEF Lists
<1>11. QED BY <1>0, <1>2, <1>4, <1>10, CsvSame

\* A row that was added.
BlankGridRow == [no |-> 0, ok |-> FALSE, type |-> "detected"]

LEMMA BlankGridRowIs == BlankGridRow \in Row /\ BlankGridRow.no = 0
<1>1. 0 \in 0 .. MaxRows
  BY CsvAssumption
<1>2. QED BY <1>1, RowFields DEF BlankGridRow

LEMMA CsvAdds == ASSUME CsvIInv, AddRow PROVE CsvIInv'
<1>0. ListOfRows(grid, edits) /\ edits \in Nat
  BY CsvAssumption DEF CsvIInv, Lists, Good, Scalars
<1>1. Edits(Append(grid, BlankGridRow))
  BY DEF AddRow, BlankGridRow
<1>2. /\ grid \in Seq(Row) /\ Len(grid) \in Nat /\ DOMAIN grid = 1 .. Len(grid)
      /\ \A i, j \in DOMAIN grid : grid[i].no = grid[j].no /\ grid[i].no # 0 => i = j
      /\ Len(grid) <= MaxRows + edits
  BY <1>0, ListMeans DEF ListOfRows
<1> DEFINE rows == Append(grid, BlankGridRow)
<1>3. /\ rows \in Seq(Row) /\ Len(rows) = Len(grid) + 1
      /\ \A i \in 1 .. Len(grid) : rows[i] = grid[i]
      /\ rows[Len(grid) + 1] = BlankGridRow
  BY <1>2, BlankGridRowIs, AppendProperties
<1> HIDE DEF rows
<1>4. DOMAIN rows = 1 .. Len(grid) + 1
  BY <1>3, LenProperties
<1>5. OnceEach(rows)
  <2>1. SUFFICES ASSUME NEW i \in DOMAIN rows, NEW j \in DOMAIN rows,
                        rows[i].no = rows[j].no, rows[i].no # 0
                 PROVE  i = j
    BY DEF OnceEach
  <2>2. rows[i].no # 0 /\ rows[j].no # 0
    BY <2>1
  <2>3. i # Len(grid) + 1 /\ j # Len(grid) + 1
    BY <1>3, <2>2, BlankGridRowIs
  <2>4. i \in DOMAIN grid /\ j \in DOMAIN grid
    BY <1>2, <1>4, <2>1, <2>3
  <2>5. QED BY <1>2, <1>3, <2>1, <2>4
<1>6. ListOfRows(rows, edits + 1)
  <2>1. Len(rows) <= MaxRows + (edits + 1)
    BY <1>0, <1>2, <1>3, CsvAssumption
  <2>2. QED BY <1>3, <1>5, <2>1 DEF ListOfRows
<1>7. QED BY <1>1, <1>6, CsvEdits DEF rows

LEMMA CsvDeletes == ASSUME CsvIInv, DeleteRow PROVE CsvIInv'
<1>0. ListOfRows(grid, edits) /\ edits \in Nat /\ MaxRows \in Nat
  BY CsvAssumption DEF CsvIInv, Lists, Good, Scalars
<1>1. PICK k \in DOMAIN grid : Edits(SubSeq(grid, 1, k - 1) \o SubSeq(grid, k + 1, Len(grid)))
  BY DEF DeleteRow
<1>2. /\ grid \in Seq(Row) /\ Len(grid) \in Nat /\ DOMAIN grid = 1 .. Len(grid)
      /\ \A i \in DOMAIN grid : grid[i] \in Row
      /\ \A i, j \in DOMAIN grid : grid[i].no = grid[j].no /\ grid[i].no # 0 => i = j
      /\ Len(grid) <= MaxRows + edits
  BY <1>0, ListMeans DEF ListOfRows
<1> DEFINE before == SubSeq(grid, 1, k - 1)
           after  == SubSeq(grid, k + 1, Len(grid))
           rows   == before \o after
<1>3. /\ before \in Seq(Row) /\ Len(before) = k - 1
      /\ \A i \in 1 .. k - 1 : before[i] = grid[i]
  <2>1. \A i \in 1 .. k - 1 : grid[i] \in Row
    BY <1>2
  <2>2. 1 \in Int /\ k - 1 \in Int
    BY <1>2
  <2>3. /\ before \in Seq(Row) /\ Len(before) = IF 1 <= k - 1 THEN k - 1 - 1 + 1 ELSE 0
        /\ \A i \in 1 .. k - 1 - 1 + 1 : before[i] = grid[1 + i - 1]
    BY <2>1, <2>2, SubSeqProperties
  <2> HIDE DEF before
  <2>4. QED BY <1>2, <2>3
<1>4. /\ after \in Seq(Row) /\ Len(after) = Len(grid) - k
      /\ \A i \in 1 .. Len(grid) - k : after[i] = grid[k + i]
  <2>1. \A i \in k + 1 .. Len(grid) : grid[i] \in Row
    BY <1>2
  <2>2. k + 1 \in Int /\ Len(grid) \in Int
    BY <1>2
  <2>3. /\ after \in Seq(Row)
        /\ Len(after) = IF k + 1 <= Len(grid) THEN Len(grid) - (k + 1) + 1 ELSE 0
        /\ \A i \in 1 .. Len(grid) - (k + 1) + 1 : after[i] = grid[k + 1 + i - 1]
    BY <2>1, <2>2, SubSeqProperties
  <2> HIDE DEF after
  <2>4. /\ Len(after) = Len(grid) - k /\ Len(grid) - (k + 1) + 1 = Len(grid) - k
    BY <1>2, <2>3
  <2>5. \A i \in 1 .. Len(grid) - k : k + 1 + i - 1 = k + i
    BY <1>2
  <2>6. \A i \in 1 .. Len(grid) - k : after[i] = grid[k + 1 + i - 1]
    BY <2>3, <2>4
  <2>7. QED BY <2>3, <2>4, <2>5, <2>6
<1> HIDE DEF before, after
<1>5. /\ rows \in Seq(Row) /\ Len(rows) = Len(before) + Len(after)
      /\ \A i \in 1 .. Len(before) + Len(after) :
           rows[i] = IF i <= Len(before) THEN before[i] ELSE after[i - Len(before)]
  BY <1>3, <1>4, ConcatProperties
<1> HIDE DEF rows
<1>6. /\ Len(rows) = Len(grid) - 1 /\ DOMAIN rows = 1 .. Len(grid) - 1
  BY <1>2, <1>3, <1>4, <1>5, LenProperties
<1>7. \A i \in 1 .. Len(grid) - 1 : /\ i <= k - 1 => rows[i] = grid[i]
                                    /\ ~(i <= k - 1) => rows[i] = grid[i + 1]
  <2>1. SUFFICES ASSUME NEW i \in 1 .. Len(grid) - 1
                 PROVE  /\ i <= k - 1 => rows[i] = grid[i]
                        /\ ~(i <= k - 1) => rows[i] = grid[i + 1]
    OBVIOUS
  <2>2. k \in Nat /\ i \in Nat /\ i \in 1 .. Len(before) + Len(after)
    BY <1>2, <1>3, <1>4, <2>1
  <2>3. CASE i <= k - 1
    BY <1>3, <1>5, <2>2, <2>3
  <2>4. CASE ~(i <= k - 1)
    <3>1. i - Len(before) \in 1 .. Len(grid) - k /\ k + (i - Len(before)) = i + 1
      BY <1>2, <1>3, <2>1, <2>2, <2>4
    <3>2. rows[i] = after[i - Len(before)]
      BY <1>3, <1>5, <2>2, <2>4
    <3>3. QED BY <1>4, <2>4, <3>1, <3>2
  <2>5. QED BY <2>3, <2>4
<1>8. OnceEach(rows)
  <2>1. SUFFICES ASSUME NEW i \in DOMAIN rows, NEW j \in DOMAIN rows,
                        rows[i].no = rows[j].no, rows[i].no # 0
                 PROVE  i = j
    BY DEF OnceEach
  <2>2. PICK a \in DOMAIN grid : rows[i] = grid[a] /\ a = (IF i <= k - 1 THEN i ELSE i + 1)
    BY <1>2, <1>6, <1>7
  <2>3. PICK b \in DOMAIN grid : rows[j] = grid[b] /\ b = (IF j <= k - 1 THEN j ELSE j + 1)
    BY <1>2, <1>6, <1>7
  <2>4. a = b
    BY <1>2, <2>1, <2>2, <2>3
  <2>5. QED BY <1>2, <1>6, <2>2, <2>3, <2>4
<1>9. ListOfRows(rows, edits + 1)
  <2>1. Len(rows) <= MaxRows + (edits + 1)
    BY <1>0, <1>2, <1>6
  <2>2. QED BY <1>5, <1>8, <2>1 DEF ListOfRows
<1>10. QED BY <1>1, <1>9, CsvEdits DEF rows, before, after

\* A cell of the coming rows, or of a row that comes into being.
LEMMA CsvCells == ASSUME CsvIInv, CellChange PROVE CsvIInv'
<1>0. /\ Scalars /\ GridState /\ Lists /\ edits \in Nat /\ MaxRows \in Nat
      /\ ListOfRows(grid, edits) /\ csvStep = 4 /\ ~dirty
  BY CsvAssumption DEF CsvIInv, Lists, Good, Scalars, CellChange
<1>1. ListOfRows(Coming, edits)
  BY <1>0 DEF Lists, Good, GridState, Coming
<1>2. PICK i \in DOMAIN grid :
        LET rows == IF i \in DOMAIN Coming THEN Coming
                    ELSE [j \in 1 .. i |-> IF j \in DOMAIN Coming THEN Coming[j]
                                           ELSE [no |-> 0, ok |-> FALSE, type |-> "detected"]] IN
        \/ \E ok \in BOOLEAN : Edits([rows EXCEPT ![i].ok = ok])
        \/ Edits([rows EXCEPT ![i].type = "chosen"])
  BY DEF CellChange
<1> DEFINE longer == [j \in 1 .. i |-> IF j \in DOMAIN Coming THEN Coming[j] ELSE BlankGridRow]
           rows   == IF i \in DOMAIN Coming THEN Coming ELSE longer
<1>3. \/ \E ok \in BOOLEAN : Edits([rows EXCEPT ![i].ok = ok])
      \/ Edits([rows EXCEPT ![i].type = "chosen"])
  BY <1>2 DEF BlankGridRow
<1>4. /\ Len(grid) \in Nat /\ i \in 1 .. Len(grid) /\ Len(grid) <= MaxRows + edits
  BY <1>0, ListMeans DEF ListOfRows
<1>5. /\ Len(Coming) \in Nat /\ DOMAIN Coming = 1 .. Len(Coming)
      /\ \A j \in DOMAIN Coming : Coming[j] \in Row
      /\ \A j, k \in DOMAIN Coming : Coming[j].no = Coming[k].no /\ Coming[j].no # 0 => j = k
  BY <1>1, ListMeans
<1>6. ListOfRows(longer, edits)
  <2> DEFINE cell(j) == IF j \in DOMAIN Coming THEN Coming[j] ELSE BlankGridRow
  <2>1. \A j : /\ j \in DOMAIN Coming => cell(j) = Coming[j]
               /\ j \notin DOMAIN Coming => cell(j) = BlankGridRow
    OBVIOUS
  <2>2. longer = [j \in 1 .. i |-> cell(j)]
    OBVIOUS
  <2> HIDE DEF cell, longer
  <2>3. \A j \in 1 .. i : cell(j) \in Row
    BY <1>5, <2>1, BlankGridRowIs
  <2>4. longer \in [1 .. i -> Row] /\ \A j \in 1 .. i : longer[j] = cell(j)
    BY <2>2, <2>3
  <2>5. longer \in Seq(Row) /\ Len(longer) = i /\ DOMAIN longer = 1 .. i
    BY <1>4, <2>4, FunctionIsSeq
  <2>6. OnceEach(longer)
    <3>1. SUFFICES ASSUME NEW j \in 1 .. i, NEW k \in 1 .. i,
                          longer[j].no = longer[k].no, longer[j].no # 0
                   PROVE  j = k
      BY <2>5 DEF OnceEach
    <3>2. cell(j).no = cell(k).no /\ cell(j).no # 0
      BY <2>4, <3>1
    <3>3. j \in DOMAIN Coming /\ k \in DOMAIN Coming
      BY <2>1, <3>2, BlankGridRowIs
    <3>4. QED BY <1>5, <2>1, <3>2, <3>3
  <2>7. Len(longer) <= MaxRows + edits
    BY <1>0, <1>4, <2>5
  <2>8. QED BY <2>5, <2>6, <2>7 DEF ListOfRows
<1>7. ListOfRows(rows, edits) /\ i \in DOMAIN rows
  <2>1. CASE i \in DOMAIN Coming
    BY <1>1, <2>1
  <2>2. CASE i \notin DOMAIN Coming
    <3>1. i \in DOMAIN longer
      BY <1>4
    <3>2. rows = longer
      BY <2>2
    <3> HIDE DEF rows, longer
    <3>3. QED BY <1>6, <3>1, <3>2
  <2>3. QED BY <2>1, <2>2
<1> HIDE DEF rows, longer
<1>8. /\ rows \in [DOMAIN rows -> Row] /\ rows[i] \in Row
      /\ \A j \in DOMAIN rows : rows[j] \in Row
  BY <1>7, ListMeans
<1>9. ASSUME NEW cell \in Row, cell.no = rows[i].no
      PROVE  ListOfRows([rows EXCEPT ![i] = cell], edits + 1)
  <2> DEFINE new == [rows EXCEPT ![i] = cell]
  <2>1. new \in [DOMAIN rows -> Row] /\ \A j \in DOMAIN rows : new[j].no = rows[j].no
    BY <1>7, <1>8, <1>9
  <2> HIDE DEF new
  <2>2. ListOfRows(new, edits)
    BY <1>7, <2>1, SameNumbers
  <2>3. Len(new) \in Nat /\ new \in Seq(Row)
    BY <2>2, ListMeans
  <2>4. Len(new) <= MaxRows + (edits + 1)
    BY <1>0, <2>2, <2>3 DEF ListOfRows
  <2>5. QED BY <2>2, <2>4 DEF ListOfRows, new
<1>10. CASE \E ok \in BOOLEAN : Edits([rows EXCEPT ![i].ok = ok])
  <2>1. PICK ok \in BOOLEAN : Edits([rows EXCEPT ![i].ok = ok])
    BY <1>10
  <2> DEFINE cell == [rows[i] EXCEPT !.ok = ok]
  <2>2. cell \in Row /\ cell.no = rows[i].no
    BY <1>8, RowFields
  <2>3. [rows EXCEPT ![i].ok = ok] = [rows EXCEPT ![i] = cell]
    OBVIOUS
  <2> HIDE DEF cell
  <2>4. QED BY <1>9, <2>1, <2>2, <2>3, CsvEdits
<1>11. CASE Edits([rows EXCEPT ![i].type = "chosen"])
  <2> DEFINE cell == [rows[i] EXCEPT !.type = "chosen"]
  <2>2. cell \in Row /\ cell.no = rows[i].no
    BY <1>8, RowFields
  <2>3. [rows EXCEPT ![i].type = "chosen"] = [rows EXCEPT ![i] = cell]
    OBVIOUS
  <2> HIDE DEF cell
  <2>4. QED BY <1>9, <1>11, <2>2, <2>3, CsvEdits
<1>12. QED BY <1>3, <1>10, <1>11

LEMMA CsvSteps ==
  ASSUME CsvIInv, CsvSidebar \/ CsvNextStep \/ CsvPrevious
  PROVE  CsvIInv'
<1>0. Scalars /\ GridState /\ Lists /\ edits \in Nat
  BY CsvAssumption DEF CsvIInv, Scalars
<1>1. PICK n \in 1 .. 4 : CsvStepIs(n) /\ (n = 4 => parsing = -1)
  <2>1. CASE CsvSidebar
    BY <2>1 DEF CsvSidebar
  <2>2. CASE CsvNextStep
    <3>1. csvStep + 1 \in 1 .. 4 /\ CsvStepIs(csvStep + 1) /\ parsing = -1
      BY <1>0, <2>2 DEF CsvNextStep, Scalars
    <3>2. QED BY <3>1
  <2>3. CASE CsvPrevious
    <3>1. csvStep - 1 \in 1 .. 4 /\ CsvStepIs(csvStep - 1) /\ csvStep - 1 # 4
      BY <1>0, <2>3 DEF CsvPrevious, Scalars
    <3>2. QED BY <3>1
  <2>4. QED BY <2>1, <2>2, <2>3
<1>2. /\ Here /\ csvStep' = n /\ grid' = <<>> /\ next' = <<>> /\ dirty' = (n = 4)
      /\ UNCHANGED <<file, parsing, data, faulty, handed, edits, fileRows>>
  BY <1>1 DEF CsvStepIs
<1>3. dirty' \in BOOLEAN
  BY <1>2
<1>4. Scalars'
  BY <1>0, <1>2, <1>3 DEF Scalars
<1>5. GridState'
  <2>1. CASE n = 4
    <3>1. csvStep' = 4 /\ dirty' = TRUE /\ next' = <<>> /\ parsing' = -1
      BY <1>1, <1>2, <2>1
    <3>2. ~(parsing' >= 0)
      BY <3>1
    <3>3. QED BY <3>1, <3>2 DEF GridState
  <2>2. CASE n # 4
    <3>0. n < 4
      BY <2>2
    <3>1. csvStep' # 4 /\ csvStep' < 4 /\ next' = <<>>
      BY <1>2, <2>2, <3>0
    <3>2. ~dirty'
      BY <1>2, <2>2
    <3>3. QED BY <3>1, <3>2 DEF GridState
  <2>3. QED BY <2>1, <2>2
<1>6. Good(grid', edits', fileRows')
  BY <1>0, <1>2, EmptyIsGood
<1>7. Lists'
  BY <1>0, <1>2, <1>6 DEF Lists
<1>8. QED BY <1>2, <1>4, <1>5, <1>7, CsvSame

LEMMA CsvSubmits == ASSUME CsvIInv, BulkSubmit PROVE CsvIInv'
<1>0. /\ Scalars /\ GridState /\ Lists /\ Good(data, edits, fileRows)
      /\ data # <<>> /\ handed = <<>>
      /\ faulty' = Invalid(data)
      /\ handed' = IF faulty' = {} THEN <<data>> ELSE <<>>
      /\ UNCHANGED <<csvStep, file, parsing, data, grid, next, dirty, edits, fileRows>>
  BY DEF CsvIInv, BulkSubmit, Here, Lists
<1>1. \A i \in Invalid(data) : i \in Nat
  <2>1. \A i \in DOMAIN data : i \in Nat
    BY <1>0, ListMeans DEF Good
  <2>2. QED BY <2>1 DEF Invalid
<1>2. Scalars'
  BY <1>0, <1>1 DEF Scalars
<1>3. GridState' /\ Lists'
  BY <1>0 DEF GridState, Lists
<1>4. CASE Invalid(data) = {}
  <2>1. \A i \in DOMAIN data : data[i].ok
    <3>1. \A i : i \notin Invalid(data)
      BY <1>4
    <3>2. QED BY <3>1, Zenon DEF Invalid
  <2>2. handed' = <<data>> /\ handed'[1] = data
    BY <1>0, <1>4
  <2>3. Handed'
    BY <1>0, <2>1, <2>2 DEF Handed
  <2>4. QED BY <1>2, <1>3, <2>3 DEF CsvIInv
<1>5. CASE Invalid(data) # {}
  <2>1. handed' = <<>>
    BY <1>0, <1>5
  <2>2. QED BY <1>2, <1>3, <2>1 DEF CsvIInv, Handed
<1>6. QED BY <1>4, <1>5

LEMMA CsvKeeps == ASSUME CsvIInv, [CsvNext]_csvVars PROVE CsvIInv'
<1>1. CASE FileSelect \/ FileRemove \/ FileParsed
  BY <1>1, CsvFile
<1>2. CASE GridEffects \/ GridRender
  BY <1>2, CsvCopies
<1>3. CASE CellChange
  BY <1>3, CsvCells
<1>4. CASE AddRow
  BY <1>4, CsvAdds
<1>5. CASE DeleteRow
  BY <1>5, CsvDeletes
<1>6. CASE CsvSidebar \/ CsvNextStep \/ CsvPrevious
  BY <1>6, CsvSteps
<1>7. CASE BulkSubmit
  BY <1>7, CsvSubmits
<1>8. CASE UNCHANGED csvVars
  BY <1>8 DEF csvVars, CsvIInv, Scalars, GridState, Lists, Handed
<1>9. QED BY <1>1, <1>2, <1>3, <1>4, <1>5, <1>6, <1>7, <1>8 DEF CsvNext

\* The upload page hands over rows that pass validateRows only, none of the file
\* twice, and an untouched file whole, however often its two lists have been copied
\* over each other: for files and edits of any number
\* (app/asset-upload/csv/page.tsx, components/BulkEditGrid.tsx, lib/csv-parser.ts).
THEOREM HandedOverRight == CsvSpec => []CsvInv
<1>1. CsvIInv /\ [CsvNext]_csvVars => CsvIInv'
  BY CsvKeeps
<1>2. QED BY <1>1, CsvStarts, CsvMeans, PTL DEF CsvSpec

=============================================================================
