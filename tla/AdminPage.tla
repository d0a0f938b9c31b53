----------------------------- MODULE AdminPage -----------------------------
(***************************************************************************)
(* The operators' console (app/admin): what it polls, the logs of a        *)
(* namespace, the diagnoses, the error toast, and the table of the nodes'  *)
(* disks, which joins two lists that are read apart.                       *)
(***************************************************************************)
EXTENDS Integers, FiniteSets

CONSTANTS
  LogSpaces,       \* namespaces to choose from
  Diagnoses,       \* diagnoses that can be run
  NodeNames, Ips,  \* names and addresses of nodes
  MaxTimers,       \* bound on toasts under way
  MaxNodes         \* bound on rows of each list

ASSUME AdminAssumption == MaxTimers \in Nat \ {0} /\ MaxNodes \in Nat

VARIABLES
  console,   \* tab, filters, logs, what is loading, the toast
  logAsks,   \* requests for logs: their namespaces
  diags,     \* diagnoses under way
  timers,    \* timers that will take the toast away
  offLogs,   \* history: a late answer or a failure came after the last good one
  disks      \* the list of the nodes and that of their disks

consoleVars == <<console, logAsks, diags, timers, offLogs>>

Node == [name : NodeNames, ip : Ips]

AdminTypeOK ==
  /\ console \in [tab : {"infra", "logs"}, nodeFilter : NodeNames \cup {"all"},
                  logNs : LogSpaces, narrowed : BOOLEAN, severe : BOOLEAN,
                  logs : LogSpaces \cup {"none"}, refreshing : BOOLEAN, error : BOOLEAN]
  /\ logAsks \subseteq LogSpaces
  /\ diags \subseteq Diagnoses
  /\ timers \in 0 .. MaxTimers /\ offLogs \in BOOLEAN
  /\ console.error => timers > 0
  /\ disks \in [nodes : SUBSET Node, metrics : SUBSET Node]

ConsoleInit ==
  /\ \E ns \in LogSpaces :
       /\ console = [tab |-> "infra", nodeFilter |-> "all", logNs |-> ns, narrowed |-> FALSE,
                     severe |-> FALSE, logs |-> "none", refreshing |-> FALSE, error |-> FALSE]
       /\ logAsks = {ns}
  /\ diags = {}
  /\ timers = 0 /\ offLogs = TRUE

DisksInit == disks = [nodes |-> {}, metrics |-> {}]

-----------------------------------------------------------------------------
(* The toast *)

\* showError: a timer of its own for each, which takes away any.
ShowError(c) ==
  /\ timers < MaxTimers /\ timers' = timers + 1
  /\ console' = [c EXCEPT !.error = TRUE]

Quiet(c) == console' = c /\ UNCHANGED timers

ToastGoes ==
  /\ timers > 0 /\ timers' = timers - 1
  /\ console' = [console EXCEPT !.error = FALSE]
  /\ UNCHANGED <<logAsks, diags, offLogs>>

-----------------------------------------------------------------------------
(* Tabs and filters *)

\* The tabs reset the filters, but for the severity; a node's card leads to the
\* pods of that node.
SelectTab ==
  /\ \/ \E t \in {"infra", "logs"} :
          Quiet([console EXCEPT !.tab = t, !.nodeFilter = "all", !.narrowed = FALSE])
     \/ \E n \in NodeNames :
          console.tab = "infra" /\ Quiet([console EXCEPT !.nodeFilter = n])
  /\ UNCHANGED <<logAsks, diags, offLogs>>

FilterLogs ==
  /\ console.tab = "logs"
  /\ \/ Quiet([console EXCEPT !.narrowed = ~@])
     \/ Quiet([console EXCEPT !.severe = ~@])
  /\ UNCHANGED <<logAsks, diags, offLogs>>

\* The effect runs again, as fetchLogs is another function: everything is read.
AsksAgain(ns) == logAsks \cup {ns}

\* Another namespace; what is under way for the other one is not given up.
SelectLogs ==
  /\ console.tab = "logs"
  /\ \E ns \in LogSpaces \ {console.logNs} :
       /\ Quiet([console EXCEPT !.logNs = ns, !.narrowed = FALSE, !.severe = FALSE])
       /\ logAsks' = AsksAgain(ns)
  /\ offLogs' = FALSE /\ UNCHANGED diags

-----------------------------------------------------------------------------
(* Reading *)

\* Every ten seconds.
LogsDue ==
  /\ logAsks' = logAsks \cup {console.logNs} /\ logAsks' # logAsks
  /\ UNCHANGED <<console, diags, timers, offLogs>>

\* fetchLogs: the answer is shown whatever is chosen by now.
LogsAnswer ==
  /\ \E ns \in logAsks :
       /\ logAsks' = logAsks \ {ns}
       /\ \/ Quiet([console EXCEPT !.logs = ns]) /\ offLogs' = (ns # console.logNs)
          \/ (ShowError(console) \/ Quiet(console)) /\ offLogs' = TRUE
  /\ UNCHANGED diags

\* The other lists: what fails keeps what was there.
ListsRead ==
  /\ ShowError(console)
  /\ UNCHANGED <<logAsks, diags, offLogs>>

RefreshAll ==
  /\ ~console.refreshing
  /\ Quiet([console EXCEPT !.refreshing = TRUE])
  /\ logAsks' = logAsks \cup {console.logNs}
  /\ UNCHANGED <<diags, offLogs>>

\* Each of the readings catches its failure: the button always comes back.
AllRefreshed ==
  /\ console.refreshing
  /\ \/ Quiet([console EXCEPT !.refreshing = FALSE])
     \/ ShowError([console EXCEPT !.refreshing = FALSE])
  /\ UNCHANGED <<logAsks, diags, offLogs>>

-----------------------------------------------------------------------------
(* Diagnoses: the buttons are disabled while one of theirs is under way *)

RunDiag(d) ==
  /\ d \notin diags
  /\ diags' = diags \cup {d}
  /\ UNCHANGED <<console, logAsks, timers, offLogs>>

\* A failure keeps the result there was.
DiagAnswers(d) ==
  /\ d \in diags /\ diags' = diags \ {d}
  /\ Quiet(console) \/ ShowError(console)
  /\ UNCHANGED <<logAsks, offLogs>>

ConsoleNext ==
  \/ ToastGoes \/ SelectTab \/ FilterLogs \/ SelectLogs
  \/ LogsDue \/ LogsAnswer \/ ListsRead \/ RefreshAll \/ AllRefreshed
  \/ \E d \in Diagnoses : RunDiag(d) \/ DiagAnswers(d)

\* Timers fire and requests end.
ConsoleFairness ==
  /\ WF_consoleVars(ToastGoes) /\ WF_consoleVars(AllRefreshed)
  /\ \A d \in Diagnoses : WF_consoleVars(DiagAnswers(d))

-----------------------------------------------------------------------------
(* The disks *)

\* A node's row: the metrics under its name, or else under its address.
MatchOf(n, metrics) ==
  IF \E m \in metrics : m.name = n.name THEN {m \in metrics : m.name = n.name}
  ELSE {m \in metrics : m.ip = n.ip}

\* diskNodeRows: a row for each node, and the metrics whose name no row has.
DiskRows(nodes, metrics) ==
  LET ofNodes == UNION {IF MatchOf(n, metrics) = {} THEN {[row |-> n, missing |-> TRUE]}
                        ELSE {[row |-> m, missing |-> FALSE] : m \in MatchOf(n, metrics)}
                        : n \in nodes}
  IN IF nodes = {} THEN {[row |-> m, missing |-> FALSE] : m \in metrics}
     ELSE ofNodes \cup {[row |-> m, missing |-> FALSE]
                        : m \in {k \in metrics : \A r \in ofNodes : r.row.name # k.name}}

\* Names and addresses are unique in each of the lists, which are polled apart.
Listing == {S \in SUBSET Node : /\ Cardinality(S) <= MaxNodes
                                /\ \A a, b \in S : a.name = b.name \/ a.ip = b.ip => a = b}

DisksRead ==
  \/ \E S \in Listing : disks' = [disks EXCEPT !.nodes = S]
  \/ \E S \in Listing : disks' = [disks EXCEPT !.metrics = S]

-----------------------------------------------------------------------------
(* Specification *)

AdminSpec ==
  /\ ConsoleInit /\ DisksInit
  /\ [][(ConsoleNext /\ UNCHANGED disks) \/ (DisksRead /\ UNCHANGED consoleVars)]_<<consoleVars, disks>>
  /\ ConsoleFairness

-----------------------------------------------------------------------------
(* Properties *)

\* With no request for logs under way the logs are of the namespace chosen, unless
\* an answer for another one, or a failure, came after the last good one.
LogsAreOfTheNamespace ==
  logAsks = {} /\ ~offLogs => console.logs = console.logNs

\* The toast that is to go, the button that reads all, the diagnoses that run.
ConsoleWaits == <<console.error, console.refreshing, diags # {}>>

\* However far the two lists are apart: each node has a row, or is marked missing,
\* and the usage of a disk that was read is never left out.
EveryDiskIsShown ==
  LET shown == DiskRows(disks.nodes, disks.metrics) IN
  /\ \A m \in disks.metrics : \E r \in shown : ~r.missing /\ r.row.name = m.name
  /\ \A n \in disks.nodes : \E r \in shown : r.row.name = n.name \/ (~r.missing /\ r.row.ip = n.ip)

=============================================================================
