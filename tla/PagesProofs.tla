---------------------------- MODULE PagesProofs ----------------------------
(***************************************************************************)
(* Theorems of the pages, each by itself, and of all parts of the frontend *)
(* side by side (MCSite): account, console, sign-up, forms, charts,        *)
(* widgets, the asset pages with their figures, the quick bar and the chat *)
(* tab.  For each an inductive invariant, its steps action by action, and  *)
(* what it means; the theorems of MCSite put them together at the end.     *)
(***************************************************************************)
EXTENDS BrowserProofs, Sums

-----------------------------------------------------------------------------
(* AdminPage: the logs of the console and the table of the disks *)

\* What the console is, whatever the disks are.
ConsoleRecord ==
  [tab : {"infra", "logs"}, nodeFilter : NodeNames \cup {"all"},
   logNs : LogSpaces, narrowed : BOOLEAN, severe : BOOLEAN,
   logs : LogSpaces \cup {"none"}, refreshing : BOOLEAN, error : BOOLEAN]

ConsoleIInv ==
  /\ console \in ConsoleRecord /\ logAsks \subseteq LogSpaces /\ diags \subseteq Diagnoses
  /\ timers \in 0 .. MaxTimers /\ offLogs \in BOOLEAN
  /\ console.error => timers > 0
  /\ LogsAreOfTheNamespace

DisksOK == disks \in [nodes : SUBSET Node, metrics : SUBSET Node]

\* A step leaves the toast's timers as they are, or shows the toast.
LEMMA ToastSteps ==
  ASSUME console \in ConsoleRecord, timers \in 0 .. MaxTimers, console.error => timers > 0,
         NEW c \in ConsoleRecord, c.error = console.error,
         Quiet(c) \/ ShowError(c)
  PROVE  /\ console' \in ConsoleRecord /\ timers' \in 0 .. MaxTimers /\ (console'.error => timers' > 0)
         /\ console'.logs = c.logs /\ console'.logNs = c.logNs
<1>1. CASE Quiet(c)
  BY <1>1 DEF Quiet
<1>2. CASE ShowError(c)
  <2>1. console' = [c EXCEPT !.error = TRUE] /\ timers < MaxTimers /\ timers' = timers + 1
    BY <1>2 DEF ShowError
  <2>2. console' \in ConsoleRecord /\ console'.logs = c.logs /\ console'.logNs = c.logNs
    BY <2>1 DEF ConsoleRecord
  <2>3. timers' \in 0 .. MaxTimers /\ timers' > 0
    BY <2>1, AdminAssumption
  <2>4. QED BY <2>2, <2>3
<1>3. QED BY <1>1, <1>2

LEMMA ConsoleFields ==
  ASSUME NEW c \in ConsoleRecord
  PROVE  /\ c.logs \in LogSpaces \cup {"none"} /\ c.logNs \in LogSpaces
         /\ \A b \in BOOLEAN :
              /\ [c EXCEPT !.error = b] \in ConsoleRecord /\ [c EXCEPT !.refreshing = b] \in ConsoleRecord
              /\ [c EXCEPT !.narrowed = b] \in ConsoleRecord /\ [c EXCEPT !.severe = b] \in ConsoleRecord
         /\ [c EXCEPT !.narrowed = ~@] \in ConsoleRecord /\ [c EXCEPT !.severe = ~@] \in ConsoleRecord
         /\ \A t \in {"infra", "logs"} :
              [c EXCEPT !.tab = t, !.nodeFilter = "all", !.narrowed = FALSE] \in ConsoleRecord
         /\ \A n \in NodeNames : [c EXCEPT !.nodeFilter = n] \in ConsoleRecord
         /\ \A n \in LogSpaces :
              /\ [c EXCEPT !.logs = n] \in ConsoleRecord
              /\ [c EXCEPT !.logNs = n, !.narrowed = FALSE, !.severe = FALSE] \in ConsoleRecord
BY DEF ConsoleRecord

\* What has to be shown of a step that shows logs as before and asks for no fewer.
LEMMA ConsoleSame ==
  ASSUME ConsoleIInv, NEW c \in ConsoleRecord, c.error = console.error,
         c.logs = console.logs, c.logNs = console.logNs, Quiet(c) \/ ShowError(c),
         logAsks' = logAsks \/ logAsks' = logAsks \cup {console.logNs},
         diags' \subseteq Diagnoses, offLogs' = offLogs
  PROVE  ConsoleIInv'
<1>1. /\ console' \in ConsoleRecord /\ timers' \in 0 .. MaxTimers /\ (console'.error => timers' > 0)
      /\ console'.logs = console.logs /\ console'.logNs = console.logNs
  BY ToastSteps DEF ConsoleIInv
<1>2. logAsks' \subseteq LogSpaces /\ logAsks \subseteq logAsks' /\ offLogs' \in BOOLEAN
  BY ConsoleFields DEF ConsoleIInv
<1>3. LogsAreOfTheNamespace'
  BY <1>1, <1>2 DEF ConsoleIInv, LogsAreOfTheNamespace
<1>4. QED BY <1>1, <1>2, <1>3 DEF ConsoleIInv

LEMMA ConsoleKeeps == ASSUME ConsoleIInv, [ConsoleNext]_consoleVars PROVE ConsoleIInv'
<1>0. /\ console \in ConsoleRecord /\ logAsks \subseteq LogSpaces /\ diags \subseteq Diagnoses
      /\ timers \in 0 .. MaxTimers /\ offLogs \in BOOLEAN
      /\ console.error => timers > 0
      /\ LogsAreOfTheNamespace
  BY DEF ConsoleIInv
<1>1. CASE ToastGoes
  <2>1. /\ timers > 0 /\ timers' = timers - 1 /\ console' = [console EXCEPT !.error = FALSE]
        /\ UNCHANGED <<logAsks, diags, offLogs>>
    BY <1>1 DEF ToastGoes
  <2>2. timers' \in 0 .. MaxTimers
    BY <1>0, <2>1, AdminAssumption
  <2>3. /\ console' \in ConsoleRecord /\ console'.error = FALSE
        /\ console'.logs = console.logs /\ console'.logNs = console.logNs
    BY <1>0, <2>1 DEF ConsoleRecord
  <2>4. QED BY <1>0, <2>1, <2>2, <2>3 DEF ConsoleIInv, LogsAreOfTheNamespace
<1>2. CASE SelectTab
  <2>1. ASSUME NEW t \in {"infra", "logs"},
               Quiet([console EXCEPT !.tab = t, !.nodeFilter = "all", !.narrowed = FALSE])
        PROVE  ConsoleIInv'
    <3> DEFINE c == [console EXCEPT !.tab = t, !.nodeFilter = "all", !.narrowed = FALSE]
    <3>1. c \in ConsoleRecord /\ c.error = console.error /\ c.logs = console.logs /\ c.logNs = console.logNs
      BY <1>0 DEF ConsoleRecord
    <3>2. Quiet(c) /\ UNCHANGED <<logAsks, diags, offLogs>>
      BY <1>2, <2>1 DEF SelectTab
    <3> HIDE DEF c
    <3>3. QED BY <1>0, <3>1, <3>2, ConsoleSame
  <2>2. ASSUME NEW n \in NodeNames, Quiet([console EXCEPT !.nodeFilter = n])
        PROVE  ConsoleIInv'
    <3> DEFINE c == [console EXCEPT !.nodeFilter = n]
    <3>1. c \in ConsoleRecord /\ c.error = console.error /\ c.logs = console.logs /\ c.logNs = console.logNs
      BY <1>0 DEF ConsoleRecord
    <3>2. Quiet(c) /\ UNCHANGED <<logAsks, diags, offLogs>>
      BY <1>2, <2>2 DEF SelectTab
    <3> HIDE DEF c
    <3>3. QED BY <1>0, <3>1, <3>2, ConsoleSame
  <2>3. QED BY <1>2, <2>1, <2>2 DEF SelectTab
<1>3. CASE FilterLogs
  <2>0. UNCHANGED <<logAsks, diags, offLogs>>
    BY <1>3 DEF FilterLogs
  <2>1. CASE Quiet([console EXCEPT !.narrowed = ~@])
    <3> DEFINE c == [console EXCEPT !.narrowed = ~@]
    <3>1. c \in ConsoleRecord /\ c.error = console.error /\ c.logs = console.logs /\ c.logNs = console.logNs
      BY <1>0 DEF ConsoleRecord
    <3> HIDE DEF c
    <3>2. QED BY <1>0, <2>0, <2>1, <3>1, ConsoleSame DEF c
  <2>2. CASE Quiet([console EXCEPT !.severe = ~@])
    <3> DEFINE c == [console EXCEPT !.severe = ~@]
    <3>1. c \in ConsoleRecord /\ c.error = console.error /\ c.logs = console.logs /\ c.logNs = console.logNs
      BY <1>0 DEF ConsoleRecord
    <3> HIDE DEF c
    <3>2. QED BY <1>0, <2>0, <2>2, <3>1, ConsoleSame DEF c
  <2>3. QED BY <1>3, <2>1, <2>2 DEF FilterLogs
<1>4. CASE SelectLogs
  <2>1. PICK ns \in LogSpaces \ {console.logNs} :
          /\ Quiet([console EXCEPT !.logNs = ns, !.narrowed = FALSE, !.severe = FALSE])
          /\ logAsks' = AsksAgain(ns)
    BY <1>4 DEF SelectLogs
  <2> DEFINE c == [console EXCEPT !.logNs = ns, !.narrowed = FALSE, !.severe = FALSE]
  <2>2. c \in ConsoleRecord /\ c.error = console.error
    BY <1>0 DEF ConsoleRecord
  <2> HIDE DEF c
  <2>3. Quiet(c)
    BY <2>1 DEF c
  <2>4. console' \in ConsoleRecord /\ timers' \in 0 .. MaxTimers /\ (console'.error => timers' > 0)
    BY <1>0, <2>2, <2>3, ToastSteps
  <2>5. /\ logAsks' \subseteq LogSpaces /\ logAsks' # {} /\ offLogs' = FALSE /\ diags' = diags
    BY <1>0, <1>4, <2>1 DEF SelectLogs, AsksAgain
  <2>6. QED BY <1>0, <2>4, <2>5 DEF ConsoleIInv, LogsAreOfTheNamespace
<1>5. CASE LogsDue
  BY <1>0, <1>5, ConsoleSame DEF LogsDue, Quiet
<1>6. CASE LogsAnswer
  <2>1. PICK ns \in logAsks :
          /\ logAsks' = logAsks \ {ns}
          /\ \/ Quiet([console EXCEPT !.logs = ns]) /\ offLogs' = (ns # console.logNs)
             \/ (ShowError(console) \/ Quiet(console)) /\ offLogs' = TRUE
    BY <1>6 DEF LogsAnswer
  <2>2. logAsks' \subseteq LogSpaces /\ diags' = diags /\ ns \in LogSpaces
    BY <1>0, <1>6, <2>1 DEF LogsAnswer
  <2>3. CASE Quiet([console EXCEPT !.logs = ns]) /\ offLogs' = (ns # console.logNs)
    <3> DEFINE c == [console EXCEPT !.logs = ns]
    <3>1. c \in ConsoleRecord /\ c.error = console.error /\ c.logs = ns /\ c.logNs = console.logNs
      BY <1>0, <2>2 DEF ConsoleRecord
    <3> HIDE DEF c
    <3>2. Quiet(c)
      BY <2>3 DEF c
    <3>3. /\ console' \in ConsoleRecord /\ timers' \in 0 .. MaxTimers /\ (console'.error => timers' > 0)
          /\ console'.logs = c.logs /\ console'.logNs = c.logNs
      BY <1>0, <3>1, <3>2, ToastSteps
    <3>4. offLogs' \in BOOLEAN /\ (~offLogs' => ns = console.logNs)
      BY <2>3
    <3>5. QED BY <1>0, <2>2, <3>1, <3>3, <3>4 DEF ConsoleIInv, LogsAreOfTheNamespace
  <2>4. CASE (ShowError(console) \/ Quiet(console)) /\ offLogs' = TRUE
    <3>1. console' \in ConsoleRecord /\ timers' \in 0 .. MaxTimers /\ (console'.error => timers' > 0)
      BY <1>0, <2>4, ToastSteps
    <3>2. QED BY <1>0, <2>2, <2>4, <3>1 DEF ConsoleIInv, LogsAreOfTheNamespace
  <2>5. QED BY <2>1, <2>3, <2>4
<1>7. CASE ListsRead
  BY <1>0, <1>7, ConsoleSame DEF ListsRead
<1>8. CASE RefreshAll
  <2> DEFINE c == [console EXCEPT !.refreshing = TRUE]
  <2>1. c \in ConsoleRecord /\ c.error = console.error /\ c.logs = console.logs /\ c.logNs = console.logNs
    BY <1>0 DEF ConsoleRecord
  <2>2. Quiet(c) /\ logAsks' = logAsks \cup {console.logNs} /\ UNCHANGED <<diags, offLogs>>
    BY <1>8 DEF RefreshAll
  <2> HIDE DEF c
  <2>3. QED BY <1>0, <2>1, <2>2, ConsoleSame
<1>9. CASE AllRefreshed
  <2> DEFINE c == [console EXCEPT !.refreshing = FALSE]
  <2>1. c \in ConsoleRecord /\ c.error = console.error /\ c.logs = console.logs /\ c.logNs = console.logNs
    BY <1>0 DEF ConsoleRecord
  <2>2. (Quiet(c) \/ ShowError(c)) /\ UNCHANGED <<logAsks, diags, offLogs>>
    BY <1>9 DEF AllRefreshed
  <2> HIDE DEF c
  <2>3. QED BY <1>0, <2>1, <2>2, ConsoleSame
<1>10. ASSUME NEW d \in Diagnoses, RunDiag(d) PROVE ConsoleIInv'
  <2>1. Quiet(console) /\ diags' \subseteq Diagnoses /\ UNCHANGED <<logAsks, offLogs>>
    BY <1>0, <1>10 DEF RunDiag, Quiet
  <2>2. QED BY <1>0, <2>1, ConsoleSame
<1>11. ASSUME NEW d \in Diagnoses, DiagAnswers(d) PROVE ConsoleIInv'
  <2>1. (Quiet(console) \/ ShowError(console)) /\ diags' \subseteq Diagnoses /\ UNCHANGED <<logAsks, offLogs>>
    BY <1>0, <1>11 DEF DiagAnswers
  <2>2. QED BY <1>0, <2>1, ConsoleSame
<1>12. CASE UNCHANGED consoleVars
  BY <1>12 DEF consoleVars, ConsoleIInv, LogsAreOfTheNamespace
<1>13. QED
  BY <1>1, <1>2, <1>3, <1>4, <1>5, <1>6, <1>7, <1>8, <1>9, <1>10, <1>11, <1>12 DEF ConsoleNext

LEMMA ConsoleStarts == ConsoleInit => ConsoleIInv
<1> SUFFICES ASSUME ConsoleInit PROVE ConsoleIInv
  OBVIOUS
<1>1. console \in ConsoleRecord /\ console.error = FALSE
  BY DEF ConsoleInit, ConsoleRecord
<1>2. logAsks \subseteq LogSpaces /\ diags \subseteq Diagnoses /\ offLogs = TRUE
  BY DEF ConsoleInit
<1>3. timers \in 0 .. MaxTimers
  BY AdminAssumption DEF ConsoleInit
<1>4. QED BY <1>1, <1>2, <1>3 DEF ConsoleIInv, LogsAreOfTheNamespace

\* However far the lists of nodes and of disks are apart, the table that joins them
\* leaves out neither a node nor a disk that was read (diskNodeRows).
LEMMA TableIsWhole ==
  ASSUME NEW nodes, NEW metrics
  PROVE  /\ \A m \in metrics : \E r \in DiskRows(nodes, metrics) : ~r.missing /\ r.row.name = m.name
         /\ \A n \in nodes : \E r \in DiskRows(nodes, metrics) :
              r.row.name = n.name \/ (~r.missing /\ r.row.ip = n.ip)
<1> DEFINE rowsOf(n) == IF MatchOf(n, metrics) = {} THEN {[row |-> n, missing |-> TRUE]}
                        ELSE {[row |-> m, missing |-> FALSE] : m \in MatchOf(n, metrics)}
           ofNodes   == UNION {rowsOf(n) : n \in nodes}
           read(m)   == [row |-> m, missing |-> FALSE]
<1>1. \A m : read(m).row = m /\ ~read(m).missing
  OBVIOUS
<1>2. ASSUME nodes = {}, NEW m \in metrics PROVE read(m) \in DiskRows(nodes, metrics)
  BY <1>2 DEF DiskRows
<1>3. ASSUME nodes # {} PROVE ofNodes \subseteq DiskRows(nodes, metrics)
  BY <1>3 DEF DiskRows
<1>4. ASSUME nodes # {}, NEW m \in metrics, \A r \in ofNodes : r.row.name # m.name
      PROVE  read(m) \in DiskRows(nodes, metrics)
  BY <1>4 DEF DiskRows
<1>5. ASSUME NEW r \in ofNodes
      PROVE  \E n \in nodes : r \in rowsOf(n)
  BY <1>5
<1>6. ASSUME NEW n \in nodes, NEW r \in rowsOf(n), r.missing
      PROVE  \A m \in metrics : m.name # r.row.name
  <2>1. CASE MatchOf(n, metrics) = {}
    <3>1. r.row = n
      BY <1>6, <2>1
    <3>2. QED BY <2>1, <3>1 DEF MatchOf
  <2>2. CASE MatchOf(n, metrics) # {}
    BY <1>6, <2>2
  <2>3. QED BY <2>1, <2>2
<1>7. ASSUME NEW n \in nodes
      PROVE  \E r \in rowsOf(n) : r.row.name = n.name \/ (~r.missing /\ r.row.ip = n.ip)
  <2>1. CASE MatchOf(n, metrics) = {}
    <3>1. [row |-> n, missing |-> TRUE] \in rowsOf(n)
      BY <2>1
    <3>2. QED BY <3>1
  <2>2. CASE MatchOf(n, metrics) # {}
    <3>1. PICK m \in MatchOf(n, metrics) : TRUE
      BY <2>2
    <3>2. read(m) \in rowsOf(n)
      BY <2>2, <3>1
    <3>3. m.name = n.name \/ m.ip = n.ip
      BY <3>1 DEF MatchOf
    <3>4. QED BY <1>1, <3>2, <3>3
  <2>3. QED BY <2>1, <2>2
<1>8. ASSUME NEW n \in nodes PROVE rowsOf(n) \subseteq ofNodes
  OBVIOUS
<1> HIDE DEF rowsOf, ofNodes
<1>9. ASSUME NEW m \in metrics
      PROVE  \E r \in DiskRows(nodes, metrics) : ~r.missing /\ r.row.name = m.name
  <2>1. CASE nodes = {}
    <3>1. read(m) \in DiskRows(nodes, metrics) /\ read(m).row = m /\ ~read(m).missing
      BY <1>1, <1>2, <2>1
    <3> HIDE DEF read
    <3>2. QED BY <3>1
  <2>2. CASE nodes # {} /\ \A r \in ofNodes : r.row.name # m.name
    <3>1. read(m) \in DiskRows(nodes, metrics) /\ read(m).row = m /\ ~read(m).missing
      BY <1>1, <1>4, <2>2
    <3> HIDE DEF read
    <3>2. QED BY <3>1
  <2>3. CASE nodes # {} /\ \E r \in ofNodes : r.row.name = m.name
    <3>1. PICK r \in ofNodes : r.row.name = m.name
      BY <2>3
    <3>2. PICK n \in nodes : r \in rowsOf(n)
      BY <1>5, <3>1
    <3>3. ~r.missing
      BY <1>6, <3>1, <3>2
    <3>4. r \in DiskRows(nodes, metrics)
      BY <1>3, <2>3, <3>1
    <3>5. QED BY <3>1, <3>3, <3>4
  <2>4. QED BY <2>1, <2>2, <2>3
<1>10. ASSUME NEW n \in nodes
       PROVE  \E r \in DiskRows(nodes, metrics) : r.row.name = n.name \/ (~r.missing /\ r.row.ip = n.ip)
  BY <1>3, <1>7, <1>8
<1>11. QED BY <1>9, <1>10

LEMMA DisksKeep == ASSUME DisksOK, [DisksRead]_disks PROVE DisksOK'
<1>1. ASSUME NEW S \in Listing PROVE S \in SUBSET Node
  BY DEF Listing
<1>2. QED BY <1>1 DEF DisksOK, DisksRead

LEMMA AdminMeans ==
  ConsoleIInv /\ DisksOK => AdminTypeOK /\ LogsAreOfTheNamespace /\ EveryDiskIsShown
<1>1. EveryDiskIsShown
  BY TableIsWhole DEF EveryDiskIsShown
<1>2. QED BY <1>1 DEF ConsoleIInv, ConsoleRecord, DisksOK, AdminTypeOK

\* With no request under way the console shows the logs of the namespace that is
\* chosen, unless the last answer was late or lost, and its table leaves out no node
\* and no disk, however far the two lists are apart (app/admin/page.tsx).
THEOREM ConsoleIsTrue == AdminSpec => [](AdminTypeOK /\ LogsAreOfTheNamespace /\ EveryDiskIsShown)
<1>1. ConsoleInit /\ DisksInit => ConsoleIInv /\ DisksOK
  BY ConsoleStarts DEF DisksInit, DisksOK
<1>2. ConsoleIInv /\ DisksOK
      /\ [(ConsoleNext /\ UNCHANGED disks) \/ (DisksRead /\ UNCHANGED consoleVars)]_<<consoleVars, disks>>
      => (ConsoleIInv /\ DisksOK)'
  BY ConsoleKeeps, DisksKeep
<1>3. QED BY <1>1, <1>2, AdminMeans, PTL DEF AdminSpec

-----------------------------------------------------------------------------
(* SignupPages: the form that waits for its mail, and the page of the link *)

FormRecord ==
  [step : {"input", "verifying", "success"}, at : {"rest", "checking", "registering"},
   typed : Addresses \cup {NoAddress}, email : Addresses \cup {NoAddress},
   polling : BOOLEAN, resending : BOOLEAN, error : {"none", "email", "global"}]

LinkRecord ==
  [state : {"closed", "verifying", "success", "error", "awaiting"},
   via : {"none", "token", "email"}, of : Addresses \cup {NoAddress}, resending : BOOLEAN]

\* What the form asks about and waits for is an address that it got registered: it
\* asks behind the form, too, that the user went back to.
FormState ==
  /\ form \in FormRecord
  /\ form.at # "rest" => form.step = "input" /\ form.error = "none"
  /\ form.email # NoAddress => form.email \in made
  /\ form.step = "verifying" => form.email # NoAddress
  /\ form.at = "checking" \/ form.at = "registering" => form.typed \in Addresses
  /\ polled \subseteq made /\ made \subseteq Addresses

LinkState ==
  /\ linkPage \in LinkRecord
  /\ linkPage.state = "verifying" => linkPage.of \in service.known
  /\ linkPage.state = "success" => linkPage.of \in service.used
  /\ service \in [known : SUBSET Addresses, used : SUBSET Addresses]
  /\ service.used \subseteq service.known

SignupIInv == FormState /\ LinkState

LEMMA FormFields ==
  ASSUME NEW f \in FormRecord
  PROVE  /\ f.email \in Addresses \cup {NoAddress} /\ f.typed \in Addresses \cup {NoAddress}
         /\ NewForm \in FormRecord /\ NewForm.at = "rest" /\ NewForm.step = "input"
         /\ NewForm.email = NoAddress
         /\ \A e \in Addresses :
              [f EXCEPT !.at = "checking", !.typed = e, !.error = "none"] \in FormRecord
         /\ \A e \in {"email", "global"} : [f EXCEPT !.at = "rest", !.error = e] \in FormRecord
         /\ [f EXCEPT !.at = "registering"] \in FormRecord
         /\ [f EXCEPT !.at = "rest", !.email = f.typed, !.step = "verifying", !.polling = TRUE]
              \in FormRecord
         /\ [f EXCEPT !.step = "success", !.polling = FALSE] \in FormRecord
         /\ [f EXCEPT !.step = "input"] \in FormRecord
         /\ \A b \in BOOLEAN : [f EXCEPT !.resending = b] \in FormRecord
BY DEF FormRecord, NewForm

\* Steps of the form, which leave the page of the link and the service alone.
LEMMA FormKeeps ==
  ASSUME SignupIInv,
         \/ Submit \/ CheckAnswered \/ RegisterAnswered
         \/ AskStatus \/ StatusAnswered \/ ResendFromForm \/ EditAgain \/ FormLeft
  PROVE  SignupIInv'
<1>0. FormState /\ LinkState /\ form \in FormRecord /\ UNCHANGED <<linkPage, service, made>>
  BY DEF SignupIInv, FormState, Submit, CheckAnswered, RegisterAnswered, AskStatus,
         StatusAnswered, ResendFromForm, EditAgain, FormLeft
<1>1. LinkState'
  BY <1>0 DEF LinkState
<1>2. CASE Submit
  <2>1. PICK e \in Addresses : form' = [form EXCEPT !.at = "checking", !.typed = e, !.error = "none"]
    BY <1>2 DEF Submit
  <2>2. /\ form' \in FormRecord /\ form'.typed = e /\ form'.at = "checking" /\ form'.error = "none"
        /\ form'.step = form.step /\ form'.email = form.email
    BY <1>0, <2>1 DEF FormRecord
  <2>3. form.step = "input" /\ polled' = polled
    BY <1>2 DEF Submit
  <2>4. FormState'
    BY <1>0, <2>2, <2>3 DEF FormState
  <2>5. QED BY <1>1, <2>4 DEF SignupIInv
<1>3. ASSUME NEW error \in {"email", "global"}, form' = Refused(error), polled' = polled,
             form.step = "input"
      PROVE  SignupIInv'
  <2>1. /\ form' \in FormRecord /\ form'.at = "rest"
        /\ form'.step = form.step /\ form'.email = form.email
    BY <1>0, <1>3 DEF FormRecord, Refused
  <2>2. FormState'
    BY <1>0, <1>3, <2>1 DEF FormState
  <2>3. QED BY <1>1, <2>2 DEF SignupIInv
<1>4. CASE CheckAnswered
  <2>1. polled' = polled /\ form.at = "checking" /\ form.step = "input" /\ form.error = "none"
    BY <1>0, <1>4 DEF CheckAnswered, FormState
  <2>2. CASE form' = [form EXCEPT !.at = "registering"]
    <3>1. /\ form' \in FormRecord /\ form'.at = "registering" /\ form'.typed = form.typed
          /\ form'.step = form.step /\ form'.email = form.email /\ form'.error = form.error
      BY <1>0, <2>2 DEF FormRecord
    <3>2. FormState'
      BY <1>0, <2>1, <3>1 DEF FormState
    <3>3. QED BY <1>1, <3>2 DEF SignupIInv
  <2>3. CASE form' = Refused("email") \/ form' = Refused("global")
    BY <1>3, <2>1, <2>3
  <2>4. QED BY <1>4, <2>2, <2>3 DEF CheckAnswered
<1>5. CASE RegisterAnswered
  <2>1. polled' = polled /\ form.at = "registering" /\ form.step = "input" /\ form.typed \in Addresses
    BY <1>0, <1>5 DEF RegisterAnswered, FormState
  <2>2. CASE form.typed \in made
             /\ form' = [form EXCEPT !.at = "rest", !.email = form.typed, !.step = "verifying",
                                     !.polling = TRUE]
    <3>1. /\ form' \in FormRecord /\ form'.at = "rest" /\ form'.step = "verifying"
          /\ form'.email = form.typed
      BY <1>0, <2>2 DEF FormRecord
    <3>2. form'.email # NoAddress
      BY <2>1, <3>1, SignupAssumption
    <3>3. FormState'
      BY <1>0, <2>1, <2>2, <3>1, <3>2 DEF FormState
    <3>4. QED BY <1>1, <3>3 DEF SignupIInv
  <2>3. CASE form' = Refused("global")
    BY <1>3, <2>1, <2>3
  <2>4. QED BY <1>5, <2>2, <2>3 DEF RegisterAnswered, AfterRegister
<1>6. CASE AskStatus
  <2>1. polled' = polled \cup {form.email} /\ form.email # NoAddress /\ form' = form
    BY <1>6 DEF AskStatus
  <2>2. FormState'
    BY <1>0, <2>1 DEF FormState
  <2>3. QED BY <1>1, <2>2 DEF SignupIInv
<1>7. CASE StatusAnswered
  <2>1. polled' \subseteq polled /\ form' = form
    BY <1>7 DEF StatusAnswered, StatusOf
  <2>2. FormState'
    BY <1>0, <2>1 DEF FormState
  <2>3. QED BY <1>1, <2>2 DEF SignupIInv
<1>8. CASE ResendFromForm
  <2>1. PICK b \in BOOLEAN : form' = [form EXCEPT !.resending = b]
    BY <1>8 DEF ResendFromForm, NotSent
  <2>2. /\ form' \in FormRecord /\ form'.at = form.at /\ form'.typed = form.typed
        /\ form'.step = form.step /\ form'.email = form.email /\ form'.error = form.error
    BY <1>0, <2>1 DEF FormRecord
  <2>3. FormState'
    BY <1>0, <1>8, <2>2 DEF FormState, ResendFromForm
  <2>4. QED BY <1>1, <2>3 DEF SignupIInv
<1>9. CASE EditAgain
  <2>1. form.step = "verifying" /\ form' = [form EXCEPT !.step = "input"] /\ polled' = polled
    BY <1>9 DEF EditAgain
  <2>2. /\ form' \in FormRecord /\ form'.at = form.at /\ form'.typed = form.typed
        /\ form'.step = "input" /\ form'.email = form.email /\ form'.error = form.error
    BY <1>0, <2>1 DEF FormRecord
  <2>3. FormState'
    BY <1>0, <2>1, <2>2 DEF FormState
  <2>4. QED BY <1>1, <2>3 DEF SignupIInv
<1>10. CASE FormLeft
  <2>1. form' = NewForm /\ polled' = {}
    BY <1>10 DEF FormLeft
  <2>2. form' \in FormRecord /\ form'.at = "rest" /\ form'.step = "input" /\ form'.email = NoAddress
    BY <1>0, <2>1, FormFields
  <2>3. FormState'
    BY <1>0, <2>1, <2>2 DEF FormState
  <2>4. QED BY <1>1, <2>3 DEF SignupIInv
<1>11. QED BY <1>2, <1>4, <1>5, <1>6, <1>7, <1>8, <1>9, <1>10

\* Steps of the service and of the page of the link.
LEMMA LinkKeeps ==
  ASSUME SignupIInv,
         RegisterServed \/ OtherRegisters \/ LinkPageOpens \/ TokenAnswered \/ ResendFromLink \/ LinkPageLeft
  PROVE  SignupIInv'
<1>0. /\ FormState /\ LinkState /\ UNCHANGED <<form, polled>>
      /\ linkPage \in LinkRecord /\ service.used \subseteq service.known
      /\ service \in [known : SUBSET Addresses, used : SUBSET Addresses]
  BY DEF SignupIInv, LinkState, RegisterServed, OtherRegisters, LinkPageOpens, TokenAnswered,
         ResendFromLink, LinkPageLeft
<1>1. ASSUME UNCHANGED made PROVE FormState'
  BY <1>0, <1>1 DEF FormState
<1>2. ASSUME NEW e \in Addresses, service' = [service EXCEPT !.known = @ \cup {e}],
             linkPage' = linkPage
      PROVE  LinkState'
  <2>1. /\ service'.known = service.known \cup {e} /\ service'.used = service.used
        /\ service' \in [known : SUBSET Addresses, used : SUBSET Addresses]
    BY <1>0, <1>2
  <2>2. QED BY <1>0, <1>2, <2>1 DEF LinkState
<1>3. CASE RegisterServed
  <2>1. form.typed \in Addresses
    BY <1>0, <1>3 DEF FormState, RegisterServed
  <2>2. FormState'
    BY <1>0, <1>3, <2>1 DEF FormState, RegisterServed
  <2>3. QED BY <1>2, <1>3, <2>1, <2>2 DEF RegisterServed, SignupIInv
<1>4. CASE OtherRegisters
  BY <1>1, <1>2, <1>4 DEF OtherRegisters, SignupIInv
<1>5. CASE LinkPageOpens
  <2>0. UNCHANGED <<made, service>>
    BY <1>5 DEF LinkPageOpens
  <2>1. ASSUME NEW e \in service.known,
               linkPage' = [NoPage EXCEPT !.state = "verifying", !.via = "token", !.of = e]
        PROVE  LinkState'
    <3>1. /\ linkPage' \in LinkRecord /\ linkPage'.state = "verifying" /\ linkPage'.of = e
      BY <1>0, <2>1 DEF LinkRecord, NoPage
    <3>2. QED BY <1>0, <2>0, <3>1 DEF LinkState
  <2>2. ASSUME NEW e \in Addresses,
               linkPage' = [NoPage EXCEPT !.state = "awaiting", !.via = "email", !.of = e]
        PROVE  LinkState'
    <3>1. linkPage' \in LinkRecord /\ linkPage'.state = "awaiting"
      BY <2>2 DEF LinkRecord, NoPage
    <3>2. QED BY <1>0, <2>0, <3>1 DEF LinkState
  <2>3. ASSUME linkPage' = [NoPage EXCEPT !.state = "error"] PROVE LinkState'
    <3>1. linkPage' \in LinkRecord /\ linkPage'.state = "error"
      BY <2>3 DEF LinkRecord, NoPage
    <3>2. QED BY <1>0, <2>0, <3>1 DEF LinkState
  <2>4. LinkState'
    BY <1>5, <2>1, <2>2, <2>3 DEF LinkPageOpens
  <2>5. QED BY <1>1, <2>0, <2>4 DEF SignupIInv
<1>6. CASE TokenAnswered
  <2>0. linkPage.state = "verifying" /\ UNCHANGED made /\ linkPage.of \in service.known
    BY <1>0, <1>6 DEF TokenAnswered, LinkState
  <2>1. ASSUME service' = [service EXCEPT !.used = @ \cup {linkPage.of}],
               NEW s \in {"success", "error"}, linkPage' = [linkPage EXCEPT !.state = s]
        PROVE  LinkState'
    <3>1. linkPage' \in LinkRecord /\ linkPage'.of = linkPage.of /\ linkPage'.state = s
      BY <1>0, <2>1 DEF LinkRecord
    <3>2. /\ service'.known = service.known /\ service'.used = service.used \cup {linkPage.of}
          /\ service' \in [known : SUBSET Addresses, used : SUBSET Addresses]
      BY <1>0, <2>0, <2>1
    <3>3. QED BY <1>0, <2>0, <3>1, <3>2 DEF LinkState
  <2>2. ASSUME linkPage' = [linkPage EXCEPT !.state = "error"], UNCHANGED service
        PROVE  LinkState'
    <3>1. linkPage' \in LinkRecord /\ linkPage'.of = linkPage.of /\ linkPage'.state = "error"
      BY <1>0, <2>2 DEF LinkRecord
    <3>2. QED BY <1>0, <2>2, <3>1 DEF LinkState
  <2>3. LinkState'
    BY <1>6, <2>1, <2>2 DEF TokenAnswered, Verified
  <2>4. QED BY <1>1, <2>0, <2>3 DEF SignupIInv
<1>7. CASE ResendFromLink
  <2>0. UNCHANGED <<made, service>>
    BY <1>7 DEF ResendFromLink
  <2>1. PICK b \in BOOLEAN : linkPage' = [linkPage EXCEPT !.resending = b]
    BY <1>7 DEF ResendFromLink, NotSent
  <2>2. /\ linkPage' \in LinkRecord /\ linkPage'.of = linkPage.of
        /\ linkPage'.state = linkPage.state
    BY <1>0, <2>1 DEF LinkRecord
  <2>3. LinkState'
    BY <1>0, <2>0, <2>2 DEF LinkState
  <2>4. QED BY <1>1, <2>0, <2>3 DEF SignupIInv
<1>8. CASE LinkPageLeft
  <2>0. UNCHANGED <<made, service>> /\ linkPage' = NoPage
    BY <1>8 DEF LinkPageLeft
  <2>1. linkPage' \in LinkRecord /\ linkPage'.state = "closed"
    BY <2>0 DEF LinkRecord, NoPage
  <2>2. LinkState'
    BY <1>0, <2>0, <2>1 DEF LinkState
  <2>3. QED BY <1>1, <2>0, <2>2 DEF SignupIInv
<1>9. QED BY <1>3, <1>4, <1>5, <1>6, <1>7, <1>8

LEMMA SignupKeeps == ASSUME SignupIInv, [SignupNext]_signupVars PROVE SignupIInv'
<1>1. CASE UNCHANGED signupVars
  BY <1>1 DEF signupVars, SignupIInv, FormState, LinkState
<1>2. QED BY <1>1, FormKeeps, LinkKeeps DEF SignupNext

LEMMA SignupStarts == SignupInit => SignupIInv
<1> SUFFICES ASSUME SignupInit PROVE SignupIInv
  OBVIOUS
<1>1. form \in FormRecord /\ form.at = "rest" /\ form.step = "input" /\ form.email = NoAddress
  BY DEF SignupInit, NewForm, FormRecord
<1>2. linkPage \in LinkRecord /\ linkPage.state = "closed"
  BY DEF SignupInit, NoPage, LinkRecord
<1>3. /\ service \in [known : SUBSET Addresses, used : SUBSET Addresses]
      /\ service.used \subseteq service.known /\ polled = {} /\ made = {}
  BY DEF SignupInit
<1>4. QED BY <1>1, <1>2, <1>3 DEF SignupIInv, FormState, LinkState

LEMMA SignupMeans == SignupIInv => SignupTypeOK /\ WaitsForItsOwnMail /\ DoneWasUsed
<1> SUFFICES ASSUME SignupIInv PROVE SignupTypeOK /\ WaitsForItsOwnMail /\ DoneWasUsed
  OBVIOUS
<1>1. WaitsForItsOwnMail /\ DoneWasUsed
  BY DEF SignupIInv, FormState, LinkState, WaitsForItsOwnMail, DoneWasUsed
<1>2. service.used \subseteq service.known /\ service.known \subseteq Addresses
  BY DEF SignupIInv, LinkState
<1>3. form \in FormRecord /\ linkPage \in LinkRecord
  BY DEF SignupIInv, FormState, LinkState
<1>4. QED BY <1>1, <1>2, <1>3 DEF SignupIInv, FormState, FormRecord, LinkRecord, SignupTypeOK

\* The form waits for a mail to an address that it got registered itself, whoever
\* registers between its two calls, and the page of the link says it is done only
\* for a link that was used (app/register/page.tsx, app/verify-email/page.tsx).
THEOREM SignupIsTrue == SignupSpec => [](SignupTypeOK /\ WaitsForItsOwnMail /\ DoneWasUsed)
<1>1. SignupIInv /\ [SignupNext]_signupVars => SignupIInv'
  BY SignupKeeps
<1>2. QED BY <1>1, SignupStarts, SignupMeans, PTL DEF SignupSpec

-----------------------------------------------------------------------------
(* MyPage: two flows that change the account and read it anew *)

Acts == {"profile", "picture"}

AccountRecord == [name : Names, pic : BOOLEAN, open : BOOLEAN]
MeRecord ==
  [user : User \cup {NoOne}, typed : 0 .. 2, saving : BOOLEAN, loading : BOOLEAN,
   pass : {"", "refused", "changing", "changed"}, leaving : {"no", "asked", "sent", "left"}]

\* What disables the buttons of a flow.
Disabled(m, f) == IF f = "profile" THEN m.saving ELSE m.loading

MyTypes ==
  /\ account \in AccountRecord /\ me \in MeRecord /\ flows \in [Acts -> Flow]
  /\ works \in 0 .. MaxWorks /\ doubtful \in BOOLEAN
  /\ \A f \in Acts : Disabled(me, f) <=> Busy(f)

Served == [name |-> account.name, pic |-> account.pic]

\* A flow that has been alone since it began is alone still, and what it was served
\* is the account; as long as nothing is in doubt each flow is alone, and the page
\* shows the account until the flow has changed it.
FlowState(f) ==
  /\ Busy(f) /\ flows[f].alone => ~Busy(TheOther(f))
  /\ ~doubtful /\ Busy(f) => flows[f].alone
  /\ account.open /\ flows[f].alone /\ flows[f].at = "answer" => flows[f].got = Served
  /\ account.open /\ ~doubtful /\ flows[f].at \in {"convert", "send"} => me.user = Served

RestState ==
  account.open /\ ~doubtful /\ ~Busy("profile") /\ ~Busy("picture") => me.user = Served

MyIInv == MyTypes /\ (\A f \in Acts : FlowState(f)) /\ RestState

LEMMA TwoFlows ==
  ASSUME NEW f \in Acts
  PROVE  /\ TheOther(f) \in Acts /\ TheOther(f) # f /\ TheOther(TheOther(f)) = f
         /\ Acts = {f, TheOther(f)}
         /\ {f, TheOther(f)} = {"profile", "picture"}
BY DEF Acts, TheOther

LEMMA MeFields ==
  ASSUME NEW m \in MeRecord, NEW f \in Acts
  PROVE  /\ m.user \in User \cup {NoOne} /\ m.saving \in BOOLEAN /\ m.loading \in BOOLEAN
         /\ Rests(m, f) \in MeRecord /\ Rests(m, f).user = m.user
         /\ ~Disabled(Rests(m, f), f)
         /\ Disabled(Rests(m, f), TheOther(f)) <=> Disabled(m, TheOther(f))
         /\ \A u \in User \cup {NoOne} :
              /\ Read(m, u) \in MeRecord /\ Read(m, u).user = u
              /\ \A g \in Acts : Disabled(Read(m, u), g) <=> Disabled(m, g)
<1>1. m.user \in User \cup {NoOne} /\ m.saving \in BOOLEAN /\ m.loading \in BOOLEAN
  BY DEF MeRecord
<1>2. [m EXCEPT !.saving = FALSE] \in MeRecord /\ [m EXCEPT !.loading = FALSE] \in MeRecord
  BY DEF MeRecord
<1>3. /\ [m EXCEPT !.saving = FALSE].user = m.user /\ [m EXCEPT !.saving = FALSE].saving = FALSE
      /\ [m EXCEPT !.saving = FALSE].loading = m.loading
      /\ [m EXCEPT !.loading = FALSE].user = m.user /\ [m EXCEPT !.loading = FALSE].loading = FALSE
      /\ [m EXCEPT !.loading = FALSE].saving = m.saving
  BY DEF MeRecord
<1>4. ASSUME f = "profile"
      PROVE  /\ Rests(m, f) \in MeRecord /\ Rests(m, f).user = m.user
             /\ ~Disabled(Rests(m, f), f)
             /\ Disabled(Rests(m, f), TheOther(f)) <=> Disabled(m, TheOther(f))
  BY <1>2, <1>3, <1>4 DEF Rests, Disabled, TheOther
<1>5. ASSUME f = "picture"
      PROVE  /\ Rests(m, f) \in MeRecord /\ Rests(m, f).user = m.user
             /\ ~Disabled(Rests(m, f), f)
             /\ Disabled(Rests(m, f), TheOther(f)) <=> Disabled(m, TheOther(f))
  BY <1>2, <1>3, <1>5 DEF Rests, Disabled, TheOther
<1>6. ASSUME NEW u \in User \cup {NoOne}
      PROVE  /\ Read(m, u) \in MeRecord /\ Read(m, u).user = u
             /\ \A g \in Acts : Disabled(Read(m, u), g) <=> Disabled(m, g)
  <2>1. u.name \in 0 .. 2
    BY DEF User, NoOne, Names
  <2>2. Read(m, u) \in MeRecord /\ Read(m, u).user = u
    BY <2>1 DEF Read, MeRecord
  <2>3. Read(m, u).saving = m.saving /\ Read(m, u).loading = m.loading
    BY <2>1 DEF Read, MeRecord
  <2>4. QED BY <2>2, <2>3 DEF Disabled
<1>7. QED BY <1>1, <1>4, <1>5, <1>6 DEF Acts

LEMMA RestingFlow == NoFlow \in Flow /\ NoFlow.at = "idle"
BY DEF NoFlow, Flow, Names, NoOne

LEMMA FlowMeans ==
  ASSUME NEW w \in Flow
  PROVE  /\ w.at \in {"idle", "convert", "send", "read", "answer"} /\ w.alone \in BOOLEAN
         /\ w.name \in Names /\ w.got \in User \cup {NoOne}
         /\ w.ask \in {"name", "pic", "no pic"}
BY DEF Flow

LEMMA FlowMoves ==
  ASSUME NEW w \in Flow, NEW a \in {"idle", "convert", "send", "read", "answer"}
  PROVE  /\ [w EXCEPT !.at = a] \in Flow /\ [w EXCEPT !.at = a].at = a
         /\ [w EXCEPT !.at = a].alone = w.alone
BY DEF Flow

LEMMA FlowAlone ==
  ASSUME NEW w \in Flow, NEW b \in BOOLEAN
  PROVE  /\ [w EXCEPT !.alone = b] \in Flow /\ [w EXCEPT !.alone = b].at = w.at
         /\ [w EXCEPT !.alone = b].alone = b /\ [w EXCEPT !.alone = b].got = w.got
BY DEF Flow

\* What has to be shown of a step that leaves account, flows and the user shown alone.
LEMMA MySame ==
  ASSUME MyIInv, UNCHANGED <<account, flows, doubtful>>, works' \in 0 .. MaxWorks,
         me' \in MeRecord, me'.user = me.user, me'.saving = me.saving, me'.loading = me.loading
  PROVE  MyIInv'
<1>1. MyTypes'
  BY DEF MyIInv, MyTypes, Disabled, Busy
<1>2. RestState' /\ \A f \in Acts : FlowState(f)'
  BY DEF MyIInv, RestState, FlowState, Served, Busy
<1>3. QED BY <1>1, <1>2 DEF MyIInv

LEMMA MyStarts == MyPageInit => MyIInv
<1> SUFFICES ASSUME MyPageInit PROVE MyIInv
  OBVIOUS
<1>1. PICK p \in BOOLEAN :
        /\ account = [name |-> 1, pic |-> p, open |-> TRUE]
        /\ me = [user |-> [name |-> 1, pic |-> p], typed |-> 1, saving |-> FALSE,
                 loading |-> FALSE, pass |-> "", leaving |-> "no"]
  BY DEF MyPageInit
<1>2. account \in AccountRecord /\ me \in MeRecord
  <2>1. 1 \in Names /\ 1 \in 0 .. 2
    BY DEF Names
  <2>2. [name |-> 1, pic |-> p] \in User
    BY <2>1 DEF User
  <2>3. account \in AccountRecord
    BY <1>1, <2>1 DEF AccountRecord
  <2>4. me \in MeRecord
    BY <1>1, <2>1, <2>2 DEF MeRecord
  <2>5. QED BY <2>3, <2>4
<1>3. flows \in [Acts -> Flow] /\ \A f \in Acts : flows[f] = NoFlow
  BY RestingFlow DEF MyPageInit, Acts
<1>4. works \in 0 .. MaxWorks /\ doubtful = FALSE
  <2>1. works = 0 /\ doubtful = FALSE
    BY DEF MyPageInit
  <2>2. 0 \in 0 .. MaxWorks
    BY MyPageAssumption
  <2>3. QED BY <2>1, <2>2
<1>5. \A f \in Acts : ~Busy(f) /\ ~Disabled(me, f) /\ flows[f].at = "idle"
  <2>1. ~me.saving /\ ~me.loading
    BY <1>1
  <2>2. \A f \in Acts : flows[f].at = "idle"
    BY <1>3, RestingFlow
  <2>3. QED BY <2>1, <2>2 DEF Busy, Disabled
<1>6. me.user = Served
  BY <1>1 DEF Served
<1>7. QED BY <1>2, <1>3, <1>4, <1>5, <1>6 DEF MyIInv, MyTypes, FlowState, RestState

\* A flow begins: it is alone if the other one rests, and the other one no more.
LEMMA FlowBegins ==
  ASSUME MyIInv, NEW f \in Acts, NEW flow \in Flow, flow.at \in {"convert", "send"},
         NEW m \in MeRecord, m.user = me.user, Disabled(m, f),
         Disabled(m, TheOther(f)) <=> Disabled(me, TheOther(f)),
         ~Busy(f), Starts(f, flow, m)
  PROVE  MyIInv'
<1> DEFINE g == TheOther(f)
<1>0. /\ MyTypes /\ FlowState(f) /\ FlowState(g) /\ RestState /\ g \in Acts /\ g # f
      /\ TheOther(g) = f /\ Acts = {f, g} /\ {f, g} = {"profile", "picture"}
      /\ flows \in [Acts -> Flow]
  BY TwoFlows DEF MyIInv, MyTypes
<1>1. /\ flows' = [flows EXCEPT ![f] = [flow EXCEPT !.alone = ~Busy(g)], ![g].alone = ~Busy(g)]
      /\ works < MaxWorks /\ works' = works + 1 /\ me' = m /\ account' = account
      /\ doubtful' = (doubtful \/ Busy(g))
  BY DEF Starts
<1>2. Busy(g) \in BOOLEAN
  BY DEF Busy
<1>3. /\ flows'[f] = [flow EXCEPT !.alone = ~Busy(g)]
      /\ flows'[g] = [flows[g] EXCEPT !.alone = ~Busy(g)]
      /\ DOMAIN flows' = Acts
  BY <1>0, <1>1
<1>4. /\ flows'[f] \in Flow /\ flows'[f].at = flow.at /\ flows'[f].alone = ~Busy(g)
      /\ flows'[g] \in Flow /\ flows'[g].at = flows[g].at /\ flows'[g].alone = ~Busy(g)
      /\ flows'[g].got = flows[g].got
  <2>1. flows[g] \in Flow
    BY <1>0
  <2> DEFINE b == ~Busy(g)
  <2>2. b \in BOOLEAN /\ flows'[f] = [flow EXCEPT !.alone = b]
        /\ flows'[g] = [flows[g] EXCEPT !.alone = b]
    BY <1>2, <1>3
  <2> HIDE DEF b
  <2>3. /\ flows'[f] \in Flow /\ flows'[f].at = flow.at /\ flows'[f].alone = b
        /\ flows'[g] \in Flow /\ flows'[g].at = flows[g].at /\ flows'[g].alone = b
        /\ flows'[g].got = flows[g].got
    BY <2>1, <2>2, FlowAlone
  <2>4. QED BY <2>3 DEF b
<1>5. flows' \in [Acts -> Flow]
  <2>1. flows' = [h \in Acts |-> flows'[h]]
    BY <1>0, <1>1
  <2>2. \A h \in Acts : flows'[h] \in Flow
    BY <1>0, <1>4
  <2>3. QED BY <2>1, <2>2
<1>6. Busy(f)' /\ (Busy(g)' <=> Busy(g))
  BY <1>4 DEF Busy
<1>7. works' \in 0 .. MaxWorks /\ doubtful' \in BOOLEAN
  BY <1>0, <1>1, MyPageAssumption DEF MyTypes
<1>8. MyTypes'
  <2>1. \A h \in Acts : Disabled(me, h)' <=> Busy(h)'
    BY <1>0, <1>1, <1>6 DEF MyTypes
  <2>2. QED BY <1>0, <1>1, <1>5, <1>7, <2>1 DEF MyTypes
<1>9. Served' = Served /\ me'.user = me.user
  BY <1>1 DEF Served
<1>10. ~doubtful' => ~doubtful /\ ~Busy(g) /\ (account.open => me.user = Served)
  BY <1>0, <1>1 DEF RestState
<1>11. FlowState(f)'
  BY <1>0, <1>1, <1>4, <1>6, <1>9, <1>10 DEF FlowState
<1>12. FlowState(g)'
  <2>1. ~Busy(g) => flows[g].at = "idle"
    BY DEF Busy
  <2>2. QED BY <1>0, <1>1, <1>4, <1>6, <1>9, <1>10, <2>1 DEF FlowState
<1>13. RestState'
  BY <1>0, <1>6 DEF RestState
<1>14. QED BY <1>0, <1>8, <1>11, <1>12, <1>13 DEF MyIInv

\* A flow ends, with `m' before `finally'.  What is not in doubt is shown.
LEMMA FlowEnds ==
  ASSUME MyIInv, NEW f \in Acts, NEW m \in MeRecord, Ends(f, m), account' \in AccountRecord,
         \A h \in Acts : Disabled(m, h) <=> Disabled(me, h),
         works' = works, doubtful' \in BOOLEAN,
         ~doubtful' /\ account'.open => m.user = Served',
         \* the account is changed by nobody but the flow
         account'.open => account.open,
         Busy(TheOther(f)) /\ flows[TheOther(f)].alone => UNCHANGED account,
         Busy(TheOther(f)) => doubtful'
  PROVE  MyIInv'
<1> DEFINE g == TheOther(f)
<1>0. /\ MyTypes /\ FlowState(f) /\ FlowState(g) /\ RestState /\ g \in Acts /\ g # f
      /\ TheOther(g) = f /\ Acts = {f, g} /\ {f, g} = {"profile", "picture"}
      /\ flows \in [Acts -> Flow]
  BY TwoFlows DEF MyIInv, MyTypes
<1>1. flows' = [flows EXCEPT ![f] = NoFlow] /\ me' = Rests(m, f)
  BY DEF Ends
<1>2. flows' \in [Acts -> Flow] /\ flows'[f] = NoFlow /\ flows'[g] = flows[g]
  BY <1>0, <1>1, RestingFlow
<1>3. ~Busy(f)' /\ flows'[f].at = "idle" /\ (Busy(g)' <=> Busy(g))
  BY <1>2, RestingFlow DEF Busy
<1>4. /\ me' \in MeRecord /\ me'.user = m.user /\ ~Disabled(me', f)
      /\ Disabled(me', g) <=> Disabled(me, g)
  BY <1>0, <1>1, MeFields
<1>5. MyTypes'
  <2>1. \A h \in Acts : Disabled(me, h)' <=> Busy(h)'
    BY <1>0, <1>3, <1>4 DEF MyTypes
  <2>2. QED BY <1>0, <1>2, <1>4, <2>1 DEF MyTypes
<1>6. FlowState(f)'
  BY <1>0, <1>3 DEF FlowState
<1>7. FlowState(g)'
  <2>1. CASE Busy(g)
    <3>1. flows[g].alone => Served' = Served /\ account' = account
      BY <2>1 DEF Served
    <3>2. doubtful'
      BY <2>1
    <3>3. QED BY <1>0, <1>2, <1>3, <3>1, <3>2 DEF FlowState
  <2>2. CASE ~Busy(g)
    <3>1. flows'[g].at = "idle" /\ ~Busy(g)'
      BY <1>2, <2>2 DEF Busy
    <3>2. QED BY <3>1 DEF FlowState
  <2>3. QED BY <2>1, <2>2
<1>8. RestState'
  BY <1>4 DEF RestState
<1>9. QED BY <1>0, <1>5, <1>6, <1>7, <1>8 DEF MyIInv

LEMMA MyBegins == ASSUME MyIInv, UpdateProfile \/ ChangePicture PROVE MyIInv'
<1>0. /\ me \in MeRecord /\ \A f \in Acts : Disabled(me, f) <=> Busy(f)
      /\ "profile" \in Acts /\ "picture" \in Acts
  BY DEF MyIInv, MyTypes, Acts
<1>1. CASE UpdateProfile
  <2> DEFINE flow == [NoFlow EXCEPT !.at = "send", !.name = me.typed]
             m    == [me EXCEPT !.saving = TRUE]
  <2>1. ~me.saving /\ me.typed # 0 /\ Starts("profile", flow, m)
    BY <1>1 DEF UpdateProfile, ProfileOffers
  <2>2. me.typed \in Names
    <3>1. me.typed \in 0 .. 2
      BY <1>0 DEF MeRecord
    <3>2. QED BY <2>1, <3>1 DEF Names
  <2>3. flow \in Flow /\ flow.at = "send"
    BY <2>2 DEF NoFlow, Flow, NoOne
  <2>4. m \in MeRecord /\ m.user = me.user /\ m.saving /\ m.loading = me.loading
    BY <1>0 DEF MeRecord
  <2>5. /\ Disabled(m, "profile") /\ ~Busy("profile")
        /\ Disabled(m, TheOther("profile")) <=> Disabled(me, TheOther("profile"))
    BY <1>0, <2>1, <2>4 DEF Disabled, TheOther
  <2> HIDE DEF flow, m
  <2>6. QED BY <1>0, <2>1, <2>3, <2>4, <2>5, FlowBegins
<1>2. CASE ChangePicture
  <2> DEFINE m == [me EXCEPT !.loading = TRUE]
  <2>1. PICK flow \in {[NoFlow EXCEPT !.at = "convert", !.ask = "pic"],
                       [NoFlow EXCEPT !.at = "send", !.ask = "no pic"]} :
          ~me.loading /\ Starts("picture", flow, m)
    BY <1>2 DEF ChangePicture, PictureOffers
  <2>2. flow \in Flow /\ flow.at \in {"convert", "send"}
    <3>1. /\ [NoFlow EXCEPT !.at = "convert", !.ask = "pic"] \in Flow
          /\ [NoFlow EXCEPT !.at = "convert", !.ask = "pic"].at = "convert"
      BY RestingFlow DEF Flow
    <3>2. /\ [NoFlow EXCEPT !.at = "send", !.ask = "no pic"] \in Flow
          /\ [NoFlow EXCEPT !.at = "send", !.ask = "no pic"].at = "send"
      BY RestingFlow DEF Flow
    <3>3. QED BY <2>1, <3>1, <3>2
  <2>3. m \in MeRecord /\ m.user = me.user /\ m.loading /\ m.saving = me.saving
    BY <1>0 DEF MeRecord
  <2>4. /\ Disabled(m, "picture") /\ ~Busy("picture")
        /\ Disabled(m, TheOther("picture")) <=> Disabled(me, TheOther("picture"))
    BY <1>0, <2>1, <2>3 DEF Disabled, TheOther
  <2> HIDE DEF m
  <2>5. QED BY <1>0, <2>1, <2>2, <2>3, <2>4, FlowBegins
<1>3. QED BY <1>1, <1>2

\* What a flow does to the account.
LEMMA ChangedIs ==
  ASSUME account \in AccountRecord, NEW w \in Flow
  PROVE  Changed(w) \in AccountRecord /\ Changed(w).open = account.open
<1>1. \A n \in Names : [account EXCEPT !.name = n] \in AccountRecord
                       /\ [account EXCEPT !.name = n].open = account.open
  BY DEF AccountRecord
<1>2. \A b \in BOOLEAN : [account EXCEPT !.pic = b] \in AccountRecord
                         /\ [account EXCEPT !.pic = b].open = account.open
  BY DEF AccountRecord
<1>3. w.ask \in {"name", "pic", "no pic"} /\ w.name \in Names
  BY FlowMeans
<1>4. \/ Changed(w) = [account EXCEPT !.name = w.name]
      \/ Changed(w) = [account EXCEPT !.pic = TRUE]
      \/ Changed(w) = [account EXCEPT !.pic = FALSE]
  BY <1>3 DEF Changed
<1>5. QED BY <1>1, <1>2, <1>3, <1>4

\* A flow goes on from one stage to the next.
LEMMA FlowGoesOn ==
  ASSUME MyIInv, NEW f \in Acts, NEW w \in Flow, w.at # "idle", w.alone = flows[f].alone,
         Busy(f), flows' = [flows EXCEPT ![f] = w], UNCHANGED <<me, works, doubtful>>,
         account' \in AccountRecord, account'.open = account.open,
         account' = account \/ flows[f].at = "send",
         w.at \in {"convert", "send"} => flows[f].at \in {"convert", "send"} /\ UNCHANGED account,
         w.at = "answer" => w.got = Served /\ UNCHANGED account
  PROVE  MyIInv'
<1> DEFINE g == TheOther(f)
<1>0. /\ MyTypes /\ FlowState(f) /\ FlowState(g) /\ RestState /\ g \in Acts /\ g # f
      /\ TheOther(g) = f /\ Acts = {f, g} /\ {f, g} = {"profile", "picture"}
      /\ flows \in [Acts -> Flow]
  BY TwoFlows DEF MyIInv, MyTypes
<1>1. flows' \in [Acts -> Flow] /\ flows'[f] = w /\ flows'[g] = flows[g]
  BY <1>0
<1>2. Busy(f)' /\ (Busy(g)' <=> Busy(g))
  BY <1>1 DEF Busy
<1>3. MyTypes'
  <2>1. \A h \in Acts : Disabled(me, h)' <=> Busy(h)'
    BY <1>0, <1>2 DEF MyTypes
  <2>2. QED BY <1>0, <1>1, <2>1 DEF MyTypes
<1>4. account' = account => Served' = Served
  BY DEF Served
<1>5. FlowState(f)'
  BY <1>0, <1>1, <1>2, <1>4 DEF FlowState
<1>6. FlowState(g)'
  <2>1. CASE Busy(g)
    <3>1. ~flows[g].alone /\ doubtful
      BY <1>0, <2>1 DEF FlowState
    <3>2. QED BY <1>0, <1>1, <1>2, <3>1 DEF FlowState
  <2>2. CASE ~Busy(g)
    <3>1. flows'[g].at = "idle" /\ ~Busy(g)'
      BY <1>1, <2>2 DEF Busy
    <3>2. QED BY <3>1 DEF FlowState
  <2>3. QED BY <2>1, <2>2
<1>7. RestState'
  BY <1>0, <1>2 DEF RestState
<1>8. QED BY <1>0, <1>3, <1>5, <1>6, <1>7 DEF MyIInv

LEMMA MyAnswers == ASSUME MyIInv, NEW f \in Acts, FlowAnswers(f) PROVE MyIInv'
<1> DEFINE g == TheOther(f)
<1>0. /\ MyTypes /\ FlowState(f) /\ FlowState(g) /\ RestState /\ g \in Acts /\ g # f
      /\ TheOther(g) = f /\ flows \in [Acts -> Flow] /\ flows[f] \in Flow
      /\ account \in AccountRecord /\ me \in MeRecord /\ doubtful \in BOOLEAN
      /\ flows[f].got \in User \cup {NoOne}
  <2>1. flows \in [Acts -> Flow]
    BY DEF MyIInv, MyTypes
  <2>2. flows[f] \in Flow
    BY <2>1
  <2>3. flows[f].got \in User \cup {NoOne}
    BY <2>2, FlowMeans
  <2>4. QED BY <2>1, <2>2, <2>3, TwoFlows DEF MyIInv, MyTypes
<1>1. CASE ChangeMade(f)
  <2>1. /\ flows[f].at = "send" /\ account.open /\ account' = Changed(flows[f])
        /\ flows' = [flows EXCEPT ![f].at = "read"] /\ UNCHANGED <<me, works, doubtful>>
    BY <1>1 DEF ChangeMade
  <2> DEFINE w == [flows[f] EXCEPT !.at = "read"]
  <2>2. flows' = [flows EXCEPT ![f] = w]
    BY <2>1
  <2>3. w \in Flow /\ w.at = "read" /\ w.alone = flows[f].alone
    BY <1>0, FlowMoves
  <2>4. account' \in AccountRecord /\ account'.open = account.open /\ Busy(f)
    BY <1>0, <2>1, ChangedIs DEF Busy
  <2> HIDE DEF w
  <2>5. QED BY <2>1, <2>2, <2>3, <2>4, FlowGoesOn
<1>2. CASE ChangeFails(f)
  <2>1. /\ flows[f].at = "send" /\ Ends(f, me) /\ works' = works
        /\ \/ UNCHANGED <<account, doubtful>>
           \/ account.open /\ account' = Changed(flows[f]) /\ doubtful' = TRUE
    BY <1>2 DEF ChangeFails
  <2>2. account' \in AccountRecord /\ account'.open = account.open /\ Busy(f)
    BY <1>0, <2>1, ChangedIs DEF Busy
  <2>3. ~doubtful' /\ account'.open => me.user = Served'
    BY <1>0, <2>1 DEF FlowState, Served
  <2>4. Busy(g) => ~flows[g].alone /\ doubtful
    BY <1>0, <2>2 DEF FlowState
  <2>5. doubtful' \in BOOLEAN /\ (doubtful => doubtful')
    <3>1. doubtful' = doubtful \/ doubtful' = TRUE
      BY <2>1
    <3>2. QED BY <1>0, <3>1
  <2>6. QED BY <1>0, <2>1, <2>2, <2>3, <2>4, <2>5, FlowEnds
<1>3. CASE UserServed(f)
  <2> DEFINE w == [flows[f] EXCEPT !.at = "answer", !.got = Served]
  <2>1. flows' = [flows EXCEPT ![f] = w] /\ flows[f].at = "read"
        /\ UNCHANGED <<account, me, works, doubtful>>
    BY <1>3 DEF UserServed, Served
  <2>2. Served \in User
    BY <1>0 DEF Served, User, AccountRecord
  <2>3. w \in Flow /\ w.at = "answer" /\ w.alone = flows[f].alone /\ w.got = Served
    BY <1>0, <2>2 DEF Flow
  <2>4. Busy(f)
    BY <2>1 DEF Busy
  <2> HIDE DEF w
  <2>5. QED BY <1>0, <2>1, <2>3, <2>4, FlowGoesOn
<1>4. CASE UserRead(f)
  <2> DEFINE m == Read(me, flows[f].got)
  <2>1. /\ flows[f].at = "answer" /\ Ends(f, m) /\ UNCHANGED <<account, works>>
        /\ doubtful' = (doubtful /\ ~flows[f].alone)
    BY <1>4 DEF UserRead
  <2>2. m \in MeRecord /\ m.user = flows[f].got /\ \A h \in Acts : Disabled(m, h) <=> Disabled(me, h)
    BY <1>0, MeFields
  <2>3. Busy(f) /\ Served' = Served /\ doubtful' \in BOOLEAN
    BY <2>1 DEF Busy, Served
  <2>4. ~doubtful' => flows[f].alone
    BY <1>0, <2>1, <2>3 DEF FlowState
  <2>5. ~doubtful' /\ account.open => m.user = Served
    BY <1>0, <2>1, <2>2, <2>4 DEF FlowState
  <2>6. Busy(g) => doubtful'
    BY <1>0, <2>3, <2>4 DEF FlowState
  <2> HIDE DEF m
  <2>7. QED BY <1>0, <2>1, <2>2, <2>3, <2>5, <2>6, FlowEnds
<1>5. CASE UserNotRead(f)
  <2>1. Ends(f, me) /\ doubtful' = TRUE /\ UNCHANGED <<account, works>>
    BY <1>5 DEF UserNotRead
  <2>2. QED BY <1>0, <2>1, FlowEnds
<1>6. QED BY <1>1, <1>2, <1>3, <1>4, <1>5 DEF FlowAnswers

LEMMA MyConverted == ASSUME MyIInv, Converted PROVE MyIInv'
<1>0. /\ MyTypes /\ FlowState("picture") /\ FlowState("profile") /\ RestState
      /\ "picture" \in Acts /\ TheOther("picture") = "profile"
      /\ flows \in [Acts -> Flow] /\ flows["picture"] \in Flow /\ me \in MeRecord
      /\ account \in AccountRecord /\ doubtful \in BOOLEAN
  BY DEF MyIInv, MyTypes, Acts, TheOther
<1>1. flows["picture"].at = "convert" /\ UNCHANGED <<account, works, doubtful>>
  BY DEF Converted
<1>2. Busy("picture")
  BY <1>1 DEF Busy
<1>3. CASE flows' = [flows EXCEPT !["picture"].at = "send"] /\ UNCHANGED me
  <2> DEFINE w == [flows["picture"] EXCEPT !.at = "send"]
  <2>1. flows' = [flows EXCEPT !["picture"] = w]
    BY <1>3
  <2>2. w \in Flow /\ w.at = "send" /\ w.alone = flows["picture"].alone
    BY <1>0, FlowMoves
  <2> HIDE DEF w
  <2>3. QED BY <1>0, <1>1, <1>2, <1>3, <2>1, <2>2, FlowGoesOn
<1>4. CASE flows' = [flows EXCEPT !["picture"] = NoFlow] /\ me' = [me EXCEPT !.loading = FALSE]
  <2>1. Ends("picture", me)
    BY <1>4 DEF Ends, Rests
  <2>2. ~doubtful /\ account.open => me.user = Served
    BY <1>0, <1>1 DEF FlowState
  <2>3. Busy("profile") => doubtful
    BY <1>0, <1>2 DEF FlowState
  <2>4. Served' = Served
    BY <1>1 DEF Served
  <2>5. QED BY <1>0, <1>1, <2>1, <2>2, <2>3, <2>4, FlowEnds
<1>5. QED BY <1>3, <1>4 DEF Converted

LEMMA MyLeaves == ASSUME MyIInv, LeavingAnswered PROVE MyIInv'
<1>0. /\ MyTypes /\ RestState /\ (\A f \in Acts : FlowState(f))
      /\ account \in AccountRecord /\ me \in MeRecord /\ doubtful \in BOOLEAN
      /\ flows \in [Acts -> Flow] /\ works' = works /\ works \in 0 .. MaxWorks
  BY DEF MyIInv, MyTypes, LeavingAnswered
<1>1. [account EXCEPT !.open = FALSE] \in AccountRecord /\ ~[account EXCEPT !.open = FALSE].open
  BY <1>0 DEF AccountRecord
<1>2. ASSUME account' = [account EXCEPT !.open = FALSE], flows' = [f \in Acts |-> NoFlow],
             me' = [me EXCEPT !.leaving = "left", !.user = NoOne, !.pass = "",
                              !.saving = FALSE, !.loading = FALSE],
             UNCHANGED doubtful
      PROVE  MyIInv'
  <2>1. me' \in MeRecord /\ me'.saving = FALSE /\ me'.loading = FALSE
    BY <1>0, <1>2 DEF MeRecord
  <2>2. flows' \in [Acts -> Flow] /\ \A f \in Acts : flows'[f] = NoFlow
    BY <1>2, RestingFlow
  <2>3. \A f \in Acts : ~Busy(f)' /\ flows'[f].at = "idle" /\ ~Disabled(me', f)
    BY <2>1, <2>2, RestingFlow DEF Busy, Disabled
  <2>4. account' \in AccountRecord /\ ~account'.open
    BY <1>1, <1>2
  <2>5. QED BY <1>0, <1>2, <2>1, <2>2, <2>3, <2>4 DEF MyIInv, MyTypes, FlowState, RestState
<1>3. [me EXCEPT !.leaving = "asked"] \in MeRecord
      /\ [me EXCEPT !.leaving = "asked"].user = me.user
      /\ [me EXCEPT !.leaving = "asked"].saving = me.saving
      /\ [me EXCEPT !.leaving = "asked"].loading = me.loading
  BY <1>0 DEF MeRecord
<1>4. ASSUME me' = [me EXCEPT !.leaving = "asked"], UNCHANGED <<account, doubtful, flows>>
      PROVE  MyIInv'
  BY <1>0, <1>3, <1>4, MySame
<1>5. ASSUME account' = [account EXCEPT !.open = FALSE], me' = [me EXCEPT !.leaving = "asked"],
             doubtful' = TRUE, UNCHANGED flows
      PROVE  MyIInv'
  <2>1. account' \in AccountRecord /\ ~account'.open
    BY <1>1, <1>5
  <2>2. \A f \in Acts : (Disabled(me, f)' <=> Disabled(me, f)) /\ (Busy(f)' <=> Busy(f))
    BY <1>3, <1>5 DEF Disabled, Busy
  <2>3. MyTypes'
    BY <1>0, <1>3, <1>5, <2>1, <2>2 DEF MyTypes
  <2>4. \A f \in Acts : TheOther(f) \in Acts
    BY TwoFlows
  <2>5. \A f \in Acts : FlowState(f)'
    BY <1>0, <1>5, <2>1, <2>2, <2>4 DEF FlowState
  <2>6. RestState'
    BY <2>1 DEF RestState
  <2>7. QED BY <2>3, <2>5, <2>6 DEF MyIInv
<1>6. QED BY <1>2, <1>4, <1>5 DEF LeavingAnswered, Acts

LEMMA MyKeeps == ASSUME MyIInv, [MyPageNext]_myVars PROVE MyIInv'
<1>0. me \in MeRecord /\ works \in 0 .. MaxWorks
  BY DEF MyIInv, MyTypes
<1>1. CASE TypeName
  <2>1. PICK n \in 0 .. 2 : me' = [me EXCEPT !.typed = n]
    BY <1>1 DEF TypeName
  <2>2. me' \in MeRecord /\ me'.user = me.user /\ me'.saving = me.saving /\ me'.loading = me.loading
    BY <1>0, <2>1 DEF MeRecord
  <2>3. QED BY <1>0, <1>1, <2>2, MySame DEF TypeName
<1>2. CASE ChangePassword \/ PasswordAnswered
  <2>1. PICK p \in {"refused", "changing", "changed"} : me' = [me EXCEPT !.pass = p]
    BY <1>2 DEF ChangePassword, PasswordAnswered
  <2>2. me' \in MeRecord /\ me'.user = me.user /\ me'.saving = me.saving /\ me'.loading = me.loading
    BY <1>0, <2>1 DEF MeRecord
  <2>3. works' \in 0 .. MaxWorks
    <3>1. works' = works \/ (works < MaxWorks /\ works' = works + 1)
      BY <1>2 DEF ChangePassword, PasswordAnswered
    <3>2. QED BY <1>0, <3>1, MyPageAssumption
  <2>4. UNCHANGED <<account, flows, doubtful>>
    BY <1>2 DEF ChangePassword, PasswordAnswered
  <2>5. QED BY <2>2, <2>3, <2>4, MySame
<1>3. CASE AskToLeave
  <2>1. PICK l \in {"asked", "no", "sent"} : me' = [me EXCEPT !.leaving = l]
    BY <1>3 DEF AskToLeave
  <2>2. me' \in MeRecord /\ me'.user = me.user /\ me'.saving = me.saving /\ me'.loading = me.loading
    BY <1>0, <2>1 DEF MeRecord
  <2>3. QED BY <1>0, <1>3, <2>2, MySame DEF AskToLeave
<1>4. CASE UNCHANGED myVars
  BY <1>0, <1>4, MySame DEF myVars
<1>5. ASSUME NEW f \in {"profile", "picture"}, FlowAnswers(f) PROVE MyIInv'
  BY <1>5, MyAnswers DEF Acts
<1>6. QED BY <1>1, <1>2, <1>3, <1>4, <1>5, MyBegins, MyConverted, MyLeaves DEF MyPageNext

LEMMA MyMeans == MyIInv => MyPageTypeOK /\ PageIsTrue
<1> SUFFICES ASSUME MyIInv PROVE MyPageTypeOK /\ PageIsTrue
  OBVIOUS
<1>1. PageIsTrue
  BY DEF MyIInv, RestState, PageIsTrue, Served
<1>2. /\ account \in AccountRecord /\ me \in MeRecord /\ flows \in [Acts -> Flow]
      /\ works \in 0 .. MaxWorks /\ doubtful \in BOOLEAN
      /\ \A f \in Acts : Disabled(me, f) <=> Busy(f)
  BY DEF MyIInv, MyTypes
<1>3. me.saving \in BOOLEAN /\ me.loading \in BOOLEAN
  BY <1>2 DEF MeRecord
<1>4. me.saving = (flows["profile"].at # "idle")
  <2>1. me.saving <=> flows["profile"].at # "idle"
    BY <1>2 DEF Disabled, Busy, Acts
  <2>2. QED BY <1>3, <2>1
<1>5. me.loading = (flows["picture"].at # "idle")
  <2>1. me.loading <=> flows["picture"].at # "idle"
    BY <1>2 DEF Disabled, Busy, Acts
  <2>2. QED BY <1>3, <2>1
<1>6. MyPageTypeOK
  BY <1>2, <1>4, <1>5 DEF MyPageTypeOK, AccountRecord, MeRecord, Acts
<1>7. QED BY <1>1, <1>6

\* With nothing under way the account page shows the account as the server has it,
\* unless two flows overlapped or an answer was lost and none has read it alone
\* since, for any number of changes (app/portfolio/mypage/page.tsx).
THEOREM AccountIsTrue == MyPageSpec => [](MyPageTypeOK /\ PageIsTrue)
<1>1. MyIInv /\ [MyPageNext]_myVars => MyIInv'
  BY MyKeeps
<1>2. QED BY <1>1, MyStarts, MyMeans, PTL DEF MyPageSpec

-----------------------------------------------------------------------------
(* EntryForm: the rate of a row, and the results under a query *)

AssetTypes ==
  /\ chosen \in Assets \cup {""} /\ quantity \in BOOLEAN
  /\ price \in Foreign \cup {"", "KRW", "typed"} /\ memo \in Assets \cup {""}
  /\ rate \in Foreign \cup {"", "KRW"}
  /\ asked \subseteq Foreign /\ rateBusy \in BOOLEAN
  /\ remark \in Assets \cup {""}
  /\ added \subseteq Added
  /\ crossed \in BOOLEAN

SearchTypes ==
  /\ query \in Queries \cup {""}
  /\ finding \in [timer : Queries \cup {""}, sent : SUBSET Queries]
  /\ found \in Queries \cup {""} /\ finds \in BOOLEAN
  /\ overtaken \in BOOLEAN

\* The price in the form is the rate of the currency that is chosen, unless a rate
\* came late or was left over.
PriceFits == ~crossed /\ chosen \in Foreign /\ price # "" => price = chosen

\* The timer is for what is typed; unless a request was typed over, so is the one
\* under way.
SearchState ==
  /\ finding.timer \in {"", query}
  /\ ~overtaken => finding.sent \subseteq {query}
  /\ ResultsFitTheQuery

FormIInv == AssetTypes /\ SearchTypes /\ PriceFits /\ SearchState

LEMMA ForeignNames ==
  /\ "" \notin Foreign /\ "KRW" \notin Foreign /\ "share" \notin Foreign /\ "typed" \notin Foreign
  /\ "" \notin Assets /\ Foreign \subseteq Assets /\ "KRW" \in Assets /\ "share" \in Assets
  /\ "" \notin Queries
BY FormAssumption DEF Assets

LEMMA FormStarts == FormInit => FormIInv
<1> SUFFICES ASSUME FormInit PROVE FormIInv
  OBVIOUS
<1>1. AssetTypes /\ PriceFits
  BY DEF FormInit, AssetTypes, PriceFits
<1>2. finding = [timer |-> "", sent |-> {}] /\ query = "" /\ found = "" /\ ~finds /\ ~overtaken
      /\ finds \in BOOLEAN /\ overtaken \in BOOLEAN
  BY DEF FormInit
<1>3. finding \in [timer : Queries \cup {""}, sent : SUBSET Queries]
      /\ finding.timer = "" /\ finding.sent = {}
  BY <1>2
<1>4. SearchTypes /\ SearchState
  BY <1>2, <1>3 DEF SearchTypes, SearchState, ResultsFitTheQuery
<1>5. QED BY <1>1, <1>4 DEF FormIInv

\* What has to be shown of a step of the form that leaves the search alone.
LEMMA FillSame ==
  ASSUME FormIInv, UNCHANGED searchVars, AssetTypes', PriceFits'
  PROVE  FormIInv'
<1>1. UNCHANGED <<query, finding, found, finds, overtaken>>
  BY DEF searchVars
<1>2. SearchTypes' /\ SearchState'
  BY <1>1 DEF FormIInv, SearchTypes, SearchState, ResultsFitTheQuery
<1>3. QED BY <1>2 DEF FormIInv

LEMMA FillChooses == ASSUME FormIInv, ChooseAsset PROVE FormIInv'
<1>1. PICK asset \in Assets : chosen' = asset /\ Select(asset)
  BY DEF ChooseAsset, Offered
<1>2. /\ quantity' = FALSE /\ memo' = "" /\ remark' = remark /\ added' = added
      /\ UNCHANGED searchVars /\ AssetTypes
  BY DEF ChooseAsset, FormIInv
<1>3. /\ rate' = IF asset = "KRW" THEN "KRW" ELSE ""
      /\ price' = IF asset = "KRW" THEN "KRW" ELSE ""
      /\ asked' = IF asset \in Foreign THEN asked \cup {asset} ELSE asked
      /\ rateBusy' = (rateBusy \/ asset \in Foreign)
      /\ crossed' = (asked \ {asset} # {})
  BY <1>1 DEF Select
<1>4. rate' \in {"", "KRW"} /\ price' \in {"", "KRW"} /\ (asset # "KRW" => price' = "")
  BY <1>3
<1>5. asked' \subseteq Foreign
  BY <1>2, <1>3 DEF AssetTypes
<1>6. rateBusy' \in BOOLEAN /\ crossed' \in BOOLEAN
  BY <1>3
<1>7. AssetTypes'
  BY <1>1, <1>2, <1>4, <1>5, <1>6 DEF AssetTypes
<1>8. PriceFits'
  BY <1>1, <1>4, ForeignNames DEF PriceFits
<1>9. QED BY <1>2, <1>7, <1>8, FillSame

LEMMA FillRates == ASSUME FormIInv, RateAnswer PROVE FormIInv'
<1>1. PICK c \in asked :
        /\ asked' = asked \ {c} /\ rate' \in {c, ""}
        /\ price' = IF rate' # rate THEN PriceFor(chosen, rate', price) ELSE price
        /\ crossed' = (crossed \/ c # chosen)
  BY DEF RateAnswer
<1>2. /\ AssetTypes /\ PriceFits /\ UNCHANGED <<chosen, quantity, memo, remark, added>>
      /\ UNCHANGED searchVars /\ rateBusy' = FALSE
  BY DEF RateAnswer, FormIInv
<1>3. c \in Foreign /\ asked' \subseteq Foreign /\ rate' \in Foreign \cup {""}
  BY <1>1, <1>2 DEF AssetTypes
<1>4. price' = price \/ (price' = rate' /\ rate' = c)
  BY <1>1 DEF PriceFor
<1>5. crossed' \in BOOLEAN /\ (~crossed' => ~crossed /\ c = chosen)
  BY <1>1, <1>2 DEF AssetTypes
<1>6. AssetTypes'
  BY <1>2, <1>3, <1>4, <1>5 DEF AssetTypes
<1>7. PriceFits'
  BY <1>2, <1>4, <1>5 DEF PriceFits
<1>8. QED BY <1>2, <1>6, <1>7, FillSame

\* The fields, and the remark.
LEMMA FillTypes ==
  ASSUME FormIInv, TypeQuantity \/ TypePrice \/ RemarkStart \/ RemarkEnds \/ DropAdded
  PROVE  FormIInv'
<1>0. AssetTypes /\ PriceFits /\ UNCHANGED searchVars
  BY DEF FormIInv, TypeQuantity, TypePrice, RemarkStart, RemarkEnds, DropAdded
<1>1. AssetTypes'
  <2>1. CASE TypeQuantity
    BY <1>0, <2>1 DEF TypeQuantity, AssetTypes
  <2>2. CASE TypePrice
    BY <1>0, <2>2 DEF TypePrice, AssetTypes
  <2>3. CASE RemarkStart
    BY <1>0, <2>3 DEF RemarkStart, AssetTypes
  <2>4. CASE RemarkEnds
    BY <1>0, <2>4 DEF RemarkEnds, AssetTypes
  <2>5. CASE DropAdded
    BY <1>0, <2>5 DEF DropAdded, AssetTypes
  <2>6. QED BY <2>1, <2>2, <2>3, <2>4, <2>5
<1>2. PriceFits'
  <2>1. CASE TypePrice
    BY <2>1, ForeignNames DEF TypePrice, PriceFits
  <2>2. CASE ~TypePrice
    BY <1>0, <2>2 DEF TypeQuantity, RemarkStart, RemarkEnds, DropAdded, PriceFits
  <2>3. QED BY <2>1, <2>2
<1>3. QED BY <1>0, <1>1, <1>2, FillSame

\* A row that was added has the values of the form.
LEMMA FillAdds == ASSUME FormIInv, AddChosen PROVE FormIInv'
<1>0. /\ AssetTypes /\ UNCHANGED searchVars /\ chosen # "" /\ price # ""
      /\ added' = added \cup {[asset |-> chosen, price |-> price, memo |-> memo]}
      /\ chosen' = "" /\ quantity' = FALSE /\ price' = "" /\ memo' = ""
      /\ UNCHANGED <<rate, asked, rateBusy, remark, crossed>>
  BY DEF FormIInv, AddChosen, FormIsComplete
<1>1. chosen \in Assets /\ price \in Foreign \cup {"KRW", "typed"} /\ memo \in Assets \cup {""}
  BY <1>0 DEF AssetTypes
<1>2. [asset |-> chosen, price |-> price, memo |-> memo] \in Added
  BY <1>1 DEF Added
<1>3. AssetTypes'
  BY <1>0, <1>2 DEF AssetTypes
<1>4. PriceFits'
  BY <1>0 DEF PriceFits
<1>5. QED BY <1>0, <1>3, <1>4, FillSame

LEMMA FillEdits == ASSUME FormIInv, EditAdded PROVE FormIInv'
<1>1. PICK a \in added :
       /\ added' = added \ {a}
       /\ chosen' = a.asset /\ memo' = a.memo
       /\ price' = PriceFor(a.asset, rate, a.price)
       /\ crossed' = (crossed \/ (a.asset \in Foreign
                    /\ (a.price # a.asset \/ rate \notin {"", a.asset}
                        \/ asked \ {a.asset} # {})))
  BY DEF EditAdded
<1>2. AssetTypes /\ UNCHANGED <<rate, asked, rateBusy, remark>> /\ UNCHANGED searchVars /\ quantity' = TRUE
  BY DEF FormIInv, EditAdded
<1>3. a.asset \in Assets /\ a.price \in Foreign \cup {"KRW", "typed"} /\ a.memo \in Assets \cup {""}
  BY <1>1, <1>2 DEF AssetTypes, Added
<1>4. price' = a.price \/ (a.asset \in Foreign /\ rate # "" /\ price' = rate)
  BY <1>1 DEF PriceFor
<1>5. crossed' \in BOOLEAN
  BY <1>1, <1>2 DEF AssetTypes
<1>6. AssetTypes'
  BY <1>1, <1>2, <1>3, <1>4, <1>5 DEF AssetTypes
<1>7. PriceFits'
  BY <1>1, <1>4 DEF PriceFits
<1>8. QED BY <1>2, <1>6, <1>7, FillSame

LEMMA FindingFields ==
  ASSUME NEW f \in [timer : Queries \cup {""}, sent : SUBSET Queries]
  PROVE  /\ f.timer \in Queries \cup {""} /\ f.sent \subseteq Queries
         /\ \A q \in Queries \cup {""} :
              /\ [f EXCEPT !.timer = q] \in [timer : Queries \cup {""}, sent : SUBSET Queries]
              /\ [f EXCEPT !.timer = q].timer = q /\ [f EXCEPT !.timer = q].sent = f.sent
         /\ \A S \in SUBSET Queries :
              /\ [f EXCEPT !.sent = S] \in [timer : Queries \cup {""}, sent : SUBSET Queries]
              /\ [f EXCEPT !.sent = S].timer = f.timer /\ [f EXCEPT !.sent = S].sent = S
              /\ [timer |-> "", sent |-> S] \in [timer : Queries \cup {""}, sent : SUBSET Queries]
              /\ [timer |-> "", sent |-> S].timer = "" /\ [timer |-> "", sent |-> S].sent = S
OBVIOUS

LEMMA SearchKeeps == ASSUME FormIInv, SearchNext PROVE FormIInv'
<1>0. /\ SearchTypes /\ SearchState /\ UNCHANGED assetVars
      /\ finding \in [timer : Queries \cup {""}, sent : SUBSET Queries]
  BY DEF FormIInv, SearchNext, TypeQuery, SearchSent, SearchAnswer, SearchTypes
<1>1. AssetTypes' /\ PriceFits'
  BY <1>0 DEF assetVars, FormIInv, AssetTypes, PriceFits
<1>2. CASE TypeQuery
  <2>1. PICK q \in (Queries \cup {""}) \ {query} :
          /\ query' = q /\ finding' = [finding EXCEPT !.timer = AfterTyping(q)]
          /\ found' = IF q = "" THEN "" ELSE found
          /\ finds' = (q # "")
    BY <1>2 DEF TypeQuery
  <2>2. overtaken' = (finding.sent # {})
    BY <1>2 DEF TypeQuery
  <2>3. finding' \in [timer : Queries \cup {""}, sent : SUBSET Queries]
        /\ finding'.timer = q /\ finding'.sent = finding.sent
    BY <1>0, <2>1, FindingFields DEF AfterTyping
  <2>4. found' \in Queries \cup {""} /\ finds' \in BOOLEAN /\ overtaken' \in BOOLEAN
    BY <1>0, <2>1, <2>2 DEF SearchTypes
  <2>5. SearchTypes'
    BY <2>1, <2>3, <2>4 DEF SearchTypes
  <2>6. SearchState'
    BY <2>1, <2>2, <2>3 DEF SearchState, ResultsFitTheQuery
  <2>7. QED BY <1>1, <2>5, <2>6 DEF FormIInv
<1>3. CASE SearchSent
  <2> DEFINE S == finding.sent \cup {finding.timer}
  <2>1. /\ finding.timer # "" /\ finding' = [timer |-> "", sent |-> S]
        /\ UNCHANGED <<query, found, finds, overtaken>>
    BY <1>3 DEF SearchSent
  <2>2. S \in SUBSET Queries
    BY <1>0, <2>1, FindingFields
  <2>3. ~overtaken => S \subseteq {query}
    BY <1>0, <2>1 DEF SearchState
  <2> HIDE DEF S
  <2>4. finding' \in [timer : Queries \cup {""}, sent : SUBSET Queries]
        /\ finding'.timer = "" /\ finding'.sent = S
    BY <1>0, <2>1, <2>2, FindingFields
  <2>5. SearchTypes' /\ SearchState'
    BY <1>0, <2>1, <2>3, <2>4 DEF SearchTypes, SearchState, ResultsFitTheQuery
  <2>6. QED BY <1>1, <2>5 DEF FormIInv
<1>4. CASE SearchAnswer
  <2>1. PICK q \in finding.sent :
          finding' = [finding EXCEPT !.sent = finding.sent \ {q}] /\ found' = q
    BY <1>4 DEF SearchAnswer
  <2>2. finds' = FALSE /\ UNCHANGED <<query, overtaken>>
    BY <1>4 DEF SearchAnswer
  <2>3. q \in Queries /\ finding.sent \ {q} \in SUBSET Queries
    BY <1>0, <2>1, FindingFields
  <2>4. finding' \in [timer : Queries \cup {""}, sent : SUBSET Queries]
        /\ finding'.timer = finding.timer /\ finding'.sent = finding.sent \ {q}
    BY <1>0, <2>1, <2>3, FindingFields
  <2>5. SearchTypes'
    BY <1>0, <2>1, <2>2, <2>3, <2>4 DEF SearchTypes
  <2>6. SearchState'
    BY <1>0, <2>1, <2>2, <2>4 DEF SearchState, ResultsFitTheQuery
  <2>7. QED BY <1>1, <2>5, <2>6 DEF FormIInv
<1>5. QED BY <1>2, <1>3, <1>4 DEF SearchNext

LEMMA FormKept == ASSUME FormIInv, [FormNext]_formVars PROVE FormIInv'
<1>1. CASE UNCHANGED formVars
  <2>1. UNCHANGED searchVars /\ AssetTypes' /\ PriceFits'
    BY <1>1 DEF formVars, searchVars, FormIInv, AssetTypes, PriceFits
  <2>2. QED BY <2>1, FillSame
<1>2. CASE FillNext
  BY <1>2, FillChooses, FillRates, FillTypes, FillAdds, FillEdits DEF FillNext
<1>3. CASE SearchNext
  BY <1>3, SearchKeeps
<1>4. QED BY <1>1, <1>2, <1>3 DEF FormNext

LEMMA FormMeans == FormIInv => FormTypeOK /\ ResultsFitTheQuery
BY DEF FormIInv, AssetTypes, SearchTypes, SearchState, FormTypeOK

\* A step adds no row but that of the form.
LEMMA RatesFit == FormIInv /\ [FormNext]_formVars
  => (~crossed => \A a \in added' \ added : a.asset \in Foreign => a.price = a.asset)
<1> SUFFICES ASSUME FormIInv, [FormNext]_formVars, ~crossed, NEW a \in added', a \notin added,
                    a.asset \in Foreign
             PROVE  a.price = a.asset
  OBVIOUS
<1>1. CASE AddChosen
  <2>1. a = [asset |-> chosen, price |-> price, memo |-> memo] /\ price # ""
    BY <1>1 DEF AddChosen, FormIsComplete
  <2>2. a.asset = chosen /\ a.price = price
    BY <2>1
  <2>3. QED BY <2>1, <2>2 DEF FormIInv, PriceFits
<1>2. CASE ~AddChosen
  <2>1. added' \subseteq added
    BY <1>2 DEF FormNext, FillNext, SearchNext, ChooseAsset, RateAnswer, TypeQuantity, TypePrice,
           RemarkStart, RemarkEnds, EditAdded, DropAdded, TypeQuery, SearchSent, SearchAnswer,
           assetVars, formVars
  <2>2. QED BY <2>1
<1>3. QED BY <1>1, <1>2

\* The results under a query that nobody typed over are those of the query, with any
\* number of searches under way (app/direct-input/page.tsx).
THEOREM ResultsAreOfTheQuery == FormSpec => [](FormTypeOK /\ ResultsFitTheQuery)
<1>1. FormIInv /\ [FormNext]_formVars => FormIInv'
  BY FormKept
<1>2. QED BY <1>1, FormStarts, FormMeans, PTL DEF FormSpec

\* A row of a foreign currency is added with the rate of that currency, whatever rates
\* were asked for before, as long as none came late or was left over for another.
THEOREM RowsGetTheirRate == FormSpec => RowsHaveTheirRate
<1>1. FormIInv /\ [FormNext]_formVars => FormIInv'
  BY FormKept
<1>2. FormIInv /\ [FormNext]_formVars
      => [~crossed => \A a \in added' \ added : a.asset \in Foreign => a.price = a.asset]_formVars
  BY RatesFit
<1>3. QED BY <1>1, <1>2, FormStarts, PTL DEF FormSpec, RowsHaveTheirRate

-----------------------------------------------------------------------------
(* Chart: the rows that are drawn are of what is selected *)

ChartRecord ==
  [page : {"chart", "coin"}, ready : BOOLEAN, asset : Listed \cup Held,
   frame : 1 .. 2, candles : BOOLEAN,
   drawn : Series \cup {NoRows}, note : {"", "empty", "failed"},
   tab : {"market", "portfolio", "favorites"}, liked : SUBSET Listed]

\* The request that still counts is for what is selected; only the chart page is
\* there before its chart is.
ChartState(c, h) ==
  /\ c \in ChartRecord /\ h \in Wanted \cup {NoRows}
  /\ h # NoRows => h.asset = c.asset /\ h.frame = c.frame
  /\ ~c.ready => c.page = "chart" /\ h = NoRows /\ c.drawn = NoRows /\ c.note = ""

\* What is drawn, when nothing is under way.
ChartDrawn(c, h, b) ==
  c.ready /\ h = NoRows /\ c.note = ""
    => b \/ (c.drawn # NoRows /\ c.drawn.asset = c.asset /\ c.drawn.frame = c.frame)

ChartIInv ==
  /\ ChartState(chart, history) /\ ChartDrawn(chart, history, bare)
  /\ bare \in BOOLEAN /\ renders \in 0 .. MaxRenders

LEMMA RowsOrNone ==
  /\ \A h \in Wanted : h # NoRows
  /\ \A s \in Series : s # NoRows
BY DEF Wanted, Series, NoRows

LEMMA WantedIs ==
  ASSUME NEW c \in ChartRecord
  PROVE  /\ [asset |-> c.asset, frame |-> c.frame] \in Wanted
         /\ [asset |-> c.asset, frame |-> c.frame].asset = c.asset
         /\ [asset |-> c.asset, frame |-> c.frame].frame = c.frame
BY DEF ChartRecord, Wanted

\* The history effect, whatever came before it.
LEMMA RereadKeeps ==
  ASSUME NEW c \in ChartRecord, c.ready, Rereads(c), renders' \in 0 .. MaxRenders
  PROVE  ChartIInv'
<1>1. chart' = [c EXCEPT !.note = ""] /\ bare' = FALSE
      /\ history' = [asset |-> c.asset, frame |-> c.frame]
  BY DEF Rereads
<1>2. /\ chart' \in ChartRecord /\ chart'.ready /\ chart'.asset = c.asset /\ chart'.frame = c.frame
  BY <1>1 DEF ChartRecord
<1>3. history' \in Wanted /\ history'.asset = c.asset /\ history'.frame = c.frame
  BY <1>1, WantedIs
<1>4. history' # NoRows
  BY <1>3, RowsOrNone
<1>5. ChartState(chart', history')
  BY <1>2, <1>3 DEF ChartState
<1>6. ChartDrawn(chart', history', bare')
  BY <1>4 DEF ChartDrawn
<1>7. QED BY <1>1, <1>5, <1>6 DEF ChartIInv

LEMMA ChartStarts == ChartInit => ChartIInv
<1> SUFFICES ASSUME ChartInit PROVE ChartIInv
  OBVIOUS
<1>1. PICK p \in {"chart", "coin"}, a \in Listed :
       /\ chart = [page |-> p, ready |-> (p = "coin"), asset |-> a, frame |-> 1,
                   candles |-> FALSE, drawn |-> NoRows, note |-> "",
                   tab |-> "market", liked |-> {}]
       /\ history = IF p = "coin" THEN [asset |-> a, frame |-> 1] ELSE NoRows
  BY DEF ChartInit
<1>2. bare = FALSE /\ renders \in 0 .. MaxRenders
  <2>1. bare = FALSE /\ renders = 0
    BY DEF ChartInit
  <2>2. 0 \in 0 .. MaxRenders
    BY ChartAssumption
  <2>3. QED BY <2>1, <2>2
<1> DEFINE r == (p = "coin")
<1>3. r \in BOOLEAN
  OBVIOUS
<1> HIDE DEF r
<1>4. chart = [page |-> p, ready |-> r, asset |-> a, frame |-> 1,
               candles |-> FALSE, drawn |-> NoRows, note |-> "", tab |-> "market", liked |-> {}]
  BY <1>1 DEF r
<1>5. chart \in ChartRecord /\ chart.ready = r /\ chart.page = p /\ chart.drawn = NoRows
      /\ chart.note = "" /\ chart.asset = a /\ chart.frame = 1
  <2>1. 1 \in 1 .. 2
    OBVIOUS
  <2>2. chart.ready = r /\ chart.page = p /\ chart.drawn = NoRows
        /\ chart.note = "" /\ chart.asset = a /\ chart.frame = 1
    BY <1>4
  <2>3. a \in Listed \cup Held /\ NoRows \in Series \cup {NoRows} /\ {} \in SUBSET Listed
    BY <1>1
  <2>4. chart \in ChartRecord
    BY <1>3, <1>4, <2>1, <2>3 DEF ChartRecord
  <2>5. QED BY <2>2, <2>4
<1>6. CASE p = "coin"
  <2>1. history = [asset |-> a, frame |-> 1] /\ chart.ready
    BY <1>1, <1>5, <1>6 DEF r
  <2>2. history \in Wanted /\ history.asset = a /\ history.frame = 1
    BY <2>1 DEF Wanted
  <2>3. history # NoRows
    BY <2>2, RowsOrNone
  <2>4. QED BY <1>2, <1>5, <2>1, <2>2, <2>3 DEF ChartIInv, ChartState, ChartDrawn
<1>7. CASE p = "chart"
  <2>1. history = NoRows /\ ~chart.ready
    BY <1>1, <1>5, <1>7 DEF r
  <2>2. QED BY <1>2, <1>5, <1>7, <2>1 DEF ChartIInv, ChartState, ChartDrawn
<1>8. QED BY <1>6, <1>7

LEMMA ChartReads ==
  ASSUME ChartIInv, WatchlistAnswers \/ PickAsset \/ CoinRenders \/ ChartButtons
  PROVE  ChartIInv'
<1>0. chart \in ChartRecord /\ ChartState(chart, history) /\ renders \in 0 .. MaxRenders
      /\ bare \in BOOLEAN
  BY DEF ChartIInv, ChartState
<1>1. CASE WatchlistAnswers
  <2>1. renders' = renders
    BY <1>1 DEF WatchlistAnswers
  <2>2. PICK a \in Listed \cup Held :
          \/ Rereads([chart EXCEPT !.ready = TRUE]) \/ Rereads([chart EXCEPT !.ready = TRUE, !.asset = a])
    <3>1. chart.asset \in Listed \cup Held
      BY <1>0 DEF ChartRecord
    <3>2. QED BY <1>1, <3>1 DEF WatchlistAnswers
  <2>3. /\ [chart EXCEPT !.ready = TRUE] \in ChartRecord /\ [chart EXCEPT !.ready = TRUE].ready
        /\ [chart EXCEPT !.ready = TRUE, !.asset = a] \in ChartRecord
        /\ [chart EXCEPT !.ready = TRUE, !.asset = a].ready
    BY <1>0 DEF ChartRecord
  <2>4. QED BY <1>0, <2>1, <2>2, <2>3, RereadKeeps
<1>2. CASE PickAsset
  <2>1. renders' = renders
    BY <1>2 DEF PickAsset
  <2>2. PICK a \in SideOffers :
          IF chart.ready
            THEN Rereads([chart EXCEPT !.asset = a])
            ELSE chart' = [chart EXCEPT !.asset = a] /\ UNCHANGED <<history, bare>>
    BY <1>2 DEF PickAsset
  <2>3. a \in Listed \cup Held
    <3>1. chart.tab \in {"market", "portfolio", "favorites"}
      BY <1>0 DEF ChartRecord
    <3>2. SideOffers \subseteq Listed \cup Held
      BY <3>1 DEF SideOffers
    <3>3. QED BY <3>2
  <2> DEFINE c == [chart EXCEPT !.asset = a]
  <2>4. /\ c \in ChartRecord /\ c.ready = chart.ready /\ c.page = chart.page
        /\ c.drawn = chart.drawn /\ c.note = chart.note
    BY <1>0, <2>3 DEF ChartRecord
  <2>5. \/ chart.ready /\ Rereads(c)
        \/ ~chart.ready /\ chart' = c /\ UNCHANGED <<history, bare>>
    BY <2>2
  <2> HIDE DEF c
  <2>6. CASE chart.ready /\ Rereads(c)
    BY <1>0, <2>1, <2>4, <2>6, RereadKeeps
  <2>7. CASE ~chart.ready /\ chart' = c /\ UNCHANGED <<history, bare>>
    BY <1>0, <2>1, <2>4, <2>7 DEF ChartIInv, ChartState, ChartDrawn
  <2>8. QED BY <2>5, <2>6, <2>7
<1>3. CASE CoinRenders
  <2>1. renders < MaxRenders /\ renders' = renders + 1 /\ Rereads(chart) /\ chart.page = "coin"
    BY <1>3 DEF CoinRenders
  <2>2. chart.ready
    BY <1>0, <2>1 DEF ChartState
  <2>3. renders' \in 0 .. MaxRenders
    BY <1>0, <2>1, ChartAssumption
  <2>4. QED BY <1>0, <2>1, <2>2, <2>3, RereadKeeps
<1>4. CASE ChartButtons
  <2>1. chart.ready /\ renders' = renders
    BY <1>4 DEF ChartButtons
  <2>2. NoRows \in Series \cup {NoRows}
    OBVIOUS
  <2>3. ASSUME NEW f \in 1 .. 2, Rereads(Rebuilt([chart EXCEPT !.frame = f]))
        PROVE  ChartIInv'
    <3> DEFINE c == Rebuilt([chart EXCEPT !.frame = f])
    <3>1. c \in ChartRecord /\ c.ready
      BY <1>0, <2>1, <2>2 DEF Rebuilt, ChartRecord
    <3>2. Rereads(c)
      BY <2>3
    <3> HIDE DEF c
    <3>3. QED BY <1>0, <2>1, <3>1, <3>2, RereadKeeps
  <2>4. ASSUME Rereads(Rebuilt([chart EXCEPT !.candles = ~@]))
        PROVE  ChartIInv'
    <3> DEFINE c == Rebuilt([chart EXCEPT !.candles = ~@])
    <3>1. c \in ChartRecord /\ c.ready
      BY <1>0, <2>1, <2>2 DEF Rebuilt, ChartRecord
    <3>2. Rereads(c)
      BY <2>4
    <3> HIDE DEF c
    <3>3. QED BY <1>0, <2>1, <3>1, <3>2, RereadKeeps
  <2>5. QED BY <1>4, <2>3, <2>4 DEF ChartButtons
<1>5. QED BY <1>1, <1>2, <1>3, <1>4

\* The list of assets, the theme and the answers.
LEMMA ChartShows ==
  ASSUME ChartIInv, SideTab \/ ThemeChanges \/ HistoryAnswers \/ HistoryFails
  PROVE  ChartIInv'
<1>0. /\ chart \in ChartRecord /\ ChartState(chart, history) /\ renders \in 0 .. MaxRenders
      /\ bare \in BOOLEAN /\ ChartDrawn(chart, history, bare)
  BY DEF ChartIInv, ChartState
<1>1. CASE SideTab
  <2>1. UNCHANGED <<history, bare, renders>>
    BY <1>1 DEF SideTab
  <2>2. /\ chart' \in ChartRecord /\ chart'.ready = chart.ready /\ chart'.page = chart.page
        /\ chart'.drawn = chart.drawn /\ chart'.note = chart.note /\ chart'.asset = chart.asset
        /\ chart'.frame = chart.frame
    <3>2. CASE \E t \in {"market", "portfolio", "favorites"} : chart' = [chart EXCEPT !.tab = t]
      BY <1>0, <3>2 DEF ChartRecord
    <3>3. CASE \E a \in SideOffers \cap Listed :
                 chart' = [chart EXCEPT !.liked = IF a \in @ THEN @ \ {a} ELSE @ \cup {a}]
      <4>1. PICK l \in SUBSET Listed : chart' = [chart EXCEPT !.liked = l]
        <5>1. PICK a \in SideOffers \cap Listed :
                chart' = [chart EXCEPT !.liked = IF a \in @ THEN @ \ {a} ELSE @ \cup {a}]
          BY <3>3
        <5>2. chart.liked \in SUBSET Listed
          BY <1>0 DEF ChartRecord
        <5>3. (IF a \in chart.liked THEN chart.liked \ {a} ELSE chart.liked \cup {a}) \in SUBSET Listed
          BY <5>1, <5>2
        <5>4. QED BY <5>1, <5>3
      <4>2. QED BY <1>0, <4>1 DEF ChartRecord
    <3>4. QED BY <1>1, <3>2, <3>3 DEF SideTab
  <2>3. QED BY <1>0, <2>1, <2>2 DEF ChartIInv, ChartState, ChartDrawn
<1>2. CASE ThemeChanges
  <2>1. /\ chart.ready /\ renders < MaxRenders /\ renders' = renders + 1
        /\ chart' = Rebuilt(chart) /\ history' = history
    BY <1>2 DEF ThemeChanges
  <2>2. bare' = (history = NoRows)
    BY <1>2 DEF ThemeChanges
  <2>3. bare' \in BOOLEAN /\ (history = NoRows => bare')
    BY <2>2
  <2>4. renders' \in 0 .. MaxRenders
    BY <1>0, <2>1, ChartAssumption
  <2>5. chart' \in ChartRecord /\ chart'.ready /\ chart'.asset = chart.asset /\ chart'.frame = chart.frame
    BY <1>0, <2>1 DEF Rebuilt, ChartRecord
  <2>6. QED BY <1>0, <2>1, <2>3, <2>4, <2>5 DEF ChartIInv, ChartState, ChartDrawn
<1>3. ASSUME history # NoRows PROVE chart.ready /\ history \in Wanted
             /\ history.asset = chart.asset /\ history.frame = chart.frame
  BY <1>0, <1>3 DEF ChartState
<1>4. CASE HistoryAnswers
  <2>1. history # NoRows /\ history' = NoRows /\ UNCHANGED <<bare, renders>>
    BY <1>4 DEF HistoryAnswers
  <2>2. ASSUME NEW kind \in {"crypto", "domestic", "foreign"}, NEW rows \in {"few", "many"},
               NEW ratio \in {"no price", "equal", "won per dollar"}, NEW own \in BOOLEAN,
               chart' = [chart EXCEPT !.drawn = Draws(kind, rows, ratio, own)]
        PROVE  ChartIInv'
    <3> DEFINE d == Draws(kind, rows, ratio, own)
               o == RowsOf(kind, rows, ratio, own) = "own"
    <3>1. o \in BOOLEAN
      OBVIOUS
    <3>2. d = [asset |-> history.asset, frame |-> history.frame, own |-> o]
      BY DEF Draws
    <3> HIDE DEF o
    <3>3. history.asset \in Listed \cup Held /\ history.frame \in 1 .. 2
      BY <1>3, <2>1 DEF Wanted
    <3> HIDE DEF d
    <3>4. d \in Series /\ d.asset = history.asset /\ d.frame = history.frame
      <4>1. d.asset = history.asset /\ d.frame = history.frame
        BY <3>2
      <4>2. d \in Series
        BY <3>1, <3>2, <3>3 DEF Series
      <4>3. QED BY <4>1, <4>2
    <3>5. chart' = [chart EXCEPT !.drawn = d]
      BY <2>2 DEF d
    <3>6. /\ chart' \in ChartRecord /\ chart'.ready = chart.ready /\ chart'.drawn = d
          /\ chart'.asset = chart.asset /\ chart'.frame = chart.frame
      BY <1>0, <3>4, <3>5 DEF ChartRecord
    <3>7. d # NoRows
      BY <3>4, RowsOrNone
    <3>8. QED BY <1>0, <1>3, <2>1, <3>4, <3>6, <3>7 DEF ChartIInv, ChartState, ChartDrawn
  <2>3. ASSUME chart' = [chart EXCEPT !.drawn = NoRows, !.note = "empty"] PROVE ChartIInv'
    <3>1. /\ chart' \in ChartRecord /\ chart'.ready = chart.ready /\ chart'.note = "empty"
      BY <1>0, <2>3 DEF ChartRecord
    <3>2. QED BY <1>0, <1>3, <2>1, <3>1 DEF ChartIInv, ChartState, ChartDrawn
  <2>4. QED BY <1>4, <2>2, <2>3 DEF HistoryAnswers
<1>5. CASE HistoryFails
  <2>1. /\ history # NoRows /\ history' = NoRows /\ UNCHANGED <<bare, renders>>
        /\ chart' = [chart EXCEPT !.note = "failed"]
    BY <1>5 DEF HistoryFails
  <2>2. chart' \in ChartRecord /\ chart'.ready = chart.ready /\ chart'.note = "failed"
    BY <1>0, <2>1 DEF ChartRecord
  <2>3. QED BY <1>0, <1>3, <2>1, <2>2 DEF ChartIInv, ChartState, ChartDrawn
<1>6. QED BY <1>1, <1>2, <1>4, <1>5

LEMMA ChartKeeps == ASSUME ChartIInv, [ChartNext]_chartVars PROVE ChartIInv'
<1>1. CASE UNCHANGED chartVars
  BY <1>1 DEF chartVars, ChartIInv
<1>2. QED BY <1>1, ChartReads, ChartShows DEF ChartNext

LEMMA ChartMeans == ChartIInv => ChartTypeOK /\ ChartShowsTheAsset
BY DEF ChartIInv, ChartState, ChartDrawn, ChartRecord, ChartTypeOK, ChartShowsTheAsset

\* With nothing under way a chart without a note shows the asset and the time frame that
\* are selected, unless the theme changed, however the effects, clicks and answers
\* follow each other (components/AdvancedChart.tsx, ChartSidebar.tsx).
THEOREM ChartIsOfTheAsset == ChartSpec => [](ChartTypeOK /\ ChartShowsTheAsset)
<1>1. ChartIInv /\ [ChartNext]_chartVars => ChartIInv'
  BY ChartKeeps
<1>2. QED BY <1>1, ChartStarts, ChartMeans, PTL DEF ChartSpec

-----------------------------------------------------------------------------
(* Widgets: what is shown is of what is selected *)

\* Widgets with something to select; the others always ask for the same.
Selects == {"news", "carousel", "diary", "prices", "insights"}

\* What a widget is, whatever is under way.
WidgetGood(w) ==
  /\ w \in Widget
  /\ w.kind \notin Selects => w.sel = 1 /\ w.has \in {0, 1, 3}
  /\ w.kind \in {"bell", "prices"} => ~w.spin
  /\ w.kind = "teaser" /\ w.spin => w.has = 0
  /\ w.kind = "indices" /\ w.has = 1 => w.copy # "none"

Asking(A) == \E a \in A : a.run = "now"

\* The requests of this run are for the selection; without a `cancelled' flag there are
\* no others unless an answer was overtaken; while something else is shown, or the
\* spinner turns, there is one.
AsksGood(w, A, l) ==
  /\ A \subseteq Ask /\ l \in BOOLEAN
  /\ ~w.open => \A a \in A : a.run = "gone"
  /\ \A a \in A : a.run = "now" => a.of = w.sel
  /\ ~l /\ w.kind \notin Guarded => \A a \in A : a.run # "before"
  /\ w.open /\ ~l /\ w.has \notin {0, 3, w.sel} => Asking(A)
  /\ w.spin => Asking(A) \/ (w.kind \in {"teaser", "diary"} /\ w.has = 0)

WidgetIInv == WidgetGood(widget) /\ AsksGood(widget, asks, lapse) /\ turns \in 0 .. MaxTurns

LEMMA AskFields ==
  /\ \A a \in Ask : a.of \in 1 .. 2 /\ a.run \in {"now", "before", "gone"}
  /\ \A s \in 1 .. 2 : /\ [of |-> s, run |-> "now"] \in Ask
                       /\ [of |-> s, run |-> "now"].of = s /\ [of |-> s, run |-> "now"].run = "now"
  /\ \A a \in Ask : /\ [a EXCEPT !.run = "gone"] \in Ask /\ [a EXCEPT !.run = "gone"].run = "gone"
                    /\ [a EXCEPT !.run = "before"] \in Ask /\ [a EXCEPT !.run = "before"].run = "before"
BY DEF Ask

LEMMA WidgetFields ==
  ASSUME NEW w \in Widget
  PROVE  /\ w.kind \in Kinds /\ w.open \in BOOLEAN /\ w.sel \in 1 .. 2 /\ w.has \in 0 .. 3
         /\ w.spin \in BOOLEAN /\ w.warn \in BOOLEAN /\ w.held \in BOOLEAN
         /\ w.copy \in {"none", "fresh", "old"} /\ w.copied \in 0 .. 1
BY DEF Widget

LEMMA WidgetStarts == WidgetInit => WidgetIInv
<1> SUFFICES ASSUME WidgetInit PROVE WidgetIInv
  OBVIOUS
<1>1. PICK k \in Kinds :
         widget = [kind |-> k, open |-> FALSE, sel |-> 1, has |-> 0, spin |-> FALSE,
                   warn |-> FALSE, held |-> FALSE, copy |-> "none", copied |-> 0]
  BY DEF WidgetInit
<1>2. 1 \in 1 .. 2 /\ 0 \in 0 .. 3 /\ 0 \in 0 .. 1 /\ 0 \in 0 .. MaxTurns
  BY WidgetAssumption
<1>3. widget \in Widget
  BY <1>1, <1>2 DEF Widget
<1>4. widget.sel = 1 /\ widget.has = 0 /\ widget.spin = FALSE /\ widget.open = FALSE
  BY <1>1
<1>5. WidgetGood(widget)
  BY <1>3, <1>4 DEF WidgetGood
<1>6. asks = {} /\ lapse = FALSE /\ turns = 0
  BY DEF WidgetInit
<1>7. AsksGood(widget, asks, lapse)
  BY <1>4, <1>6 DEF AsksGood
<1>8. QED BY <1>2, <1>5, <1>6, <1>7 DEF WidgetIInv

\* A page that is opened has nothing under way; where something can be selected it shows
\* nothing.
LEMMA OpenedIs ==
  ASSUME WidgetIInv, NEW kind \in Kinds, NEW has \in {0, 1, 3}, NEW spin \in BOOLEAN,
         NEW warn \in BOOLEAN, NEW ask \in BOOLEAN, Opened(kind, has, spin, warn, ask),
         kind \in Selects \/ kind \in {"teaser", "indices"} => has = 0,
         kind \in {"bell", "prices"} => ~spin,
         spin => ask \/ (kind = "diary" /\ has = 0)
  PROVE  WidgetIInv'
<1> DEFINE held == (has = 1)
           new  == [of |-> widget.sel, run |-> "now"]
<1>1. /\ widget.kind = kind /\ ~widget.open
      /\ asks' = IF ask THEN asks \cup {new} ELSE asks
      /\ lapse' = FALSE /\ turns' = turns
      /\ WidgetGood(widget) /\ AsksGood(widget, asks, lapse) /\ turns \in 0 .. MaxTurns
  BY DEF Opened, WidgetIInv
<1>2. widget' = [widget EXCEPT !.open = TRUE, !.has = has, !.spin = spin, !.warn = warn,
                               !.held = held]
  BY DEF Opened
<1>3. held \in BOOLEAN /\ has \in 0 .. 3 /\ widget \in Widget
  BY <1>1 DEF WidgetGood
<1>4. widget.sel \in 1 .. 2
  BY <1>3, WidgetFields
<1> HIDE DEF held
<1>5. /\ widget' \in Widget /\ widget'.kind = widget.kind /\ widget'.open = TRUE
      /\ widget'.sel = widget.sel /\ widget'.has = has /\ widget'.spin = spin
  BY <1>2, <1>3 DEF Widget
<1>6. WidgetGood(widget')
  BY <1>1, <1>5 DEF WidgetGood
<1>7. new \in Ask /\ new.run = "now" /\ new.of = widget.sel
  BY <1>4, AskFields
<1> HIDE DEF new
<1>8. \A a \in asks : a \in Ask /\ a.run = "gone"
  BY <1>1 DEF AsksGood
<1>9. \A a \in asks' : a \in Ask /\ (a.run = "gone" \/ a = new)
  BY <1>1, <1>7, <1>8
<1>10. ask => Asking(asks')
  BY <1>1, <1>7 DEF Asking
<1>11. has \notin {0, 3, widget.sel} => FALSE
  BY <1>1 DEF WidgetGood
<1>12. AsksGood(widget', asks', lapse')
  BY <1>1, <1>5, <1>7, <1>9, <1>10, <1>11 DEF AsksGood
<1>13. QED BY <1>1, <1>6, <1>12 DEF WidgetIInv

LEMMA WidgetOpensKeeps == ASSUME WidgetIInv, WidgetOpens PROVE WidgetIInv'
<1>0. widget \in Widget /\ widget.copy \in {"none", "fresh", "old"} /\ widget.copied \in {0, 1}
      /\ TRUE \in BOOLEAN /\ FALSE \in BOOLEAN
  <2>1. widget \in Widget
    BY DEF WidgetIInv, WidgetGood
  <2>2. widget.copied \in {0, 1}
    BY <2>1, WidgetFields
  <2>3. QED BY <2>1, <2>2, WidgetFields
<1>1. ASSUME NEW k \in {"snapshot", "carousel", "news", "teaser", "indices"}, Opened(k, 0, TRUE, FALSE, TRUE)
      PROVE  WidgetIInv'
  BY <1>1, OpenedIs DEF Kinds
<1>2. ASSUME NEW k \in {"bell", "prices"}, Opened(k, 0, FALSE, FALSE, TRUE)
      PROVE  WidgetIInv'
  BY <1>2, OpenedIs DEF Kinds
<1>3. ASSUME NEW b \in BOOLEAN, Opened("insights", 0, b, FALSE, b) PROVE WidgetIInv'
  BY <1>3, OpenedIs DEF Kinds
<1>4. ASSUME NEW b \in BOOLEAN, Opened("diary", 0, TRUE, FALSE, b) PROVE WidgetIInv'
  BY <1>4, OpenedIs DEF Kinds
<1>5. CASE WatchOpens
  <2>1. "watch" \in Kinds /\ "watch" \notin Selects /\ widget.copied \in {0, 1, 3} /\ 0 \in {0, 1, 3}
    BY <1>0 DEF Kinds, Selects
  <2>2. QED BY <1>5, <2>1, OpenedIs DEF WatchOpens
<1>6. CASE CoinsOpens
  <2>1. PICK h \in {1, 3} : Opened("coins", h, TRUE, FALSE, TRUE)
    BY <1>6 DEF CoinsOpens
  <2>2. "coins" \in Kinds /\ "coins" \notin Selects
    BY DEF Kinds, Selects
  <2>3. QED BY <2>1, <2>2, OpenedIs
<1>7. CASE CoinOpens
  <2> DEFINE b == widget.copy # "fresh"
  <2>1. PICK h \in {0, 1} : Opened("coin", h, b, FALSE, TRUE)
    BY <1>7 DEF CoinOpens
  <2>2. "coin" \in Kinds /\ "coin" \notin Selects /\ b \in BOOLEAN
    BY DEF Kinds, Selects
  <2> HIDE DEF b
  <2>3. QED BY <2>1, <2>2, OpenedIs
<1>8. QED
  BY <1>1, <1>2, <1>3, <1>4, <1>5, <1>6, <1>7
     DEF WidgetOpens, SnapshotOpens, CarouselOpens, NewsOpens, TeaserOpens, IndicesOpens,
         InsightsOpens, DiaryOpens, BellOpens, PricesOpens

LEMMA TurnedIs == turns \in 0 .. MaxTurns /\ Turned => turns' \in 0 .. MaxTurns
BY WidgetAssumption DEF Turned

LEMMA WidgetLeftKeeps == ASSUME WidgetIInv, WidgetLeft PROVE WidgetIInv'
<1>1. /\ WidgetGood(widget) /\ AsksGood(widget, asks, lapse) /\ turns' \in 0 .. MaxTurns
      /\ asks' = {[a EXCEPT !.run = "gone"] : a \in asks} /\ lapse' = FALSE
      /\ widget' = [widget EXCEPT !.open = FALSE, !.has = 0, !.spin = FALSE, !.warn = FALSE,
                                  !.held = FALSE]
  BY TurnedIs DEF WidgetIInv, WidgetLeft
<1>2. 0 \in 0 .. 3 /\ widget \in Widget
  BY <1>1 DEF WidgetGood
<1>3. /\ widget' \in Widget /\ widget'.kind = widget.kind /\ widget'.open = FALSE
      /\ widget'.sel = widget.sel /\ widget'.has = 0 /\ widget'.spin = FALSE
  BY <1>1, <1>2 DEF Widget
<1>4. WidgetGood(widget')
  BY <1>1, <1>3 DEF WidgetGood
<1>5. \A a \in asks : a \in Ask
  BY <1>1 DEF AsksGood
<1>6. \A a \in asks' : a \in Ask /\ a.run = "gone"
  <2>1. \A b \in asks' : \E a \in asks : b = [a EXCEPT !.run = "gone"]
    BY <1>1
  <2>2. \A a \in asks : [a EXCEPT !.run = "gone"] \in Ask /\ [a EXCEPT !.run = "gone"].run = "gone"
    BY <1>5, AskFields
  <2>3. QED BY <2>1, <2>2
<1>7. AsksGood(widget', asks', lapse')
  BY <1>1, <1>3, <1>6 DEF AsksGood
<1>8. QED BY <1>1, <1>4, <1>7 DEF WidgetIInv

\* The effect runs again: requests of the run before are no longer of this one.
LEMMA ReselectedIs ==
  ASSUME WidgetIInv, NEW kind \in Kinds \ {"bell", "teaser"}, NEW sel \in 1 .. 2,
         NEW has \in {0, widget.has}, NEW spin \in BOOLEAN, NEW ask \in BOOLEAN,
         Reselected(kind, sel, has, spin, ask),
         kind \notin Selects => sel = 1 /\ has = widget.has,
         kind = "prices" => ~spin,
         spin => ask, ask \/ has = 0
  PROVE  WidgetIInv'
<1> DEFINE new  == [of |-> sel, run |-> "now"]
           over == (kind \notin Guarded /\ Own # {})
<1>1. /\ widget.kind = kind /\ widget.open /\ turns' \in 0 .. MaxTurns
      /\ asks' = IF ask THEN Before \cup {new} ELSE Before
      /\ lapse' = over
      /\ WidgetGood(widget) /\ AsksGood(widget, asks, lapse)
      /\ widget' = [widget EXCEPT !.sel = sel, !.has = has, !.spin = spin, !.warn = FALSE]
  BY TurnedIs DEF Reselected, WidgetIInv
<1>2. widget \in Widget /\ widget.has \in 0 .. 3
  BY <1>1, WidgetFields DEF WidgetGood
<1>3. has \in 0 .. 3
  BY <1>2
<1>4. /\ widget' \in Widget /\ widget'.kind = widget.kind /\ widget'.open = widget.open
      /\ widget'.sel = sel /\ widget'.has = has /\ widget'.spin = spin
      /\ widget'.copy = widget.copy
  BY <1>1, <1>2, <1>3 DEF Widget
<1>5. WidgetGood(widget')
  <2>1. kind \notin Selects => has \in {0, 1, 3}
    BY <1>1 DEF WidgetGood
  <2>2. kind = "indices" /\ has = 1 => widget.copy # "none"
    BY <1>1 DEF WidgetGood
  <2>3. QED BY <1>1, <1>4, <2>1, <2>2 DEF WidgetGood
<1>6. new \in Ask /\ new.run = "now" /\ new.of = sel
  BY AskFields
<1> HIDE DEF new
<1>7. \A a \in asks : a \in Ask /\ a.run \in {"now", "before", "gone"}
  BY <1>1, AskFields DEF AsksGood
<1>8. \A b \in Before : \E a \in asks : \/ a.run = "now" /\ b = [a EXCEPT !.run = "before"]
                                        \/ a.run # "now" /\ b = [a EXCEPT !.run = a.run]
  BY DEF Before
<1>9. \A a \in Ask : [a EXCEPT !.run = a.run] = a
  BY DEF Ask
<1>10. \A b \in Before : b \in Ask /\ b.run # "now" /\ (b.run = "before" => Own # {})
  <2>1. SUFFICES ASSUME NEW b \in Before
        PROVE b \in Ask /\ b.run # "now" /\ (b.run = "before" => Own # {})
    OBVIOUS
  <2>2. PICK a \in asks : \/ a.run = "now" /\ b = [a EXCEPT !.run = "before"]
                          \/ a.run # "now" /\ b = a
    BY <1>7, <1>8, <1>9
  <2>3. b \in Ask /\ b.run # "now"
    BY <1>7, <2>2, AskFields
  <2>4. a.run # "gone" => a \in Own
    BY DEF Own
  <2>5. b.run = "before" => a.run # "gone"
    BY <2>2
  <2>6. QED BY <2>3, <2>4, <2>5
<1>11. over \in BOOLEAN /\ (~over /\ kind \notin Guarded => Own = {})
  OBVIOUS
<1> HIDE DEF over
<1>12. \A a \in asks' : a \in Ask /\ (a = new \/ (a.run # "now" /\ (a.run = "before" => Own # {})))
  BY <1>1, <1>6, <1>10
<1>13. ask => Asking(asks')
  BY <1>1, <1>6 DEF Asking
<1>14. AsksGood(widget', asks', lapse')
  BY <1>1, <1>4, <1>6, <1>11, <1>12, <1>13 DEF AsksGood
<1>15. QED BY <1>1, <1>5, <1>14 DEF WidgetIInv

LEMMA WidgetReselects ==
  ASSUME WidgetIInv,
         \/ NewsPage \/ KeywordsChange \/ DiaryToken \/ AssetsChange \/ HoldingsChange
         \/ IndicesRefresh \/ SnapshotRetry
  PROVE  WidgetIInv'
<1>0. widget \in Widget /\ WidgetGood(widget)
  BY DEF WidgetIInv, WidgetGood
<1>1. widget.sel \in 1 .. 2 /\ widget.spin \in BOOLEAN
  BY <1>0, WidgetFields
<1>2. Other \in 1 .. 2
  BY <1>1 DEF Other
<1>3. /\ {"news", "carousel", "diary", "prices", "insights", "indices", "snapshot"}
           \subseteq Kinds \ {"bell", "teaser"}
      /\ {"news", "carousel", "diary", "prices", "insights"} = Selects
      /\ "indices" \notin Selects /\ "snapshot" \notin Selects
  BY DEF Kinds, Selects
<1>4. ASSUME NEW k \in {"news", "carousel", "insights"}, Reselected(k, Other, widget.has, TRUE, TRUE)
      PROVE  WidgetIInv'
  BY <1>2, <1>3, <1>4, ReselectedIs
<1>5. CASE DiaryToken
  BY <1>1, <1>2, <1>3, <1>5, ReselectedIs DEF DiaryToken
<1>6. CASE AssetsChange
  BY <1>2, <1>3, <1>6, ReselectedIs DEF AssetsChange
<1>7. CASE Reselected("insights", Other, 0, FALSE, FALSE)
  BY <1>2, <1>3, <1>7, ReselectedIs
<1>8. ASSUME NEW k \in {"indices", "snapshot"}, NEW b \in BOOLEAN,
             Reselected(k, widget.sel, widget.has, b, TRUE)
      PROVE  WidgetIInv'
  <2>1. widget.kind = k
    BY <1>8 DEF Reselected
  <2>2. widget.sel = 1
    BY <1>0, <1>3, <2>1 DEF WidgetGood
  <2>3. QED BY <1>1, <1>3, <1>8, <2>2, ReselectedIs
<1>9. QED
  BY <1>4, <1>5, <1>6, <1>7, <1>8
     DEF NewsPage, KeywordsChange, HoldingsChange, IndicesRefresh, SnapshotRetry

LEMMA WidgetPolls == ASSUME WidgetIInv, PollDue PROVE WidgetIInv'
<1> DEFINE new == [of |-> widget.sel, run |-> "now"]
           s   == (widget.spin \/ (widget.kind = "coin" /\ ~widget.held))
           n   == (widget.warn /\ widget.kind # "coin")
<1>1. /\ widget.open /\ widget.kind \in {"coins", "coin", "bell", "prices"}
      /\ asks' = asks \cup {new} /\ UNCHANGED <<turns, lapse>>
      /\ widget' = [widget EXCEPT !.spin = s, !.warn = n]
      /\ WidgetGood(widget) /\ AsksGood(widget, asks, lapse) /\ turns \in 0 .. MaxTurns
  BY DEF PollDue, WidgetIInv
<1>2. widget \in Widget
  BY <1>1 DEF WidgetGood
<1>3. widget.sel \in 1 .. 2 /\ widget.spin \in BOOLEAN /\ widget.warn \in BOOLEAN
  BY <1>2, WidgetFields
<1>4. s \in BOOLEAN /\ n \in BOOLEAN /\ (widget.kind # "coin" => s = widget.spin)
  BY <1>3
<1>5. new \in Ask /\ new.run = "now" /\ new.of = widget.sel
  BY <1>3, AskFields
<1> HIDE DEF s, n, new
<1>6. /\ widget' \in Widget /\ widget'.kind = widget.kind /\ widget'.open = widget.open
      /\ widget'.sel = widget.sel /\ widget'.has = widget.has /\ widget'.spin = s
      /\ widget'.copy = widget.copy
  BY <1>1, <1>2, <1>4 DEF Widget
<1>7. WidgetGood(widget')
  BY <1>1, <1>4, <1>6 DEF WidgetGood
<1>8. Asking(asks')
  BY <1>1, <1>5 DEF Asking
<1>9. AsksGood(widget', asks', lapse')
  BY <1>1, <1>5, <1>6, <1>8 DEF AsksGood
<1>10. QED BY <1>1, <1>7, <1>9 DEF WidgetIInv

LEMMA WidgetAges == ASSUME WidgetIInv, CopyAges PROVE WidgetIInv'
<1>1. /\ UNCHANGED <<asks, turns, lapse>>
      /\ widget' = [widget EXCEPT !.copy = "old"]
      /\ WidgetGood(widget) /\ AsksGood(widget, asks, lapse) /\ turns \in 0 .. MaxTurns
  BY DEF CopyAges, WidgetIInv
<1>2. widget \in Widget
  BY <1>1 DEF WidgetGood
<1>3. /\ widget' \in Widget /\ widget'.kind = widget.kind /\ widget'.open = widget.open
      /\ widget'.sel = widget.sel /\ widget'.has = widget.has /\ widget'.spin = widget.spin
      /\ widget'.copy = "old"
  BY <1>1, <1>2 DEF Widget
<1>4. WidgetGood(widget')
  BY <1>1, <1>3 DEF WidgetGood
<1>5. AsksGood(widget', asks', lapse')
  BY <1>1, <1>3 DEF AsksGood
<1>6. QED BY <1>1, <1>4, <1>5 DEF WidgetIInv

\* What a widget is like after an answer, field by field.
After(w, t) == t \in Widget /\ t.kind = w.kind /\ t.open = w.open /\ t.sel = w.sel

\* The coin list and the coin page also store what came.
LEMMA KeptIs ==
  ASSUME NEW w \in Widget
  PROVE  After(w, Kept(w)) /\ Kept(w).has = w.has /\ Kept(w).spin = w.spin /\ Kept(w).copy = "fresh"
<1>1. 1 \in 0 .. 1
  OBVIOUS
<1>2. QED BY <1>1 DEF Kept, After, Widget

LEMMA KeptShown ==
  ASSUME NEW w \in Widget,
         NEW t \in {[Kept(w) EXCEPT !.has = 1, !.spin = FALSE],
                     [Kept(w) EXCEPT !.has = 1, !.spin = FALSE, !.warn = FALSE]}
  PROVE  After(w, t) /\ t.has = 1 /\ ~t.spin /\ t.copy = "fresh"
<1>1. 1 \in 0 .. 3
  OBVIOUS
<1>2. Kept(w) \in Widget /\ After(w, Kept(w)) /\ Kept(w).copy = "fresh"
  BY KeptIs DEF After
<1>3. CASE t = [Kept(w) EXCEPT !.has = 1, !.spin = FALSE]
  BY <1>1, <1>2, <1>3 DEF After, Widget
<1>4. CASE t = [Kept(w) EXCEPT !.has = 1, !.spin = FALSE, !.warn = FALSE]
  BY <1>1, <1>2, <1>4 DEF After, Widget
<1>5. QED BY <1>3, <1>4

\* A widget that took an answer: rows are of what was asked for, and the spinner is gone,
\* but for that of the teaser without rows.
Took(w, of, r, t) ==
  /\ After(w, t) /\ WidgetGood(t)
  /\ r = "rows" /\ w.kind \in Selects => t.has = of
  /\ t.spin => w.kind = "teaser" /\ t.has = 0
  /\ w.kind \in {"coins", "indices"} /\ w.has = 1 => t.has = 1

LEMMA TakesIs ==
  ASSUME NEW w, WidgetGood(w), NEW of \in 1 .. 2, NEW r \in Outcome(w.kind)
  PROVE  Took(w, of, r, Takes(w, of, r))
<1>0. /\ w \in Widget /\ w.kind \in Kinds /\ w.has \in 0 .. 3 /\ of \in 0 .. 3
      /\ 0 \in 0 .. 3 /\ 1 \in 0 .. 3 /\ 3 \in 0 .. 3 /\ 0 \in 0 .. 1 /\ 1 \in 0 .. 1
      /\ TRUE \in BOOLEAN /\ FALSE \in BOOLEAN
      /\ w.kind \notin Selects => w.sel = 1 /\ w.has \in {0, 1, 3}
  BY WidgetFields DEF WidgetGood
\* What is left to show of a widget whose spinner is off.
<1>1. ASSUME NEW t, After(w, t), ~t.spin,
             w.kind \notin Selects => t.has \in {0, 1, 3},
             w.kind = "indices" => t.copy # "none",
             r = "rows" /\ w.kind \in Selects => t.has = of,
             w.kind \in {"coins", "indices"} /\ w.has = 1 => t.has = 1
      PROVE  Took(w, of, r, t)
  BY <1>0, <1>1 DEF Took, After, WidgetGood
<1>2. CASE w.kind = "snapshot"
  <2>1. Takes(w, of, r) = SnapshotTakes(w, r) /\ w.kind \notin Selects
    BY <1>2 DEF Takes, Selects
  <2>2. PICK h \in {0, 1}, b \in BOOLEAN :
          SnapshotTakes(w, r) = [w EXCEPT !.has = h, !.spin = FALSE, !.warn = b]
    <3>1. CASE r = "rows"
      BY <3>1 DEF SnapshotTakes
    <3>2. CASE r # "rows"
      BY <3>2 DEF SnapshotTakes
    <3>3. QED BY <3>1, <3>2
  <2> DEFINE t == [w EXCEPT !.has = h, !.spin = FALSE, !.warn = b]
  <2>3. h \in 0 .. 3 /\ h \in {0, 1, 3}
    BY <2>2
  <2>4. t \in Widget /\ After(w, t) /\ ~t.spin /\ t.has = h
    BY <1>0, <2>3 DEF After, Widget
  <2>5. Takes(w, of, r) = t
    BY <2>1, <2>2
  <2> HIDE DEF t
  <2>6. QED BY <1>1, <1>2, <2>1, <2>3, <2>4, <2>5
<1>3. CASE w.kind = "carousel"
  <2>1. Takes(w, of, r) = [w EXCEPT !.has = IF r = "rows" THEN of ELSE 0, !.spin = FALSE]
        /\ w.kind \in Selects
    BY <1>3 DEF Takes, CarouselTakes, Selects
  <2>2. PICK h \in 0 .. 3 : /\ h = IF r = "rows" THEN of ELSE 0
                            /\ Takes(w, of, r) = [w EXCEPT !.has = h, !.spin = FALSE]
    <3> DEFINE h == IF r = "rows" THEN of ELSE 0
    <3>1. h \in 0 .. 3
      BY <1>0
    <3>2. Takes(w, of, r) = [w EXCEPT !.has = h, !.spin = FALSE]
      BY <2>1
    <3> HIDE DEF h
    <3>3. QED BY <3>1, <3>2 DEF h
  <2>3. After(w, Takes(w, of, r)) /\ ~Takes(w, of, r).spin /\ Takes(w, of, r).has = h
    BY <1>0, <2>2 DEF After, Widget
  <2>4. QED BY <1>1, <1>3, <2>1, <2>2, <2>3
<1>4. CASE w.kind = "news"
  <2>1. Takes(w, of, r) = NewsTakes(w, of, r) /\ w.kind \in Selects
    BY <1>4 DEF Takes, Selects
  <2>2. PICK h \in 0 .. 3 : /\ r = "rows" => h = of
                            /\ Takes(w, of, r) = [w EXCEPT !.has = h, !.spin = FALSE]
    <3> DEFINE h == CASE r = "rows" -> of [] r = "none" -> 0 [] OTHER -> w.has
    <3>1. h \in 0 .. 3 /\ (r = "rows" => h = of)
      <4>1. CASE r = "rows"
        BY <1>0, <4>1
      <4>2. CASE r = "none"
        BY <1>0, <4>2
      <4>3. CASE r # "rows" /\ r # "none"
        BY <1>0, <4>3
      <4>4. QED BY <4>1, <4>2, <4>3
    <3>2. Takes(w, of, r) = [w EXCEPT !.has = h, !.spin = FALSE]
      BY <2>1 DEF NewsTakes
    <3> HIDE DEF h
    <3>3. QED BY <3>1, <3>2
  <2>3. After(w, Takes(w, of, r)) /\ ~Takes(w, of, r).spin /\ Takes(w, of, r).has = h
    BY <1>0, <2>2 DEF After, Widget
  <2>4. QED BY <1>1, <1>4, <2>1, <2>2, <2>3
<1>5. CASE w.kind = "watch"
  <2> DEFINE s == IF r = "rows" THEN 1 ELSE 0
             t == [w EXCEPT !.has = s, !.spin = FALSE, !.warn = FALSE, !.copy = "fresh", !.copied = s]
  <2>1. Takes(w, of, r) = t /\ w.kind \notin Selects
    BY <1>5 DEF Takes, WatchTakes, Selects
  <2>2. s \in {0, 1} /\ s \in 0 .. 1 /\ s \in 0 .. 3
    OBVIOUS
  <2> HIDE DEF s
  <2>3. After(w, t) /\ ~t.spin /\ t.has = s
    BY <1>0, <2>2 DEF After, Widget
  <2> HIDE DEF t
  <2>4. QED BY <1>0, <1>1, <1>5, <2>1, <2>2, <2>3
<1>6. CASE w.kind = "coins"
  <2>0. Takes(w, of, r) = CoinsTakes(w, r) /\ w.kind \notin Selects
    BY <1>6 DEF Takes, Selects
  <2>1. CASE r = "rows"
    <3>1. Takes(w, of, r) = [Kept(w) EXCEPT !.has = 1, !.spin = FALSE, !.warn = FALSE]
      BY <2>0, <2>1 DEF CoinsTakes
    <3>2. After(w, Takes(w, of, r)) /\ ~Takes(w, of, r).spin /\ Takes(w, of, r).has = 1
      BY <1>0, <3>1, KeptShown
    <3>3. QED BY <1>1, <1>6, <2>0, <3>2
  <2>2. CASE r # "rows"
    <3>1. PICK t \in {[w EXCEPT !.spin = FALSE], [w EXCEPT !.spin = FALSE, !.warn = TRUE]} :
            Takes(w, of, r) = t
      BY <2>0, <2>2 DEF CoinsTakes
    <3>2. After(w, t) /\ ~t.spin /\ t.has = w.has
      BY <1>0, <3>1 DEF After, Widget
    <3>3. QED BY <1>0, <1>1, <1>6, <2>0, <2>2, <3>1, <3>2
  <2>3. QED BY <2>1, <2>2
<1>7. CASE w.kind = "coin"
  <2>0. Takes(w, of, r) = CoinTakes(w, r) /\ w.kind \notin Selects /\ r \in {"rows", "lost"}
    BY <1>7 DEF Takes, Selects, Outcome
  <2>1. CASE r = "rows"
    <3>1. Takes(w, of, r) = [Kept(w) EXCEPT !.has = 1, !.spin = FALSE]
      BY <2>0, <2>1 DEF CoinTakes
    <3>2. After(w, Takes(w, of, r)) /\ ~Takes(w, of, r).spin /\ Takes(w, of, r).has = 1
      BY <1>0, <3>1, KeptShown
    <3>3. QED BY <1>1, <1>7, <2>0, <3>2
  <2>2. CASE r = "lost" /\ w.held
    <3>1. Takes(w, of, r) = [w EXCEPT !.spin = FALSE]
      BY <2>0, <2>2 DEF CoinTakes
    <3>2. After(w, Takes(w, of, r)) /\ ~Takes(w, of, r).spin /\ Takes(w, of, r).has = w.has
      BY <1>0, <3>1 DEF After, Widget
    <3>3. QED BY <1>0, <1>1, <1>7, <2>0, <2>2, <3>2
  <2>3. CASE r = "lost" /\ ~w.held
    <3>1. Takes(w, of, r) = [w EXCEPT !.has = 3, !.spin = FALSE, !.warn = TRUE]
      BY <2>0, <2>3 DEF CoinTakes
    <3>2. After(w, Takes(w, of, r)) /\ ~Takes(w, of, r).spin /\ Takes(w, of, r).has = 3
      BY <1>0, <3>1 DEF After, Widget
    <3>3. QED BY <1>1, <1>7, <2>0, <2>3, <3>2
  <2>4. QED BY <2>0, <2>1, <2>2, <2>3
<1>8. CASE w.kind = "teaser"
  <2>0. Takes(w, of, r) = TeaserTakes(w, r) /\ w.kind \notin Selects
    BY <1>8 DEF Takes, Selects
  <2>1. CASE r = "none"
    <3>1. Takes(w, of, r) = w
      BY <2>0, <2>1 DEF TeaserTakes
    <3>2. w.spin => w.has = 0
      BY <1>8 DEF WidgetGood
    <3>3. QED BY <1>0, <1>8, <2>0, <3>1, <3>2 DEF Took, After
  <2>2. CASE r # "none"
    <3>1. PICK h \in {1, 3} : Takes(w, of, r) = [w EXCEPT !.has = h, !.spin = FALSE]
      <4>1. CASE r = "rows"
        BY <2>0, <4>1 DEF TeaserTakes
      <4>2. CASE r # "rows"
        BY <2>0, <2>2, <4>2 DEF TeaserTakes
      <4>3. QED BY <4>1, <4>2
    <3>2. After(w, Takes(w, of, r)) /\ ~Takes(w, of, r).spin /\ Takes(w, of, r).has = h
      BY <1>0, <3>1 DEF After, Widget
    <3>3. QED BY <1>1, <1>8, <2>0, <3>1, <3>2
  <2>3. QED BY <2>1, <2>2
<1>9. CASE w.kind = "indices"
  <2>0. Takes(w, of, r) = IndicesTakes(w, r) /\ w.kind \notin Selects
        /\ (w.has = 1 => w.copy # "none")
    BY <1>9 DEF Takes, Selects, WidgetGood
  <2>1. CASE r = "rows"
    <3>1. Takes(w, of, r) = [Kept(w) EXCEPT !.has = 1, !.spin = FALSE]
      BY <2>0, <2>1 DEF IndicesTakes
    <3>2. /\ After(w, Takes(w, of, r)) /\ ~Takes(w, of, r).spin /\ Takes(w, of, r).has = 1
          /\ Takes(w, of, r).copy = "fresh"
      BY <1>0, <3>1, KeptShown
    <3>3. QED BY <1>1, <1>9, <2>0, <3>2
  <2>2. CASE r # "rows" /\ w.copy # "none"
    <3>1. Takes(w, of, r) = [w EXCEPT !.has = 1, !.spin = FALSE, !.warn = TRUE]
      BY <2>0, <2>2 DEF IndicesTakes
    <3>2. /\ After(w, Takes(w, of, r)) /\ ~Takes(w, of, r).spin /\ Takes(w, of, r).has = 1
          /\ Takes(w, of, r).copy = w.copy
      BY <1>0, <3>1 DEF After, Widget
    <3>3. QED BY <1>1, <1>9, <2>0, <2>2, <3>2
  <2>3. CASE r # "rows" /\ w.copy = "none"
    <3>1. Takes(w, of, r) = [w EXCEPT !.has = 3, !.spin = FALSE, !.warn = TRUE]
      BY <2>0, <2>3 DEF IndicesTakes
    <3>2. /\ After(w, Takes(w, of, r)) /\ ~Takes(w, of, r).spin /\ Takes(w, of, r).has = 3
      BY <1>0, <3>1 DEF After, Widget
    <3>3. w.has # 1
      BY <2>0, <2>3
    <3>4. QED BY <1>0, <1>9, <2>0, <2>3, <3>2, <3>3 DEF Took, After, WidgetGood
  <2>4. QED BY <2>1, <2>2, <2>3
<1>10. CASE w.kind = "insights"
  <2>0. Takes(w, of, r) = InsightsTakes(w, of, r) /\ w.kind \in Selects
    BY <1>10 DEF Takes, Selects
  <2>1. CASE r = "rows"
    <3>1. Takes(w, of, r) = [w EXCEPT !.has = of, !.spin = FALSE]
      BY <2>0, <2>1 DEF InsightsTakes
    <3>2. After(w, Takes(w, of, r)) /\ ~Takes(w, of, r).spin /\ Takes(w, of, r).has = of
      BY <1>0, <3>1 DEF After, Widget
    <3>3. QED BY <1>1, <1>10, <2>0, <3>2
  <2>2. CASE r # "rows"
    <3>1. Takes(w, of, r) = [w EXCEPT !.has = 0, !.warn = TRUE, !.spin = FALSE]
      BY <2>0, <2>2 DEF InsightsTakes
    <3>2. After(w, Takes(w, of, r)) /\ ~Takes(w, of, r).spin
      BY <1>0, <3>1 DEF After, Widget
    <3>3. QED BY <1>1, <1>10, <2>0, <2>2, <3>2
  <2>3. QED BY <2>1, <2>2
<1>11. CASE w.kind = "diary"
  <2>0. Takes(w, of, r) = DiaryTakes(w, of, r) /\ w.kind \in Selects
    BY <1>11 DEF Takes, Selects
  <2>1. PICK h \in 0 .. 3 : /\ r = "rows" => h = of
                            /\ Takes(w, of, r) = [w EXCEPT !.has = h, !.spin = FALSE]
    <3> DEFINE h == IF r = "rows" THEN of ELSE w.has
    <3>1. h \in 0 .. 3 /\ (r = "rows" => h = of)
      BY <1>0
    <3>2. Takes(w, of, r) = [w EXCEPT !.has = h, !.spin = FALSE]
      BY <2>0 DEF DiaryTakes
    <3> HIDE DEF h
    <3>3. QED BY <3>1, <3>2
  <2>2. After(w, Takes(w, of, r)) /\ ~Takes(w, of, r).spin /\ Takes(w, of, r).has = h
    BY <1>0, <2>1 DEF After, Widget
  <2>3. QED BY <1>1, <1>11, <2>0, <2>1, <2>2
<1>12. CASE w.kind \in {"bell", "prices"}
  <2>0. ~w.spin /\ w.kind \notin {"coins", "indices"}
    BY <1>12 DEF WidgetGood
  <2>1. PICK h \in 0 .. 3 : /\ r = "rows" => h = IF w.kind = "bell" THEN 1 ELSE of
                            /\ r # "rows" => h = w.has
                            /\ Takes(w, of, r) = [w EXCEPT !.has = h]
    BY <1>0, <1>12 DEF Takes, BellTakes, PricesTakes
  <2>2. w.kind = "bell" => w.kind \notin Selects
    BY DEF Selects
  <2>3. w.kind = "prices" => w.kind \in Selects
    BY DEF Selects
  <2>4. /\ After(w, Takes(w, of, r)) /\ Takes(w, of, r).has = h
        /\ Takes(w, of, r).spin = w.spin /\ Takes(w, of, r).copy = w.copy
    BY <1>0, <2>1 DEF After, Widget
  <2>5. w.kind \notin Selects => h \in {0, 1, 3}
    BY <1>0, <1>12, <2>1, <2>3
  <2>6. QED BY <1>1, <1>12, <2>0, <2>1, <2>2, <2>3, <2>4, <2>5
<1>13. QED
  BY <1>0, <1>2, <1>3, <1>4, <1>5, <1>6, <1>7, <1>8, <1>9, <1>10, <1>11, <1>12 DEF Kinds

\* An answer that is no longer waited for changes the storage at most.
LEMMA StoredLateIs ==
  ASSUME WidgetGood(widget), NEW r
  PROVE  /\ After(widget, StoredLate(r)) /\ WidgetGood(StoredLate(r))
         /\ StoredLate(r).has = widget.has /\ StoredLate(r).spin = widget.spin
<1>0. widget \in Widget
  BY DEF WidgetGood
<1>1. \/ StoredLate(r) = widget
      \/ widget.kind # "indices" /\ \E c \in {0, 1} :
           StoredLate(r) = [widget EXCEPT !.copy = "fresh", !.copied = c]
  BY DEF StoredLate, Kept
<1>2. CASE StoredLate(r) = widget
  BY <1>0, <1>2 DEF After
<1>3. CASE widget.kind # "indices" /\ \E c \in {0, 1} :
             StoredLate(r) = [widget EXCEPT !.copy = "fresh", !.copied = c]
  <2>1. PICK c \in {0, 1} : StoredLate(r) = [widget EXCEPT !.copy = "fresh", !.copied = c]
    BY <1>3
  <2>2. c \in 0 .. 1 /\ 0 \in 0 .. 3 /\ FALSE \in BOOLEAN
    OBVIOUS
  <2>3. /\ After(widget, StoredLate(r))
        /\ StoredLate(r).has = widget.has /\ StoredLate(r).spin = widget.spin
    BY <1>0, <2>1, <2>2 DEF After, Widget
  <2>4. QED BY <1>3, <2>3 DEF After, WidgetGood
<1>4. QED BY <1>1, <1>2, <1>3

LEMMA WidgetTakes == ASSUME WidgetIInv, WidgetAnswer PROVE WidgetIInv'
<1>1. PICK a \in asks, r \in Outcome(widget.kind) :
        /\ asks' = asks \ {a}
        /\ widget' = IF Heeded(a) THEN Takes(widget, a.of, r) ELSE StoredLate(r)
        /\ lapse' = (lapse \/ (Heeded(a) /\ r # "rows"))
  BY DEF WidgetAnswer
<1>2. /\ WidgetGood(widget) /\ AsksGood(widget, asks, lapse) /\ turns' \in 0 .. MaxTurns
      /\ asks' \subseteq Ask /\ a \in Ask /\ lapse \in BOOLEAN
  BY <1>1 DEF WidgetIInv, AsksGood, WidgetAnswer
<1>3. a.of \in 1 .. 2 /\ a.run \in {"now", "before", "gone"} /\ Heeded(a) \in BOOLEAN
  BY <1>2, AskFields DEF Heeded
<1>4. lapse' \in BOOLEAN /\ (~lapse' => ~lapse /\ (Heeded(a) => r = "rows"))
  BY <1>1, <1>2, <1>3
<1>5. CASE Heeded(a)
  <2>1. widget' = Takes(widget, a.of, r)
    BY <1>1, <1>5
  <2>2. Took(widget, a.of, r, widget')
    BY <1>2, <1>3, <2>1, TakesIs
  <2>3. ~lapse' => a.run = "now" /\ a.of = widget.sel
    BY <1>2, <1>4, <1>5 DEF Heeded, AsksGood
  <2>4. ~lapse' => widget'.has \in {0, 3, widget'.sel}
    <3>1. CASE widget.kind \in Selects
      BY <1>4, <1>5, <2>2, <2>3, <3>1 DEF Took, After
    <3>2. CASE widget.kind \notin Selects
      BY <2>2, <3>2 DEF Took, After, WidgetGood
    <3>3. QED BY <3>1, <3>2
  <2>5. widget'.kind = widget.kind /\ widget'.open = widget.open /\ widget'.sel = widget.sel
        /\ WidgetGood(widget') /\ (widget'.spin => widget'.kind = "teaser" /\ widget'.has = 0)
    BY <2>2 DEF Took, After
  <2>6. AsksGood(widget', asks', lapse')
    BY <1>1, <1>2, <1>4, <2>4, <2>5 DEF AsksGood
  <2>7. QED BY <1>2, <2>5, <2>6 DEF WidgetIInv
<1>6. CASE ~Heeded(a)
  <2>1. widget' = StoredLate(r)
    BY <1>1, <1>6
  <2>2. /\ After(widget, widget') /\ WidgetGood(widget')
        /\ widget'.has = widget.has /\ widget'.spin = widget.spin
    BY <1>2, <2>1, StoredLateIs
  <2>3. widget'.kind = widget.kind /\ widget'.open = widget.open /\ widget'.sel = widget.sel
    BY <2>2 DEF After
  <2>4. Asking(asks) => Asking(asks')
    BY <1>1, <1>6 DEF Asking, Heeded
  <2>5. AsksGood(widget', asks', lapse')
    BY <1>1, <1>2, <1>4, <2>2, <2>3, <2>4 DEF AsksGood
  <2>6. QED BY <1>2, <2>2, <2>5 DEF WidgetIInv
<1>7. QED BY <1>5, <1>6

LEMMA WidgetKeeps == ASSUME WidgetIInv, [WidgetNext]_widgetVars PROVE WidgetIInv'
<1>1. CASE UNCHANGED widgetVars
  BY <1>1 DEF widgetVars, WidgetIInv
<1>2. QED
  BY <1>1, WidgetOpensKeeps, WidgetLeftKeeps, WidgetReselects, WidgetPolls, WidgetAges, WidgetTakes
     DEF WidgetNext

LEMMA WidgetMeans == WidgetIInv => WidgetTypeOK /\ ShowsTheSelection /\ SpinHasARequest
<1> SUFFICES ASSUME WidgetIInv PROVE WidgetTypeOK /\ ShowsTheSelection /\ SpinHasARequest
  OBVIOUS
<1>1. WidgetTypeOK
  BY DEF WidgetIInv, WidgetGood, AsksGood, WidgetTypeOK
<1>2. Own = {} => ~Asking(asks)
  <2>1. ASSUME NEW a \in asks, a.run = "now" PROVE a \in Own
    BY <2>1 DEF Own
  <2>2. QED BY <2>1 DEF Asking
<1>3. ShowsTheSelection
  BY <1>2 DEF WidgetIInv, AsksGood, ShowsTheSelection
<1>4. SpinHasARequest
  BY DEF WidgetIInv, AsksGood, Asking, SpinHasARequest
<1>5. QED BY <1>1, <1>3, <1>4

LEMMA RealStays == WidgetIInv /\ [WidgetNext]_widgetVars
  => (widget.kind \in {"coins", "indices"} /\ widget.open /\ widget'.open /\ widget.has = 1
        => widget'.has = 1)
<1> SUFFICES ASSUME WidgetIInv, [WidgetNext]_widgetVars, widget.kind \in {"coins", "indices"},
                    widget.open, widget'.open, widget.has = 1
             PROVE  widget'.has = 1
  OBVIOUS
<1>0. widget \in Widget /\ WidgetGood(widget)
  BY DEF WidgetIInv, WidgetGood
<1>1. ASSUME NEW kind, NEW has, NEW spin, NEW warn, NEW ask PROVE ~Opened(kind, has, spin, warn, ask)
  BY DEF Opened
<1>2. ~WidgetOpens
  BY <1>1
     DEF WidgetOpens, SnapshotOpens, CarouselOpens, NewsOpens, TeaserOpens, IndicesOpens,
         InsightsOpens, DiaryOpens, BellOpens, PricesOpens, WatchOpens, CoinsOpens, CoinOpens
<1>3. CASE WidgetLeft
  BY <1>0, <1>3 DEF WidgetLeft, Widget
<1>4. ASSUME NEW kind, NEW sel, NEW spin, NEW ask, Reselected(kind, sel, widget.has, spin, ask)
      PROVE  widget'.has = 1
  BY <1>0, <1>4 DEF Reselected, Widget
<1>5. ~Reselected("insights", Other, 0, FALSE, FALSE)
  BY DEF Reselected
<1>6. CASE PollDue
  BY <1>0, <1>6 DEF PollDue, Widget
<1>7. CASE CopyAges
  BY <1>0, <1>7 DEF CopyAges, Widget
<1>8. CASE WidgetAnswer
  <2>1. PICK a \in asks, r \in Outcome(widget.kind) :
          widget' = IF Heeded(a) THEN Takes(widget, a.of, r) ELSE StoredLate(r)
    BY <1>8 DEF WidgetAnswer
  <2>2. a.of \in 1 .. 2
    BY AskFields DEF WidgetIInv, AsksGood
  <2>3. Took(widget, a.of, r, Takes(widget, a.of, r))
    BY <1>0, <2>2, TakesIs
  <2>4. StoredLate(r).has = widget.has
    BY <1>0, StoredLateIs
  <2>5. QED BY <2>1, <2>3, <2>4 DEF Took
<1>9. CASE UNCHANGED widgetVars
  BY <1>9 DEF widgetVars
<1>10. QED
  BY <1>2, <1>3, <1>4, <1>5, <1>6, <1>7, <1>8, <1>9
     DEF WidgetNext, NewsPage, KeywordsChange, DiaryToken, AssetsChange, HoldingsChange,
         IndicesRefresh, SnapshotRetry

\* What a widget shows is of what is selected unless an answer failed or was overtaken, and
\* a spinner turns for a request of this run, for any number of selections and visits
\* (components, app/coin/[symbol], hooks/useCoins.ts).
THEOREM WidgetsShowTheSelection ==
  WidgetSpec => [](WidgetTypeOK /\ ShowsTheSelection /\ SpinHasARequest)
<1>1. WidgetIInv /\ [WidgetNext]_widgetVars => WidgetIInv'
  BY WidgetKeeps
<1>2. QED BY <1>1, WidgetStarts, WidgetMeans, PTL DEF WidgetSpec

\* Prices of the market once shown are not replaced by those built into the code.
THEOREM RealPricesStay == WidgetSpec => RealStaysReal
<1>1. WidgetIInv /\ [WidgetNext]_widgetVars => WidgetIInv'
  BY WidgetKeeps
<1>2. WidgetIInv /\ [WidgetNext]_widgetVars
      => [widget.kind \in {"coins", "indices"} /\ widget.open /\ widget'.open /\ widget.has = 1
            => widget'.has = 1]_widgetVars
  BY RealStays
<1>3. QED BY <1>1, <1>2, WidgetStarts, PTL DEF WidgetSpec, RealStaysReal

-----------------------------------------------------------------------------
(* AssetPage: the sale dialog, the editor and the order of the widgets *)

\* What the table keeps.  There is at most one sale, and the button waits for it;
\* whose row is edited is whose values are in the editor.
TableIInv ==
  /\ listed \subseteq Holding /\ narrow \in BOOLEAN
  /\ selling \in Holding \cup {""} /\ typed \in Typed
  /\ sales \subseteq Holding /\ busy \in BOOLEAN
  /\ editing \in Holding \cup {""} /\ text \in Holding \cup {""}
  /\ saves \subseteq Holding \X Holding
  /\ sales # {} => busy /\ \E h \in Holding : sales = {h}
  /\ editing # "" => text = editing

\* What the layout is: between the two renders of a mount, the order found is the
\* one that was arranged, unless a tab was closed there before.
LayoutIInv ==
  /\ order \in Orders /\ kept \in Orders \cup {<<>>} /\ loaded \in Orders \cup {<<>>}
  /\ arranged \in Orders /\ torn \in BOOLEAN
  /\ ~torn /\ loaded # <<>> => loaded = arranged
  /\ LayoutComesBack

LEMMA TableStarts == PageInit => TableIInv
BY PageAssumption DEF PageInit, TableIInv, Typed

\* Only in the row that is edited is there a button that saves.
LEMMA SaveIsOffered == ASSUME NEW h \in Holding, Offers(h, "save") PROVE editing = h
BY DEF Offers, DetailOffers, MobileOffers, CashOffers

LEMMA TableSells ==
  ASSUME TableIInv, \/ ListChanges \/ SaleTyped \/ SaleCloses \/ Sell \/ SaleDone \/ SaleFails
                    \/ \E h \in Holding : SaleOpens(h) \/ RemoveHolding(h)
  PROVE  TableIInv'
<1>1. CASE ListChanges
  BY <1>1 DEF TableIInv, ListChanges
<1>2. CASE SaleTyped
  BY <1>2 DEF TableIInv, SaleTyped
<1>3. CASE SaleCloses
  BY <1>3 DEF TableIInv, SaleCloses, AfterClosing
<1>4. CASE Sell
  BY <1>4 DEF TableIInv, Sell
<1>5. ASSUME SaleDone \/ SaleFails PROVE sales' = {} /\ busy' = FALSE
  BY <1>5 DEF TableIInv, SaleDone, SaleFails
<1>6. CASE SaleDone
  BY <1>5, <1>6 DEF TableIInv, SaleDone, Typed
<1>7. CASE SaleFails
  BY <1>5, <1>7 DEF TableIInv, SaleFails
<1>8. CASE \E h \in Holding : SaleOpens(h)
  <2>1. PICK h \in Holding : SaleOpens(h)
    BY <1>8
  <2>2. QED BY <2>1 DEF TableIInv, SaleOpens
<1>9. CASE \E h \in Holding : RemoveHolding(h)
  <2>1. PICK h \in Holding : RemoveHolding(h)
    BY <1>9
  <2>2. QED BY <2>1 DEF TableIInv, RemoveHolding
<1>10. QED BY <1>1, <1>2, <1>3, <1>4, <1>6, <1>7, <1>8, <1>9

LEMMA TableEdits ==
  ASSUME TableIInv, \/ SaveEnds
                    \/ \E h \in Holding : StartEdit(h) \/ CancelEdit(h) \/ SaveEdit(h)
  PROVE  TableIInv'
<1>1. CASE SaveEnds
  BY <1>1 DEF TableIInv, SaveEnds
<1>2. CASE \E h \in Holding : StartEdit(h)
  <2>1. PICK h \in Holding : StartEdit(h)
    BY <1>2
  <2>2. QED BY <2>1 DEF TableIInv, StartEdit, TextOf
<1>3. CASE \E h \in Holding : CancelEdit(h)
  <2>1. PICK h \in Holding : CancelEdit(h)
    BY <1>3
  <2>2. QED BY <2>1 DEF TableIInv, CancelEdit
<1>4. CASE \E h \in Holding : SaveEdit(h)
  <2>1. PICK h \in Holding : SaveEdit(h)
    BY <1>4
  <2>2. editing = h /\ h # "" /\ text = h
    BY <2>1, SaveIsOffered, PageAssumption DEF SaveEdit, TableIInv
  <2>3. saves' \subseteq Holding \X Holding
    <3>1. saves' = saves \cup {<<h, h>>}
      BY <2>1, <2>2 DEF SaveEdit
    <3>2. saves \subseteq Holding \X Holding /\ <<h, h>> \in Holding \X Holding
      BY DEF TableIInv
    <3>3. QED BY ONLY <3>1, <3>2
  <2>4. QED BY <2>1, <2>3 DEF TableIInv, SaveEdit
<1>5. QED BY <1>1, <1>2, <1>3, <1>4

LEMMA TableKeeps == ASSUME TableIInv, [PageNext]_pageVars PROVE TableIInv'
<1>1. CASE TableNext
  BY <1>1, TableSells, TableEdits DEF TableNext
<1>2. CASE LayoutNext \/ UNCHANGED pageVars
  <2>1. UNCHANGED tableVars
    BY <1>2 DEF LayoutNext, MoveWidget, LayoutMount, LayoutRender, pageVars
  <2>2. QED BY <2>1 DEF TableIInv, tableVars
<1>3. QED BY <1>1, <1>2 DEF PageNext

\* The widgets can be put in an order, and an order is not empty.
LEMMA OrdersAre == Default \in Orders /\ <<>> \notin Orders
<1> DEFINE n == Cardinality(Widgets)
<1>1. n \in Nat /\ n # 0 /\ ExistsBijection(1 .. n, Widgets)
  BY PageAssumption, FS_CardinalityType, FS_EmptySet
<1>2. PICK f \in Bijection(1 .. n, Widgets) : TRUE
  BY <1>1 DEF ExistsBijection
<1>3. f \in [1 .. n -> Widgets] /\ \A w \in Widgets : \E i \in 1 .. n : f[i] = w
  BY <1>2 DEF Bijection, Injection, Surjection
<1>4. f \in Orders
  BY <1>3 DEF Orders
<1>5. Default \in Orders
  BY <1>4 DEF Default
<1>6. ASSUME <<>> \in Orders PROVE FALSE
  <2>1. PICK w \in Widgets : TRUE
    BY PageAssumption
  <2>2. \E i \in DOMAIN <<>> : TRUE
    BY <1>6, <2>1 DEF Orders
  <2>3. QED BY <2>2
<1>7. QED BY <1>5, <1>6

LEMMA LayoutStarts == PageInit => LayoutIInv
BY OrdersAre DEF PageInit, LayoutIInv, LayoutComesBack

\* An exchange of two neighbours is an order again.
LEMMA SwappedIs ==
  ASSUME NEW o \in Orders, NEW i \in DOMAIN o, NEW j \in DOMAIN o, i # j
  PROVE  Swapped(o, i, j) \in Orders
<1> DEFINE n == Cardinality(Widgets)
           p == Swapped(o, i, j)
<1>1. o \in [1 .. n -> Widgets] /\ i \in 1 .. n /\ j \in 1 .. n
      /\ \A w \in Widgets : \E k \in 1 .. n : o[k] = w
  BY DEF Orders
<1>2. p \in [1 .. n -> Widgets] /\ p[i] = o[j] /\ p[j] = o[i]
      /\ \A k \in 1 .. n : k # i /\ k # j => p[k] = o[k]
  BY <1>1 DEF Swapped
<1>3. ASSUME NEW w \in Widgets PROVE \E k \in 1 .. n : p[k] = w
  <2>1. PICK k \in 1 .. n : o[k] = w
    BY <1>1
  <2> HIDE DEF n, p
  <2>2. QED BY <1>1, <1>2, <2>1
<1>4. DOMAIN p = 1 .. n
  BY <1>2
<1> HIDE DEF p
<1>5. p \in Orders
  BY <1>2, <1>3, <1>4 DEF Orders
<1>6. QED BY <1>5 DEF p

LEMMA LayoutKeeps == ASSUME LayoutIInv, [PageNext]_pageVars PROVE LayoutIInv'
<1>1. CASE TableNext \/ UNCHANGED pageVars
  <2>1. UNCHANGED layoutVars
    BY <1>1 DEF TableNext, pageVars, ListChanges, SaleTyped, SaleCloses, Sell, SaleDone, SaleFails,
                SaveEnds, SaleOpens, StartEdit, CancelEdit, SaveEdit, RemoveHolding
  <2>2. QED BY <2>1 DEF LayoutIInv, LayoutComesBack, layoutVars
<1>2. CASE MoveWidget
  <2>1. PICK i, j \in DOMAIN order : j \in {i - 1, i + 1} /\ order' = Swapped(order, i, j)
    BY <1>2 DEF MoveWidget
  <2>2. DOMAIN order = 1 .. Cardinality(Widgets)
    BY DEF LayoutIInv, Orders
  <2>3. i # j
    BY <2>1, <2>2
  <2>4. order' \in Orders
    BY <2>1, <2>3, SwappedIs DEF LayoutIInv
  <2>5. QED BY <1>2, <2>4 DEF LayoutIInv, LayoutComesBack, MoveWidget
<1>3. CASE LayoutMount
  <2>1. /\ order' = Default /\ kept' = Default /\ arranged' = arranged
        /\ torn' = (torn \/ loaded # <<>>)
        /\ loaded' = IF kept = <<>> THEN Default ELSE kept
    BY <1>3 DEF LayoutMount
  <2>2. loaded' \in Orders /\ loaded' # <<>>
    BY <2>1, OrdersAre DEF LayoutIInv
  <2>3. torn' \in BOOLEAN
    BY <2>1 DEF LayoutIInv
  <2>4. ASSUME ~torn' PROVE loaded' = arranged'
    <3>1. ~torn /\ loaded = <<>>
      BY <2>1, <2>4
    <3>2. kept = order /\ order = arranged /\ kept # <<>>
      BY <3>1, OrdersAre DEF LayoutIInv, LayoutComesBack
    <3>3. QED BY <2>1, <3>2
  <2>5. QED BY <2>1, <2>2, <2>3, <2>4, OrdersAre DEF LayoutIInv, LayoutComesBack
<1>4. CASE LayoutRender
  BY <1>4 DEF LayoutRender, LayoutIInv, LayoutComesBack
<1>5. QED BY <1>1, <1>2, <1>3, <1>4 DEF PageNext, LayoutNext

LEMMA PageMeans == TableIInv /\ LayoutIInv => PageTypeOK /\ OneSaleAtATime /\ LayoutComesBack
<1> SUFFICES ASSUME TableIInv, LayoutIInv PROVE PageTypeOK /\ OneSaleAtATime /\ LayoutComesBack
  OBVIOUS
<1>1. PageTypeOK /\ LayoutComesBack
  BY DEF TableIInv, LayoutIInv, PageTypeOK
<1>2. CASE sales = {}
  BY <1>1, <1>2, FS_EmptySet DEF OneSaleAtATime
<1>3. CASE sales # {}
  <2>1. PICK h \in Holding : sales = {h} /\ busy
    BY <1>3 DEF TableIInv
  <2>2. Cardinality(sales) = 1
    BY <2>1, FS_Singleton
  <2>3. QED BY <1>1, <2>1, <2>2 DEF OneSaleAtATime
<1>4. QED BY <1>2, <1>3

\* The values a row is saved with are those of the row.
LEMMA SavesFit == TableIInv /\ [PageNext]_pageVars
                  => [\A s \in saves' \ saves : s[1] = s[2]]_pageVars
<1> SUFFICES ASSUME TableIInv, PageNext PROVE \A s \in saves' \ saves : s[1] = s[2]
  OBVIOUS
<1>1. CASE \E h \in Holding : SaveEdit(h)
  <2>1. PICK h \in Holding : SaveEdit(h)
    BY <1>1
  <2>2. editing = h /\ h # ""
    BY <2>1, SaveIsOffered, PageAssumption DEF SaveEdit
  <2>3. saves' = saves \cup {<<h, h>>}
    BY <2>1, <2>2 DEF SaveEdit, TableIInv
  <2>4. QED BY <2>3
<1>2. CASE ~ \E h \in Holding : SaveEdit(h)
  <2>1. saves' \subseteq saves
    BY <1>2 DEF PageNext, TableNext, LayoutNext, MoveWidget, LayoutMount, LayoutRender, tableVars,
                ListChanges, SaleTyped, SaleCloses, Sell, SaleDone, SaleFails,
                SaveEnds, SaleOpens, StartEdit, CancelEdit, RemoveHolding
  <2>2. QED BY <2>1
<1>3. QED BY <1>1, <1>2
-----------------------------------------------------------------------------
(* AssetFigures: the rows and what the two pages make of them *)

\* A row whose figures were computed from each other.
FigureTrue(r) ==
  /\ r.amount \in Nat /\ r.avg \in Nat /\ r.price \in Nat
  /\ r.change = r.price - r.avg
  /\ r.value = r.amount * r.price /\ r.profit = (r.price - r.avg) * r.amount

FiguresIInv ==
  /\ figures = [s \in Symbols |-> figures[s]]
  /\ \A s \in Symbols : figures[s] = NoRow \/ FigureTrue(figures[s])

LEMMA RowAtIs ==
  ASSUME NEW n \in Nat, NEW a \in Nat, NEW p \in Nat PROVE FigureTrue(RowAt(n, a, p))
BY DEF FigureTrue, RowAt

LEMMA RowFetchedIs ==
  ASSUME NEW n \in Nat, NEW a \in Nat PROVE FigureTrue(RowFetched(n, a))
<1> DEFINE r == RowFetched(n, a)
<1>1. r.amount = n /\ r.avg = a /\ r.price = a /\ r.change = 0 /\ r.value = a * n /\ r.profit = 0
  BY DEF RowFetched
<1> HIDE DEF r
<1>2. a - a = 0 /\ 0 * n = 0 /\ a * n = n * a
  OBVIOUS
<1>3. FigureTrue(r)
  BY <1>1, <1>2 DEF FigureTrue
<1>4. QED BY <1>3 DEF r

LEMMA FiguresStart == FiguresInit => FiguresIInv
BY DEF FiguresInit, FiguresIInv

\* What has to be shown of a step that writes one row.
LEMMA OneFigure ==
  ASSUME FiguresIInv, NEW s \in Symbols, NEW r, r = NoRow \/ FigureTrue(r),
         figures' = [figures EXCEPT ![s] = r]
  PROVE  FiguresIInv'
<1>1. figures' = [t \in Symbols |-> figures'[t]]
  BY DEF FiguresIInv
<1>2. ASSUME NEW t \in Symbols PROVE figures'[t] = NoRow \/ FigureTrue(figures'[t])
  BY <1>2 DEF FiguresIInv
<1>3. QED BY <1>1, <1>2 DEF FiguresIInv

LEMMA PricesKeep == ASSUME FiguresIInv, PricesApplied PROVE FiguresIInv'
<1>1. PICK source \in {"rate", "price"}, p \in [Symbols -> 0 .. MaxNum] :
        figures' = [s \in Symbols |-> IF SourceOf(s) = source THEN Priced(s, p[s]) ELSE figures[s]]
  BY DEF PricesApplied
<1>2. ASSUME NEW s \in Symbols PROVE figures'[s] = NoRow \/ FigureTrue(figures'[s])
  <2>1. figures'[s] = figures[s] \/ (figures[s] # NoRow /\ figures'[s] = RowAt(figures[s].amount, figures[s].avg, p[s]))
    BY <1>1 DEF Priced
  <2>2. p[s] \in Nat
    BY <1>1, FiguresAssumption
  <2>3. figures[s] = NoRow \/ FigureTrue(figures[s])
    BY DEF FiguresIInv
  <2>4. ASSUME FigureTrue(figures[s]) PROVE FigureTrue(RowAt(figures[s].amount, figures[s].avg, p[s]))
    BY <2>2, <2>4, RowAtIs DEF FigureTrue
  <2>5. QED BY <2>1, <2>3, <2>4
<1>3. QED BY <1>1, <1>2 DEF FiguresIInv

LEMMA FiguresKeep == ASSUME FiguresIInv, [FiguresNext]_figureVars PROVE FiguresIInv'
<1>1. CASE RowsRead \/ MockAdd
  <2>1. PICK s \in Symbols, n \in 1 .. MaxNum, p \in 1 .. MaxNum :
          figures' = [figures EXCEPT ![s] = RowFetched(n, p)]
    BY <1>1 DEF RowsRead, MockAdd
  <2>2. n \in Nat /\ p \in Nat
    BY FiguresAssumption
  <2>3. QED BY <2>1, <2>2, RowFetchedIs, OneFigure
<1>2. CASE MockUpdate
  <2>1. PICK s \in Rowed, n \in Num, p \in Num :
          figures' = [figures EXCEPT ![s] = RowAt(n, p, IF @.price # 0 THEN @.price ELSE p)]
    BY <1>2 DEF MockUpdate
  <2> DEFINE q == IF figures[s].price # 0 THEN figures[s].price ELSE p
  <2>2. s \in Symbols /\ n \in Nat /\ p \in Nat /\ figures[s].price \in Nat
    BY FiguresAssumption DEF Rowed, Num, FiguresIInv, FigureTrue
  <2>3. q \in Nat
    BY <2>2
  <2>4. figures' = [figures EXCEPT ![s] = RowAt(n, p, q)]
    BY <2>1, <2>2 DEF FiguresIInv
  <2> HIDE DEF q
  <2>5. QED BY <2>2, <2>3, <2>4, RowAtIs, OneFigure
<1>3. CASE RowGoes
  BY <1>3, OneFigure DEF RowGoes, Rowed
<1>4. CASE PricesApplied
  BY <1>4, PricesKeep
<1>5. CASE UNCHANGED figureVars
  BY <1>5 DEF figureVars, FiguresIInv
<1>6. QED BY <1>1, <1>2, <1>3, <1>4, <1>5 DEF FiguresNext

LEMMA RowsAdd == FiguresIInv => RowsAddUp
<1> SUFFICES ASSUME FiguresIInv, NEW s \in Rowed
             PROVE  /\ figures[s].value = figures[s].amount * figures[s].price
                    /\ figures[s].profit = figures[s].value - figures[s].amount * figures[s].avg
                    /\ figures[s].change * figures[s].amount = figures[s].profit
  BY DEF RowsAddUp
<1>1. FigureTrue(figures[s])
  BY DEF FiguresIInv, Rowed
<1>2. ASSUME NEW n \in Nat, NEW a \in Nat, NEW p \in Nat PROVE (p - a) * n = n * p - n * a
  BY <1>2
<1>3. QED BY <1>1, <1>2 DEF FigureTrue

\* What is added up.
Values(f)  == [s \in Symbols |-> f[s].value]
Paids(f)   == [s \in Symbols |-> f[s].amount * f[s].avg]
Dailies(f) == [s \in Symbols |-> f[s].change * f[s].amount]
Losses(f)  == [s \in Symbols |-> IF f[s].value < f[s].amount * f[s].avg
                                   THEN f[s].value - f[s].amount * f[s].avg ELSE 0]
Profits(f) == [s \in Symbols |-> f[s].profit]

LEMMA RowedIs == IsFiniteSet(Rowed) /\ Rowed \subseteq Symbols
<1>1. IsFiniteSet(Symbols)
  BY FiguresAssumption, FS_Union DEF Symbols
<1>2. QED BY <1>1, FS_Subset DEF Rowed

\* The terms of the sums are integers; a row's value is its profit and what was paid.
LEMMA TermsAre ==
  ASSUME NEW f, NEW s \in Symbols, FigureTrue(f[s])
  PROVE  /\ Values(f)[s] \in Int /\ Paids(f)[s] \in Int /\ Dailies(f)[s] \in Int
         /\ Losses(f)[s] \in Int /\ Profits(f)[s] \in Int
         /\ Values(f)[s] = Profits(f)[s] + Paids(f)[s]
         /\ Dailies(f)[s] = Profits(f)[s]
         /\ Losses(f)[s] <= 0 /\ Losses(f)[s] <= Profits(f)[s]
<1> DEFINE n == f[s].amount
           a == f[s].avg
           p == f[s].price
<1>1. n \in Nat /\ a \in Nat /\ p \in Nat
  BY DEF FigureTrue
<1>2. f[s].change = p - a /\ f[s].value = n * p /\ f[s].profit = (p - a) * n
  BY DEF FigureTrue
<1>3. /\ Values(f)[s] = n * p /\ Paids(f)[s] = n * a /\ Dailies(f)[s] = (p - a) * n
      /\ Profits(f)[s] = (p - a) * n
      /\ Losses(f)[s] = IF n * p < n * a THEN n * p - n * a ELSE 0
  BY <1>2 DEF Values, Paids, Dailies, Losses, Profits
<1> HIDE DEF n, a, p
<1>4. n * p \in Int /\ n * a \in Int /\ (p - a) * n = n * p - n * a
  BY <1>1
<1>5. QED BY <1>3, <1>4

LEMMA ZeroSum == ASSUME NEW S, IsFiniteSet(S) PROVE SumOver([s \in S |-> 0], S) = 0
<1> DEFINE z == [s \in S |-> 0]
<1>1. \A s \in S : z[s] \in Int /\ z[s] = z[s] + z[s]
  OBVIOUS
<1> HIDE DEF z
<1>2. SumOver(z, S) \in Int /\ SumOver(z, S) = SumOver(z, S) + SumOver(z, S)
  BY <1>1, SumInt, SumPlus
<1>3. SumOver(z, S) = 0
  BY <1>2
<1>4. QED BY <1>3 DEF z

LEMMA SumOfIs == ASSUME NEW f, NEW S PROVE SumOf(f, S) = SumOver(f, S)
BY DEF SumOf, SumOver

\* The totals, as sums.
LEMMA TotalsAre ==
  /\ PageTotals.evaluation = SumOver(Values(figures), Rowed)
  /\ PageTotals.invested = SumOver(Paids(figures), Rowed)
  /\ PageTotals.cash = SumOver(Values(figures), Rowed \cap Monies)
  /\ PageTotals.profit = SumOver(Values(figures), Rowed) - SumOver(Paids(figures), Rowed)
  /\ PageTotals.daily = SumOver(Dailies(figures), Rowed)
  /\ PageTotals.losses = SumOver(Losses(figures), Rowed)
BY SumOfIs DEF PageTotals, Values, Paids, Dailies, Losses

\* The overview multiplies the other way round.
LEMMA OverviewIs ==
  ASSUME FiguresIInv
  PROVE  /\ OverviewTotals.cash = SumOver(Values(figures), Rowed \cap Monies)
         /\ OverviewTotals.value = SumOver(Values(figures), Rowed \cap Shares)
                                   + SumOver(Values(figures), Rowed \cap Monies)
         /\ OverviewTotals.profit = SumOver(Values(figures), Rowed \cap Shares)
                                    - SumOver(Paids(figures), Rowed \cap Shares)
         /\ OverviewRate = Rate(OverviewTotals.profit, SumOver(Paids(figures), Rowed \cap Shares))
<1> DEFINE paid == [s \in Symbols |-> figures[s].avg * figures[s].amount]
           R == Rowed \cap Shares
<1>1. /\ OverviewTotals.cash = SumOver(Values(figures), Rowed \cap Monies)
      /\ OverviewTotals.value = SumOver(Values(figures), Rowed \cap Shares)
                                + SumOver(Values(figures), Rowed \cap Monies)
      /\ OverviewTotals.profit = SumOver(Values(figures), Rowed \cap Shares) - SumOver(paid, R)
      /\ OverviewRate = Rate(OverviewTotals.profit, SumOver(paid, R))
  BY SumOfIs DEF OverviewTotals, OverviewRate, Values
<1>2. ASSUME NEW s \in R PROVE paid[s] = Paids(figures)[s]
  <2>1. s \in Symbols /\ figures[s].amount \in Nat /\ figures[s].avg \in Nat
    BY DEF FiguresIInv, FigureTrue, Rowed
  <2>2. figures[s].avg * figures[s].amount = figures[s].amount * figures[s].avg
    BY <2>1
  <2>3. QED BY <2>1, <2>2 DEF Paids
<1>3. IsFiniteSet(R)
  BY RowedIs, FS_Subset
<1> HIDE DEF paid
<1>4. SumOver(paid, R) = SumOver(Paids(figures), R)
  <2> HIDE DEF R
  <2>1. QED BY <1>2, <1>3, SumSame
<1>5. QED BY <1>1, <1>4

\* Over any set of rows, what is evaluated is what was paid and the profit.
LEMMA ProfitsAre ==
  ASSUME NEW f, NEW S \in SUBSET Symbols, IsFiniteSet(S), \A s \in S : FigureTrue(f[s])
  PROVE  /\ SumOver(Values(f), S) \in Int /\ SumOver(Paids(f), S) \in Int
         /\ SumOver(Profits(f), S) \in Int /\ SumOver(Losses(f), S) \in Int
         /\ SumOver(Dailies(f), S) = SumOver(Profits(f), S)
         /\ SumOver(Values(f), S) = SumOver(Profits(f), S) + SumOver(Paids(f), S)
         /\ SumOver(Losses(f), S) <= 0
         /\ SumOver(Losses(f), S) <= SumOver(Profits(f), S)
<1> DEFINE V == Values(f)
           P == Paids(f)
           D == Dailies(f)
           L == Losses(f)
           G == Profits(f)
           Z == [s \in S |-> 0]
<1>1. \A s \in S : /\ V[s] \in Int /\ P[s] \in Int /\ D[s] \in Int /\ L[s] \in Int /\ G[s] \in Int
                   /\ V[s] = G[s] + P[s] /\ D[s] = G[s] /\ L[s] <= 0 /\ L[s] <= G[s]
  BY TermsAre
<1>2. \A s \in S : Z[s] \in Int /\ Z[s] = 0 /\ L[s] <= Z[s]
  BY <1>1
<1>3. SumOver(Z, S) = 0
  BY ZeroSum
<1> HIDE DEF V, P, D, L, G, Z
<1>4. SumOver(V, S) \in Int /\ SumOver(P, S) \in Int /\ SumOver(G, S) \in Int /\ SumOver(L, S) \in Int
  BY <1>1, SumInt
<1>5. SumOver(D, S) = SumOver(G, S)
  BY <1>1, SumSame
<1>6. SumOver(V, S) = SumOver(G, S) + SumOver(P, S)
  BY <1>1, SumPlus
<1>7. SumOver(L, S) <= SumOver(Z, S) /\ SumOver(L, S) <= SumOver(G, S)
  BY <1>1, <1>2, SumLeq
<1>8. QED BY <1>3, <1>4, <1>5, <1>6, <1>7 DEF V, P, D, L, G

LEMMA PagesDoAgree == FiguresIInv => PagesAgree
<1> SUFFICES ASSUME FiguresIInv PROVE PagesAgree
  OBVIOUS
<1> DEFINE V == Values(figures)
           P == Paids(figures)
           G == Profits(figures)
           L == Losses(figures)
           R == Rowed
           RS == Rowed \cap Shares
           RM == Rowed \cap Monies
<1>1. /\ \A s \in R : s \in Symbols /\ FigureTrue(figures[s])
      /\ IsFiniteSet(R) /\ R \subseteq Symbols
  BY RowedIs DEF FiguresIInv, Rowed
<1>2. RS \in SUBSET R /\ RM \in SUBSET R /\ R \ RS = RM
  BY <1>1, FiguresAssumption DEF Symbols
<1>3. IsFiniteSet(RS) /\ IsFiniteSet(RM)
  BY <1>1, <1>2, FS_Subset
<1>4. /\ PageTotals.evaluation = SumOver(V, R) /\ PageTotals.cash = SumOver(V, RM)
      /\ PageTotals.profit = SumOver(V, R) - SumOver(P, R)
      /\ PageTotals.losses = SumOver(L, R)
  BY TotalsAre
<1>5. /\ OverviewTotals.cash = SumOver(V, RM)
      /\ OverviewTotals.value = SumOver(V, RS) + SumOver(V, RM)
      /\ OverviewTotals.profit = SumOver(V, RS) - SumOver(P, RS)
  BY OverviewIs
<1>6. \A s \in R : V[s] \in Int /\ P[s] \in Int
  BY <1>1, TermsAre
<1>7. /\ \A s \in RS : s \in Symbols /\ FigureTrue(figures[s])
      /\ \A s \in RM : s \in Symbols /\ FigureTrue(figures[s])
      /\ RS \in SUBSET Symbols /\ RM \in SUBSET Symbols /\ R \in SUBSET Symbols
  BY <1>1, <1>2
<1> HIDE DEF R, RS, RM
<1>8. /\ SumOver(V, R) \in Int /\ SumOver(P, R) \in Int /\ SumOver(G, R) \in Int /\ SumOver(L, R) \in Int
      /\ SumOver(V, R) = SumOver(G, R) + SumOver(P, R)
      /\ SumOver(L, R) <= 0 /\ SumOver(L, R) <= SumOver(G, R)
  BY <1>1, <1>7, ProfitsAre
<1>9. SumOver(V, RS) \in Int /\ SumOver(P, RS) \in Int
  BY <1>3, <1>7, ProfitsAre
<1>10. /\ SumOver(V, RM) \in Int /\ SumOver(P, RM) \in Int /\ SumOver(G, RM) \in Int
       /\ SumOver(V, RM) = SumOver(G, RM) + SumOver(P, RM)
  BY <1>3, <1>7, ProfitsAre
<1> HIDE DEF V, P, G, L
<1>11. SumOver(V, R) = SumOver(V, RS) + SumOver(V, RM)
  <2>1. SumOver(V, R) = SumOver(V, RS) + SumOver(V, R \ RS)
    BY <1>1, <1>2, <1>6, SumParts
  <2>2. QED BY <1>2, <2>1
<1>12. SumOver(P, R) = SumOver(P, RS) + SumOver(P, RM)
  <2>1. SumOver(P, R) = SumOver(P, RS) + SumOver(P, R \ RS)
    BY <1>1, <1>2, <1>6, SumParts
  <2>2. QED BY <1>2, <2>1
<1>13. /\ PageTotals.evaluation = OverviewTotals.value /\ PageTotals.cash = OverviewTotals.cash
       /\ PageTotals.profit - OverviewTotals.profit = SumOver(G, RM)
       /\ PageTotals.losses <= 0 /\ PageTotals.losses <= PageTotals.profit
  <2>1. PageTotals.evaluation = OverviewTotals.value /\ PageTotals.cash = OverviewTotals.cash
    BY ONLY <1>4, <1>5, <1>11
  <2>2. PageTotals.profit - OverviewTotals.profit = SumOver(G, RM)
    BY ONLY <1>4, <1>5, <1>9, <1>10, <1>11, <1>12
  <2>3. PageTotals.losses <= 0 /\ PageTotals.losses <= PageTotals.profit
    BY ONLY <1>4, <1>8
  <2>4. QED BY ONLY <2>1, <2>2, <2>3
<1>14. SumOf([s \in Symbols |-> figures[s].profit], Rowed \cap Monies) = SumOver(G, RM)
  BY SumOfIs DEF G, RM, Profits
<1>15. QED BY <1>13, <1>14 DEF PagesAgree

-----------------------------------------------------------------------------
(* AssetFigures: prices that rise *)

LEMMA DivRises ==
  ASSUME NEW x \in Int, NEW y \in Int, NEW w \in Nat \ {0}, x <= y
  PROVE  x \div w \in Int /\ y \div w \in Int /\ x \div w <= y \div w
<1> DEFINE p == x \div w
           q == y \div w
<1>1. p \in Int /\ w * p <= x /\ x < w * p + w
  OBVIOUS
<1>2. q \in Int /\ w * q <= y /\ y < w * q + w
  OBVIOUS
<1> HIDE DEF p, q
<1>3. ASSUME p >= q + 1 PROVE FALSE
  <2>1. w * p >= w * (q + 1)
    BY <1>1, <1>2, <1>3
  <2>2. w * (q + 1) = w * q + w /\ w * q \in Int /\ w * p \in Int
    BY <1>1, <1>2
  <2>3. QED BY <1>1, <1>2, <2>1, <2>2
<1>4. p <= q
  BY <1>1, <1>2, <1>3
<1>5. QED BY <1>1, <1>2, <1>4 DEF p, q

LEMMA RateRises ==
  ASSUME NEW x \in Int, NEW y \in Int, NEW w \in Int, x <= y
  PROVE  Rate(x, w) \in Int /\ Rate(y, w) \in Int /\ Rate(x, w) <= Rate(y, w)
<1>1. CASE w > 0
  <2>1. x * 1000 \in Int /\ y * 1000 \in Int /\ x * 1000 <= y * 1000 /\ w \in Nat \ {0}
    BY <1>1
  <2>2. Rate(x, w) = (x * 1000) \div w /\ Rate(y, w) = (y * 1000) \div w
    BY <1>1 DEF Rate
  <2>3. QED BY <2>1, <2>2, DivRises
<1>2. CASE ~(w > 0)
  BY <1>2 DEF Rate
<1>3. QED BY <1>1, <1>2

\* The score is clamped to the five levels of the forecast.
LEMMA ClampIs ==
  ASSUME NEW x \in Int
  PROVE  Max({0, Min({4, x})}) = IF x < 0 THEN 0 ELSE IF x > 4 THEN 4 ELSE x
<1>1. Min({4, x}) = IF x > 4 THEN 4 ELSE x
  <2>1. CASE x > 4
    <3>1. \A y \in {4, x} : (\A z \in {4, x} : y <= z) <=> y = 4
      BY <2>1
    <3>2. QED BY <2>1, <3>1 DEF Min
  <2>2. CASE ~(x > 4)
    <3>1. \A y \in {4, x} : (\A z \in {4, x} : y <= z) <=> y = x
      BY <2>2
    <3>2. QED BY <2>2, <3>1 DEF Min
  <2>3. QED BY <2>1, <2>2
<1>2. ASSUME NEW m \in Int PROVE Max({0, m}) = IF m < 0 THEN 0 ELSE m
  <2>1. CASE m < 0
    <3>1. \A y \in {0, m} : (\A z \in {0, m} : y >= z) <=> y = 0
      BY <2>1
    <3>2. QED BY <2>1, <3>1 DEF Max
  <2>2. CASE ~(m < 0)
    <3>1. \A y \in {0, m} : (\A z \in {0, m} : y >= z) <=> y = m
      BY <2>2
    <3>2. QED BY <2>2, <3>1 DEF Max
  <2>3. QED BY <2>1, <2>2
<1> DEFINE m == Min({4, x})
<1>3. m \in Int
  BY <1>1
<1>4. Max({0, m}) = IF m < 0 THEN 0 ELSE m
  <2> HIDE DEF m
  <2>1. QED BY <1>2, <1>3
<1>5. m = IF x > 4 THEN 4 ELSE x
  BY <1>1
<1> HIDE DEF m
<1>6. Max({0, m}) = IF x < 0 THEN 0 ELSE IF x > 4 THEN 4 ELSE x
  BY <1>4, <1>5
<1>7. QED BY <1>6 DEF m

\* One for a condition that is met, and the sum of the conditions.
Point(c) == IF c THEN 1 ELSE 0

Points(g, d, l) == 2 + Point(g >= 180) + Point(g >= 280) - Point(g < 0) - Point(g < -80)
                     + Point(d >= 12) - Point(d <= -12) - Point(l < -100)

LEMMA ForecastIs ==
  ASSUME NEW g \in Int, NEW d \in Int, NEW l \in Int
  PROVE  LET x == Points(g, d, l) IN
         /\ x \in Int
         /\ ForecastScore(g, d, l) = IF x < 0 THEN 0 ELSE IF x > 4 THEN 4 ELSE x
<1> DEFINE x == Points(g, d, l)
<1>1. x \in Int
  <2>1. /\ Point(g >= 180) \in Int /\ Point(g >= 280) \in Int
        /\ Point(g < 0) \in Int /\ Point(g < -80) \in Int
        /\ Point(d >= 12) \in Int /\ Point(d <= -12) \in Int /\ Point(l < -100) \in Int
    BY DEF Point
  <2>2. QED BY <2>1 DEF Points
<1>2. ForecastScore(g, d, l) = Max({0, Min({4, x})})
  BY DEF ForecastScore, Points, Point
<1> HIDE DEF x
<1>3. ForecastScore(g, d, l) = IF x < 0 THEN 0 ELSE IF x > 4 THEN 4 ELSE x
  BY <1>1, <1>2, ClampIs
<1>4. QED BY <1>1, <1>3 DEF x

LEMMA ForecastRises ==
  ASSUME NEW g \in Int, NEW d \in Int, NEW l \in Int, NEW g2 \in Int, NEW d2 \in Int, NEW l2 \in Int,
         g <= g2, d <= d2, l <= l2
  PROVE  ForecastScore(g2, d2, l2) >= ForecastScore(g, d, l)
<1> DEFINE x == Points(g, d, l)
           y == Points(g2, d2, l2)
<1>1. x \in Int /\ ForecastScore(g, d, l) = IF x < 0 THEN 0 ELSE IF x > 4 THEN 4 ELSE x
  BY ForecastIs
<1>2. y \in Int /\ ForecastScore(g2, d2, l2) = IF y < 0 THEN 0 ELSE IF y > 4 THEN 4 ELSE y
  BY ForecastIs
<1>3. x <= y
  BY DEF Points, Point
<1> HIDE DEF x, y
<1>4. QED BY <1>1, <1>2, <1>3

\* Of rows with the same amounts and averages, the sums of those with the higher prices
\* are higher.
LEMMA SumsRise ==
  ASSUME NEW f, NEW h, NEW S \in SUBSET Symbols, IsFiniteSet(S),
         \A s \in S : /\ FigureTrue(f[s]) /\ FigureTrue(h[s])
                      /\ h[s].amount = f[s].amount /\ h[s].avg = f[s].avg
                      /\ h[s].price >= f[s].price
  PROVE  /\ SumOver(Values(f), S) <= SumOver(Values(h), S)
         /\ SumOver(Paids(f), S) = SumOver(Paids(h), S)
         /\ SumOver(Profits(f), S) <= SumOver(Profits(h), S)
         /\ SumOver(Losses(f), S) <= SumOver(Losses(h), S)
<1>1. ASSUME NEW s \in S
      PROVE  /\ Values(f)[s] <= Values(h)[s] /\ Paids(f)[s] = Paids(h)[s]
             /\ Profits(f)[s] <= Profits(h)[s] /\ Losses(f)[s] <= Losses(h)[s]
             /\ Values(f)[s] \in Int /\ Values(h)[s] \in Int
             /\ Profits(f)[s] \in Int /\ Profits(h)[s] \in Int
             /\ Losses(f)[s] \in Int /\ Losses(h)[s] \in Int
  <2> DEFINE n == f[s].amount
             a == f[s].avg
             p == f[s].price
             q == h[s].price
  <2>0. s \in Symbols /\ FigureTrue(f[s]) /\ FigureTrue(h[s])
    OBVIOUS
  <2>1. n \in Nat /\ a \in Nat /\ p \in Nat /\ q \in Nat /\ p <= q
    BY <2>0 DEF FigureTrue
  <2>2. /\ Values(f)[s] = n * p /\ Values(h)[s] = n * q /\ Paids(f)[s] = n * a /\ Paids(h)[s] = n * a
        /\ Profits(f)[s] = (p - a) * n /\ Profits(h)[s] = (q - a) * n
        /\ Losses(f)[s] = IF n * p < n * a THEN n * p - n * a ELSE 0
        /\ Losses(h)[s] = IF n * q < n * a THEN n * q - n * a ELSE 0
    BY <2>0 DEF FigureTrue, Values, Paids, Profits, Losses
  <2> HIDE DEF n, a, p, q
  <2>3. /\ n * p \in Int /\ n * q \in Int /\ n * a \in Int /\ n * p <= n * q
        /\ (p - a) * n = n * p - n * a /\ (q - a) * n = n * q - n * a
    BY <2>1
  <2>4. QED BY ONLY <2>2, <2>3
<1>2. /\ \A s \in S : Values(f)[s] \in Int /\ Values(h)[s] \in Int /\ Values(f)[s] <= Values(h)[s]
      /\ \A s \in S : Profits(f)[s] \in Int /\ Profits(h)[s] \in Int /\ Profits(f)[s] <= Profits(h)[s]
      /\ \A s \in S : Losses(f)[s] \in Int /\ Losses(h)[s] \in Int /\ Losses(f)[s] <= Losses(h)[s]
      /\ \A s \in S : Paids(f)[s] = Paids(h)[s]
  BY <1>1
<1>3. QED BY <1>2, SumLeq, SumSame

LEMMA PaidEither ==
  ASSUME NEW f, NEW S \in SUBSET Symbols, IsFiniteSet(S), \A s \in S : FigureTrue(f[s])
  PROVE  SumOver([s \in Symbols |-> f[s].avg * f[s].amount], S) = SumOver(Paids(f), S)
<1> DEFINE paid == [s \in Symbols |-> f[s].avg * f[s].amount]
<1>1. ASSUME NEW s \in S PROVE paid[s] = Paids(f)[s]
  <2>1. f[s].amount \in Nat /\ f[s].avg \in Nat
    BY DEF FigureTrue
  <2>2. f[s].avg * f[s].amount = f[s].amount * f[s].avg
    BY <2>1
  <2>3. QED BY <2>2 DEF Paids
<1> HIDE DEF paid
<1>2. SumOver(paid, S) = SumOver(Paids(f), S)
  BY <1>1, SumSame
<1>3. QED BY <1>2 DEF paid

\* The rates before and after, as sums.
LEMMA RatesAre ==
  LET avg(f) == [s \in Symbols |-> f[s].avg * f[s].amount] IN
  /\ ProfitRate = Rate(SumOver(Values(figures), Rowed) - SumOver(Paids(figures), Rowed),
                       SumOver(Paids(figures), Rowed))
  /\ DailyRate = Rate(SumOver(Dailies(figures), Rowed), SumOver(Paids(figures), Rowed))
  /\ LossRate = Rate(SumOver(Losses(figures), Rowed), SumOver(Paids(figures), Rowed))
  /\ OverviewRate = Rate(SumOver(Values(figures), Rowed \cap Shares)
                           - SumOver(avg(figures), Rowed \cap Shares),
                         SumOver(avg(figures), Rowed \cap Shares))
<1>1. /\ PageTotals.invested = SumOver(Paids(figures), Rowed)
      /\ PageTotals.profit = SumOver(Values(figures), Rowed) - SumOver(Paids(figures), Rowed)
      /\ PageTotals.daily = SumOver(Dailies(figures), Rowed)
      /\ PageTotals.losses = SumOver(Losses(figures), Rowed)
  BY TotalsAre
<1>2. QED BY <1>1, SumOfIs DEF ProfitRate, DailyRate, LossRate, OverviewRate, OverviewTotals, Values

LEMMA NextRatesAre ==
  LET avg(f) == [s \in Symbols |-> f[s].avg * f[s].amount] IN
  /\ ProfitRate' = Rate(SumOver(Values(figures'), Rowed') - SumOver(Paids(figures'), Rowed'),
                        SumOver(Paids(figures'), Rowed'))
  /\ DailyRate' = Rate(SumOver(Dailies(figures'), Rowed'), SumOver(Paids(figures'), Rowed'))
  /\ LossRate' = Rate(SumOver(Losses(figures'), Rowed'), SumOver(Paids(figures'), Rowed'))
  /\ OverviewRate' = Rate(SumOver(Values(figures'), Rowed' \cap Shares)
                            - SumOver(avg(figures'), Rowed' \cap Shares),
                          SumOver(avg(figures'), Rowed' \cap Shares))
<1>1. /\ PageTotals'.invested = SumOver(Paids(figures'), Rowed')
      /\ PageTotals'.profit = SumOver(Values(figures'), Rowed') - SumOver(Paids(figures'), Rowed')
      /\ PageTotals'.daily = SumOver(Dailies(figures'), Rowed')
      /\ PageTotals'.losses = SumOver(Losses(figures'), Rowed')
  BY SumOfIs DEF PageTotals, Values, Paids, Dailies, Losses
<1>2. QED BY <1>1, SumOfIs DEF ProfitRate, DailyRate, LossRate, OverviewRate, OverviewTotals, Values

Rising ==
  /\ Rowed = Rowed' /\ Rowed # {}
  /\ \A s \in Rowed : /\ figures'[s].amount = figures[s].amount /\ figures'[s].avg = figures[s].avg
                      /\ figures'[s].price >= figures[s].price

LEMMA RatesDoRise ==
  ASSUME FiguresIInv, FiguresIInv', Rising
  PROVE  /\ ProfitRate \in Int /\ ProfitRate' \in Int /\ ProfitRate <= ProfitRate'
         /\ DailyRate \in Int /\ DailyRate' \in Int /\ DailyRate <= DailyRate'
         /\ LossRate \in Int /\ LossRate' \in Int /\ LossRate <= LossRate'
         /\ OverviewRate \in Int /\ OverviewRate' \in Int /\ OverviewRate <= OverviewRate'
<1> DEFINE f == figures
           h == figures'
           R == Rowed
           S == Rowed \cap Shares
<1>1. /\ R \in SUBSET Symbols /\ S \in SUBSET Symbols /\ IsFiniteSet(R) /\ IsFiniteSet(S)
      /\ \A s \in R : /\ FigureTrue(f[s]) /\ FigureTrue(h[s])
                      /\ h[s].amount = f[s].amount /\ h[s].avg = f[s].avg
                      /\ h[s].price >= f[s].price
      /\ S \subseteq R
  <2>1. IsFiniteSet(R) /\ R \subseteq Symbols
    BY RowedIs
  <2>2. ASSUME NEW s \in R PROVE FigureTrue(f[s]) /\ FigureTrue(h[s])
    <3>1. s \in Symbols /\ figures[s] # NoRow /\ figures'[s] # NoRow
      BY <2>2 DEF Rowed, Rising
    <3>2. QED BY <3>1 DEF FiguresIInv
  <2>3. QED BY <2>1, <2>2, FS_Subset DEF Rising
<1>2. /\ ProfitRate = Rate(SumOver(Values(f), R) - SumOver(Paids(f), R), SumOver(Paids(f), R))
      /\ DailyRate = Rate(SumOver(Dailies(f), R), SumOver(Paids(f), R))
      /\ LossRate = Rate(SumOver(Losses(f), R), SumOver(Paids(f), R))
      /\ OverviewRate = Rate(SumOver(Values(f), S) - SumOver(Paids(f), S), SumOver(Paids(f), S))
  <2>1. SumOver([s \in Symbols |-> f[s].avg * f[s].amount], S) = SumOver(Paids(f), S)
    <3> HIDE DEF S, R, f
    <3>1. QED BY <1>1, PaidEither
  <2>2. QED BY <2>1, RatesAre
<1>3. /\ ProfitRate' = Rate(SumOver(Values(h), R) - SumOver(Paids(h), R), SumOver(Paids(h), R))
      /\ DailyRate' = Rate(SumOver(Dailies(h), R), SumOver(Paids(h), R))
      /\ LossRate' = Rate(SumOver(Losses(h), R), SumOver(Paids(h), R))
      /\ OverviewRate' = Rate(SumOver(Values(h), S) - SumOver(Paids(h), S), SumOver(Paids(h), S))
  <2>1. SumOver([s \in Symbols |-> h[s].avg * h[s].amount], S) = SumOver(Paids(h), S)
    <3> HIDE DEF S, R, h
    <3>1. QED BY <1>1, PaidEither
  <2>2. Rowed' = R /\ Rowed' \cap Shares = S
    BY DEF Rising
  <2>3. QED BY <2>1, <2>2, NextRatesAre
<1> HIDE DEF f, h, R, S
<1>4. /\ SumOver(Values(f), R) \in Int /\ SumOver(Paids(f), R) \in Int
      /\ SumOver(Profits(f), R) \in Int /\ SumOver(Losses(f), R) \in Int
      /\ SumOver(Dailies(f), R) = SumOver(Profits(f), R)
      /\ SumOver(Values(h), R) \in Int /\ SumOver(Paids(h), R) \in Int
      /\ SumOver(Profits(h), R) \in Int /\ SumOver(Losses(h), R) \in Int
      /\ SumOver(Dailies(h), R) = SumOver(Profits(h), R)
  BY <1>1, ProfitsAre
<1>5. /\ SumOver(Values(f), S) \in Int /\ SumOver(Paids(f), S) \in Int
      /\ SumOver(Values(h), S) \in Int /\ SumOver(Paids(h), S) \in Int
  <2>1. \A s \in S : FigureTrue(f[s]) /\ FigureTrue(h[s])
    BY <1>1
  <2>2. QED BY <1>1, <2>1, ProfitsAre
<1>6. /\ SumOver(Values(f), R) <= SumOver(Values(h), R)
      /\ SumOver(Paids(f), R) = SumOver(Paids(h), R)
      /\ SumOver(Profits(f), R) <= SumOver(Profits(h), R)
      /\ SumOver(Losses(f), R) <= SumOver(Losses(h), R)
  BY <1>1, SumsRise
<1>7. /\ SumOver(Values(f), S) <= SumOver(Values(h), S)
      /\ SumOver(Paids(f), S) = SumOver(Paids(h), S)
  <2>1. \A s \in S : /\ FigureTrue(f[s]) /\ FigureTrue(h[s])
                     /\ h[s].amount = f[s].amount /\ h[s].avg = f[s].avg
                     /\ h[s].price >= f[s].price
    BY <1>1
  <2>2. QED BY <1>1, <2>1, SumsRise
<1>8. ProfitRate \in Int /\ ProfitRate' \in Int /\ ProfitRate <= ProfitRate'
  <2> DEFINE x == SumOver(Values(f), R) - SumOver(Paids(f), R)
             y == SumOver(Values(h), R) - SumOver(Paids(h), R)
             w == SumOver(Paids(f), R)
  <2>1. x \in Int /\ y \in Int /\ w \in Int /\ x <= y
    BY <1>4, <1>6
  <2>2. ProfitRate = Rate(x, w) /\ ProfitRate' = Rate(y, w)
    BY <1>2, <1>3, <1>6
  <2> HIDE DEF x, y, w
  <2>3. QED BY <2>1, <2>2, RateRises
<1>9. DailyRate \in Int /\ DailyRate' \in Int /\ DailyRate <= DailyRate'
  <2> DEFINE x == SumOver(Dailies(f), R)
             y == SumOver(Dailies(h), R)
             w == SumOver(Paids(f), R)
  <2>1. x \in Int /\ y \in Int /\ w \in Int /\ x <= y
    BY <1>4, <1>6
  <2>2. DailyRate = Rate(x, w) /\ DailyRate' = Rate(y, w)
    BY <1>2, <1>3, <1>6
  <2> HIDE DEF x, y, w
  <2>3. QED BY <2>1, <2>2, RateRises
<1>10. LossRate \in Int /\ LossRate' \in Int /\ LossRate <= LossRate'
  <2> DEFINE x == SumOver(Losses(f), R)
             y == SumOver(Losses(h), R)
             w == SumOver(Paids(f), R)
  <2>1. x \in Int /\ y \in Int /\ w \in Int /\ x <= y
    BY <1>4, <1>6
  <2>2. LossRate = Rate(x, w) /\ LossRate' = Rate(y, w)
    BY <1>2, <1>3, <1>6
  <2> HIDE DEF x, y, w
  <2>3. QED BY <2>1, <2>2, RateRises
<1>11. OverviewRate \in Int /\ OverviewRate' \in Int /\ OverviewRate <= OverviewRate'
  <2> DEFINE x == SumOver(Values(f), S) - SumOver(Paids(f), S)
             y == SumOver(Values(h), S) - SumOver(Paids(h), S)
             w == SumOver(Paids(f), S)
  <2>1. x \in Int /\ y \in Int /\ w \in Int /\ x <= y
    BY <1>5, <1>7
  <2>2. OverviewRate = Rate(x, w) /\ OverviewRate' = Rate(y, w)
    BY <1>2, <1>3, <1>7
  <2> HIDE DEF x, y, w
  <2>3. QED BY <2>1, <2>2, RateRises
<1>12. QED BY <1>8, <1>9, <1>10, <1>11

LEMMA ForecastsBrighten ==
  FiguresIInv /\ FiguresIInv' =>
    [Rising => /\ ForecastScore(ProfitRate, DailyRate, LossRate)'
                    >= ForecastScore(ProfitRate, DailyRate, LossRate)
               /\ FallbackLevel' >= FallbackLevel
               /\ \A b \in DOMAIN Benchmarks :
                    Benchmarks[b] = "above" => Benchmarks'[b] = "above"]_figureVars
<1> SUFFICES ASSUME FiguresIInv, FiguresIInv', Rising
             PROVE  /\ ForecastScore(ProfitRate, DailyRate, LossRate)'
                         >= ForecastScore(ProfitRate, DailyRate, LossRate)
                    /\ FallbackLevel' >= FallbackLevel
                    /\ \A b \in DOMAIN Benchmarks :
                         Benchmarks[b] = "above" => Benchmarks'[b] = "above"
  OBVIOUS
<1>1. /\ ProfitRate \in Int /\ ProfitRate' \in Int /\ ProfitRate <= ProfitRate'
      /\ DailyRate \in Int /\ DailyRate' \in Int /\ DailyRate <= DailyRate'
      /\ LossRate \in Int /\ LossRate' \in Int /\ LossRate <= LossRate'
      /\ OverviewRate \in Int /\ OverviewRate' \in Int /\ OverviewRate <= OverviewRate'
  BY RatesDoRise
<1>2. ForecastScore(ProfitRate', DailyRate', LossRate') >= ForecastScore(ProfitRate, DailyRate, LossRate)
  BY <1>1, ForecastRises
<1>3. FallbackLevel' >= FallbackLevel
  <2>1. Rowed' \cap Shares = Rowed \cap Shares
    BY DEF Rising
  <2>2. QED BY <1>1, <2>1 DEF FallbackLevel
<1>4. \A b \in DOMAIN Benchmarks : Benchmarks[b] = "above" => Benchmarks'[b] = "above"
  <2>1. /\ DOMAIN Benchmarks = {52, 84, 118}
        /\ \A b \in {52, 84, 118} :
             /\ Benchmarks[b] = IF ProfitRate - b >= 20 THEN "above"
                               ELSE IF ProfitRate - b <= -20 THEN "below" ELSE "about"
             /\ Benchmarks'[b] = IF ProfitRate' - b >= 20 THEN "above"
                                ELSE IF ProfitRate' - b <= -20 THEN "below" ELSE "about"
    BY DEF Benchmarks
  <2>2. ASSUME NEW b \in {52, 84, 118}, Benchmarks[b] = "above" PROVE Benchmarks'[b] = "above"
    <3>1. b \in Int /\ ProfitRate - b >= 20
      BY <2>1, <2>2
    <3>2. \A x, y, c \in Int : x <= y /\ x - c >= 20 => y - c >= 20
      OBVIOUS
    <3>3. ProfitRate' - b >= 20
      BY ONLY <1>1, <3>1, <3>2
    <3>4. QED BY <2>1, <3>3
  <2>3. QED BY <2>1, <2>2
<1>5. QED BY <1>2, <1>3, <1>4
-----------------------------------------------------------------------------
(* QuickBar: the orders of the tools *)

LEMMA ToolsAre == IsFiniteSet(Tools) /\ Cardinality(Tools) \in Nat /\ Tools # {}
<1>1. IsFiniteSet(Tools)
  BY QuickBarAssumption, FS_Union DEF Tools
<1>2. QED BY <1>1, FS_CardinalityType, QuickBarAssumption DEF Tools

\* An order has each tool at one place: it has as many places as there are tools.
LEMMA BarOrderIs ==
  ASSUME NEW o \in BarOrders
  PROVE  LET n == Cardinality(Tools) IN
         /\ o \in [1 .. n -> Tools]
         /\ \A i, j \in 1 .. n : o[i] = o[j] => i = j
         /\ \A t \in Tools : \E i \in 1 .. n : o[i] = t
<1> DEFINE n == Cardinality(Tools)
<1>1. o \in [1 .. n -> Tools] /\ \A i, j \in 1 .. n : o[i] = o[j] => i = j
  BY DEF BarOrders, IsInjective
<1>2. o \in Injection(1 .. n, Tools)
  BY <1>1 DEF Injection, IsInjective
<1>3. IsFiniteSet(1 .. n) /\ Cardinality(1 .. n) = Cardinality(Tools)
  BY ToolsAre, FS_Interval
<1>4. o \in Surjection(1 .. n, Tools)
  BY <1>2, <1>3, ToolsAre, FS_Injection
<1>5. \A t \in Tools : \E i \in 1 .. n : o[i] = t
  BY <1>4 DEF Surjection
<1>6. QED BY <1>1, <1>5

LEMMA AnOrderIs == AnOrder \in BarOrders
<1> DEFINE n == Cardinality(Tools)
<1>1. ExistsBijection(1 .. n, Tools)
  BY ToolsAre, FS_CardinalityType
<1>2. PICK f \in Bijection(1 .. n, Tools) : TRUE
  BY <1>1 DEF ExistsBijection
<1>3. f \in BarOrders
  BY <1>2 DEF Bijection, Injection, IsInjective, BarOrders
<1>4. QED BY <1>3 DEF AnOrder

\* Place by place: what is left without the one at i, and with e put at j.
LEMMA RemovedIs ==
  ASSUME NEW S, NEW s \in Seq(S), NEW i \in 1 .. Len(s)
  PROVE  LET r == RemoveAt(s, i) IN
         /\ r \in Seq(S) /\ Len(r) = Len(s) - 1
         /\ \A k \in 1 .. Len(r) : r[k] = IF k < i THEN s[k] ELSE s[k + 1]
<1> DEFINE n == Len(s)
           a == SubSeq(s, 1, i - 1)
           b == SubSeq(s, i + 1, n)
           r == a \o b
<1>1. n \in Nat /\ i \in 1 .. n /\ i \in Int /\ \A k \in 1 .. n : s[k] \in S
  BY LenProperties
<1>2. a \in Seq(S) /\ Len(a) = i - 1 /\ \A k \in 1 .. i - 1 : a[k] = s[k]
  <2>1. \A k \in 1 .. i - 1 : s[k] \in S
    BY <1>1
  <2>2. /\ a \in Seq(S) /\ Len(a) = IF 1 <= i - 1 THEN i - 1 - 1 + 1 ELSE 0
        /\ \A k \in 1 .. i - 1 - 1 + 1 : a[k] = s[1 + k - 1]
    BY <1>1, <2>1, SubSeqProperties
  <2> HIDE DEF a
  <2>3. QED BY <1>1, <2>2
<1>3. b \in Seq(S) /\ Len(b) = n - i /\ \A k \in 1 .. n - i : b[k] = s[i + k]
  <2>1. \A k \in i + 1 .. n : s[k] \in S
    BY <1>1
  <2>2. /\ b \in Seq(S) /\ Len(b) = IF i + 1 <= n THEN n - (i + 1) + 1 ELSE 0
        /\ \A k \in 1 .. n - (i + 1) + 1 : b[k] = s[i + 1 + k - 1]
    BY <1>1, <2>1, SubSeqProperties
  <2> HIDE DEF b
  <2>3. QED BY <1>1, <2>2
<1> HIDE DEF n, a, b
<1>4. /\ r \in Seq(S) /\ Len(r) = Len(a) + Len(b)
      /\ \A k \in 1 .. Len(a) + Len(b) : r[k] = IF k <= Len(a) THEN a[k] ELSE b[k - Len(a)]
  BY <1>2, <1>3, ConcatProperties
<1> HIDE DEF r
<1>5. Len(r) = n - 1
  BY <1>1, <1>2, <1>3, <1>4
<1>6. ASSUME NEW k \in 1 .. n - 1 PROVE r[k] = IF k < i THEN s[k] ELSE s[k + 1]
  <2>1. r[k] = IF k <= i - 1 THEN a[k] ELSE b[k - (i - 1)]
    BY <1>1, <1>2, <1>3, <1>4, <1>6
  <2>2. CASE k < i
    <3>1. k \in 1 .. i - 1 /\ k <= i - 1
      BY <1>1, <2>2
    <3>2. QED BY <1>2, <2>1, <2>2, <3>1
  <2>3. CASE ~(k < i)
    <3>1. k - (i - 1) \in 1 .. n - i /\ ~(k <= i - 1) /\ i + (k - (i - 1)) = k + 1
      BY <1>1, <2>3
    <3>2. b[k - (i - 1)] = s[k + 1]
      BY <1>3, <3>1
    <3>3. QED BY <2>1, <2>3, <3>1, <3>2
  <2>4. QED BY <2>2, <2>3
<1>7. r = RemoveAt(s, i)
  BY DEF r, a, b, n, RemoveAt
<1>8. QED BY <1>4, <1>5, <1>6, <1>7 DEF n

LEMMA InsertedIs ==
  ASSUME NEW S, NEW s \in Seq(S), NEW j \in 1 .. Len(s) + 1, NEW e \in S
  PROVE  LET r == InsertAt(s, j, e) IN
         /\ r \in Seq(S) /\ Len(r) = Len(s) + 1
         /\ \A k \in 1 .. Len(r) : r[k] = IF k < j THEN s[k] ELSE IF k = j THEN e ELSE s[k - 1]
<1> DEFINE n == Len(s)
           a == SubSeq(s, 1, j - 1)
           b == SubSeq(s, j, n)
           c == a \o <<e>>
           r == c \o b
<1>1. n \in Nat /\ j \in 1 .. n + 1 /\ j \in Int /\ \A k \in 1 .. n : s[k] \in S
  BY LenProperties
<1>2. a \in Seq(S) /\ Len(a) = j - 1 /\ \A k \in 1 .. j - 1 : a[k] = s[k]
  <2>1. \A k \in 1 .. j - 1 : s[k] \in S
    BY <1>1
  <2>2. /\ a \in Seq(S) /\ Len(a) = IF 1 <= j - 1 THEN j - 1 - 1 + 1 ELSE 0
        /\ \A k \in 1 .. j - 1 - 1 + 1 : a[k] = s[1 + k - 1]
    BY <1>1, <2>1, SubSeqProperties
  <2> HIDE DEF a
  <2>3. QED BY <1>1, <2>2
<1>3. b \in Seq(S) /\ Len(b) = n - j + 1 /\ \A k \in 1 .. n - j + 1 : b[k] = s[j + k - 1]
  <2>1. \A k \in j .. n : s[k] \in S
    BY <1>1
  <2>2. /\ b \in Seq(S) /\ Len(b) = IF j <= n THEN n - j + 1 ELSE 0
        /\ \A k \in 1 .. n - j + 1 : b[k] = s[j + k - 1]
    BY <1>1, <2>1, SubSeqProperties
  <2> HIDE DEF b
  <2>3. QED BY <1>1, <2>2
<1>4. <<e>> \in Seq(S) /\ Len(<<e>>) = 1 /\ <<e>>[1] = e
  OBVIOUS
<1> HIDE DEF n, a, b
<1>5. /\ c \in Seq(S) /\ Len(c) = Len(a) + 1
      /\ \A k \in 1 .. Len(a) + 1 : c[k] = IF k <= Len(a) THEN a[k] ELSE <<e>>[k - Len(a)]
  BY <1>2, <1>4, ConcatProperties
<1> HIDE DEF c
<1>6. /\ r \in Seq(S) /\ Len(r) = Len(c) + Len(b)
      /\ \A k \in 1 .. Len(c) + Len(b) : r[k] = IF k <= Len(c) THEN c[k] ELSE b[k - Len(c)]
  BY <1>3, <1>5, ConcatProperties
<1> HIDE DEF r
<1>7. Len(c) = j /\ Len(r) = n + 1
  BY <1>1, <1>2, <1>3, <1>5, <1>6
<1>8. ASSUME NEW k \in 1 .. n + 1 PROVE r[k] = IF k < j THEN s[k] ELSE IF k = j THEN e ELSE s[k - 1]
  <2>1. r[k] = IF k <= j THEN c[k] ELSE b[k - j]
    BY <1>1, <1>3, <1>6, <1>7, <1>8
  <2>2. CASE k < j
    <3>1. k \in 1 .. j - 1 /\ k <= j - 1 /\ k \in 1 .. Len(a) + 1 /\ k <= Len(a) /\ k <= j
      BY <1>1, <1>2, <2>2
    <3>2. QED BY <1>2, <1>5, <2>1, <2>2, <3>1
  <2>3. CASE k = j
    <3>1. k \in 1 .. Len(a) + 1 /\ ~(k <= Len(a)) /\ k - Len(a) = 1 /\ k <= j
      BY <1>1, <1>2, <2>3
    <3>2. c[k] = e
      BY <1>4, <1>5, <3>1
    <3>3. QED BY <1>1, <2>1, <2>3, <3>1, <3>2
  <2>4. CASE k > j
    <3>1. k - j \in 1 .. n - j + 1 /\ ~(k <= j) /\ ~(k < j) /\ k # j /\ j + (k - j) - 1 = k - 1
      BY <1>1, <2>4
    <3>2. b[k - j] = s[k - 1]
      BY <1>3, <3>1
    <3>3. QED BY <2>1, <3>1, <3>2
  <2>5. QED BY <1>1, <2>2, <2>3, <2>4
<1>9. r = InsertAt(s, j, e)
  BY DEF r, c, a, b, n, InsertAt
<1>10. QED BY <1>6, <1>7, <1>8, <1>9 DEF n

LEMMA ReorderedIs ==
  ASSUME NEW o \in BarOrders, NEW from \in Tools, NEW to \in Tools
  PROVE  Reordered(o, from, to) \in BarOrders
<1> DEFINE n == Cardinality(Tools)
           at(t) == CHOOSE i \in DOMAIN o : o[i] = t
           i == at(from)
           j == at(to)
           r == RemoveAt(o, i)
           p == InsertAt(r, j, from)
<1>1. /\ o \in [1 .. n -> Tools] /\ \A k, l \in 1 .. n : o[k] = o[l] => k = l
      /\ \A t \in Tools : \E k \in 1 .. n : o[k] = t
  BY BarOrderIs
<1>2. n \in Nat
  BY ToolsAre
<1> HIDE DEF n
<1>3. o \in Seq(Tools) /\ Len(o) = n /\ DOMAIN o = 1 .. n
  BY <1>1, <1>2, FunctionIsSeq
<1>4. i \in 1 .. n /\ o[i] = from /\ j \in 1 .. n
  BY <1>1, <1>3
<1> HIDE DEF i, j
<1>5. /\ r \in Seq(Tools) /\ Len(r) = n - 1
      /\ \A k \in 1 .. n - 1 : r[k] = IF k < i THEN o[k] ELSE o[k + 1]
  BY <1>3, <1>4, RemovedIs
<1> HIDE DEF r
<1>6. j \in 1 .. Len(r) + 1 /\ Len(r) + 1 = n
  BY <1>2, <1>4, <1>5
<1>7. /\ p \in Seq(Tools) /\ Len(p) = n
      /\ \A k \in 1 .. n : p[k] = IF k < j THEN r[k] ELSE IF k = j THEN from ELSE r[k - 1]
  <2>1. /\ p \in Seq(Tools) /\ Len(p) = Len(r) + 1
        /\ \A k \in 1 .. Len(p) : p[k] = IF k < j THEN r[k] ELSE IF k = j THEN from ELSE r[k - 1]
    <3>1. r \in Seq(Tools) /\ j \in 1 .. Len(r) + 1 /\ from \in Tools
      BY <1>5, <1>6
    <3>2. QED BY ONLY <3>1, InsertedIs
  <2> HIDE DEF p
  <2>2. QED BY <1>6, <2>1
<1> HIDE DEF p
\* Where the tool at place k was before.
<1> DEFINE was(k) == IF k < j THEN (IF k < i THEN k ELSE k + 1)
                     ELSE IF k = j THEN i ELSE (IF k - 1 < i THEN k - 1 ELSE k)
<1>8. ASSUME NEW k \in 1 .. n PROVE was(k) \in 1 .. n /\ p[k] = o[was(k)]
  <2>0. /\ i \in Int /\ j \in Int /\ k \in Int /\ n \in Int
        /\ 1 <= i /\ i <= n /\ 1 <= j /\ j <= n /\ 1 <= k /\ k <= n
    BY <1>2, <1>4
  <2>1. CASE k < j
    <3>1. k \in 1 .. n - 1 /\ p[k] = r[k]
      BY <1>7, <2>0, <2>1
    <3>2. p[k] = IF k < i THEN o[k] ELSE o[k + 1]
      BY <1>5, <3>1
    <3>3. QED BY <2>0, <2>1, <3>2
  <2>2. CASE k = j
    BY <1>4, <1>7, <2>0, <2>2
  <2>3. CASE k > j
    <3>1. k - 1 \in 1 .. n - 1 /\ ~(k < j) /\ k # j /\ (k - 1) + 1 = k
      BY <2>0, <2>3
    <3>2. p[k] = r[k - 1]
      BY <1>7, <3>1
    <3>3. p[k] = IF k - 1 < i THEN o[k - 1] ELSE o[k]
      BY <1>5, <3>1, <3>2
    <3>4. QED BY <2>0, <2>3, <3>1, <3>3
  <2>4. QED BY <2>0, <2>1, <2>2, <2>3
<1>9. ASSUME NEW k \in 1 .. n, NEW l \in 1 .. n, was(k) = was(l) PROVE k = l
  BY <1>2, <1>4, <1>9
<1> HIDE DEF was
<1>10. \A k, l \in 1 .. n : p[k] = p[l] => k = l
  BY <1>1, <1>8, <1>9
<1>11. p \in [1 .. n -> Tools] /\ DOMAIN p = 1 .. n
  BY <1>7, LenProperties
<1>12. p \in BarOrders
  BY <1>10, <1>11 DEF BarOrders, IsInjective, n
<1>13. QED BY <1>12 DEF Reordered, p, r, i, j

-----------------------------------------------------------------------------
(* QuickBar: what is stored and loaded *)

BarRecord ==
  [up : BOOLEAN, visible : SUBSET Tools, order : BarOrders, folded : BOOLEAN,
   panel : Panels \cup {"none", "edit", "chat"}, dragged : Tools \cup {"none"}]

StoredBar == [visible : SUBSET Tools, order : BarOrders \cup {NoEntry}, folded : BOOLEAN]

\* An entry with an order was saved by a bar that had been loaded: there are tools in it.
BarIInv ==
  /\ bar \in BarRecord /\ barStore \in StoredBar
  /\ bar.visible # {}
  /\ barStore.order # NoEntry => barStore.visible # {}

LEMMA FreshIs == Fresh \in BarRecord /\ Fresh.visible # {} /\ ~Fresh.up
BY AnOrderIs, ToolsAre DEF Fresh, BarRecord

LEMMA BarStarts == BarInit => BarIInv
BY FreshIs DEF BarInit, BarIInv, StoredBar, NoEntry

\* What has to be shown of a click.
LEMMA BarClicked ==
  ASSUME BarIInv, bar' \in BarRecord, bar'.visible # {}, UNCHANGED barStore
  PROVE  BarIInv'
BY DEF BarIInv

LEMMA BarLoads == ASSUME BarIInv, LoadBar PROVE BarIInv'
<1> DEFINE seen == IF barStore.visible = {} THEN Tools ELSE barStore.visible
<1>1. seen \in SUBSET Tools /\ seen # {}
  BY ToolsAre DEF BarIInv, StoredBar
<1>2. PICK o \in IF barStore.order # NoEntry THEN {barStore.order} ELSE FirstVisible(seen) :
        bar' = [bar EXCEPT !.up = TRUE, !.visible = seen, !.order = o, !.folded = barStore.folded]
  BY DEF LoadBar
<1>3. o \in BarOrders
  BY <1>2 DEF FirstVisible, BarIInv, StoredBar
<1> HIDE DEF seen
<1>4. barStore.folded \in BOOLEAN
  BY DEF BarIInv, StoredBar
<1>5. bar' \in BarRecord /\ bar'.visible = seen
  BY <1>1, <1>2, <1>3, <1>4 DEF BarIInv, BarRecord
<1>6. QED BY <1>1, <1>5, BarClicked DEF LoadBar

LEMMA BarSaves == ASSUME BarIInv, SaveBar PROVE BarIInv'
<1>1. bar' = bar /\ bar.up
      /\ barStore' = [visible |-> bar.visible, order |-> bar.order, folded |-> bar.folded]
  BY DEF SaveBar, Saves
<1>2. bar.visible \in SUBSET Tools /\ bar.order \in BarOrders /\ bar.folded \in BOOLEAN
  BY DEF BarIInv, BarRecord
<1>3. barStore' \in StoredBar /\ barStore'.visible = bar.visible
  BY <1>1, <1>2 DEF StoredBar
<1>4. QED BY <1>1, <1>3 DEF BarIInv

LEMMA BarTools == ASSUME BarIInv, ToolClick, UNCHANGED barStore PROVE BarIInv'
<1>1. bar \in BarRecord /\ bar.visible # {}
  BY DEF BarIInv
<1>2. CASE \E t \in bar.visible \cap Panels : BarShows(t) /\ bar' = [bar EXCEPT !.panel = t]
  <2>1. bar' \in BarRecord /\ bar'.visible = bar.visible
    BY <1>1, <1>2 DEF BarRecord
  <2>2. QED BY <1>1, <2>1, BarClicked
<1>3. CASE bar' = Fresh
  BY <1>3, FreshIs, BarClicked
<1>4. CASE bar' = [bar EXCEPT !.panel = "chat"] \/ bar' = [bar EXCEPT !.panel = "edit"]
  <2>1. bar' \in BarRecord /\ bar'.visible = bar.visible
    BY <1>1, <1>4 DEF BarRecord
  <2>2. QED BY <1>1, <2>1, BarClicked
<1>5. CASE bar' = [bar EXCEPT !.folded = TRUE] \/ bar' = [bar EXCEPT !.folded = FALSE]
  <2>1. bar' \in BarRecord /\ bar'.visible = bar.visible
    BY <1>1, <1>5 DEF BarRecord
  <2>2. QED BY <1>1, <2>1, BarClicked
<1>6. QED BY <1>2, <1>3, <1>4, <1>5 DEF ToolClick

LEMMA BarPanels == ASSUME BarIInv, PanelClick, UNCHANGED barStore PROVE BarIInv'
<1>1. /\ bar \in BarRecord /\ bar.visible # {} /\ bar.visible \subseteq Tools
      /\ bar.order \in BarOrders /\ bar.dragged \in Tools \cup {"none"}
  BY DEF BarIInv, BarRecord
<1>2. CASE bar' = [bar EXCEPT !.panel = "none"]
  <2>1. bar' \in BarRecord /\ bar'.visible = bar.visible
    BY <1>1, <1>2 DEF BarRecord
  <2>2. QED BY <1>1, <2>1, BarClicked
<1>3. CASE \E t \in Tools : bar' = [bar EXCEPT !.visible = Toggled(t)]
  <2>1. PICK t \in Tools : bar' = [bar EXCEPT !.visible = Toggled(t)]
    BY <1>3
  <2>2. Toggled(t) \subseteq Tools /\ Toggled(t) # {}
    BY <1>1 DEF Toggled
  <2>3. bar' \in BarRecord /\ bar'.visible = Toggled(t)
    BY <1>1, <2>1, <2>2 DEF BarRecord
  <2>4. QED BY <2>2, <2>3, BarClicked
<1>4. CASE \E t \in Tools : bar' = [bar EXCEPT !.dragged = t]
  <2>1. bar' \in BarRecord /\ bar'.visible = bar.visible
    BY <1>1, <1>4 DEF BarRecord
  <2>2. QED BY <1>1, <2>1, BarClicked
<1>5. CASE /\ bar.dragged # "none"
           /\ \E t \in Tools :
                bar' = [bar EXCEPT !.dragged = "none",
                                   !.order = IF t = bar.dragged THEN @
                                             ELSE Reordered(@, bar.dragged, t)]
  <2>1. PICK t \in Tools :
          bar' = [bar EXCEPT !.dragged = "none",
                             !.order = IF t = bar.dragged THEN @ ELSE Reordered(@, bar.dragged, t)]
    BY <1>5
  <2> DEFINE o == IF t = bar.dragged THEN bar.order ELSE Reordered(bar.order, bar.dragged, t)
  <2>2. o \in BarOrders
    BY <1>1, <1>5, ReorderedIs
  <2>3. bar' = [bar EXCEPT !.dragged = "none", !.order = o]
    BY <2>1
  <2> HIDE DEF o
  <2>4. bar' \in BarRecord /\ bar'.visible = bar.visible
    BY <1>1, <2>2, <2>3 DEF BarRecord
  <2>5. QED BY <1>1, <2>4, BarClicked
<1>6. QED BY <1>2, <1>3, <1>4, <1>5 DEF PanelClick

LEMMA BarKeeps == ASSUME BarIInv, [BarNext]_barVars PROVE BarIInv'
<1>1. CASE LoadBar
  BY <1>1, BarLoads
<1>2. CASE SaveBar
  BY <1>2, BarSaves
<1>3. CASE BarReload
  BY <1>3, FreshIs, BarClicked DEF BarReload
<1>4. CASE (ToolClick \/ PanelClick) /\ UNCHANGED barStore
  BY <1>4, BarTools, BarPanels
<1>5. CASE UNCHANGED barVars
  BY <1>5 DEF barVars, BarIInv
<1>6. QED BY <1>1, <1>2, <1>3, <1>4, <1>5 DEF BarNext

LEMMA BarMeans == BarIInv => ToolsStayUsable
<1> SUFFICES ASSUME BarIInv, NEW t \in Tools
             PROVE  Cardinality({i \in DOMAIN bar.order : bar.order[i] = t}) = 1
  BY DEF ToolsStayUsable, BarIInv
<1> DEFINE n == Cardinality(Tools)
           o == bar.order
<1>1. o \in BarOrders
  BY DEF BarIInv, BarRecord
<1> HIDE DEF o
<1>2. /\ o \in [1 .. n -> Tools] /\ \A i, j \in 1 .. n : o[i] = o[j] => i = j
      /\ \E i \in 1 .. n : o[i] = t
  BY <1>1, BarOrderIs
<1>3. PICK i \in 1 .. n : o[i] = t
  BY <1>2
<1>4. {k \in DOMAIN o : o[k] = t} = {i}
  BY <1>2, <1>3
<1>5. QED BY <1>4, FS_Singleton DEF o

\* Loading writes nothing, and shows what was saved.
LEMMA LoadingKeeps ==
  BarIInv /\ [BarNext]_barVars =>
    [~bar.up => /\ barStore' = barStore
                /\ bar'.up /\ barStore.order # NoEntry
                     => /\ bar'.visible = barStore.visible /\ barStore.visible # {}
                        /\ bar'.order = barStore.order /\ bar'.folded = barStore.folded]_barVars
<1> SUFFICES ASSUME BarIInv, BarNext, ~bar.up
             PROVE  /\ barStore' = barStore
                    /\ bar'.up /\ barStore.order # NoEntry
                         => /\ bar'.visible = barStore.visible /\ barStore.visible # {}
                            /\ bar'.order = barStore.order /\ bar'.folded = barStore.folded
  OBVIOUS
<1>1. LoadBar
  BY DEF BarNext, SaveBar, Saves, BarReload, Saved, ToolClick, PanelClick, BarShows
<1>2. barStore' = barStore
  BY <1>1 DEF LoadBar
<1>3. ASSUME barStore.order # NoEntry
      PROVE  /\ bar'.visible = barStore.visible /\ barStore.visible # {}
             /\ bar'.order = barStore.order /\ bar'.folded = barStore.folded
  <2>1. barStore.visible # {}
    BY <1>3 DEF BarIInv
  <2>2. bar' = [bar EXCEPT !.up = TRUE, !.visible = barStore.visible, !.order = barStore.order,
                           !.folded = barStore.folded]
    BY <1>1, <1>3, <2>1 DEF LoadBar
  <2>3. QED BY <2>1, <2>2 DEF BarIInv, BarRecord
<1>4. QED BY <1>2, <1>3

-----------------------------------------------------------------------------
(* QuickBar: the favourites *)

FavTab == [at : {"closed", "loading", "open"}, list : SUBSET Favourites]

\* Where no two tabs overlap, the choice is in the tab that is there, loading or open,
\* and in the storage unless that tab has it in hand.
OneTabHasIt ==
  /\ \A t \in BarTabs : favs[t].at # "closed" => favs[t].list = wish
  /\ \A t \in BarTabs : favs[t].at = "open" => favStore = wish
  /\ (\A t \in BarTabs : favs[t].at = "closed") => favStore = wish
  /\ \A t, u \in BarTabs : favs[t].at # "closed" /\ favs[u].at # "closed" => t = u

FavIInv ==
  /\ favs \in [BarTabs -> FavTab]
  /\ favStore \subseteq Favourites /\ wish \subseteq Favourites
  /\ apart \in BOOLEAN /\ toggles \in 0 .. MaxToggles
  /\ ~apart => OneTabHasIt

LEMMA FavStarts == FavInit => FavIInv
<1> SUFFICES ASSUME FavInit PROVE FavIInv
  OBVIOUS
<1>1. [at |-> "closed", list |-> {}] \in FavTab /\ [at |-> "closed", list |-> {}].at = "closed"
  BY DEF FavTab
<1>2. favs \in [BarTabs -> FavTab] /\ \A t \in BarTabs : favs[t].at = "closed"
  BY <1>1 DEF FavInit
<1>3. 0 \in 0 .. MaxToggles
  BY QuickBarAssumption
<1>4. QED BY <1>2, <1>3 DEF FavInit, FavIInv, OneTabHasIt

\* What a step makes of one tab.
LEMMA OneFavTab ==
  ASSUME FavIInv, NEW t \in BarTabs, NEW r \in FavTab, favs' = [favs EXCEPT ![t] = r]
  PROVE  /\ favs' \in [BarTabs -> FavTab] /\ favs'[t] = r
         /\ \A u \in BarTabs : u # t => favs'[u] = favs[u]
BY DEF FavIInv

LEMMA FavSteps == ASSUME FavIInv, NEW t \in BarTabs, FavOpens(t) \/ FavRenders(t) PROVE FavIInv'
<1>0. favs[t] \in FavTab
  BY DEF FavIInv
<1>1. CASE FavOpens(t)
  <2> DEFINE r == [at |-> "loading", list |-> favStore]
  <2>1. r \in FavTab /\ r.at = "loading" /\ r.list = favStore
    BY DEF FavTab, FavIInv
  <2> HIDE DEF r
  <2>2. favs' = [favs EXCEPT ![t] = r]
    BY <1>1 DEF FavOpens, r
  <2>3. /\ favs' \in [BarTabs -> FavTab] /\ favs'[t] = r
        /\ \A u \in BarTabs : u # t => favs'[u] = favs[u]
    BY <2>1, <2>2, OneFavTab
  <2>4. ASSUME ~apart' PROVE OneTabHasIt'
    <3>1. ~apart /\ \A u \in BarTabs : favs[u].at = "closed"
      BY <1>1, <2>4 DEF FavOpens
    <3>2. favStore = wish /\ wish' = wish
      BY <1>1, <3>1 DEF FavOpens, FavIInv, OneTabHasIt
    <3>3. QED BY <2>1, <2>3, <3>1, <3>2 DEF OneTabHasIt
  <2>5. QED BY <1>1, <2>3, <2>4 DEF FavOpens, FavIInv
<1>2. CASE FavRenders(t)
  <2> DEFINE r == [favs[t] EXCEPT !.at = "open"]
  <2>1. r \in FavTab /\ r.at = "open" /\ r.list = favs[t].list /\ favs[t].list \subseteq Favourites
    BY <1>0 DEF FavTab
  <2> HIDE DEF r
  <2>2. favs' = [favs EXCEPT ![t] = r]
    BY <1>2 DEF FavRenders, r
  <2>3. /\ favs' \in [BarTabs -> FavTab] /\ favs'[t] = r
        /\ \A u \in BarTabs : u # t => favs'[u] = favs[u]
    BY <2>1, <2>2, OneFavTab
  <2>4. ASSUME ~apart' PROVE OneTabHasIt'
    <3>1. OneTabHasIt /\ favs[t].at = "loading" /\ wish' = wish /\ favStore' = favs[t].list
      BY <1>2, <2>4 DEF FavRenders, FavIInv
    <3>2. QED BY <2>1, <2>3, <3>1 DEF OneTabHasIt
  <2>5. QED BY <1>2, <2>1, <2>3, <2>4 DEF FavRenders, FavIInv
<1>3. QED BY <1>1, <1>2

LEMMA FavChanges == ASSUME FavIInv, NEW t \in BarTabs, ToggleFavorite(t) \/ FavCloses(t) PROVE FavIInv'
<1>0. favs[t] \in FavTab
  BY DEF FavIInv
<1>1. CASE ToggleFavorite(t)
  <2>1. PICK s \in Favourites : /\ favs' = [favs EXCEPT ![t].list = Flipped(@, s)]
                                /\ wish' = Flipped(wish, s)
    BY <1>1 DEF ToggleFavorite
  <2> DEFINE r == [favs[t] EXCEPT !.list = Flipped(favs[t].list, s)]
  <2>2. Flipped(favs[t].list, s) \subseteq Favourites /\ Flipped(wish, s) \subseteq Favourites
    BY <1>0 DEF Flipped, FavTab, FavIInv
  <2>3. r \in FavTab /\ r.at = favs[t].at /\ r.list = Flipped(favs[t].list, s)
    BY <1>0, <2>2 DEF FavTab
  <2> HIDE DEF r
  <2>4. favs' = [favs EXCEPT ![t] = r]
    BY <2>1 DEF r, FavIInv
  <2>5. /\ favs' \in [BarTabs -> FavTab] /\ favs'[t] = r
        /\ \A u \in BarTabs : u # t => favs'[u] = favs[u]
    BY <2>3, <2>4, OneFavTab
  <2>6. /\ favs[t].at = "open" /\ toggles < MaxToggles /\ toggles' = toggles + 1
        /\ favStore' = r.list /\ apart' = apart
    BY <1>1, <2>5 DEF ToggleFavorite
  <2>7. toggles' \in 0 .. MaxToggles
    BY <2>6, QuickBarAssumption DEF FavIInv
  <2>8. ASSUME ~apart' PROVE OneTabHasIt'
    <3>1. OneTabHasIt
      BY <2>6, <2>8 DEF FavIInv
    <3>2. favs[t].list = wish
      BY <2>6, <3>1 DEF OneTabHasIt
    <3>3. r.list = wish' /\ favStore' = wish' /\ r.at = "open"
      BY <2>1, <2>3, <2>6, <3>2
    <3>4. \A u \in BarTabs : u # t => favs[u].at = "closed"
      BY <2>6, <3>1 DEF OneTabHasIt
    <3>5. QED BY <2>5, <3>3, <3>4 DEF OneTabHasIt
  <2>9. QED BY <2>1, <2>2, <2>3, <2>5, <2>6, <2>7, <2>8 DEF FavIInv
<1>2. CASE FavCloses(t)
  <2> DEFINE r == [at |-> "closed", list |-> {}]
  <2>1. r \in FavTab /\ r.at = "closed"
    BY DEF FavTab
  <2> HIDE DEF r
  <2>2. favs' = [favs EXCEPT ![t] = r]
    BY <1>2 DEF FavCloses, r
  <2>3. /\ favs' \in [BarTabs -> FavTab] /\ favs'[t] = r
        /\ \A u \in BarTabs : u # t => favs'[u] = favs[u]
    BY <2>1, <2>2, OneFavTab
  <2>4. ASSUME ~apart' PROVE OneTabHasIt'
    <3>1. OneTabHasIt /\ favs[t].at = "open" /\ wish' = wish /\ favStore' = favStore
      BY <1>0, <1>2, <2>4 DEF FavCloses, FavIInv, FavTab
    <3>2. favStore = wish /\ \A u \in BarTabs : u # t => favs[u].at = "closed"
      BY <3>1 DEF OneTabHasIt
    <3>3. QED BY <2>1, <2>3, <3>1, <3>2 DEF OneTabHasIt
  <2>5. QED BY <1>2, <2>3, <2>4 DEF FavCloses, FavIInv
<1>3. QED BY <1>1, <1>2

LEMMA FavKeeps == ASSUME FavIInv, [FavNext]_favVars PROVE FavIInv'
<1>1. CASE UNCHANGED favVars
  BY <1>1 DEF favVars, FavIInv, OneTabHasIt
<1>2. QED BY <1>1, FavSteps, FavChanges DEF FavNext

LEMMA FavMeans == FavIInv /\ BarIInv => BarTypeOK /\ FavoritesComeBack
<1>1. FavIInv => FavoritesComeBack
  BY DEF FavIInv, OneTabHasIt, FavoritesComeBack
<1>2. FavIInv /\ BarIInv => BarTypeOK
  BY DEF FavIInv, FavTab, BarIInv, BarRecord, StoredBar, BarTypeOK
<1>3. QED BY <1>1, <1>2
-----------------------------------------------------------------------------
(* ChatTab: rendering works a queue off, one updater after the other *)

\* What holds of 0 and passes from each number to the next.
LEMMA CountingUp ==
  ASSUME NEW n \in Nat, NEW G, 0 \in G, \A k \in 1 .. n : k - 1 \in G => k \in G
  PROVE  n \in G
<1> DEFINE Bad == {0 .. k : k \in (0 .. n) \ G}
<1> SUFFICES ASSUME n \notin G PROVE FALSE
  OBVIOUS
<1>1. Bad \in SUBSET (SUBSET (0 .. n)) /\ Bad # {} /\ IsFiniteSet(0 .. n)
  <2>1. n \in (0 .. n) \ G
    OBVIOUS
  <2>2. (0 .. n) \in Bad
    BY <2>1
  <2>3. ASSUME NEW k \in 0 .. n PROVE 0 .. k \in SUBSET (0 .. n)
    OBVIOUS
  <2>4. IsFiniteSet(0 .. n)
    BY FS_Interval
  <2>5. QED BY <2>2, <2>3, <2>4
<1>2. PICK T \in Bad : \A U \in Bad : U \subseteq T => U = T
  <2> DEFINE S == 0 .. n
  <2>1. Bad \in SUBSET (SUBSET S) /\ Bad # {} /\ IsFiniteSet(S)
    BY <1>1
  <2> HIDE DEF Bad, S
  <2>2. QED BY <2>1, SmallestSet
<1>3. PICK k \in (0 .. n) \ G : T = 0 .. k
  BY <1>2
<1>4. k \in 1 .. n /\ k - 1 \in (0 .. n) \ G
  BY <1>3
<1>5. (0 .. k - 1) \in Bad /\ (0 .. k - 1) \subseteq T
  BY <1>3, <1>4
<1>6. k \in 0 .. k /\ k \notin 0 .. k - 1
  BY <1>3
<1>7. QED BY <1>2, <1>3, <1>5, <1>6

\* The largest of 1 .. n is n.
LEMMA TopIs ==
  ASSUME NEW n \in Nat, NEW T \in SUBSET (1 .. n), n \in T
  PROVE  Max(T) = n
<1>1. \A y \in T : n >= y
  OBVIOUS
<1>2. \A x \in T : (\A y \in T : x >= y) => x = n
  OBVIOUS
<1>3. QED BY <1>1, <1>2 DEF Max

\* What FoldLeft tabulates for a queue, beginning with `from'.
Worked(g, from, q, n) ==
  g = [T \in SUBSET (1 .. n) |-> IF T = {} THEN from ELSE Step(g[T \ {Max(T)}], q[Max(T)])]

LEMMA WorkedExists ==
  ASSUME NEW from, NEW q, NEW n \in Nat
  PROVE  \E g : Worked(g, from, q, n)
<1> DEFINE G == {k \in Nat : \E g : Worked(g, from, q, k)}
<1>1. 0 \in G
  <2> DEFINE g == [T \in SUBSET (1 .. 0) |-> from]
  <2>1. g = [T \in SUBSET (1 .. 0) |-> IF T = {} THEN from ELSE Step(g[T \ {Max(T)}], q[Max(T)])]
    <3>1. \A T \in SUBSET (1 .. 0) : T = {}
      OBVIOUS
    <3> HIDE DEF g
    <3>2. g = [T \in SUBSET (1 .. 0) |-> from]
      BY DEF g
    <3>3. QED BY <3>1, <3>2, Zenon
  <2>2. Worked(g, from, q, 0)
    BY <2>1 DEF Worked
  <2>3. QED BY <2>2
<1>2. ASSUME NEW k \in 1 .. n, k - 1 \in G PROVE k \in G
  <2>1. PICK h : Worked(h, from, q, k - 1)
    BY <1>2
  <2> DEFINE value(T) == IF k \in T THEN Step(h[T \ {k}], q[k]) ELSE h[T]
             g == [T \in SUBSET (1 .. k) |-> value(T)]
  <2>2. ASSUME NEW T \in SUBSET (1 .. k - 1)
        PROVE  g[T] = h[T] /\ h[T] = IF T = {} THEN from ELSE Step(h[T \ {Max(T)}], q[Max(T)])
    <3>1. T \in SUBSET (1 .. k) /\ k \notin T
      OBVIOUS
    <3>2. QED BY <2>1, <3>1 DEF Worked
  <2>3. ASSUME NEW T \in SUBSET (1 .. k)
        PROVE  value(T) = IF T = {} THEN from ELSE Step(g[T \ {Max(T)}], q[Max(T)])
    <3>1. CASE k \in T
      <4>1. Max(T) = k /\ T # {}
        BY <3>1, TopIs
      <4>2. T \ {k} \in SUBSET (1 .. k - 1)
        OBVIOUS
      <4>3. g[T \ {k}] = h[T \ {k}]
        BY <2>2, <4>2
      <4> HIDE DEF g
      <4>4. value(T) = Step(h[T \ {k}], q[k])
        BY <3>1
      <4> HIDE DEF value
      <4>5. QED BY <4>1, <4>3, <4>4
    <3>2. CASE k \notin T
      <4>1. T \in SUBSET (1 .. k - 1)
        BY <3>2
      <4>2. T \ {Max(T)} \in SUBSET (1 .. k - 1)
        BY <4>1
      <4>3. g[T \ {Max(T)}] = h[T \ {Max(T)}] /\ value(T) = h[T]
        BY <2>2, <3>2, <4>2
      <4> HIDE DEF g, value
      <4>4. QED BY <2>2, <4>1, <4>3
    <3>3. QED BY <3>1, <3>2
  <2>4. g = [T \in SUBSET (1 .. k) |-> IF T = {} THEN from ELSE Step(g[T \ {Max(T)}], q[Max(T)])]
    <3> HIDE DEF value
    <3>1. g = [T \in SUBSET (1 .. k) |-> value(T)]
      OBVIOUS
    <3> HIDE DEF g
    <3>2. QED BY <2>3, <3>1
  <2>5. Worked(g, from, q, k)
    BY <2>4 DEF Worked
  <2>6. QED BY <2>5
<1> HIDE DEF G
<1>3. n \in G
  BY <1>1, <1>2, CountingUp
<1>4. QED BY <1>3 DEF G

\* What a queue makes of what it starts with: FoldLeft works it off one by one.
Folded(from, q) == FoldLeft(Step, from, q)

LEMMA WorkedOff ==
  ASSUME NEW from, NEW q, NEW n \in Nat, DOMAIN q = 1 .. n
  PROVE  \E g : /\ Folded(from, q) = g[n] /\ g[0] = from
                /\ \A k \in 1 .. n : g[k] = Step(g[k - 1], q[k])
<1> DEFINE t == CHOOSE iter : iter = [T \in SUBSET (1 .. n) |->
                  IF T = {} THEN from ELSE Step(iter[T \ {Max(T)}], q[Max(T)])]
           g == [k \in 0 .. n |-> t[1 .. k]]
<1>1. Folded(from, q) = t[1 .. n]
  BY DEF Folded, FoldLeft, MapThenFoldSet
<1>2. t = [T \in SUBSET (1 .. n) |-> IF T = {} THEN from ELSE Step(t[T \ {Max(T)}], q[Max(T)])]
  <2>1. \E iter : iter = [T \in SUBSET (1 .. n) |->
                  IF T = {} THEN from ELSE Step(iter[T \ {Max(T)}], q[Max(T)])]
    <3>1. PICK h : Worked(h, from, q, n)
      BY WorkedExists
    <3>2. h = [T \in SUBSET (1 .. n) |->
                 IF T = {} THEN from ELSE Step(h[T \ {Max(T)}], q[Max(T)])]
      BY <3>1 DEF Worked
    <3>3. QED BY ONLY <3>2
  <2>2. QED BY <2>1
<1> HIDE DEF t
<1>3. ASSUME NEW T \in SUBSET (1 .. n)
      PROVE  t[T] = IF T = {} THEN from ELSE Step(t[T \ {Max(T)}], q[Max(T)])
  BY <1>2
<1>4. g[0] = from /\ g[n] = t[1 .. n]
  <2>1. 1 .. 0 = {} /\ (1 .. 0) \in SUBSET (1 .. n) /\ 0 \in 0 .. n /\ n \in 0 .. n
    OBVIOUS
  <2>2. g[0] = t[1 .. 0] /\ g[n] = t[1 .. n]
    BY <2>1
  <2>3. t[1 .. 0] = from
    BY <1>3, <2>1
  <2>4. QED BY <2>2, <2>3
<1>5. ASSUME NEW k \in 1 .. n PROVE g[k] = Step(g[k - 1], q[k])
  <2>1. (1 .. k) \in SUBSET (1 .. n) /\ (1 .. k) \in SUBSET (1 .. k) /\ k \in 1 .. k
        /\ (1 .. k) \ {k} = 1 .. k - 1 /\ k \in Nat
    OBVIOUS
  <2>2. Max(1 .. k) = k
    BY <2>1, TopIs
  <2>3. t[1 .. k] = Step(t[(1 .. k) \ {k}], q[k])
    BY <1>3, <2>1, <2>2
  <2>4. g[k] = t[1 .. k] /\ g[k - 1] = t[1 .. k - 1]
    OBVIOUS
  <2> HIDE DEF g
  <2>5. QED BY <2>1, <2>3, <2>4
<1>6. QED BY <1>1, <1>4, <1>5


-----------------------------------------------------------------------------
(* ChatTab: what is queued, what is stored *)

\* The question is there when its answer begins.
Asked(msgs, k)  == \E m \in msgs : m.asks /\ m.id = k
Answers(msgs)   == \A m \in msgs : ~m.asks => Asked(msgs, m.id)
Prepares(u, k)  == (u.op = "ask" /\ u.id = k) \/ (u.op = "set" /\ Asked(u.val, k))

\* A value can only be at the head of a queue, and is what is stored; an answer begins
\* next to its question; a use that has no value to read shows what is stored.
QueueFits(q, copy) ==
  \A k \in DOMAIN q : /\ q[k].op = "set" => k = 1 /\ q[k].val = copy
                      /\ q[k].op = "ask" => q[k].id # 0
                      /\ q[k].op = "start" => k = 2 /\ q[k].id # 0 /\ Prepares(q[1], q[k].id)

UseFits(use, copy) ==
  /\ QueueFits(use.queue, copy)
  /\ use.queue = <<>> \/ use.queue[1].op # "set" => use.shown = copy

\* A use asks one question at a time, and is busy until the answer is over.
StreamFits(k) ==
  /\ uses[streams[k].by].up # "not yet"
  /\ streams[k].at # "over" => uses[streams[k].by].busy

OneOpen ==
  \A k, l \in DOMAIN streams :
    streams[k].by = streams[l].by /\ streams[k].at # "over" /\ streams[l].at # "over" => k = l

ChatTypes ==
  /\ chatCopy \subseteq Message /\ chatCrossed \in BOOLEAN
  /\ uses \in [Uses -> Use]
  /\ streams \in Seq(Stream) /\ Len(streams) <= MaxSends

ChatIInv ==
  /\ ChatTypes
  /\ \A k \in DOMAIN streams : StreamFits(k)
  /\ OneOpen
  /\ ~chatCrossed => /\ Answers(chatCopy)
                     /\ \A i \in Uses : uses[i].up = "mounted" => UseFits(uses[i], chatCopy)

\* The records of the conversation, field by field.
LEMMA UpdateFields ==
  /\ \A u \in Update : /\ u.op \in {"ask", "start", "delta", "end", "clear", "set"}
                       /\ u.op = "set" => u.val \subseteq Message
                       /\ u.op # "set" => u.id \in 0 .. MaxSends
  /\ \A k \in 0 .. MaxSends, o \in {"ask", "start", "delta", "end", "clear"} :
       /\ [op |-> o, id |-> k] \in Update
       /\ [op |-> o, id |-> k].op = o /\ [op |-> o, id |-> k].id = k
  /\ \A msgs \in SUBSET Message : Set(msgs) \in Update /\ Set(msgs).op = "set" /\ Set(msgs).val = msgs
<1>1. ASSUME NEW u \in [op : {"ask", "start", "delta", "end", "clear"}, id : 0 .. MaxSends]
      PROVE  /\ u.op \in {"ask", "start", "delta", "end", "clear"} /\ u.op # "set"
             /\ u.id \in 0 .. MaxSends
  OBVIOUS
<1>2. ASSUME NEW u \in [op : {"set"}, val : SUBSET Message]
      PROVE  u.op = "set" /\ u.val \subseteq Message
  OBVIOUS
<1>3. ASSUME NEW u \in Update
      PROVE  /\ u.op \in {"ask", "start", "delta", "end", "clear", "set"}
             /\ u.op = "set" => u.val \subseteq Message
             /\ u.op # "set" => u.id \in 0 .. MaxSends
  BY <1>1, <1>2 DEF Update
<1>4. ASSUME NEW k \in 0 .. MaxSends, NEW o \in {"ask", "start", "delta", "end", "clear"}
      PROVE  /\ [op |-> o, id |-> k] \in Update
             /\ [op |-> o, id |-> k].op = o /\ [op |-> o, id |-> k].id = k
  BY DEF Update
<1>5. ASSUME NEW msgs \in SUBSET Message
      PROVE  Set(msgs) \in Update /\ Set(msgs).op = "set" /\ Set(msgs).val = msgs
  BY DEF Update, Set
<1>6. QED BY <1>3, <1>4, <1>5

LEMMA UpdateIs ==
  ASSUME NEW k \in 0 .. MaxSends, NEW o \in {"ask", "start", "delta", "end", "clear"},
         NEW u, u = [op |-> o, id |-> k]
  PROVE  u \in Update /\ u.op = o /\ u.id = k
BY DEF Update

LEMMA UseFields ==
  ASSUME NEW use \in Use
  PROVE  /\ use.up \in {"not yet", "mounted", "left"} /\ use.shown \in SUBSET Message
         /\ use.queue \in Seq(Update) /\ use.busy \in BOOLEAN
BY DEF Use

LEMMA QueueIs ==
  ASSUME NEW use \in Use, NEW q \in Seq(Update), NEW v, v = [use EXCEPT !.queue = q]
  PROVE  v \in Use /\ v.up = use.up /\ v.shown = use.shown /\ v.queue = q /\ v.busy = use.busy
BY DEF Use

\* Short queues.
LEMMA ShortQueues ==
  ASSUME NEW S, NEW a \in S, NEW b \in S
  PROVE  /\ <<a>> \o <<>> = <<a>> /\ <<a>> \o <<b>> = <<a, b>>
         /\ <<a>> \in Seq(S) /\ <<a, b>> \in Seq(S)
<1>1. <<a>> \in Seq(S)
  OBVIOUS
<1>2. <<a, b>> \in Seq(S)
  OBVIOUS
<1>3. <<a>> \o <<>> = <<a>>
  BY <1>1, ConcatEmptySeq
<1>4. <<a>> \o <<b>> = <<a, b>>
  <2> DEFINE x == <<a>>
             y == <<b>>
             z == <<a, b>>
  <2>1. /\ x \in Seq(S) /\ Len(x) = 1 /\ x[1] = a
        /\ y \in Seq(S) /\ Len(y) = 1 /\ y[1] = b
        /\ z \in Seq(S) /\ Len(z) = 2 /\ z[1] = a /\ z[2] = b
    BY <1>1, <1>2
  <2> HIDE DEF x, y, z
  <2>2. /\ x \o y \in Seq(S) /\ Len(x \o y) = 2
        /\ (x \o y)[1] = a /\ (x \o y)[2] = b
    BY <2>1, ConcatProperties
  <2>3. x \o y = z
    BY <2>1, <2>2, SeqEqual
  <2>4. QED BY <2>3 DEF x, y, z
<1>5. QED BY <1>1, <1>2, <1>3, <1>4

-----------------------------------------------------------------------------
(* Updaters: what one does to the messages *)

\* A change of an answer leaves each message's id and side.
LEMMA TextIs ==
  ASSUME NEW m \in Message
  PROVE  LET n == [m EXCEPT !.text = TRUE] IN n \in Message /\ n.id = m.id /\ n.asks = m.asks
BY DEF Message

LEMMA LiveIs ==
  ASSUME NEW m \in Message
  PROVE  LET n == [m EXCEPT !.live = FALSE] IN n \in Message /\ n.id = m.id /\ n.asks = m.asks
BY DEF Message

\* Messages of the same ids and sides are answered alike.
LEMMA SameSides ==
  ASSUME NEW a \in SUBSET Message, NEW b \in SUBSET Message, Answers(a),
         \A n \in b : \E m \in a : m.id = n.id /\ m.asks = n.asks,
         \A m \in a : \E p \in b : p.id = m.id /\ p.asks = m.asks
  PROVE  Answers(b)
<1> SUFFICES ASSUME NEW n \in b, ~n.asks PROVE Asked(b, n.id)
  BY DEF Answers
<1>1. PICK m \in a : m.id = n.id /\ m.asks = n.asks
  OBVIOUS
<1>2. PICK o \in a : o.asks /\ o.id = m.id
  BY <1>1 DEF Answers, Asked
<1>3. PICK p \in b : p.id = o.id /\ p.asks = o.asks
  OBVIOUS
<1>4. QED BY <1>1, <1>2, <1>3 DEF Asked

\* The two changes of an answer, spelled out.
Reworded(msgs, k, u) ==
  {IF m.id = k /\ ~m.asks
     THEN IF u.op = "delta" THEN [m EXCEPT !.text = TRUE] ELSE [m EXCEPT !.live = FALSE]
     ELSE m : m \in msgs}

LEMMA RewordedKeeps ==
  ASSUME NEW msgs \in SUBSET Message, NEW u, NEW k
  PROVE  /\ Reworded(msgs, k, u) \in SUBSET Message
         /\ Answers(msgs) => Answers(Reworded(msgs, k, u))
<1> DEFINE F(m) == IF m.id = k /\ ~m.asks
                     THEN IF u.op = "delta" THEN [m EXCEPT !.text = TRUE] ELSE [m EXCEPT !.live = FALSE]
                     ELSE m
           b == {F(m) : m \in msgs}
<1>1. ASSUME NEW m \in msgs PROVE F(m) \in Message /\ F(m).id = m.id /\ F(m).asks = m.asks
  BY TextIs, LiveIs
<1>2. Reworded(msgs, k, u) = b
  BY DEF Reworded
<1> HIDE DEF F
<1>3. b \in SUBSET Message
  BY <1>1
<1>4. /\ \A n \in b : \E m \in msgs : m.id = n.id /\ m.asks = n.asks
      /\ \A m \in msgs : \E n \in b : n.id = m.id /\ n.asks = m.asks
  BY <1>1
<1> HIDE DEF b
<1>5. QED BY <1>2, <1>3, <1>4, SameSides

\* What an updater does, by its kind.
LEMMA AppliedIs ==
  ASSUME NEW msgs \in SUBSET Message, NEW u \in Update
  PROVE  /\ u.op = "ask" => Applied(msgs, u) =
              msgs \cup {[id |-> u.id, asks |-> TRUE, text |-> TRUE, live |-> FALSE]}
         /\ u.op = "start" => Applied(msgs, u) =
              msgs \cup {[id |-> u.id, asks |-> FALSE, text |-> FALSE, live |-> TRUE]}
         /\ u.op \in {"delta", "end"} => Applied(msgs, u) = Reworded(msgs, u.id, u)
         /\ u.op = "clear" => Applied(msgs, u) = {}
         /\ u.op = "set" => Applied(msgs, u) = u.val
<1>1. CASE u.op = "ask"
  BY <1>1 DEF Applied
<1>2. CASE u.op = "start"
  BY <1>2 DEF Applied
<1>3. CASE u.op = "delta"
  <2>1. Applied(msgs, u) = OfAnswer(msgs, u.id, LAMBDA m : [m EXCEPT !.text = TRUE])
    BY <1>3 DEF Applied
  <2>2. OfAnswer(msgs, u.id, LAMBDA m : [m EXCEPT !.text = TRUE]) = Reworded(msgs, u.id, u)
    BY <1>3 DEF OfAnswer, Reworded
  <2>3. QED BY <1>3, <2>1, <2>2
<1>4. CASE u.op = "end"
  <2>1. Applied(msgs, u) = OfAnswer(msgs, u.id, LAMBDA m : [m EXCEPT !.live = FALSE])
    BY <1>4 DEF Applied
  <2>2. OfAnswer(msgs, u.id, LAMBDA m : [m EXCEPT !.live = FALSE]) = Reworded(msgs, u.id, u)
    BY <1>4 DEF OfAnswer, Reworded
  <2>3. QED BY <1>4, <2>1, <2>2
<1>5. CASE u.op = "clear"
  BY <1>5 DEF Applied
<1>6. CASE u.op = "set"
  BY <1>6 DEF Applied
<1>7. QED BY <1>1, <1>2, <1>3, <1>4, <1>5, <1>6, UpdateFields

\* A new message.
LEMMA MessageIs ==
  ASSUME NEW k \in 1 .. MaxSends, NEW a \in BOOLEAN, NEW t \in BOOLEAN, NEW l \in BOOLEAN
  PROVE  LET m == [id |-> k, asks |-> a, text |-> t, live |-> l] IN
         m \in Message /\ m.id = k /\ m.asks = a
BY DEF Message

LEMMA AddedKeeps ==
  ASSUME NEW msgs \in SUBSET Message, NEW n \in Message, n.asks \/ Asked(msgs, n.id), Answers(msgs)
  PROVE  Answers(msgs \cup {n})
BY DEF Answers, Asked

LEMMA AppliedKeeps ==
  ASSUME NEW msgs \in SUBSET Message, NEW u \in Update, u.op \in {"ask", "start"} => u.id # 0
  PROVE  /\ Applied(msgs, u) \in SUBSET Message
         /\ Answers(msgs) /\ (u.op = "start" => Asked(msgs, u.id)) /\ u.op # "set"
              => Answers(Applied(msgs, u))
         /\ u.op = "ask" => Asked(Applied(msgs, u), u.id)
<1>0. u.op # "set" => u.id \in 0 .. MaxSends
  BY UpdateFields
<1>1. CASE u.op = "ask"
  <2> DEFINE n == [id |-> u.id, asks |-> TRUE, text |-> TRUE, live |-> FALSE]
  <2>1. u.id \in 1 .. MaxSends
    BY <1>0, <1>1
  <2>2. n \in Message /\ n.id = u.id /\ n.asks
    BY <2>1, MessageIs
  <2>3. Applied(msgs, u) = msgs \cup {n}
    BY <1>1, AppliedIs
  <2> HIDE DEF n
  <2>4. Asked(msgs \cup {n}, u.id)
    BY <2>2 DEF Asked
  <2>5. QED BY <1>1, <2>2, <2>3, <2>4, AddedKeeps
<1>2. CASE u.op = "start"
  <2> DEFINE n == [id |-> u.id, asks |-> FALSE, text |-> FALSE, live |-> TRUE]
  <2>1. u.id \in 1 .. MaxSends
    BY <1>0, <1>2
  <2>2. n \in Message /\ n.id = u.id /\ ~n.asks
    BY <2>1, MessageIs
  <2>3. Applied(msgs, u) = msgs \cup {n}
    BY <1>2, AppliedIs
  <2> HIDE DEF n
  <2>4. Answers(msgs) /\ Asked(msgs, u.id) => Answers(msgs \cup {n})
    BY <2>2, AddedKeeps
  <2>5. QED BY <1>2, <2>2, <2>3, <2>4
<1>3. CASE u.op \in {"delta", "end"}
  BY <1>3, AppliedIs, RewordedKeeps
<1>4. CASE u.op = "clear"
  BY <1>4, AppliedIs DEF Answers
<1>5. CASE u.op = "set"
  BY <1>5, AppliedIs, UpdateFields
<1>6. QED BY <1>1, <1>2, <1>3, <1>4, <1>5, UpdateFields

-----------------------------------------------------------------------------
(* Queues: what rendering makes of them, and how an updater gets into one *)

LEMMA UpdaterIs ==
  ASSUME NEW acc, NEW u
  PROVE  /\ Step(acc, u).msgs = Applied(acc.msgs, u)
         /\ u.op = "set" => Step(acc, u).wrote = acc.wrote
         /\ u.op # "set" => Step(acc, u).wrote = <<Applied(acc.msgs, u)>>
BY DEF Step

\* A queue that fits leaves sound messages: what is stored, or what is stored next.
LEMMA QueueWorks ==
  ASSUME NEW use \in Use, use.queue # <<>>, NEW copy \in SUBSET Message, Answers(copy),
         UseFits(use, copy), NEW after,
         after = Folded([msgs |-> use.shown, wrote |-> <<>>], use.queue)
  PROVE  /\ after.msgs \in SUBSET Message /\ Answers(after.msgs)
         /\ (after.wrote = <<>> /\ after.msgs = copy) \/ after.wrote = <<after.msgs>>
<1> DEFINE q == use.queue
           n == Len(q)
           from == [msgs |-> use.shown, wrote |-> <<>>]
           Works(a) == /\ a.msgs \in SUBSET Message /\ Answers(a.msgs)
                       /\ (a.wrote = <<>> /\ a.msgs = copy) \/ a.wrote = <<a.msgs>>
           Ready(a, k) == k = 1 /\ 2 \in 1 .. n /\ q[2].op = "start" => Asked(a.msgs, q[2].id)
<1>1. q \in Seq(Update) /\ n \in Nat \ {0} /\ DOMAIN q = 1 .. n /\ use.shown \in SUBSET Message
  <2>1. q \in Seq(Update) /\ use.shown \in SUBSET Message
    BY UseFields
  <2> HIDE DEF q
  <2>2. QED BY <2>1, EmptySeq DEF q
<1>2. /\ \A k \in 1 .. n : /\ q[k] \in Update
                           /\ q[k].op = "set" => k = 1 /\ q[k].val = copy
                           /\ q[k].op = "ask" => q[k].id # 0
                           /\ q[k].op = "start" => k = 2 /\ q[k].id # 0 /\ Prepares(q[1], q[k].id)
      /\ q[1].op # "set" => use.shown = copy
  <2>1. \A k \in 1 .. n : q[k] \in Update
    BY <1>1
  <2>2. QED BY <1>1, <2>1 DEF UseFits, QueueFits
<1>3. PICK g : /\ Folded(from, q) = g[n] /\ g[0] = from
               /\ \A k \in 1 .. n : g[k] = Step(g[k - 1], q[k])
  <2> HIDE DEF q, n, from
  <2>1. QED BY <1>1, WorkedOff
<1> DEFINE G == {0} \cup {k \in 1 .. n : Works(g[k]) /\ Ready(g[k], k)}
<1>4. 1 \in G
  <2>1. 1 \in 1 .. n /\ 1 - 1 = 0
    BY <1>1
  <2>2. g[1] = Step(from, q[1]) /\ from.msgs = use.shown /\ from.wrote = <<>>
    BY <1>3, <2>1
  <2>3. q[1] \in Update /\ q[1].op # "start" /\ (q[1].op = "ask" => q[1].id # 0)
    BY <1>2, <2>1
  <2>4. CASE q[1].op = "set"
    <3>1. q[1].val = copy /\ Applied(use.shown, q[1]) = copy
      BY <1>1, <1>2, <2>1, <2>3, <2>4, AppliedIs
    <3>2. g[1].msgs = copy /\ g[1].wrote = <<>>
      BY <2>2, <2>4, <3>1, UpdaterIs
    <3>3. ASSUME 2 \in 1 .. n, q[2].op = "start" PROVE Asked(copy, q[2].id)
      BY <1>2, <2>4, <3>1, <3>3 DEF Prepares
    <3>4. Works(g[1]) /\ Ready(g[1], 1)
      BY <3>2, <3>3
    <3>5. QED BY <2>1, <3>4
  <2>5. CASE q[1].op # "set"
    <3> DEFINE now == Applied(copy, q[1])
    <3>1. use.shown = copy
      BY <1>2, <2>5
    <3>2. g[1].msgs = now /\ g[1].wrote = <<now>>
      BY <2>2, <2>5, <3>1, UpdaterIs
    <3>3. now \in SUBSET Message /\ Answers(now)
          /\ (q[1].op = "ask" => Asked(now, q[1].id))
      BY <2>3, <2>5, AppliedKeeps
    <3> HIDE DEF now
    <3>4. ASSUME 2 \in 1 .. n, q[2].op = "start" PROVE Asked(now, q[2].id)
      BY <1>2, <2>5, <3>3, <3>4 DEF Prepares
    <3>5. Works(g[1]) /\ Ready(g[1], 1)
      BY <3>2, <3>3, <3>4
    <3>6. QED BY <2>1, <3>5
  <2>6. QED BY <2>4, <2>5
<1>5. ASSUME NEW k \in 2 .. n, k - 1 \in G PROVE k \in G
  <2>1. k \in 1 .. n /\ k - 1 \in 1 .. n /\ k # 1 /\ (k = 2 => k - 1 = 1)
    BY <1>1
  <2>2. Works(g[k - 1]) /\ Ready(g[k - 1], k - 1)
    BY <1>5, <2>1
  <2> DEFINE msgs == g[k - 1].msgs
             now  == Applied(msgs, q[k])
  <2>3. q[k] \in Update /\ q[k].op # "set" /\ (q[k].op \in {"ask", "start"} => q[k].id # 0)
        /\ (q[k].op = "start" => k = 2)
    BY <1>2, <2>1
  <2>4. msgs \in SUBSET Message /\ Answers(msgs)
    BY <2>2
  <2>5. q[k].op = "start" => Asked(msgs, q[k].id)
    BY <2>1, <2>2, <2>3
  <2>6. g[k].msgs = now /\ g[k].wrote = <<now>>
    BY <1>3, <2>1, <2>3, UpdaterIs
  <2>7. now \in SUBSET Message /\ Answers(now)
    <3> HIDE DEF msgs
    <3>1. QED BY <2>3, <2>4, <2>5, AppliedKeeps
  <2> HIDE DEF now, msgs
  <2>8. Works(g[k]) /\ Ready(g[k], k)
    BY <2>1, <2>6, <2>7
  <2>9. QED BY <2>1, <2>8
<1>6. n \in G
  <2>1. 0 \in G
    OBVIOUS
  <2> HIDE DEF G
  <2>2. ASSUME NEW k \in 1 .. n, k - 1 \in G PROVE k \in G
    <3>1. k = 1 \/ k \in 2 .. n
      BY <1>1
    <3>2. QED BY <1>4, <1>5, <2>2, <3>1
  <2>3. n \in Nat
    BY <1>1
  <2> HIDE DEF n
  <2>4. QED BY <2>1, <2>2, <2>3, CountingUp
<1>7. Works(g[n])
  BY <1>1, <1>6
<1>8. after = g[n]
  BY <1>3
<1>9. QED BY <1>7, <1>8

\* A value behind nothing but a value replaces it.
LEMMA QueuedIs ==
  ASSUME NEW q \in Seq(Update), NEW u \in Update, u.op = "set"
  PROVE  /\ Queued(q, u) \in Seq(Update)
         /\ (\A k \in DOMAIN q : q[k].op = "set" /\ k = 1) => Queued(q, u) = <<u>>
<1>1. Append(q, u) \in Seq(Update) /\ <<u>> \in Seq(Update)
  OBVIOUS
<1>2. CASE q = <<>>
  BY <1>1, <1>2 DEF Queued
<1>3. CASE q # <<>>
  <2>1. Len(q) \in Nat \ {0} /\ DOMAIN q = 1 .. Len(q)
    BY <1>3, EmptySeq
  <2>2. Front(q) \in Seq(Update)
    BY <2>1 DEF Front
  <2>3. Front(q) \o <<u>> \in Seq(Update)
    BY <1>1, <2>2
  <2>4. Queued(q, u) \in Seq(Update)
    BY <1>1, <2>3 DEF Queued
  <2>5. ASSUME \A k \in DOMAIN q : q[k].op = "set" /\ k = 1 PROVE Queued(q, u) = <<u>>
    <3>1. Len(q) = 1 /\ q[1].op = "set"
      BY <2>1, <2>5
    <3>2. Front(q) = <<>> /\ Last(q).op = "set"
      BY <3>1 DEF Front, Last
    <3>3. <<>> \o <<u>> = <<u>>
      OBVIOUS
    <3>4. QED BY <1>3, <3>2, <3>3 DEF Queued
  <2>6. QED BY <2>4, <2>5
<1>4. QED BY <1>2, <1>3

\* The others read what was stored, and nothing else changes.
LEMMA ToldIs ==
  ASSUME NEW us \in [Uses -> Use], NEW i \in Uses, NEW msgs \in SUBSET Message
  PROVE  /\ Told(us, i, msgs) \in [Uses -> Use]
         /\ Told(us, i, msgs)[i] = us[i]
         /\ \A j \in Uses : LET v == Told(us, i, msgs)[j] IN
              /\ v.up = us[j].up /\ v.shown = us[j].shown /\ v.busy = us[j].busy
              /\ j # i /\ us[j].up = "mounted" => v.queue = Queued(us[j].queue, Set(msgs))
<1> DEFINE T == Told(us, i, msgs)
           v(j) == [us[j] EXCEPT !.queue = Queued(us[j].queue, Set(msgs))]
<1>1. T = [j \in Uses |-> IF j # i /\ us[j].up = "mounted" THEN v(j) ELSE us[j]]
  BY DEF Told
<1>2. ASSUME NEW j \in Uses
      PROVE  /\ us[j] \in Use /\ v(j) \in Use
             /\ v(j).up = us[j].up /\ v(j).shown = us[j].shown /\ v(j).busy = us[j].busy
             /\ v(j).queue = Queued(us[j].queue, Set(msgs))
  <2>1. us[j] \in Use /\ us[j].queue \in Seq(Update)
    BY UseFields
  <2>2. Queued(us[j].queue, Set(msgs)) \in Seq(Update)
    BY <2>1, QueuedIs, UpdateFields
  <2> DEFINE q == Queued(us[j].queue, Set(msgs))
  <2>3. v(j) = [us[j] EXCEPT !.queue = q] /\ q \in Seq(Update)
    BY <2>2
  <2> HIDE DEF q, v
  <2>4. /\ v(j) \in Use /\ v(j).queue = q
        /\ v(j).up = us[j].up /\ v(j).shown = us[j].shown /\ v(j).busy = us[j].busy
    BY <2>1, <2>3, QueueIs
  <2>5. QED BY <2>1, <2>4 DEF q
<1> HIDE DEF T, v
<1>3. T \in [Uses -> Use]
  BY <1>1, <1>2
<1>4. T[i] = us[i]
  BY <1>1
<1>5. ASSUME NEW j \in Uses
      PROVE  /\ T[j].up = us[j].up /\ T[j].shown = us[j].shown /\ T[j].busy = us[j].busy
             /\ j # i /\ us[j].up = "mounted" => T[j].queue = Queued(us[j].queue, Set(msgs))
  BY <1>1, <1>2
<1>6. QED BY <1>3, <1>4, <1>5 DEF T

\* A use that has just been told fits.
LEMMA ToldFits ==
  ASSUME NEW v, NEW msgs \in SUBSET Message, v.queue = <<Set(msgs)>>
  PROVE  UseFits(v, msgs)
<1>1. DOMAIN v.queue = {1} /\ v.queue[1] = Set(msgs) /\ v.queue # <<>>
  OBVIOUS
<1>2. Set(msgs).op = "set" /\ Set(msgs).val = msgs
  BY UpdateFields
<1>3. QED BY <1>1, <1>2 DEF UseFits, QueueFits

\* If nobody has an updater waiting that `i' would get behind, all who are told fit.
LEMMA OthersFit ==
  ASSUME NEW us \in [Uses -> Use], NEW vs, NEW i \in Uses, NEW copy, NEW msgs \in SUBSET Message,
         NEW j \in Uses, j # i, us[j].up = "mounted", UseFits(us[j], copy),
         ~ \E k \in DOMAIN us[j].queue : us[j].queue[k].op # "set",
         vs = Told(us, i, msgs)
  PROVE  UseFits(vs[j], msgs)
<1>1. us[j].queue \in Seq(Update)
  BY UseFields
<1>2. \A k \in DOMAIN us[j].queue : us[j].queue[k].op = "set" /\ k = 1
  BY DEF UseFits, QueueFits
<1>3. vs[j].queue = Queued(us[j].queue, Set(msgs))
  BY ToldIs
<1>4. Queued(us[j].queue, Set(msgs)) = <<Set(msgs)>>
  BY <1>1, <1>2, QueuedIs, UpdateFields
<1>5. QED BY <1>3, <1>4, ToldFits


-----------------------------------------------------------------------------
(* The updates of a use: run at once, or queued *)

\* The updaters of sendMessage, which finds nothing queued, and those of the others.
Puts(ups, q) ==
  \/ \E u \in Update : ups = <<u>> /\ u.op \in {"delta", "end", "clear"}
  \/ /\ q = <<>>
     /\ \E k \in 1 .. MaxSends : ups = <<[op |-> "ask", id |-> k], [op |-> "start", id |-> k]>>

\* An updater, and the start of an answer behind the question.
OneOrTwo(ups, q) ==
  /\ ups \in Seq(Update) /\ ups # <<>> /\ ups[1] \in Update
  /\ ups[1].op \in {"ask", "delta", "end", "clear"} /\ (ups[1].op = "ask" => ups[1].id # 0)
  /\ \/ ups = <<ups[1]>> /\ ups[1].op # "ask" /\ Tail(ups) = <<>>
     \/ /\ q = <<>> /\ ups = <<ups[1], ups[2]>> /\ Tail(ups) = <<ups[2]>>
        /\ ups[2] \in Update /\ ups[2].op = "start"
        /\ ups[1].op = "ask" /\ ups[2].id = ups[1].id

LEMMA PutsAre == ASSUME NEW ups, NEW q, Puts(ups, q) PROVE OneOrTwo(ups, q)
<1>1. CASE \E u \in Update : ups = <<u>> /\ u.op \in {"delta", "end", "clear"}
  <2>1. PICK u \in Update : ups = <<u>> /\ u.op \in {"delta", "end", "clear"}
    BY <1>1
  <2>2. ups[1] = u /\ ups \in Seq(Update) /\ Tail(ups) = <<>> /\ ups # <<>>
    BY <2>1
  <2>3. QED BY <2>1, <2>2 DEF OneOrTwo
<1>2. CASE /\ q = <<>>
           /\ \E k \in 1 .. MaxSends : ups = <<[op |-> "ask", id |-> k], [op |-> "start", id |-> k]>>
  <2>1. PICK k \in 1 .. MaxSends : ups = <<[op |-> "ask", id |-> k], [op |-> "start", id |-> k]>>
    BY <1>2
  <2> DEFINE a == [op |-> "ask", id |-> k]
             b == [op |-> "start", id |-> k]
  <2>2. a \in Update /\ b \in Update /\ a.op = "ask" /\ b.op = "start" /\ a.id = k /\ b.id = k /\ k # 0
    <3>1. k \in 0 .. MaxSends /\ k # 0
      OBVIOUS
    <3>2. a \in Update /\ a.op = "ask" /\ a.id = k
      BY <3>1, UpdateIs
    <3>3. b \in Update /\ b.op = "start" /\ b.id = k
      BY <3>1, UpdateIs
    <3>4. QED BY <3>1, <3>2, <3>3
  <2>3. ups = <<a, b>>
    BY <2>1
  <2> HIDE DEF a, b
  <2>4. ups[1] = a /\ ups[2] = b /\ ups \in Seq(Update) /\ ups # <<>> /\ Tail(ups) = <<b>>
    BY <2>2, <2>3
  <2>5. QED BY <1>2, <2>2, <2>3, <2>4 DEF OneOrTwo
<1>3. QED BY <1>1, <1>2 DEF Puts

\* What is queued behind a queue that fits, fits.
LEMMA LateFits ==
  ASSUME NEW use \in Use, NEW copy, UseFits(use, copy), NEW ups, OneOrTwo(ups, use.queue),
         NEW v, v.queue = use.queue \o ups, v.shown = use.shown
  PROVE  UseFits(v, copy)
<1> DEFINE q == use.queue
           n == Len(q)
<1>1. q \in Seq(Update) /\ ups \in Seq(Update) /\ ups # <<>>
  BY UseFields DEF OneOrTwo
<1>2. n \in Nat /\ DOMAIN q = 1 .. n /\ Len(ups) \in Nat \ {0} /\ DOMAIN ups = 1 .. Len(ups)
  <2> HIDE DEF q
  <2>1. QED BY <1>1, EmptySeq DEF n
<1>3. /\ q \o ups \in Seq(Update) /\ DOMAIN (q \o ups) = 1 .. n + Len(ups)
      /\ \A k \in 1 .. n + Len(ups) : (q \o ups)[k] = IF k <= n THEN q[k] ELSE ups[k - n]
  <2> HIDE DEF q
  <2>1. QED BY <1>1, <1>2 DEF n
<1>4. CASE q = <<>>
  <2>1. q \o ups = ups /\ use.shown = copy
    BY <1>1, <1>4 DEF UseFits
  <2>2. QueueFits(ups, copy)
    <3>1. CASE ups = <<ups[1]>> /\ ups[1].op # "ask"
      <4>1. DOMAIN ups = {1}
        BY <3>1
      <4>2. QED BY <3>1, <4>1 DEF QueueFits, OneOrTwo
    <3>2. CASE /\ ups = <<ups[1], ups[2]>> /\ ups[2].op = "start"
               /\ ups[1].op = "ask" /\ ups[2].id = ups[1].id
      <4>1. DOMAIN ups = {1, 2}
        BY <3>2
      <4>2. ups[1].id # 0
        BY <3>2 DEF OneOrTwo
      <4>3. QED BY <3>2, <4>1, <4>2 DEF QueueFits, Prepares
    <3>3. QED BY <3>1, <3>2 DEF OneOrTwo
  <2>3. QED BY <2>1, <2>2 DEF UseFits
<1>5. CASE q # <<>>
  <2>1. n \in Nat \ {0} /\ ups = <<ups[1]>> /\ ups[1].op \in {"delta", "end", "clear"}
    <3>1. n # 0
      <4> HIDE DEF q
      <4>1. QED BY <1>1, <1>5, EmptySeq DEF n
    <3>2. QED BY <1>2, <1>5, <3>1 DEF OneOrTwo
  <2>2. Len(ups) = 1
    BY <2>1
  <2>3. ASSUME NEW k \in 1 .. n + 1
        PROVE  \/ k \in 1 .. n /\ (q \o ups)[k] = q[k]
               \/ k = n + 1 /\ (q \o ups)[k] = ups[1]
    <3>1. (q \o ups)[k] = IF k <= n THEN q[k] ELSE ups[k - n]
      BY <1>3, <2>2
    <3> HIDE DEF q, n
    <3>2. QED BY <1>2, <3>1
  <2>4. (q \o ups)[1] = q[1] /\ 1 \in 1 .. n /\ q \o ups # <<>>
    BY <1>3, <2>1, <2>2
  <2>5. QueueFits(q, copy) /\ (q[1].op # "set" => use.shown = copy)
    BY <1>5 DEF UseFits
  <2> DEFINE r == q \o ups
  <2>6. DOMAIN r = 1 .. n + 1
    BY <1>3, <2>2
  <2> HIDE DEF r
  <2>7. ASSUME NEW k \in DOMAIN r
        PROVE  /\ r[k].op = "set" => k = 1 /\ r[k].val = copy
               /\ r[k].op = "ask" => r[k].id # 0
               /\ r[k].op = "start" => k = 2 /\ r[k].id # 0 /\ Prepares(r[1], r[k].id)
    <3>1. CASE k \in 1 .. n /\ r[k] = q[k]
      BY <1>2, <2>4, <2>5, <3>1 DEF QueueFits, r
    <3>2. CASE r[k] = ups[1]
      BY <2>1, <3>2
    <3>3. QED BY <2>3, <2>6, <3>1, <3>2 DEF r
  <2>8. v.queue = r /\ r[1] = q[1] /\ r # <<>>
    BY <2>4 DEF r
  <2>9. QueueFits(r, copy)
    BY <2>7 DEF QueueFits
  <2>10. r[1].op # "set" => v.shown = copy
    BY <2>5, <2>8
  <2>11. QED BY <2>8, <2>9, <2>10 DEF UseFits
<1>6. QED BY <1>4, <1>5

\* What the first updater makes is stored and put in its place.
LEMMA NowFits ==
  ASSUME NEW msgs \in SUBSET Message, NEW ups, OneOrTwo(ups, <<>>), NEW now,
         now = Applied(msgs, ups[1]), NEW q, q = <<Set(now)>> \o Tail(ups)
  PROVE  /\ now \in SUBSET Message /\ (Answers(msgs) => Answers(now))
         /\ q \in Seq(Update) /\ QueueFits(q, now) /\ q # <<>> /\ q[1].op = "set"
<1>1. ups[1] \in Update /\ (ups[1].op \in {"ask", "start"} => ups[1].id # 0)
      /\ ups[1].op # "start" /\ ups[1].op # "set"
  BY DEF OneOrTwo
<1>2. now \in SUBSET Message /\ (Answers(msgs) => Answers(now))
      /\ (ups[1].op = "ask" => Asked(now, ups[1].id))
  BY <1>1, AppliedKeeps
<1>3. Set(now) \in Update /\ Set(now).op = "set" /\ Set(now).val = now
  BY <1>2, UpdateFields
<1>4. CASE Tail(ups) = <<>>
  <2> DEFINE a == Set(now)
  <2>0. q = <<a>> \o <<>> /\ a \in Update
    BY <1>3, <1>4
  <2>1. q = <<Set(now)>> /\ q \in Seq(Update)
    <3> HIDE DEF a
    <3>1. q = <<a>> /\ q \in Seq(Update)
      BY <2>0, ShortQueues
    <3>2. QED BY <3>1 DEF a
  <2>2. q \in Seq(Update)
    BY <2>1
  <2>3. DOMAIN q = {1} /\ q[1] = Set(now) /\ q # <<>>
    BY <2>1
  <2>4. QED BY <1>2, <1>3, <2>2, <2>3 DEF QueueFits
<1>5. CASE /\ Tail(ups) = <<ups[2]>> /\ ups[2] \in Update /\ ups[2].op = "start"
           /\ ups[1].op = "ask" /\ ups[2].id = ups[1].id
  <2> DEFINE a == Set(now)
             b == ups[2]
  <2>0. a \in Update /\ b \in Update
    BY <1>3, <1>5
  <2>1. q = <<a, b>>
    <3>1. q = <<a>> \o <<b>>
      BY <1>5
    <3> HIDE DEF a, b
    <3>2. <<a>> \o <<b>> = <<a, b>>
      BY <2>0, ShortQueues
    <3>3. QED BY <3>1, <3>2
  <2>2. q \in Seq(Update) /\ DOMAIN q = {1, 2}
        /\ q[1] = Set(now) /\ q[2] = ups[2] /\ q # <<>>
    <3> HIDE DEF a, b
    <3> DEFINE r == q
    <3>1. r = <<a, b>> /\ r \in Seq(Update)
      BY <2>0, <2>1, ShortQueues
    <3> HIDE DEF r
    <3>2. DOMAIN r = {1, 2} /\ r[1] = a /\ r[2] = b /\ r # <<>>
      BY ONLY <3>1
    <3>3. QED BY <3>1, <3>2 DEF a, b, r
  <2>3. Prepares(Set(now), ups[2].id) /\ ups[2].id # 0
    BY <1>1, <1>2, <1>3, <1>5 DEF Prepares
  <2>4. QueueFits(q, now)
    BY <1>3, <1>5, <2>2, <2>3 DEF QueueFits
  <2>5. QED BY <1>2, <1>3, <2>2, <2>4
<1>6. QED BY <1>4, <1>5 DEF OneOrTwo

LEMMA UpdatesKeep ==
  ASSUME ChatTypes, ~chatCrossed, Answers(chatCopy),
         \A j \in Uses : uses[j].up = "mounted" => UseFits(uses[j], chatCopy),
         NEW i \in Uses, uses[i].up # "not yet", NEW ups, Puts(ups, uses[i].queue),
         NEW waits \in BOOLEAN, Updates(i, ups, waits)
  PROVE  /\ chatCopy' \in SUBSET Message /\ chatCrossed' \in BOOLEAN /\ uses' \in [Uses -> Use]
         /\ uses'[i].busy = waits
         /\ \A j \in Uses : uses'[j].up = uses[j].up /\ (j # i => uses'[j].busy = uses[j].busy)
         /\ ~chatCrossed' => /\ Answers(chatCopy')
                             /\ \A j \in Uses : uses'[j].up = "mounted" => UseFits(uses'[j], chatCopy')
<1>0. uses[i] \in Use
  BY DEF ChatTypes
<1>. PICK use \in Use : use = uses[i]
  BY <1>0
<1> DEFINE now == Applied(use.shown, ups[1])
           put(q) == [[use EXCEPT !.queue = q] EXCEPT !.busy = waits]
<1>1. /\ uses \in [Uses -> Use] /\ use \in Use /\ use.shown \in SUBSET Message
      /\ use.queue \in Seq(Update) /\ chatCopy \in SUBSET Message /\ chatCrossed \in BOOLEAN
      /\ use.up \in {"mounted", "left"} /\ uses[i] = use
  BY UseFields DEF ChatTypes
<1>2. OneOrTwo(ups, use.queue) /\ ups \in Seq(Update)
  BY PutsAre DEF OneOrTwo
<1>3. ASSUME NEW q \in Seq(Update)
      PROVE  /\ put(q) \in Use /\ put(q).up = use.up /\ put(q).shown = use.shown
             /\ put(q).queue = q /\ put(q).busy = waits
  <2>1. PICK w : w = [use EXCEPT !.queue = q]
    OBVIOUS
  <2>2. w \in Use /\ w.up = use.up /\ w.shown = use.shown /\ w.queue = q
    BY <2>1 DEF Use
  <2>3. put(q) = [w EXCEPT !.busy = waits]
    BY <2>1
  <2> HIDE DEF put
  <2>4. QED BY <2>2, <2>3 DEF Use
<1>4. CASE /\ use.queue = <<>> /\ chatCopy' = now
           /\ uses' = Told([uses EXCEPT ![i].queue = <<Set(now)>> \o Tail(ups), ![i].busy = waits],
                           i, now)
           /\ chatCrossed' = (chatCrossed \/ Behind(uses, i) \/ use.up = "left")
  <2> DEFINE q  == <<Set(now)>> \o Tail(ups)
             us == [uses EXCEPT ![i] = put(q)]
  <2>1. now \in SUBSET Message /\ (Answers(use.shown) => Answers(now)) /\ q \in Seq(Update)
    <3>1. use.shown \in SUBSET Message /\ OneOrTwo(ups, <<>>)
      BY <1>1, <1>2, <1>4
    <3> HIDE DEF now
    <3>2. now = Applied(use.shown, ups[1]) /\ q = <<Set(now)>> \o Tail(ups)
      BY DEF now
    <3> HIDE DEF q
    <3>3. q \in Seq(Update)
      BY ONLY <3>1, <3>2, NowFits
    <3>4. now \in SUBSET Message
      <4>1. ups[1] \in Update /\ (ups[1].op \in {"ask", "start"} => ups[1].id # 0)
        BY <3>1 DEF OneOrTwo
      <4>2. Applied(use.shown, ups[1]) \in SUBSET Message
        BY ONLY <3>1, <4>1, AppliedKeeps
      <4>3. QED BY <3>2, <4>2
    <3>5. Answers(use.shown) => Answers(now)
      BY ONLY <3>1, <3>2, NowFits
    <3>6. QED BY <3>3, <3>4, <3>5
  <2>2. uses' = Told(us, i, now)
    BY <1>4
  <2>3. put(q) \in Use /\ put(q).up = use.up /\ put(q).queue = q /\ put(q).busy = waits
    BY <1>3, <2>1
  <2> HIDE DEF put
  <2>4. us \in [Uses -> Use] /\ us[i] = put(q) /\ \A j \in Uses : j # i => us[j] = uses[j]
    BY <1>1, <2>3
  <2> HIDE DEF us
  <2>5. /\ uses' \in [Uses -> Use] /\ uses'[i] = put(q)
        /\ \A j \in Uses : uses'[j].up = us[j].up /\ uses'[j].busy = us[j].busy
    <3> HIDE DEF now, q
    <3>1. QED BY <2>1, <2>2, <2>4, ToldIs
  <2>6. UseFits(put(q), now)
    <3>1. use.shown \in SUBSET Message /\ OneOrTwo(ups, <<>>)
      BY <1>1, <1>2, <1>4
    <3> HIDE DEF now
    <3>2. now = Applied(use.shown, ups[1]) /\ q = <<Set(now)>> \o Tail(ups)
      BY DEF now
    <3> HIDE DEF q
    <3>3. QueueFits(q, now) /\ q # <<>> /\ q[1].op = "set"
      BY ONLY <3>1, <3>2, NowFits
    <3>4. QED BY <2>3, <3>3 DEF UseFits
  <2>7. \A j \in Uses : uses'[j].up = uses[j].up /\ (j # i => uses'[j].busy = uses[j].busy)
    BY <2>3, <2>4, <2>5
  <2>8. ASSUME ~chatCrossed'
        PROVE  /\ Answers(chatCopy')
               /\ \A j \in Uses : uses'[j].up = "mounted" => UseFits(uses'[j], chatCopy')
    <3>1. use.up = "mounted" /\ ~Behind(uses, i)
      BY <1>1, <1>4, <2>8
    <3>2. use.shown = chatCopy
      BY <1>4, <3>1 DEF UseFits
    <3>3. ASSUME NEW j \in Uses, j # i, uses[j].up = "mounted" PROVE UseFits(uses'[j], now)
      <4>1. us[j] = uses[j] /\ UseFits(us[j], chatCopy)
            /\ ~ \E k \in DOMAIN us[j].queue : us[j].queue[k].op # "set"
        BY <2>4, <3>1, <3>3 DEF Behind
      <4>2. us[j].up = "mounted"
        BY <3>3, <4>1
      <4> HIDE DEF now
      <4>3. QED BY <2>1, <2>2, <2>4, <3>3, <4>1, <4>2, OthersFit
    <3>4. Answers(now)
      BY <2>1, <3>2
    <3>5. chatCopy' = now
      BY <1>4
    <3> HIDE DEF now
    <3>6. QED BY <2>5, <2>6, <2>7, <3>3, <3>4, <3>5
  <2>9. chatCopy' = now /\ chatCrossed' \in BOOLEAN /\ uses'[i].busy = waits
    <3>1. chatCrossed' \in BOOLEAN
      BY <1>4
    <3>2. QED BY <1>4, <2>3, <2>5, <3>1
  <2>10. QED BY <2>1, <2>5, <2>7, <2>8, <2>9
<1>5. ASSUME NEW q, q = IF use.up = "left" /\ use.queue # <<>> THEN use.queue ELSE use.queue \o ups,
             uses' = [uses EXCEPT ![i].queue = q, ![i].busy = waits],
             UNCHANGED <<chatCopy, chatCrossed>>
      PROVE  /\ chatCopy' \in SUBSET Message /\ chatCrossed' \in BOOLEAN /\ uses' \in [Uses -> Use]
             /\ uses'[i].busy = waits
             /\ \A j \in Uses : uses'[j].up = uses[j].up /\ (j # i => uses'[j].busy = uses[j].busy)
             /\ Answers(chatCopy')
             /\ \A j \in Uses : uses'[j].up = "mounted" => UseFits(uses'[j], chatCopy')
  <2>1. use.queue \o ups \in Seq(Update)
    <3> DEFINE r == use.queue
    <3>1. r \in Seq(Update) /\ ups \in Seq(Update)
      BY <1>1, <1>2
    <3> HIDE DEF r
    <3>2. r \o ups \in Seq(Update)
      BY ONLY <3>1, ConcatProperties
    <3>3. QED BY <3>2 DEF r
  <2>2. q \in Seq(Update)
    BY <1>1, <1>5, <2>1
  <2>3. uses' = [uses EXCEPT ![i] = put(q)]
    BY <1>5
  <2>4. /\ put(q) \in Use /\ put(q).up = use.up /\ put(q).shown = use.shown
        /\ put(q).queue = q /\ put(q).busy = waits
    BY <1>3, <2>2
  <2>5. use.up = "mounted" => UseFits(put(q), chatCopy)
    <3>1. SUFFICES ASSUME use.up = "mounted" PROVE UseFits(put(q), chatCopy)
      OBVIOUS
    <3>2. put(q).queue = use.queue \o ups /\ put(q).shown = use.shown /\ UseFits(use, chatCopy)
      BY <1>5, <2>4, <3>1
    <3> HIDE DEF put
    <3>3. QED BY <1>1, <1>2, <3>2, LateFits
  <2> HIDE DEF put
  <2>6. /\ uses' \in [Uses -> Use] /\ uses'[i] = put(q)
        /\ \A j \in Uses : j # i => uses'[j] = uses[j]
    BY <1>1, <2>3, <2>4
  <2>7. ASSUME NEW j \in Uses
        PROVE  /\ uses'[j].up = uses[j].up /\ (j # i => uses'[j].busy = uses[j].busy)
               /\ uses'[j].up = "mounted" => UseFits(uses'[j], chatCopy)
    <3>1. CASE j = i
      BY <2>4, <2>5, <2>6, <3>1
    <3>2. CASE j # i
      BY <2>6, <3>2
    <3>3. QED BY <3>1, <3>2
  <2>8. chatCopy' = chatCopy /\ chatCrossed' \in BOOLEAN
    BY <1>1, <1>5
  <2>9. QED BY <1>1, <2>4, <2>6, <2>7, <2>8
<1>6. \/ /\ use.queue = <<>> /\ chatCopy' = now
         /\ uses' = Told([uses EXCEPT ![i].queue = <<Set(now)>> \o Tail(ups), ![i].busy = waits],
                         i, now)
         /\ chatCrossed' = (chatCrossed \/ Behind(uses, i) \/ use.up = "left")
      \/ /\ uses' = [uses EXCEPT ![i].queue = IF use.up = "left" /\ use.queue # <<>>
                                                THEN use.queue ELSE use.queue \o ups,
                                 ![i].busy = waits]
         /\ UNCHANGED <<chatCopy, chatCrossed>>
  BY DEF Updates
<1>7. QED BY <1>4, <1>5, <1>6


-----------------------------------------------------------------------------
(* The steps of the conversation *)

LEMMA ChatFacts ==
  ASSUME ChatTypes
  PROVE  /\ MaxSends \in Nat
         /\ \A i \in Uses : uses[i] \in Use
         /\ Len(streams) \in 0 .. MaxSends /\ DOMAIN streams = 1 .. Len(streams)
         /\ \A k \in DOMAIN streams :
              /\ streams[k] \in Stream /\ streams[k].by \in Uses
              /\ streams[k].at \in {"open", "fed", "over"}
<1>1. streams \in Seq(Stream) /\ Len(streams) <= MaxSends /\ uses \in [Uses -> Use]
  BY DEF ChatTypes
<1>2. Len(streams) \in Nat /\ DOMAIN streams = 1 .. Len(streams)
      /\ \A k \in 1 .. Len(streams) : streams[k] \in Stream
  BY <1>1
<1>3. ASSUME NEW s \in Stream PROVE s.by \in Uses /\ s.at \in {"open", "fed", "over"}
  BY DEF Stream
<1>4. QED BY <1>1, <1>2, <1>3, ChatAssumption

LEMMA ChatStarts == ChatInit => ChatIInv
<1> SUFFICES ASSUME ChatInit PROVE ChatIInv
  OBVIOUS
<1>1. ASSUME NEW i \in Uses
      PROVE  /\ uses[i] \in Use /\ uses[i].queue = <<>> /\ uses[i].shown = {}
  <2>1. <<>> \in Seq(Update)
    OBVIOUS
  <2>2. QED BY <2>1 DEF ChatInit, Use
<1>2. uses \in [Uses -> Use]
  <2>1. uses = [i \in Uses |-> uses[i]]
    BY DEF ChatInit
  <2>2. QED BY <1>1, <2>1
<1>3. streams = <<>> /\ chatCopy = {} /\ chatCrossed = FALSE
  BY DEF ChatInit
<1>4. streams \in Seq(Stream) /\ Len(streams) = 0 /\ DOMAIN streams = {}
  BY <1>3
<1>5. ChatTypes
  <2>1. Len(streams) <= MaxSends
    BY <1>4, ChatAssumption
  <2>2. chatCopy \subseteq Message /\ chatCrossed \in BOOLEAN
    BY <1>3
  <2>3. QED BY <1>2, <1>4, <2>1, <2>2 DEF ChatTypes
<1>6. ASSUME NEW i \in Uses PROVE UseFits(uses[i], chatCopy)
  <2>1. DOMAIN uses[i].queue = {}
    BY <1>1
  <2>2. QED BY <1>1, <1>3, <2>1 DEF UseFits, QueueFits
<1>7. Answers(chatCopy)
  BY <1>3 DEF Answers
<1>8. QED BY <1>4, <1>5, <1>6, <1>7 DEF ChatIInv, OneOpen

\* What has to be shown of a step: where the answers are, who is busy.
LEMMA StreamsSame ==
  ASSUME ChatIInv, uses' \in [Uses -> Use], UNCHANGED streams,
         \A j \in Uses : /\ uses[j].up # "not yet" => uses'[j].up # "not yet"
                         /\ uses[j].up # "not yet" /\ uses[j].busy => uses'[j].busy
  PROVE  /\ streams' \in Seq(Stream) /\ Len(streams') <= MaxSends
         /\ (\A k \in DOMAIN streams : StreamFits(k))' /\ OneOpen'
<1>1. ChatTypes /\ OneOpen /\ \A k \in DOMAIN streams : StreamFits(k)
  BY DEF ChatIInv
<1>2. streams' \in Seq(Stream) /\ Len(streams') <= MaxSends /\ OneOpen'
  BY <1>1 DEF ChatTypes, OneOpen
<1>3. ASSUME NEW k \in DOMAIN streams
      PROVE  /\ uses'[streams[k].by].up # "not yet"
             /\ streams[k].at # "over" => uses'[streams[k].by].busy
  <2>1. streams[k].by \in Uses
    BY <1>1, ChatFacts
  <2>2. QED BY <1>1, <2>1 DEF StreamFits
<1>4. QED BY <1>2, <1>3 DEF StreamFits

\* sendMessage, while the hook is not loading: no answer is open.
LEMMA SendKeeps == ASSUME ChatIInv, ~chatCrossed, NEW i \in Uses, Send(i) PROVE ChatIInv'
<1> DEFINE n == Len(streams)
           a == [op |-> "ask", id |-> n + 1]
           b == [op |-> "start", id |-> n + 1]
           s == [by |-> i, at |-> "open"]
<1>1. /\ ChatTypes /\ OneOpen /\ (\A k \in DOMAIN streams : StreamFits(k)) /\ Answers(chatCopy)
      /\ \A j \in Uses : uses[j].up = "mounted" => UseFits(uses[j], chatCopy)
  BY DEF ChatIInv
<1>2. /\ uses[i].up = "mounted" /\ uses[i].queue = <<>> /\ ~uses[i].busy /\ n < MaxSends
      /\ Updates(i, <<a, b>>, TRUE) /\ streams' = Append(streams, s)
  BY DEF Send, Clickable
<1>3. /\ n \in Nat /\ DOMAIN streams = 1 .. n /\ n + 1 \in 1 .. MaxSends
      /\ \A k \in 1 .. n : streams[k] \in Stream /\ streams[k].by \in Uses
  BY <1>1, <1>2, ChatFacts
<1>4. Puts(<<a, b>>, uses[i].queue)
  BY <1>2, <1>3 DEF Puts
<1> HIDE DEF a, b
<1>5. /\ chatCopy' \in SUBSET Message /\ chatCrossed' \in BOOLEAN /\ uses' \in [Uses -> Use]
      /\ uses'[i].busy = TRUE
      /\ \A j \in Uses : uses'[j].up = uses[j].up /\ (j # i => uses'[j].busy = uses[j].busy)
      /\ ~chatCrossed' => /\ Answers(chatCopy')
                          /\ \A j \in Uses : uses'[j].up = "mounted" => UseFits(uses'[j], chatCopy')
  BY <1>1, <1>2, <1>4, UpdatesKeep
<1>6. s \in Stream /\ s.by = i /\ s.at = "open"
  BY DEF Stream
<1> HIDE DEF s
<1>7. /\ streams' \in Seq(Stream) /\ Len(streams') = n + 1 /\ DOMAIN streams' = 1 .. n + 1
      /\ \A k \in 1 .. n : streams'[k] = streams[k]
      /\ streams'[n + 1] = s
  <2>1. streams \in Seq(Stream)
    BY <1>1 DEF ChatTypes
  <2>2. QED BY <1>2, <1>6, <2>1, AppendProperties
<1> HIDE DEF n
<1>8. ASSUME NEW k \in 1 .. n
      PROVE  /\ streams[k].by = i => streams[k].at = "over"
             /\ uses'[streams[k].by].up # "not yet"
             /\ streams[k].at # "over" => uses'[streams[k].by].busy
  BY <1>1, <1>2, <1>3, <1>5 DEF StreamFits
<1>9. ASSUME NEW k \in DOMAIN streams' PROVE StreamFits(k)'
  <2>1. k \in 1 .. n \/ k = n + 1
    BY <1>3, <1>7
  <2>2. CASE k \in 1 .. n
    BY <1>7, <1>8, <2>2 DEF StreamFits
  <2>3. CASE k = n + 1
    BY <1>2, <1>5, <1>6, <1>7, <2>3 DEF StreamFits
  <2>4. QED BY <2>1, <2>2, <2>3
<1>10. OneOpen'
  <2>1. SUFFICES ASSUME NEW k \in DOMAIN streams', NEW l \in DOMAIN streams',
                        streams'[k].by = streams'[l].by, streams'[k].at # "over",
                        streams'[l].at # "over"
                 PROVE  k = l
    BY DEF OneOpen
  <2>2. (k \in 1 .. n \/ k = n + 1) /\ (l \in 1 .. n \/ l = n + 1)
    BY <1>3, <1>7
  <2>3. CASE k \in 1 .. n /\ l \in 1 .. n
    BY <1>1, <1>3, <1>7, <2>1, <2>3 DEF OneOpen
  <2>4. CASE k \in 1 .. n /\ l = n + 1
    BY <1>6, <1>7, <1>8, <2>1, <2>4
  <2>5. CASE k = n + 1 /\ l \in 1 .. n
    BY <1>6, <1>7, <1>8, <2>1, <2>5
  <2>6. QED BY <2>2, <2>3, <2>4, <2>5
<1>11. ChatTypes'
  BY <1>3, <1>5, <1>7 DEF ChatTypes
<1>12. QED BY <1>5, <1>9, <1>10, <1>11 DEF ChatIInv

\* An answer that goes on or ends: `streams[k]' moves, its use is busy or not.
LEMMA StreamSteps ==
  ASSUME ChatIInv, ~chatCrossed, NEW k \in DOMAIN streams, Delta(k) \/ StreamEnds(k)
  PROVE  ChatIInv'
<1>1. /\ ChatTypes /\ OneOpen /\ (\A l \in DOMAIN streams : StreamFits(l)) /\ Answers(chatCopy)
      /\ \A j \in Uses : uses[j].up = "mounted" => UseFits(uses[j], chatCopy)
  BY DEF ChatIInv
<1>2. PICK i \in Uses : i = streams[k].by
  BY <1>1, ChatFacts
<1>3. uses[i].up # "not yet" /\ k \in 0 .. MaxSends /\ uses[i].busy \in BOOLEAN
  <2>1. k \in 0 .. MaxSends /\ uses[i] \in Use
    BY <1>1, ChatFacts
  <2>2. QED BY <1>1, <1>2, <2>1, UseFields DEF StreamFits
<1>4. PICK o \in {"delta", "end"}, b \in BOOLEAN, t \in {"fed", "over"} :
        /\ Updates(i, <<[op |-> o, id |-> k]>>, b) /\ streams' = [streams EXCEPT ![k].at = t]
        /\ streams[k].at # "over"
        /\ (t = "fed" => b = uses[i].busy) /\ (t = "over" => b = FALSE)
  <2>1. CASE Delta(k)
    BY <1>2, <1>3, <2>1 DEF Delta
  <2>2. CASE StreamEnds(k)
    BY <1>2, <1>3, <2>2 DEF StreamEnds
  <2>3. QED BY <2>1, <2>2
<1>5. Puts(<<[op |-> o, id |-> k]>>, uses[i].queue)
  <2> DEFINE u == [op |-> o, id |-> k]
  <2>1. u \in Update /\ u.op = o
    <3>1. o \in {"ask", "start", "delta", "end", "clear"}
      OBVIOUS
    <3>2. QED BY <1>3, <3>1 DEF Update
  <2> HIDE DEF u
  <2>2. Puts(<<u>>, uses[i].queue)
    BY <2>1 DEF Puts
  <2>3. QED BY <2>2 DEF u
<1>6. /\ chatCopy' \in SUBSET Message /\ chatCrossed' \in BOOLEAN /\ uses' \in [Uses -> Use]
      /\ uses'[i].busy = b
      /\ \A j \in Uses : uses'[j].up = uses[j].up /\ (j # i => uses'[j].busy = uses[j].busy)
      /\ ~chatCrossed' => /\ Answers(chatCopy')
                          /\ \A j \in Uses : uses'[j].up = "mounted" => UseFits(uses'[j], chatCopy')
  BY <1>1, <1>3, <1>4, <1>5, UpdatesKeep
<1> DEFINE n == Len(streams)
<1>7. streams \in Seq(Stream) /\ n \in 0 .. MaxSends /\ DOMAIN streams = 1 .. n /\ k \in 1 .. n
      /\ streams[k] \in Stream
  BY <1>1, ChatFacts DEF ChatTypes
<1>8. /\ [streams[k] EXCEPT !.at = t] \in Stream /\ [streams[k] EXCEPT !.at = t].at = t
      /\ [streams[k] EXCEPT !.at = t].by = i
  BY <1>2, <1>7 DEF Stream
<1>9. streams' = [streams EXCEPT ![k] = [streams[k] EXCEPT !.at = t]]
  BY <1>4
<1>10. /\ streams' \in Seq(Stream) /\ Len(streams') = n /\ DOMAIN streams' = 1 .. n
       /\ streams'[k].at = t /\ streams'[k].by = i
       /\ \A l \in 1 .. n : l # k => streams'[l] = streams[l]
  <2> DEFINE s == [streams[k] EXCEPT !.at = t]
  <2>1. s \in Stream /\ s.at = t /\ s.by = i /\ streams' = [streams EXCEPT ![k] = s]
    BY <1>8, <1>9
  <2> HIDE DEF s
  <2>2. /\ streams' \in Seq(Stream) /\ Len(streams') = n
        /\ \A l \in 1 .. n : streams'[l] = IF l = k THEN s ELSE streams[l]
    BY <1>7, <2>1, ExceptSeq
  <2>3. DOMAIN streams' = 1 .. n
    BY <1>7, <2>2
  <2>4. QED BY <1>7, <2>1, <2>2, <2>3
<1> HIDE DEF n
<1>11. ASSUME NEW l \in 1 .. n, l # k, streams[l].by = i PROVE streams[l].at = "over"
  BY <1>1, <1>2, <1>4, <1>7, <1>11 DEF OneOpen
<1>12. ASSUME NEW l \in DOMAIN streams' PROVE StreamFits(l)'
  <2>1. l \in 1 .. n /\ StreamFits(l) /\ streams[l].by \in Uses
    BY <1>1, <1>7, <1>10, ChatFacts
  <2>2. CASE l = k
    <3>1. streams'[l].by = i /\ streams'[l].at = t
      BY <1>10, <2>2
    <3>2. streams'[l].at # "over" => uses'[i].busy
      BY <1>1, <1>2, <1>4, <1>6, <3>1 DEF StreamFits
    <3>3. QED BY <1>3, <1>6, <3>1, <3>2 DEF StreamFits
  <2>3. CASE l # k
    <3>1. streams'[l] = streams[l]
      BY <1>10, <2>1, <2>3
    <3>2. streams[l].by = i => streams[l].at = "over"
      BY <1>11, <2>1, <2>3
    <3>3. uses'[streams[l].by].up # "not yet"
      BY <1>6, <2>1 DEF StreamFits
    <3>4. streams[l].at # "over" => uses'[streams[l].by].busy
      BY <1>6, <2>1, <3>2 DEF StreamFits
    <3>5. QED BY <3>1, <3>3, <3>4 DEF StreamFits
  <2>4. QED BY <2>2, <2>3
<1>13. OneOpen'
  <2>1. SUFFICES ASSUME NEW l \in 1 .. n, NEW m \in 1 .. n,
                        streams'[l].by = streams'[m].by, streams'[l].at # "over",
                        streams'[m].at # "over"
                 PROVE  l = m
    BY <1>10 DEF OneOpen
  <2>2. CASE l = k /\ m # k
    BY <1>10, <1>11, <2>1, <2>2
  <2>3. CASE l # k /\ m = k
    BY <1>10, <1>11, <2>1, <2>3
  <2>4. CASE l # k /\ m # k
    BY <1>1, <1>7, <1>10, <2>1, <2>4 DEF OneOpen
  <2>5. QED BY <2>2, <2>3, <2>4
<1>14. ChatTypes'
  BY <1>6, <1>7, <1>10 DEF ChatTypes
<1>15. QED BY <1>6, <1>12, <1>13, <1>14 DEF ChatIInv


LEMMA ClearKeeps == ASSUME ChatIInv, ~chatCrossed, NEW i \in Uses, Clear(i) PROVE ChatIInv'
<1> DEFINE u == [op |-> "clear", id |-> 0]
<1>1. /\ ChatTypes /\ Answers(chatCopy)
      /\ \A j \in Uses : uses[j].up = "mounted" => UseFits(uses[j], chatCopy)
  BY DEF ChatIInv
<1>2. uses[i].up # "not yet" /\ uses[i].busy \in BOOLEAN
  <2>1. uses[i] \in Use
    BY <1>1, ChatFacts
  <2>2. QED BY <2>1, UseFields DEF Clear, Clickable
<1>3. Updates(i, <<u>>, uses[i].busy) /\ UNCHANGED streams
  BY DEF Clear
<1>4. Puts(<<u>>, uses[i].queue)
  <2>1. 0 \in 0 .. MaxSends
    BY ChatAssumption
  <2>2. u \in Update /\ u.op = "clear"
    BY <2>1, UpdateIs
  <2> HIDE DEF u
  <2>3. QED BY <2>2 DEF Puts
<1> HIDE DEF u
<1>5. /\ chatCopy' \in SUBSET Message /\ chatCrossed' \in BOOLEAN /\ uses' \in [Uses -> Use]
      /\ uses'[i].busy = uses[i].busy
      /\ \A j \in Uses : uses'[j].up = uses[j].up /\ (j # i => uses'[j].busy = uses[j].busy)
      /\ ~chatCrossed' => /\ Answers(chatCopy')
                          /\ \A j \in Uses : uses'[j].up = "mounted" => UseFits(uses'[j], chatCopy')
  BY <1>1, <1>2, <1>3, <1>4, UpdatesKeep
<1>6. ASSUME NEW j \in Uses
      PROVE  /\ uses[j].up # "not yet" => uses'[j].up # "not yet"
             /\ uses[j].up # "not yet" /\ uses[j].busy => uses'[j].busy
  BY <1>5
<1>7. /\ streams' \in Seq(Stream) /\ Len(streams') <= MaxSends
      /\ (\A k \in DOMAIN streams : StreamFits(k))' /\ OneOpen'
  BY <1>3, <1>5, <1>6, StreamsSame
<1>8. QED BY <1>5, <1>7 DEF ChatIInv, ChatTypes

\* Rendering: what the queue makes is shown, stored if an updater ran, and told.
LEMMA RendersKeeps == ASSUME ChatIInv, ~chatCrossed, NEW i \in Uses, Renders(i) PROVE ChatIInv'
<1>1. /\ ChatTypes /\ Answers(chatCopy) /\ chatCopy \in SUBSET Message /\ uses \in [Uses -> Use]
      /\ \A j \in Uses : uses[j].up = "mounted" => UseFits(uses[j], chatCopy)
  BY DEF ChatIInv, ChatTypes
<1>2. PICK use \in Use : use = uses[i]
  BY <1>1
<1>3. use.up = "mounted" /\ use.queue # <<>> /\ UseFits(use, chatCopy) /\ UNCHANGED streams
  BY <1>1, <1>2 DEF Renders
<1>4. PICK after : after = Folded([msgs |-> use.shown, wrote |-> <<>>], use.queue)
  OBVIOUS
<1>5. /\ after.msgs \in SUBSET Message /\ Answers(after.msgs)
      /\ (after.wrote = <<>> /\ after.msgs = chatCopy) \/ after.wrote = <<after.msgs>>
  BY <1>1, <1>3, <1>4, QueueWorks
<1> DEFINE v == [[use EXCEPT !.shown = after.msgs] EXCEPT !.queue = <<>>]
           done == [uses EXCEPT ![i] = v]
<1>6. IF after.wrote = <<>>
        THEN uses' = done /\ UNCHANGED <<chatCopy, chatCrossed>>
        ELSE /\ chatCopy' = after.wrote[1] /\ uses' = Told(done, i, after.wrote[1])
             /\ chatCrossed' = (chatCrossed \/ Behind(uses, i))
  BY <1>2, <1>4 DEF Renders, Folded
<1>7. v \in Use /\ v.up = "mounted" /\ v.shown = after.msgs /\ v.queue = <<>> /\ v.busy = use.busy
  <2>1. <<>> \in Seq(Update)
    OBVIOUS
  <2>2. PICK w : w = [use EXCEPT !.shown = after.msgs]
    OBVIOUS
  <2>3. w \in Use /\ w.up = use.up /\ w.shown = after.msgs /\ w.queue = use.queue /\ w.busy = use.busy
    BY <1>5, <2>2 DEF Use
  <2>4. v = [w EXCEPT !.queue = <<>>]
    BY <2>2
  <2>5. QED BY <1>3, <2>1, <2>3, <2>4 DEF Use
<1> HIDE DEF v
<1>8. done \in [Uses -> Use] /\ done[i] = v /\ \A j \in Uses : j # i => done[j] = uses[j]
  BY <1>1, <1>7
<1> HIDE DEF done
<1>9. ASSUME NEW c, c = after.msgs, NEW x, x.queue = <<>>, x.shown = c PROVE UseFits(x, c)
  <2>1. DOMAIN x.queue = {}
    BY <1>9
  <2>2. QED BY <1>9, <2>1 DEF UseFits, QueueFits
<1>10. /\ chatCopy' = after.msgs /\ chatCrossed' \in BOOLEAN /\ uses' \in [Uses -> Use]
       /\ \A j \in Uses : uses'[j].up = uses[j].up /\ uses'[j].busy = uses[j].busy
       /\ ~chatCrossed' => \A j \in Uses : uses'[j].up = "mounted" => UseFits(uses'[j], after.msgs)
  <2>1. CASE after.wrote = <<>>
    <3>1. uses' = done /\ UNCHANGED <<chatCopy, chatCrossed>> /\ after.msgs = chatCopy
      BY <1>5, <1>6, <2>1
    <3>2. UseFits(v, after.msgs)
      BY <1>7, <1>9
    <3>3. ASSUME NEW j \in Uses
          PROVE  /\ uses'[j].up = uses[j].up /\ uses'[j].busy = uses[j].busy
                 /\ uses'[j].up = "mounted" => UseFits(uses'[j], after.msgs)
      BY <1>1, <1>2, <1>3, <1>7, <1>8, <3>1, <3>2
    <3>4. QED BY <1>1, <1>8, <3>1, <3>3 DEF ChatTypes
  <2>2. CASE after.wrote # <<>>
    <3>1. /\ chatCopy' = after.msgs /\ uses' = Told(done, i, after.msgs)
          /\ chatCrossed' = (chatCrossed \/ Behind(uses, i))
      <4>1. after.wrote = <<after.msgs>>
        BY <1>5, <2>2
      <4>2. after.wrote[1] = after.msgs
        BY <4>1
      <4>3. QED BY <1>6, <2>2, <4>2
    <3>2. /\ uses' \in [Uses -> Use] /\ uses'[i] = v
          /\ \A j \in Uses : uses'[j].up = done[j].up /\ uses'[j].busy = done[j].busy
      BY <1>5, <1>8, <3>1, ToldIs
    <3>3. \A j \in Uses : uses'[j].up = uses[j].up /\ uses'[j].busy = uses[j].busy
      BY <1>2, <1>3, <1>7, <1>8, <3>2
    <3>4. ASSUME ~chatCrossed', NEW j \in Uses, uses'[j].up = "mounted"
          PROVE  UseFits(uses'[j], after.msgs)
      <4>1. CASE j = i
        BY <1>7, <1>9, <3>2, <4>1
      <4>2. CASE j # i
        <5>1. done[j] = uses[j] /\ done[j].up = "mounted" /\ UseFits(done[j], chatCopy)
          BY <1>1, <1>8, <3>3, <3>4, <4>2
        <5>2. ~ \E k \in DOMAIN done[j].queue : done[j].queue[k].op # "set"
          BY <3>1, <3>4, <4>2, <5>1 DEF Behind
        <5>3. QED BY <1>5, <1>8, <3>1, <4>2, <5>1, <5>2, OthersFit
      <4>3. QED BY <4>1, <4>2
    <3>5. chatCrossed' \in BOOLEAN
      BY <3>1
    <3>6. QED BY <3>1, <3>2, <3>3, <3>4, <3>5
  <2>3. QED BY <2>1, <2>2
<1>11. /\ streams' \in Seq(Stream) /\ Len(streams') <= MaxSends
       /\ (\A k \in DOMAIN streams : StreamFits(k))' /\ OneOpen'
  BY <1>3, <1>10, StreamsSame
<1>12. QED BY <1>5, <1>10, <1>11 DEF ChatIInv, ChatTypes

\* The page comes and goes.
LEMMA PageMoves ==
  ASSUME ChatIInv, ~chatCrossed, NEW i \in Uses, PageOpens(i) \/ PageIsLeft(i)
  PROVE  ChatIInv'
<1>1. /\ ChatTypes /\ Answers(chatCopy) /\ chatCopy \in SUBSET Message /\ uses \in [Uses -> Use]
      /\ \A j \in Uses : uses[j].up = "mounted" => UseFits(uses[j], chatCopy)
  BY DEF ChatIInv, ChatTypes
<1>2. UNCHANGED <<chatCopy, streams, chatCrossed>>
  BY DEF PageOpens, PageIsLeft
<1>3. PICK v \in Use :
        /\ uses' = [uses EXCEPT ![i] = v]
        /\ v.up # "not yet" /\ (uses[i].up # "not yet" => v.busy = uses[i].busy)
        /\ v.up = "mounted" => UseFits(v, chatCopy)
  <2>1. CASE PageOpens(i)
    <3> DEFINE q == <<Set(chatCopy)>>
               v == [up |-> "mounted", shown |-> {}, queue |-> q, busy |-> FALSE]
    <3>1. Set(chatCopy) \in Update
      BY <1>1, UpdateFields
    <3>2. q \in Seq(Update)
      BY <3>1, ShortQueues
    <3>3. uses' = [uses EXCEPT ![i] = v] /\ uses[i].up = "not yet"
      BY <2>1 DEF PageOpens
    <3>4. v \in Use /\ v.up = "mounted" /\ v.queue = q
      <4> HIDE DEF q
      <4>1. QED BY <3>2 DEF Use
    <3>5. UseFits(v, chatCopy)
      <4> HIDE DEF v
      <4>1. QED BY <1>1, <3>4, ToldFits
    <3> HIDE DEF v
    <3>6. QED BY <3>3, <3>4, <3>5
  <2>2. CASE PageIsLeft(i)
    <3> DEFINE v == [uses[i] EXCEPT !.up = "left"]
    <3>1. uses[i] \in Use
      BY <1>1
    <3>2. v \in Use /\ v.up = "left" /\ v.busy = uses[i].busy
      BY <3>1 DEF Use
    <3>3. uses' = [uses EXCEPT ![i] = v]
      BY <2>2 DEF PageIsLeft
    <3> HIDE DEF v
    <3>4. QED BY <3>2, <3>3
  <2>3. QED BY <2>1, <2>2
<1>4. uses' \in [Uses -> Use] /\ uses'[i] = v /\ \A j \in Uses : j # i => uses'[j] = uses[j]
  BY <1>1, <1>3
<1>5. ASSUME NEW j \in Uses
      PROVE  /\ uses[j].up # "not yet" => uses'[j].up # "not yet"
             /\ uses[j].up # "not yet" /\ uses[j].busy => uses'[j].busy
             /\ uses'[j].up = "mounted" => UseFits(uses'[j], chatCopy)
  BY <1>1, <1>3, <1>4
<1>6. /\ streams' \in Seq(Stream) /\ Len(streams') <= MaxSends
      /\ (\A k \in DOMAIN streams : StreamFits(k))' /\ OneOpen'
  BY <1>2, <1>4, <1>5, StreamsSame
<1>7. QED BY <1>1, <1>2, <1>4, <1>5, <1>6 DEF ChatIInv, ChatTypes

LEMMA ChatKeeps == ASSUME ChatIInv, [ChatNext]_chatVars PROVE ChatIInv'
<1>1. CASE UNCHANGED chatVars
  BY <1>1 DEF chatVars, ChatIInv, ChatTypes, OneOpen, StreamFits
<1>2. CASE ChatNext
  BY <1>2, SendKeeps, ClearKeeps, RendersKeeps, PageMoves, StreamSteps DEF ChatNext
<1>3. QED BY <1>1, <1>2

LEMMA ChatMeans == ChatIInv => ChatTypeOK /\ UsesAgree /\ NoAnswerAlone
<1> SUFFICES ASSUME ChatIInv PROVE ChatTypeOK /\ UsesAgree /\ NoAnswerAlone
  OBVIOUS
<1>1. ChatTypes /\ OneOpen
  BY DEF ChatIInv
<1>2. ASSUME NEW i \in Uses
      PROVE  Cardinality({k \in DOMAIN streams : streams[k].by = i /\ streams[k].at # "over"}) <= 1
  <2> DEFINE S == {k \in DOMAIN streams : streams[k].by = i /\ streams[k].at # "over"}
  <2>1. CASE S = {}
    BY <2>1, FS_EmptySet
  <2>2. CASE S # {}
    <3>1. PICK k \in S : TRUE
      BY <2>2
    <3>2. \A l \in S : l = k
      BY <1>1, <3>1 DEF OneOpen
    <3>3. S = {k}
      BY <3>1, <3>2
    <3> HIDE DEF S
    <3>4. Cardinality(S) = 1
      BY <3>3, FS_Singleton
    <3>5. QED BY <3>4 DEF S
  <2>3. QED BY <2>1, <2>2
<1>3. ChatTypeOK
  BY <1>1, <1>2 DEF ChatTypes, ChatTypeOK
<1>4. UsesAgree
  BY DEF UsesAgree, ChatIInv, UseFits
<1>5. NoAnswerAlone
  BY DEF NoAnswerAlone, ChatIInv, Answers, Asked
<1>6. QED BY <1>3, <1>4, <1>5

\* The two uses of the hook, alone: unless an updater ran behind the back of another use
\* or of a page that was left, what is shown with nothing queued is what is stored, and
\* an answer is never there without its question.
THEOREM ConversationHolds == ChatSpec => [](ChatTypeOK /\ UsesAgree /\ NoAnswerAlone)
<1>1. QED BY ChatStarts, ChatKeeps, ChatMeans, PTL DEF ChatSpec, ChatInitNext

-----------------------------------------------------------------------------
(* MCSite: side by side, each part takes its own steps or rests *)

LEMMA SiteStarts ==
  SiteInit => /\ StreamInit /\ ViewInit /\ EntryInit /\ FormInit /\ CsvInit
              /\ PageInit /\ FiguresInit /\ WidgetInit /\ ChartInit
              /\ BarInit /\ FavInit /\ ChatInit
              /\ MyPageInit /\ ConsoleInit /\ DisksInit /\ SignupInit
BY DEF SiteInit

\* What is followed takes a step; what is not is left alone.
LEMMA SitePartsRest ==
  SiteNext => /\ part = "stream" \/ UNCHANGED streamVars
              /\ part = "view" \/ UNCHANGED viewVars
              /\ part = "entry" \/ UNCHANGED entryVars
              /\ part \in {"fill", "search"} \/ UNCHANGED formVars
              /\ part = "csv" \/ UNCHANGED csvVars
              /\ part \in {"table", "layout"} \/ UNCHANGED pageVars
              /\ part = "figures" \/ UNCHANGED figureVars
              /\ part = "widgets" \/ UNCHANGED widgetVars
              /\ part = "chart" \/ UNCHANGED chartVars
              /\ part = "chat" \/ UNCHANGED chatVars
              /\ part = "bar" \/ UNCHANGED barVars
              /\ part = "favorites" \/ UNCHANGED favVars
              /\ part = "mypage" \/ UNCHANGED myVars
              /\ part = "console" \/ UNCHANGED consoleVars
              /\ part = "disks" \/ UNCHANGED disks
              /\ part = "signup" \/ UNCHANGED signupVars
BY DEF SiteNext, Still

LEMMA SitePartsMove ==
  SiteNext => /\ part = "stream" => StreamNext
              /\ part = "view" => ViewNext
              /\ part = "entry" => EntryNext
              /\ part \in {"fill", "search"} => FormNext
              /\ part = "csv" => CsvNext
              /\ part \in {"table", "layout"} => PageNext
              /\ part = "figures" => FiguresNext
              /\ part = "widgets" => WidgetNext
              /\ part = "chart" => ChartNext
              /\ part = "chat" => ChatNext
              /\ part = "bar" => BarNext
              /\ part = "favorites" => FavNext
              /\ part = "mypage" => MyPageNext
              /\ part = "console" => ConsoleNext
              /\ part = "disks" => DisksRead
              /\ part = "signup" => SignupNext
BY DEF SiteNext, FormNext, PageNext

LEMMA SiteSteps ==
  [SiteNext]_siteVars =>
    /\ [StreamNext]_streamVars /\ [ViewNext]_viewVars /\ [EntryNext]_entryVars
    /\ [FormNext]_formVars /\ [CsvNext]_csvVars /\ [PageNext]_pageVars
    /\ [FiguresNext]_figureVars /\ [WidgetNext]_widgetVars /\ [ChartNext]_chartVars
    /\ [ChatNext]_chatVars /\ [BarNext]_barVars /\ [FavNext]_favVars
    /\ [MyPageNext]_myVars /\ [ConsoleNext]_consoleVars /\ [DisksRead]_disks
    /\ [SignupNext]_signupVars
<1>1. CASE UNCHANGED siteVars
  BY <1>1 DEF siteVars
<1>2. CASE SiteNext
  BY <1>2, SitePartsRest, SitePartsMove
<1>3. QED BY <1>1, <1>2

\* The four invariants of the run, of all parts side by side.
THEOREM SiteKeepsItsData == SiteSpec => [](StreamInv /\ ViewInv /\ EntryInv /\ CsvInv)
<1> DEFINE I == StreamIInv /\ ViewIInv /\ EntryIInv /\ CsvIInv
<1>1. SiteInit => I
  BY SiteStarts, StreamStarts, ViewStarts, EntryStarts, CsvStarts
<1>2. I /\ [SiteNext]_siteVars => I'
  BY SiteSteps, StreamKeeps, ViewKeeps, EntryKeeps, CsvKeeps
<1>3. StreamIInv => StreamInv
  BY OneAliveMeans DEF StreamIInv, StreamInv
<1>4. I => StreamInv /\ ViewInv /\ EntryInv /\ CsvInv
  BY <1>3, ViewMeans, EntryMeans, CsvMeans
<1>5. QED BY <1>1, <1>2, <1>4, PTL DEF SiteSpec

\* Search results, widgets and chart show what is selected, whichever answers are late,
\* overtaken or missing.
THEOREM SelectionIsShown == SiteSpec => []ShownIsSelected
<1> DEFINE I == FormIInv /\ WidgetIInv /\ ChartIInv
<1>1. SiteInit => I
  BY SiteStarts, FormStarts, WidgetStarts, ChartStarts
<1>2. I /\ [SiteNext]_siteVars => I'
  BY SiteSteps, FormKept, WidgetKeeps, ChartKeeps
<1>3. I => ShownIsSelected
  BY FormMeans, WidgetMeans, ChartMeans DEF ShownIsSelected
<1>4. QED BY <1>1, <1>2, <1>3, PTL DEF SiteSpec

\* The account page, the console and the sign-up pages say what is so, for any number of
\* requests that overlap and however they end.
THEOREM PagesStayTrue == SiteSpec => []PagesAreTrue
<1> DEFINE I == MyIInv /\ ConsoleIInv /\ DisksOK /\ SignupIInv
<1>1. SiteInit => I
  BY SiteStarts, MyStarts, ConsoleStarts, SignupStarts DEF DisksInit, DisksOK
<1>2. I /\ [SiteNext]_siteVars => I'
  BY SiteSteps, MyKeeps, ConsoleKeeps, DisksKeep, SignupKeeps
<1>3. I => PagesAreTrue
  BY MyMeans, AdminMeans, SignupMeans DEF PagesAreTrue
<1>4. QED BY <1>1, <1>2, <1>3, PTL DEF SiteSpec

\* Both asset pages: one sale at a time however the dialog is closed and opened, and
\* the same totals on each, for any number of holdings and any amounts and prices.
THEOREM AssetPagesHold == SiteSpec => []AssetPagesInv
<1> DEFINE I == TableIInv /\ LayoutIInv /\ FiguresIInv
<1>1. SiteInit => I
  BY SiteStarts, TableStarts, LayoutStarts, FiguresStart
<1>2. I /\ [SiteNext]_siteVars => I'
  BY SiteSteps, TableKeeps, LayoutKeeps, FiguresKeep
<1>3. I => AssetPagesInv
  BY PageMeans, RowsAdd, PagesDoAgree DEF AssetPagesInv
<1>4. QED BY <1>1, <1>2, <1>3, PTL DEF SiteSpec

\* What the browser stores comes back and agrees with what is shown: the layout, the
\* bar, each of whose tools stays in reach, the favourites and the conversation.
THEOREM StoredComesBack == SiteSpec => []KeptInBrowser
<1> DEFINE I == TableIInv /\ LayoutIInv /\ BarIInv /\ FavIInv /\ ChatIInv
<1>1. SiteInit => I
  BY SiteStarts, TableStarts, LayoutStarts, BarStarts, FavStarts, ChatStarts
<1>2. I /\ [SiteNext]_siteVars => I'
  BY SiteSteps, TableKeeps, LayoutKeeps, BarKeeps, FavKeeps, ChatKeeps
<1>3. I => KeptInBrowser
  BY PageMeans, BarMeans, FavMeans, ChatMeans DEF KeptInBrowser
<1>4. QED BY <1>1, <1>2, <1>3, PTL DEF SiteSpec

\* No step puts a row into the list with a rate of another currency, saves one row with
\* the values of another, darkens a forecast although prices only rose, replaces prices
\* by stand-ins, or loses the stored bar by loading it.
THEOREM NoStepLosesData == SiteSpec => StepsKeepData
<1> DEFINE I == FormIInv /\ TableIInv /\ FiguresIInv /\ WidgetIInv /\ BarIInv
<1>1. SiteInit => I
  BY SiteStarts, FormStarts, TableStarts, FiguresStart, WidgetStarts, BarStarts
<1>2. I /\ [SiteNext]_siteVars => I'
  BY SiteSteps, FormKept, TableKeeps, FiguresKeep, WidgetKeeps, BarKeeps
<1>3. I /\ [SiteNext]_siteVars
      => [~crossed => \A a \in added' \ added : a.asset \in Foreign => a.price = a.asset]_formVars
  BY SiteSteps, RatesFit
<1>4. I /\ [SiteNext]_siteVars => [\A s \in saves' \ saves : s[1] = s[2]]_pageVars
  BY SiteSteps, SavesFit
<1>5. I /\ I' =>
        [/\ Rowed = Rowed' /\ Rowed # {}
         /\ \A s \in Rowed : /\ figures'[s].amount = figures[s].amount /\ figures'[s].avg = figures[s].avg
                             /\ figures'[s].price >= figures[s].price
         => /\ ForecastScore(ProfitRate, DailyRate, LossRate)'
                 >= ForecastScore(ProfitRate, DailyRate, LossRate)
            /\ FallbackLevel' >= FallbackLevel
            /\ \A b \in DOMAIN Benchmarks : Benchmarks[b] = "above" => Benchmarks'[b] = "above"]_figureVars
  BY ForecastsBrighten DEF Rising
<1>6. I /\ [SiteNext]_siteVars
      => [widget.kind \in {"coins", "indices"} /\ widget.open /\ widget'.open /\ widget.has = 1
            => widget'.has = 1]_widgetVars
  BY SiteSteps, RealStays
<1>7. I /\ [SiteNext]_siteVars
      => [~bar.up => /\ barStore' = barStore
                     /\ bar'.up /\ barStore.order # NoEntry
                          => /\ bar'.visible = barStore.visible /\ barStore.visible # {}
                             /\ bar'.order = barStore.order /\ bar'.folded = barStore.folded]_barVars
  BY SiteSteps, LoadingKeeps
<1>8. QED BY <1>1, <1>2, <1>3, <1>4, <1>5, <1>6, <1>7, PTL
             DEF SiteSpec, StepsKeepData, RowsHaveTheirRate, SavesTheRowsValues,
                 RisingPricesBrighten, RealStaysReal, LoadingKeepsTheBar

=============================================================================
