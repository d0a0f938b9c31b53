---------------------------- MODULE PortfolioDB ----------------------------
(***************************************************************************)
(* One user's rows of the MariaDB table `portfolios', as                   *)
(* backend/app/routers/portfolio.py and mariadb.py keep them: adding with  *)
(* a merge, a bulk of adds, patch, delete, sell, the merge of duplicates   *)
(* at the start of a pod, and the withdrawal of the user.                  *)
(*                                                                         *)
(* Every operation is one SQLAlchemy session under REPEATABLE READ, which  *)
(* reads (first step), decides, and flushes and commits (second step).     *)
(* The read takes no lock, and MariaDB 10.11 does not refuse a write to a  *)
(* row that changed since: the flush writes what was computed from the     *)
(* read.  An UPDATE that matches no row raises StaleDataError; a DELETE    *)
(* that matches none is only a warning.  Adding and patching read the row  *)
(* back after the commit (third step), which raises when it is gone.       *)
(*                                                                         *)
(* Quantities count a unit smaller than the six decimals the API keeps;    *)
(* Step units are 1e-6.  Names, prices and currencies are left out.        *)
(***************************************************************************)
EXTENDS Integers, Sequences, FiniteSets, FiniteSetsExt

CONSTANTS
  Requests,    \* the sessions that may run
  MaxRows,     \* bound on the rows ever inserted
  Codes,       \* asset codes, upper-cased by the handlers
  Amounts,     \* the quantities a payload may carry, all gt=0
  Step,        \* units in 1e-6, the last decimal kept
  MaxItems,    \* bound on the items of a bulk
  MaxInFlight, \* how many sessions run at a time
  Handlers,    \* the handlers that run, a subset of HandlerNames
  Faults,      \* a subset of FaultNames
  NoRow        \* no row with this id

RowIds == 1 .. MaxRows   \* AUTO_INCREMENT

HandlerNames == {"create", "bulk", "patch", "delete", "sell", "merge", "withdraw"}
FaultNames   == {"crash", "db"}

ASSUME PortfolioAssumption ==
  /\ MaxRows \in Nat /\ MaxInFlight \in Nat /\ MaxItems \in Nat
  /\ Step \in Nat \ {0}
  /\ \A q \in Amounts : q \in Nat \ {0}
  /\ Handlers \subseteq HandlerNames
  /\ Faults \subseteq FaultNames
  /\ NoRow \notin [code : Codes, qty : Nat]

VARIABLES
  rows,    \* the table: id -> row or NoRow
  born,    \* ids handed out so far
  user,    \* the row of `users' the foreign key points to exists
  pc,      \* where each session stands
  job,     \* its handler, row and quantity
  todo,    \* the items an add or a bulk still has to store
  snap,    \* what it read: a row, its quantity, or the duplicates to merge
  tally,   \* success_count and error_count of a bulk
  answer,  \* the HTTP status sent
  owed,    \* history: per code, what the committed changes amount to
  eff,     \* history: how many changes the session committed
  clean    \* history: no other change was committed since the session's read
           \* (to a merge, another undisturbed merge is none)

vars    == <<rows, born, user, pc, job, todo, snap, tally, answer, owed, eff, clean>>
table   == <<rows, born, user, owed, eff, clean>>
control == <<pc, answer>>

-----------------------------------------------------------------------------
(* Types *)

PortfolioRow == [code : Codes, qty : Nat]
Item   == [code : Codes, qty : Nat]
Job    == [op : HandlerNames \cup {"none"}, row : 0 .. MaxRows, qty : Nat]
Read   == [row : 0 .. MaxRows, code : Codes \cup {NoRow}, qty : Nat, at : 0 .. MaxRows,
           all : [RowIds -> PortfolioRow \cup {NoRow}]]
Answers == {"none", "200", "201", "204", "400", "404", "503"}
Labels  == {"new", "add.read", "add.commit", "add.refresh", "patch.commit",
            "patch.refresh", "delete.commit", "sell.commit", "merge.commit",
            "done", "crashed"}

NoRead == [row |-> 0, code |-> NoRow, qty |-> 0, at |-> 0, all |-> [i \in RowIds |-> NoRow]]

TypeOK ==
  /\ rows   \in [RowIds -> PortfolioRow \cup {NoRow}]
  /\ born   \in 0 .. MaxRows
  /\ user   \in BOOLEAN
  /\ pc     \in [Requests -> Labels]
  /\ job    \in [Requests -> Job]
  /\ \A r \in Requests : todo[r] \in Seq(Item)
  /\ snap   \in [Requests -> Read]
  /\ tally  \in [Requests -> [ok : Nat, bad : Nat]]
  /\ answer \in [Requests -> Answers]
  /\ owed   \in [Codes -> Int]
  /\ eff    \in [Requests -> Nat]
  /\ clean  \in [Requests -> BOOLEAN]

-----------------------------------------------------------------------------
(* The table *)

Alive(i)    == rows[i] # NoRow
Of(c)       == {i \in RowIds : Alive(i) /\ rows[i].code = c}
SumIn(t, c) == MapThenSumSet(LAMBDA i : t[i].qty,
                             {i \in RowIds : t[i] # NoRow /\ t[i].code = c})
Total(c)    == SumIn(rows, c)

\* _normalize_decimal: round to six decimals, ties to even.  The validator
\* runs after the test gt=0.
Normalized(q) ==
  LET k == q \div Step
      m == q % Step
  IN  IF 2 * m < Step \/ (2 * m = Step /\ k % 2 = 0) THEN k * Step ELSE (k + 1) * Step

Payload == {Normalized(q) : q \in Amounts}

\* An attribute set to the value it was read with is not in the UPDATE.
Put(i, read, new) ==
  rows' = [rows EXCEPT ![i].qty = IF new = read THEN @ ELSE new]

\* Session r commits a change that is worth d to code c.
Commit(r, c, d) ==
  /\ owed'  = [owed EXCEPT ![c] = @ + d]
  /\ eff'   = [eff EXCEPT ![r] = @ + 1]
  /\ clean' = [p \in Requests |-> p = r /\ clean[p]]

Init ==
  /\ rows   = [i \in RowIds |-> NoRow]
  /\ born   = 0
  /\ user   = TRUE
  /\ pc     = [r \in Requests |-> "new"]
  /\ job    = [r \in Requests |-> [op |-> "none", row |-> 0, qty |-> 0]]
  /\ todo   = [r \in Requests |-> <<>>]
  /\ snap   = [r \in Requests |-> NoRead]
  /\ tally  = [r \in Requests |-> [ok |-> 0, bad |-> 0]]
  /\ answer = [r \in Requests |-> "none"]
  /\ owed   = [c \in Codes |-> 0]
  /\ eff    = [r \in Requests |-> 0]
  /\ clean  = [r \in Requests |-> TRUE]

Goto(r, l) == pc' = [pc EXCEPT ![r] = l] /\ UNCHANGED answer
Reply(r, code) ==
  /\ pc' = [pc EXCEPT ![r] = "done"]
  /\ answer' = [answer EXCEPT ![r] = code]

InFlight == {r \in Requests : pc[r] \notin {"new", "done", "crashed"}}
Pending  == MapThenSumSet(LAMBDA r : Len(todo[r]), InFlight)

Admit(r, h, i, q) ==
  /\ pc[r] = "new"
  /\ h \in Handlers
  /\ Cardinality(InFlight) < MaxInFlight
  /\ job' = [job EXCEPT ![r] = [op |-> h, row |-> i, qty |-> q]]

\* get_current_user: the user of the token must still exist.
AdmitUser(r, h, i, q) == user /\ Admit(r, h, i, q)

-----------------------------------------------------------------------------
(* create_portfolio_item and bulk_create_portfolio_items *)

AddStart(r, h, items) ==
  /\ AdmitUser(r, h, 0, 0)
  /\ h \in {"create", "bulk"} /\ (h = "create" => Len(items) = 1)
  /\ born + Pending + Len(items) <= MaxRows
  /\ todo' = [todo EXCEPT ![r] = items]
  /\ Goto(r, "add.read")
  /\ UNCHANGED <<table, snap, tally>>

\* An item is over: a bulk goes on whatever happened to it.
ItemEnds(r, stored) ==
  /\ todo'  = [todo EXCEPT ![r] = Tail(@)]
  /\ tally' = IF stored THEN [tally EXCEPT ![r].ok  = @ + 1]
                        ELSE [tally EXCEPT ![r].bad = @ + 1]
  /\ IF Len(todo[r]) > 1 THEN Goto(r, "add.read")
     ELSE Reply(r, IF stored \/ job[r].op = "bulk" THEN "201" ELSE "503")

\* Variant with a bug: the row of the code is not looked for.
ExistingNever(c) == {0}

\* The rows of a code, or 0: scalar_one_or_none raises when there are two.
Existing(c) == IF Of(c) = {} THEN {0} ELSE Of(c)

\* Two rows or more: MultipleResultsFound.
AddRead(r) ==
  /\ pc[r] = "add.read"
  /\ LET c == Head(todo[r]).code
     IN  \/ /\ Cardinality(Existing(c)) = 1
            /\ \E i \in Existing(c) :
                 snap' = [snap EXCEPT ![r] = [NoRead EXCEPT !.row = i, !.at = born,
                            !.qty = IF i = 0 THEN 0 ELSE rows[i].qty]]
            /\ clean' = [clean EXCEPT ![r] = TRUE]
            /\ Goto(r, "add.commit")
            /\ UNCHANGED <<todo, tally>>
         \/ /\ Cardinality(Existing(c)) > 1
            /\ ItemEnds(r, FALSE)
            /\ UNCHANGED <<snap, clean>>
  /\ UNCHANGED <<rows, born, user, owed, eff, job>>

\* Variant with a bug: user_id is a plain column.
ForeignKeyMissing == TRUE

\* The foreign key user_id of an inserted row.
ForeignKeyHolds == user

AddInsert(r) ==
  /\ pc[r] = "add.commit"
  /\ snap[r].row = 0
  /\ ForeignKeyHolds
  /\ LET item == Head(todo[r])
     IN  /\ rows' = [rows EXCEPT ![born + 1] = [code |-> item.code, qty |-> item.qty]]
         /\ Commit(r, item.code, item.qty)
  /\ born' = born + 1
  /\ snap' = [snap EXCEPT ![r].row = born + 1]
  /\ Goto(r, "add.refresh")
  /\ UNCHANGED <<user, job, todo, tally>>

AddMerge(r) ==
  /\ pc[r] = "add.commit"
  /\ snap[r].row # 0
  /\ Alive(snap[r].row)
  /\ LET item == Head(todo[r])
     IN  /\ Put(snap[r].row, snap[r].qty, snap[r].qty + item.qty)
         /\ Commit(r, item.code, item.qty)
  /\ Goto(r, "add.refresh")
  /\ UNCHANGED <<born, user, job, todo, snap, tally>>

\* Variant with a bug: a refused item counts as created.
AddRefusedSilently(r) ==
  /\ pc[r] = "add.commit"
  /\ IF snap[r].row = 0 THEN ~ForeignKeyHolds ELSE ~Alive(snap[r].row)
  /\ ItemEnds(r, TRUE)
  /\ UNCHANGED <<table, job, snap>>

\* The foreign key, or StaleDataError: the session rolls back.
AddRefused(r) ==
  /\ pc[r] = "add.commit"
  /\ IF snap[r].row = 0 THEN ~ForeignKeyHolds ELSE ~Alive(snap[r].row)
  /\ ItemEnds(r, FALSE)
  /\ UNCHANGED <<table, job, snap>>

\* session.refresh: the row is stored, but an item whose row is gone by now
\* counts as an error.
AddRefresh(r) ==
  /\ pc[r] = "add.refresh"
  /\ ItemEnds(r, Alive(snap[r].row))
  /\ UNCHANGED <<table, job, snap>>

-----------------------------------------------------------------------------
(* patch, delete and sell *)

\* The row a handler works on, as it is when read.
ReadRow(r, i) ==
  /\ snap'  = [snap EXCEPT ![r] = [NoRead EXCEPT
             !.row = i, !.code = rows[i].code, !.qty = rows[i].qty]]
  /\ clean' = [clean EXCEPT ![r] = TRUE]

PatchRead(r, i, q) ==
  /\ AdmitUser(r, "patch", i, q)
  /\ \/ Alive(i) /\ ReadRow(r, i) /\ Goto(r, "patch.commit")
     \/ ~Alive(i) /\ Reply(r, "404") /\ UNCHANGED <<snap, clean>>
     \/ Reply(r, "400") /\ UNCHANGED <<snap, clean>>     \* nothing to update
  /\ UNCHANGED <<rows, born, user, owed, eff, todo, tally>>

\* Only a changed quantity is written.
PatchCommit(r) ==
  /\ pc[r] = "patch.commit"
  /\ LET i == job[r].row
     IN  \/ /\ job[r].qty = snap[r].qty
            /\ Goto(r, "patch.refresh")
            /\ UNCHANGED table
         \/ /\ job[r].qty # snap[r].qty
            /\ Alive(i)
            /\ Put(i, snap[r].qty, job[r].qty)
            /\ Commit(r, rows[i].code, job[r].qty - rows[i].qty)
            /\ Goto(r, "patch.refresh")
            /\ UNCHANGED <<born, user>>
         \/ /\ job[r].qty # snap[r].qty
            /\ ~Alive(i)
            /\ Reply(r, "503")
            /\ UNCHANGED table
  /\ UNCHANGED <<job, todo, snap, tally>>

PatchRefresh(r) ==
  /\ pc[r] = "patch.refresh"
  /\ Reply(r, IF Alive(job[r].row) THEN "200" ELSE "503")
  /\ UNCHANGED <<table, job, todo, snap, tally>>

DeleteRead(r, i) ==
  /\ AdmitUser(r, "delete", i, 0)
  /\ \/ Alive(i) /\ ReadRow(r, i) /\ Goto(r, "delete.commit")
     \/ ~Alive(i) /\ Reply(r, "404") /\ UNCHANGED <<snap, clean>>
  /\ UNCHANGED <<rows, born, user, owed, eff, todo, tally>>

\* A DELETE that matches no row is no error.
DeleteCommit(r) ==
  /\ pc[r] = "delete.commit"
  /\ LET i == job[r].row
     IN  /\ rows' = [rows EXCEPT ![i] = NoRow]
         /\ Commit(r, snap[r].code, IF Alive(i) THEN -rows[i].qty ELSE 0)
  /\ Reply(r, "204")
  /\ UNCHANGED <<born, user, job, todo, snap, tally>>

Sufficient(held, q) == q <= held

SellRead(r, i, q) ==
  /\ AdmitUser(r, "sell", i, q)
  /\ \/ /\ Alive(i) /\ Sufficient(rows[i].qty, q)
        /\ ReadRow(r, i)
        /\ Goto(r, "sell.commit")
     \/ /\ Alive(i) /\ ~Sufficient(rows[i].qty, q)
        /\ Reply(r, "400")
        /\ UNCHANGED <<snap, clean>>
     \/ /\ ~Alive(i)
        /\ Reply(r, "404")
        /\ UNCHANGED <<snap, clean>>
  /\ UNCHANGED <<rows, born, user, owed, eff, todo, tally>>

\* Variant with a bug: the remainder must be negative for the row to go.
SoldOutBelowZero(left) == left < 0

SoldOut(left) == left <= 0

SellCommit(r) ==
  /\ pc[r] = "sell.commit"
  /\ LET i    == job[r].row
         left == snap[r].qty - job[r].qty
     IN  \/ /\ SoldOut(left)
            /\ rows' = [rows EXCEPT ![i] = NoRow]
            /\ Commit(r, snap[r].code, -job[r].qty)
            /\ Reply(r, "200")
            /\ UNCHANGED <<born, user>>
         \/ /\ ~SoldOut(left) /\ Alive(i)
            /\ Put(i, snap[r].qty, left)
            /\ Commit(r, rows[i].code, -job[r].qty)
            /\ Reply(r, "200")
            /\ UNCHANGED <<born, user>>
         \/ /\ ~SoldOut(left) /\ ~Alive(i)
            /\ Reply(r, "503")
            /\ UNCHANGED table
  /\ UNCHANGED <<job, todo, snap, tally>>

-----------------------------------------------------------------------------
(* merge_duplicate_portfolios, run by each pod before it serves *)

IdsIn(t, c)   == {i \in RowIds : t[i] # NoRow /\ t[i].code = c}
Duplicated(t) == {c \in Codes : Cardinality(IdsIn(t, c)) > 1}
Primary(t, c) == CHOOSE i \in IdsIn(t, c) : \A j \in IdsIn(t, c) : i <= j

MergeRead(r) ==
  /\ Admit(r, "merge", 0, 0)
  /\ \/ /\ Duplicated(rows) # {}
        /\ snap'  = [snap EXCEPT ![r] = [NoRead EXCEPT !.all = rows]]
        /\ clean' = [clean EXCEPT ![r] = TRUE]
        /\ Goto(r, "merge.commit")
     \/ /\ Duplicated(rows) = {}
        /\ Reply(r, "200")
        /\ UNCHANGED <<snap, clean>>
  /\ UNCHANGED <<rows, born, user, owed, eff, todo, tally>>

\* Variant with a bug: the duplicates are added to the row as it is now.
MergedOntoCurrent(t, c) == rows[Primary(t, c)].qty + SumIn(t, c) - t[Primary(t, c)].qty

\* The quantity the oldest row is set to: what the read saw, added up.
Merged(t, c) == SumIn(t, c)

MergeCommit(r) ==
  /\ pc[r] = "merge.commit"
  /\ LET t == snap[r].all
         D == Duplicated(t)
     IN  \/ /\ \A c \in D : Alive(Primary(t, c))
            /\ rows' = [i \in RowIds |->
                 IF \E c \in D : i = Primary(t, c)
                   THEN LET old == t[i]
                            new == Merged(t, old.code)
                        IN  [rows[i] EXCEPT !.qty = IF new = old.qty THEN @ ELSE new]
                 ELSE IF \E c \in D : i \in IdsIn(t, c) THEN NoRow
                 ELSE rows[i]]
            /\ eff'   = [eff EXCEPT ![r] = @ + 1]
            /\ clean' = [p \in Requests |-> clean[p] /\ clean[r] /\ job[p].op = "merge"]
            /\ UNCHANGED <<born, user, owed>>
         \/ /\ \E c \in D : ~Alive(Primary(t, c))   \* StaleDataError, logged
            /\ UNCHANGED table
  /\ Reply(r, "200")
  /\ UNCHANGED <<job, todo, snap, tally>>

-----------------------------------------------------------------------------
(* The user's withdrawal, failures *)

\* delete_user deletes the portfolio rows and then the user; the foreign key
\* cascades to a row inserted in between.
Withdraw(r) ==
  /\ AdmitUser(r, "withdraw", 0, 0)
  /\ user'  = FALSE
  /\ rows'  = [i \in RowIds |-> NoRow]
  /\ owed'  = [c \in Codes |-> 0]
  /\ eff'   = [eff EXCEPT ![r] = @ + 1]
  /\ clean' = [p \in Requests |-> FALSE]
  /\ Reply(r, "200")
  /\ UNCHANGED <<born, todo, snap, tally>>

\* The database raises before it commits: the session rolls back.
DbError(r) ==
  /\ "db" \in Faults
  /\ \/ /\ pc[r] \in {"add.read", "add.commit"}
        /\ ItemEnds(r, FALSE)
     \/ /\ pc[r] \in {"patch.commit", "delete.commit", "sell.commit"}
        /\ Reply(r, "503")
        /\ UNCHANGED <<todo, tally>>
  /\ UNCHANGED <<table, job, snap>>

Crash(r) ==
  /\ "crash" \in Faults
  /\ r \in InFlight
  /\ Goto(r, "crashed")
  /\ UNCHANGED <<table, job, todo, snap, tally>>

Idle == InFlight = {} /\ UNCHANGED vars

-----------------------------------------------------------------------------
(* Specification *)

Items == [code : Codes, qty : Payload]
Lists == UNION {[1 .. n -> Items] : n \in 1 .. MaxItems}

Arrive(r) ==
  \/ \E h \in {"create", "bulk"}, items \in Lists : AddStart(r, h, items)
  \/ \E i \in RowIds, q \in Payload : PatchRead(r, i, q) \/ SellRead(r, i, q)
  \/ \E i \in RowIds : DeleteRead(r, i)
  \/ MergeRead(r)
  \/ Withdraw(r)

Proceed(r) ==
  \/ AddRead(r) \/ AddInsert(r) \/ AddMerge(r) \/ AddRefused(r) \/ AddRefresh(r)
  \/ PatchCommit(r) \/ PatchRefresh(r) \/ DeleteCommit(r) \/ SellCommit(r)
  \/ MergeCommit(r)

Next ==
  \/ \E r \in Requests : Arrive(r) \/ Proceed(r) \/ DbError(r) \/ Crash(r)
  \/ Idle

Spec == Init /\ [][Next]_vars

-----------------------------------------------------------------------------
(* Properties *)

\* A session that nobody's commit came in between changes the total of each
\* code by exactly what it was asked to: an add its quantity, a patch the
\* difference, a delete the row, a sale the quantity sold, and a merge of
\* duplicates nothing, also when two pods start at once and both merge.
UndisturbedCommitsAreExact ==
  [][\A r \in Requests : eff'[r] # eff[r] /\ clean[r] /\ user'
       => \A c \in Codes : Total(c)' - Total(c) = owed'[c] - owed[c]]_vars

\* A second row of a code is inserted only by an add that looked before the
\* other row was inserted: there is no way to a duplicate but that race.
DuplicateNeedsOverlap ==
  [][\A r \in Requests : pc[r] = "add.commit" /\ born' = born + 1 /\ eff'[r] # eff[r]
       => \A i \in Of(Head(todo[r]).code) : i > snap[r].at]_vars

\* No row outlives its user, whatever was under way when the user withdrew.
NoOrphanRows == ~user => \A i \in RowIds : ~Alive(i)

\* A refused request changed nothing; a bulk counts every item once and calls
\* stored only what it committed.
AnswersAreTrue ==
  \A r \in Requests :
    /\ answer[r] \in {"400", "404"} => eff[r] = 0
    /\ tally[r].ok <= eff[r]
    /\ answer[r] = "201" /\ job[r].op = "create" => eff[r] = 1

\* A stored quantity is positive (Field(..., gt=0), and a row sold out goes).
RowsArePositive == \A i \in RowIds : Alive(i) => rows[i].qty > 0

\* The tables have their shape, and no row is left with nothing in it, whichever
\* sales, patches and merges overlap.
RowsAreSound == TypeOK /\ RowsArePositive

=============================================================================
