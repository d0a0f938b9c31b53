------------------------- MODULE PortfolioDBProofs -------------------------
(***************************************************************************)
(* What holds of the table `portfolios' for every number of sessions, rows *)
(* and codes.                                                              *)
(*                                                                         *)
(*   RInv      which rows there are: no row outlives its user, and a code  *)
(*             gets a second row only through the one race of two adds     *)
(*   PInv      where each session stands: its answer agrees with what it   *)
(*             committed, and the ids suffice for the adds under way       *)
(*   PosInv    no row is stored without a quantity                         *)
(*   ReadsInv  what a session nobody's commit came in between still finds: *)
(*             its commit changes the totals by what it was asked for      *)
(*                                                                         *)
(* The first does not need the quantities.  It follows which rows there    *)
(* are and under which code: a step keeps the code of every row it leaves, *)
(* and adds at most the row with the next id (RowsKept).                   *)
(***************************************************************************)
EXTENDS PortfolioDB, Sums, SequenceTheorems, TLAPS

\* The variables that are tables are functions, rows are records, and the ids
\* not handed out yet are free.
Tables ==
  /\ rows = [i \in RowIds |-> rows[i]]
  /\ pc   = [r \in Requests |-> pc[r]]
  /\ todo = [r \in Requests |-> todo[r]]
  /\ snap = [r \in Requests |-> snap[r]]
  /\ eff  = [r \in Requests |-> eff[r]]
  /\ \A i \in RowIds : Alive(i) => rows[i] = [code |-> rows[i].code, qty |-> rows[i].qty]
  /\ born \in Nat
  /\ \A i \in RowIds : i > born => ~Alive(i)

\* An add about to insert found no row of its code: those there now are younger.
Looked(r) ==
  pc[r] = "add.commit" /\ snap[r].row = 0 =>
    /\ snap[r].at \in Nat /\ snap[r].at <= born
    /\ \A i \in Of(Head(todo[r]).code) : i > snap[r].at

RInv == Tables /\ NoOrphanRows /\ \A r \in Requests : Looked(r)

\* A row after the step was there before under the same code, or is the one
\* inserted under the next id, whose user exists.
RowsKept ==
  /\ rows' = [i \in RowIds |-> rows'[i]]
  /\ born' = born \/ born' = born + 1
  /\ \A i \in RowIds : Alive(i)' =>
       \/ Alive(i) /\ \E q : rows'[i] = [code |-> rows[i].code, qty |-> q]
       \/ /\ i = born + 1 /\ born' = born + 1 /\ user
          /\ \E c, q : rows'[i] = [code |-> c, qty |-> q]

-----------------------------------------------------------------------------
(* Each action keeps the rows *)

\* The table as it was.
LEMMA SameTable == ASSUME Tables, rows' = rows, born' = born PROVE RowsKept
BY DEF RowsKept, Alive, Tables

\* A new quantity for a row leaves the others and its code.
LEMMA PutKeepsRows ==
  ASSUME Tables, NEW i, Alive(i), NEW read, NEW new,
         Put(i, read, new), born' = born
  PROVE  RowsKept
<1> DEFINE q == IF new = read THEN rows[i].qty ELSE new
<1>1. rows' = [rows EXCEPT ![i] = [rows[i] EXCEPT !.qty = q]]
  BY DEF Put
<1> HIDE DEF q
<1>2. ASSUME NEW j \in RowIds, j = i
      PROVE  rows'[j] = [code |-> rows[j].code, qty |-> q]
  <2>1. rows[j] = [code |-> rows[j].code, qty |-> rows[j].qty]
    BY <1>2 DEF Tables
  <2>2. rows'[j] = [rows[j] EXCEPT !.qty = q]
    BY <1>1, <1>2 DEF Tables
  <2>3. QED BY <2>1, <2>2
<1>3. ASSUME NEW j \in RowIds, j # i
      PROVE  rows'[j] = rows[j]
  BY <1>1, <1>3 DEF Tables
<1>4. rows' = [j \in RowIds |-> rows'[j]]
  BY <1>1 DEF Tables
<1>5. QED BY <1>2, <1>3, <1>4 DEF RowsKept, Alive, Tables

\* Removing a row leaves the others.
LEMMA RemovalKeepsRows ==
  ASSUME Tables, NEW i, rows' = [rows EXCEPT ![i] = NoRow], born' = born
  PROVE  RowsKept
BY DEF Tables, RowsKept, Alive

\* An insert takes the next id, for a user who exists.
LEMMA InsertKeepsRows ==
  ASSUME Tables, NEW r \in Requests, AddInsert(r)
  PROVE  RowsKept
BY DEF AddInsert, ForeignKeyHolds, Tables, RowsKept, Alive

\* A merge sets the quantity of the oldest row of a code and removes others.
LEMMA MergeKeepsRows ==
  ASSUME Tables, NEW r \in Requests, MergeCommit(r)
  PROVE  RowsKept
<1> DEFINE t == snap[r].all
           D == Duplicated(t)
<1>1. CASE \E c \in D : ~Alive(Primary(t, c)) /\ UNCHANGED table
  BY <1>1, SameTable DEF table
<1>2. CASE /\ \A c \in D : Alive(Primary(t, c))
           /\ rows' = [i \in RowIds |->
                IF \E c \in D : i = Primary(t, c)
                  THEN LET old == t[i]
                           new == Merged(t, old.code)
                       IN  [rows[i] EXCEPT !.qty = IF new = old.qty THEN @ ELSE new]
                ELSE IF \E c \in D : i \in IdsIn(t, c) THEN NoRow
                ELSE rows[i]]
           /\ born' = born
  <2>1. ASSUME NEW i \in RowIds, \E c \in D : i = Primary(t, c)
        PROVE  Alive(i) /\ \E q : rows'[i] = [code |-> rows[i].code, qty |-> q]
    <3>1. Alive(i) BY <1>2, <2>1
    <3> DEFINE new == Merged(t, t[i].code)
               q   == IF new = t[i].qty THEN rows[i].qty ELSE new
    <3>2. rows'[i] = [rows[i] EXCEPT !.qty = q]
      BY <1>2, <2>1
    <3>3. rows[i] = [code |-> rows[i].code, qty |-> rows[i].qty]
      BY <3>1 DEF Tables
    <3> HIDE DEF q
    <3>4. [rows[i] EXCEPT !.qty = q] = [code |-> rows[i].code, qty |-> q]
      BY <3>3
    <3>5. QED BY <3>1, <3>2, <3>4
  <2>2. ASSUME NEW i \in RowIds, ~(\E c \in D : i = Primary(t, c)), Alive(i)'
        PROVE  rows'[i] = rows[i]
    BY <1>2, <2>2 DEF Alive
  <2>3. rows' = [i \in RowIds |-> rows'[i]]
    BY <1>2
  <2>4. QED BY <1>2, <2>1, <2>2, <2>3 DEF RowsKept, Alive, Tables
<1>3. QED BY <1>1, <1>2, SameTable DEF MergeCommit, table

-----------------------------------------------------------------------------
(* Every step keeps the rows *)

\* Of the arrivals only a withdrawal writes, and it removes.
LEMMA ArriveRows ==
  ASSUME Tables, NEW r \in Requests, Arrive(r)
  PROVE  RowsKept
<1>1. CASE Withdraw(r)
  BY <1>1 DEF Withdraw, RowsKept, Alive
<1>2. CASE ~Withdraw(r)
  <2>1. rows' = rows /\ born' = born
    BY <1>2 DEF Arrive, AddStart, PatchRead, SellRead, DeleteRead, MergeRead, table
  <2>2. QED BY <2>1, SameTable
<1>3. QED BY <1>1, <1>2

\* Every other write is a new quantity, a removal, an insert or a merge.
LEMMA ProceedRows ==
  ASSUME Tables, NEW r \in Requests, Proceed(r)
  PROVE  RowsKept
<1>1. CASE AddRead(r)      BY <1>1, SameTable DEF AddRead
<1>2. CASE AddInsert(r)    BY <1>2, InsertKeepsRows
<1>3. CASE AddMerge(r)
  BY <1>3, PutKeepsRows DEF AddMerge
<1>4. CASE AddRefused(r)   BY <1>4, SameTable DEF AddRefused, table
<1>5. CASE AddRefresh(r)   BY <1>5, SameTable DEF AddRefresh, table
<1>6. CASE PatchCommit(r)
  BY <1>6, SameTable, PutKeepsRows DEF PatchCommit, table
<1>7. CASE PatchRefresh(r) BY <1>7, SameTable DEF PatchRefresh, table
<1>8. CASE DeleteCommit(r) BY <1>8, RemovalKeepsRows DEF DeleteCommit
<1>9. CASE SellCommit(r)
  BY <1>9, SameTable, RemovalKeepsRows, PutKeepsRows DEF SellCommit, table
<1>10. CASE MergeCommit(r) BY <1>10, MergeKeepsRows
<1>11. QED
  BY <1>1, <1>2, <1>3, <1>4, <1>5, <1>6, <1>7, <1>8, <1>9, <1>10 DEF Proceed

\* So every step keeps the rows.
LEMMA NextRows ==
  ASSUME Tables, [Next]_vars
  PROVE  RowsKept
<1>1. ASSUME NEW r \in Requests, DbError(r) \/ Crash(r) PROVE RowsKept
  BY <1>1, SameTable DEF DbError, Crash, table
<1>2. CASE Idle \/ UNCHANGED vars
  BY <1>2, SameTable DEF Idle, vars
<1>3. QED BY <1>1, <1>2, ArriveRows, ProceedRows DEF Next

-----------------------------------------------------------------------------
(* The invariant *)

\* A step of session r changes no other session's place, items, snapshot or
\* count of commits.
Own(r) ==
  /\ pc'   = [pc   EXCEPT ![r] = pc'[r]]
  /\ todo' = [todo EXCEPT ![r] = todo'[r]]
  /\ snap' = [snap EXCEPT ![r] = snap'[r]]
  /\ eff'  = [eff  EXCEPT ![r] = eff'[r]]

\* What an action is built of changes the entries of its session only.
LEMMA MovesAreOwn ==
  ASSUME Tables, NEW r \in Requests
  PROVE  /\ \A l : Goto(r, l) => pc' = [pc EXCEPT ![r] = pc'[r]] /\ pc'[r] = l
         /\ \A code : Reply(r, code) => pc' = [pc EXCEPT ![r] = pc'[r]] /\ pc'[r] = "done"
         /\ \A c, d : Commit(r, c, d) => eff' = [eff EXCEPT ![r] = eff'[r]]
         /\ \A b : ItemEnds(r, b) => /\ pc'   = [pc EXCEPT ![r] = pc'[r]]
                                    /\ todo' = [todo EXCEPT ![r] = todo'[r]]
                                    /\ pc'[r] \in {"add.read", "done"}
         /\ \A i : ReadRow(r, i) => snap' = [snap EXCEPT ![r] = snap'[r]]
         /\ UNCHANGED todo => todo' = [todo EXCEPT ![r] = todo'[r]]
         /\ UNCHANGED snap => snap' = [snap EXCEPT ![r] = snap'[r]]
         /\ UNCHANGED eff  => eff' = [eff EXCEPT ![r] = eff'[r]]
<1>1. \A l : Goto(r, l) => pc' = [pc EXCEPT ![r] = pc'[r]] /\ pc'[r] = l
  BY DEF Goto, Tables
<1>2. \A code : Reply(r, code) => pc' = [pc EXCEPT ![r] = pc'[r]] /\ pc'[r] = "done"
  BY DEF Reply, Tables
<1>3. \A c, d : Commit(r, c, d) => eff' = [eff EXCEPT ![r] = eff'[r]]
  BY DEF Commit, Tables
<1>4. \A b : ItemEnds(r, b) => /\ pc'   = [pc EXCEPT ![r] = pc'[r]]
                              /\ todo' = [todo EXCEPT ![r] = todo'[r]]
                              /\ pc'[r] \in {"add.read", "done"}
  BY <1>1, <1>2 DEF ItemEnds, Tables
<1>5. \A i : ReadRow(r, i) => snap' = [snap EXCEPT ![r] = snap'[r]]
  BY DEF ReadRow, Tables
<1>6. QED BY <1>1, <1>2, <1>3, <1>4, <1>5 DEF Tables

\* An arrival does not wait to write an add.
LEMMA ArriveOwn ==
  ASSUME Tables, NEW r \in Requests, Arrive(r)
  PROVE  Own(r) /\ pc'[r] # "add.commit"
<1> USE MovesAreOwn
<1>1. ASSUME NEW h, NEW items, AddStart(r, h, items)
      PROVE  Own(r) /\ pc'[r] # "add.commit"
  <2>1. todo' = [todo EXCEPT ![r] = todo'[r]]
    BY <1>1 DEF AddStart, Tables
  <2>2. QED BY <1>1, <2>1 DEF AddStart, Own, table
<1>2. ASSUME NEW i, NEW q, PatchRead(r, i, q)
      PROVE  Own(r) /\ pc'[r] # "add.commit"
  BY <1>2 DEF PatchRead, Own
<1>3. ASSUME NEW i, NEW q, SellRead(r, i, q)
      PROVE  Own(r) /\ pc'[r] # "add.commit"
  BY <1>3 DEF SellRead, Own
<1>4. ASSUME NEW i, DeleteRead(r, i)
      PROVE  Own(r) /\ pc'[r] # "add.commit"
  BY <1>4 DEF DeleteRead, Own
<1>5. ASSUME MergeRead(r)
      PROVE  Own(r) /\ pc'[r] # "add.commit"
  <2>1. snap' = [snap EXCEPT ![r] = snap'[r]]
    BY <1>5 DEF MergeRead, Tables
  <2>2. QED BY <1>5, <2>1 DEF MergeRead, Own
<1>6. ASSUME Withdraw(r)
      PROVE  Own(r) /\ pc'[r] # "add.commit"
  BY <1>6 DEF Withdraw, Own, Tables
<1>7. QED BY <1>1, <1>2, <1>3, <1>4, <1>5, <1>6 DEF Arrive

\* Only the look-up of a code brings a session to the write of an add.
LEMMA ProceedOwn ==
  ASSUME Tables, NEW r \in Requests, Proceed(r)
  PROVE  Own(r) /\ (pc'[r] = "add.commit" => AddRead(r))
<1> USE MovesAreOwn
<1>1. CASE AddRead(r)      BY <1>1 DEF AddRead, Own, Tables
<1>2. CASE AddInsert(r)
  <2>1. snap' = [snap EXCEPT ![r] = snap'[r]]
    BY <1>2 DEF AddInsert, Tables
  <2>2. QED BY <1>2, <2>1 DEF AddInsert, Own
<1>3. CASE AddMerge(r)     BY <1>3 DEF AddMerge, Own
<1>4. CASE AddRefused(r)   BY <1>4 DEF AddRefused, Own, table
<1>5. CASE AddRefresh(r)   BY <1>5 DEF AddRefresh, Own, table
<1>6. CASE PatchCommit(r)  BY <1>6 DEF PatchCommit, Own, table
<1>7. CASE PatchRefresh(r) BY <1>7 DEF PatchRefresh, Own, table
<1>8. CASE DeleteCommit(r) BY <1>8 DEF DeleteCommit, Own
<1>9. CASE SellCommit(r)   BY <1>9 DEF SellCommit, Own, table
<1>10. CASE MergeCommit(r) BY <1>10 DEF MergeCommit, Own, table, Tables
<1>11. QED
  BY <1>1, <1>2, <1>3, <1>4, <1>5, <1>6, <1>7, <1>8, <1>9, <1>10 DEF Proceed

\* A fault is of one session.
LEMMA FaultOwn ==
  ASSUME Tables, NEW r \in Requests, DbError(r) \/ Crash(r)
  PROVE  Own(r) /\ pc'[r] # "add.commit"
<1> USE MovesAreOwn
<1>1. CASE DbError(r) BY <1>1 DEF DbError, Own, table
<1>2. CASE Crash(r)   BY <1>2 DEF Crash, Own, table
<1>3. QED BY <1>1, <1>2

\* Every step is some session's, or leaves the sessions as they are.
LEMMA NextOwn ==
  ASSUME Tables, [Next]_vars
  PROVE  \/ UNCHANGED vars
         \/ \E r \in Requests : Own(r) /\ (pc'[r] = "add.commit" => AddRead(r))
BY ArriveOwn, ProceedOwn, FaultOwn DEF Next, Idle

-----------------------------------------------------------------------------
(* The invariant is inductive *)

\* The empty table.
LEMMA InitRInv == Init => RInv
BY DEF Init, RInv, Tables, NoOrphanRows, Alive, Looked

\* The tables keep their shape, and the ids not handed out stay free.
LEMMA NextTables ==
  ASSUME RInv, [Next]_vars
  PROVE  Tables'
<1> Tables /\ RowsKept
  BY NextRows DEF RInv
<1>1. /\ pc'   = [r \in Requests |-> pc'[r]]
      /\ todo' = [r \in Requests |-> todo'[r]]
      /\ snap' = [r \in Requests |-> snap'[r]]
      /\ eff'  = [r \in Requests |-> eff'[r]]
  BY NextOwn DEF Own, Tables, vars
<1>2. \A i \in RowIds : Alive(i)' => rows'[i] = [code |-> rows'[i].code, qty |-> rows'[i].qty]
  BY DEF RowsKept
<1>3. born' \in Nat
  BY DEF RowsKept, Tables
<1>4. \A i \in RowIds : i > born' => ~Alive(i)'
  BY DEF RowsKept, Tables, RowIds
<1>5. rows' = [i \in RowIds |-> rows'[i]]
  BY DEF RowsKept
<1>6. QED BY <1>1, <1>2, <1>3, <1>4, <1>5 DEF Tables, Alive

\* Only a withdrawal takes the user away, and it takes the rows along; without
\* a user no row is alive, and none is inserted.
LEMMA NextNoOrphanRows ==
  ASSUME RInv, [Next]_vars
  PROVE  NoOrphanRows'
<1> Tables /\ NoOrphanRows /\ RowsKept
  BY NextRows DEF RInv
<1>1. CASE \E r \in Requests : Withdraw(r)
  BY <1>1 DEF Withdraw, NoOrphanRows, Alive
<1>2. CASE user' = user
  BY <1>2 DEF RowsKept, NoOrphanRows
<1>3. (\E r \in Requests : Withdraw(r)) \/ user' = user
  <2>1. ASSUME NEW r \in Requests, Arrive(r) PROVE Withdraw(r) \/ user' = user
    BY <2>1 DEF Arrive, table, AddStart, PatchRead, SellRead, DeleteRead, MergeRead
  <2>2. ASSUME NEW r \in Requests, Proceed(r) PROVE user' = user
    <3>1. CASE AddRead(r) \/ AddInsert(r) \/ AddMerge(r) \/ AddRefused(r) \/ AddRefresh(r)
      BY <3>1 DEF table, AddRead, AddInsert, AddMerge, AddRefused, AddRefresh
    <3>2. CASE PatchCommit(r) \/ PatchRefresh(r) \/ DeleteCommit(r)
      BY <3>2 DEF table, PatchCommit, PatchRefresh, DeleteCommit
    <3>3. CASE SellCommit(r) \/ MergeCommit(r)
      BY <3>3 DEF table, SellCommit, MergeCommit
    <3>4. QED BY <2>2, <3>1, <3>2, <3>3 DEF Proceed
  <2>3. ASSUME NEW r \in Requests, DbError(r) \/ Crash(r) PROVE user' = user
    BY <2>3 DEF table, DbError, Crash
  <2>4. QED BY <2>1, <2>2, <2>3 DEF Next, Idle, vars
<1>4. QED BY <1>1, <1>2, <1>3

\* The row an add finds missing has no older sister: it looked at every row
\* there was, and any row since has a higher id.
LEMMA LookedFresh ==
  ASSUME RInv, NEW r \in Requests, AddRead(r), pc'[r] = "add.commit"
  PROVE  Looked(r)'
<1> DEFINE c == Head(todo[r]).code
<1> Tables BY DEF RInv
<1>1. pc[r] = "add.read" /\ rows' = rows /\ born' = born
  BY DEF AddRead
<1>2. Cardinality(Existing(c)) = 1
  BY MovesAreOwn DEF AddRead
<1>3. /\ \E i \in Existing(c) :
           snap' = [snap EXCEPT ![r] = [NoRead EXCEPT !.row = i, !.at = born,
                      !.qty = IF i = 0 THEN 0 ELSE rows[i].qty]]
      /\ UNCHANGED todo
  BY MovesAreOwn DEF AddRead
<1>4. PICK i \in Existing(c) :
        snap' = [snap EXCEPT ![r] = [NoRead EXCEPT !.row = i, !.at = born,
                   !.qty = IF i = 0 THEN 0 ELSE rows[i].qty]]
  BY <1>3
<1>5. snap'[r].row = i /\ snap'[r].at = born
  BY <1>4 DEF Tables, NoRead
<1>6. i = 0 => Of(c) = {}
  BY <1>4 DEF Existing, Of, RowIds
<1>7. SUFFICES ASSUME snap'[r].row = 0
      PROVE  /\ snap'[r].at \in Nat /\ snap'[r].at <= born'
             /\ \A j \in RowIds : ~(Alive(j)' /\ rows'[j].code = Head(todo'[r]).code)
  BY DEF Looked, Of
<1>8. Of(c) = {}
  BY <1>5, <1>6, <1>7
<1>9. QED BY <1>1, <1>3, <1>5, <1>8 DEF Of, Alive, Tables

\* What an add found missing is still missing, but for younger rows, after a
\* step of another session.
LEMMA LookedKept ==
  ASSUME RInv, RowsKept, NEW r \in Requests, Looked(r),
         pc'[r] = pc[r], todo'[r] = todo[r], snap'[r] = snap[r]
  PROVE  Looked(r)'
<1> Tables BY DEF RInv
<1>1. SUFFICES ASSUME pc[r] = "add.commit", snap[r].row = 0
               PROVE  /\ snap[r].at \in Nat /\ snap[r].at <= born'
                      /\ \A j \in RowIds : Alive(j)' /\ rows'[j].code = Head(todo[r]).code
                           => j > snap[r].at
  BY DEF Looked, Of
<1>2. /\ snap[r].at \in Nat /\ snap[r].at <= born
      /\ \A j \in RowIds : Alive(j) /\ rows[j].code = Head(todo[r]).code => j > snap[r].at
  BY <1>1 DEF Looked, Of
<1>3. ASSUME NEW j \in RowIds, Alive(j)', rows'[j].code = Head(todo[r]).code
      PROVE  j > snap[r].at
  <2>1. CASE Alive(j) /\ \E q : rows'[j] = [code |-> rows[j].code, qty |-> q]
    BY <1>2, <1>3, <2>1
  <2>2. CASE j = born + 1
    BY <1>2, <2>2 DEF Tables
  <2>3. QED BY <1>3, <2>1, <2>2 DEF RowsKept
<1>4. QED BY <1>2, <1>3 DEF RowsKept, Tables

\* After any step.
LEMMA NextLooked ==
  ASSUME RInv, [Next]_vars, NEW r \in Requests
  PROVE  Looked(r)'
<1> Tables /\ RowsKept /\ Looked(r)
  BY NextRows DEF RInv
<1>1. CASE UNCHANGED vars
  BY <1>1, LookedKept DEF vars
<1>2. ASSUME NEW p \in Requests, Own(p), p # r
      PROVE  Looked(r)'
  BY <1>2, LookedKept DEF Own, Tables
<1>3. ASSUME Own(r), pc'[r] = "add.commit" => AddRead(r)
      PROVE  Looked(r)'
  BY <1>3, LookedFresh DEF Looked
<1>4. QED BY <1>1, <1>2, <1>3, NextOwn

\* Every state keeps the ids and codes in order: RInv is inductive.
THEOREM RowsInvariant == Spec => []RInv
<1>1. Init => RInv
  BY InitRInv
<1>2. RInv /\ [Next]_vars => RInv'
  BY NextTables, NextNoOrphanRows, NextLooked DEF RInv
<1>3. QED BY <1>1, <1>2, PTL DEF Spec

-----------------------------------------------------------------------------
(* The theorems *)

\* A row of the table belongs to a user: the withdrawal removes the rows
\* (delete_user), and the foreign key keeps out what was under way.
THEOREM NoRowOutlivesItsUser == Spec => []NoOrphanRows
<1>1. RInv => NoOrphanRows
  BY DEF RInv
<1>2. QED BY <1>1, RowsInvariant, PTL

\* An add inserts a second row of a code only if the first was inserted after
\* the add looked (add_portfolio_item): without that overlap the codes of the
\* table stay distinct.
THEOREM DuplicatesNeedTheRace == Spec => DuplicateNeedsOverlap
<1>1. RInv /\ [Next]_vars => [\A r \in Requests :
        pc[r] = "add.commit" /\ born' = born + 1 /\ eff'[r] # eff[r]
          => \A i \in Of(Head(todo[r]).code) : i > snap[r].at]_vars
  <2> SUFFICES ASSUME RInv, [Next]_vars, NEW r \in Requests,
                      pc[r] = "add.commit", born' = born + 1, eff'[r] # eff[r],
                      NEW i \in Of(Head(todo[r]).code)
               PROVE  i > snap[r].at
    OBVIOUS
  <2> Tables /\ Looked(r) BY DEF RInv
  <2>1. PICK p \in Requests : AddInsert(p)
    <3>1. \A p \in Requests : Arrive(p) => born' = born
      BY DEF Arrive, AddStart, PatchRead, SellRead, DeleteRead, MergeRead, Withdraw, table
    <3>2. \A p \in Requests : Proceed(p) /\ ~AddInsert(p) => born' = born
      BY DEF Proceed, AddRead, AddMerge, AddRefused, AddRefresh, PatchCommit, PatchRefresh,
             DeleteCommit, SellCommit, MergeCommit, table
    <3>3. \A p \in Requests : DbError(p) \/ Crash(p) => born' = born
      BY DEF DbError, Crash, table
    <3>4. Idle \/ UNCHANGED vars => born' = born
      BY DEF Idle, vars
    <3>5. born' # born
      BY DEF Tables
    <3>6. QED BY <3>1, <3>2, <3>3, <3>4, <3>5 DEF Next
  <2>2. p = r
    <3>1. Own(p) BY <2>1, ProceedOwn DEF Proceed
    <3>2. QED BY <3>1 DEF Own, Tables
  <2>3. QED BY <2>1, <2>2 DEF AddInsert, Looked
<1>2. QED BY <1>1, RowsInvariant, PTL DEF Spec, DuplicateNeedsOverlap

-----------------------------------------------------------------------------
(* The shape of the tables *)

\* The parts of the type invariant, with the items within what a payload holds.
TableType == /\ rows  \in [RowIds -> PortfolioRow \cup {NoRow}]
             /\ user  \in BOOLEAN
             /\ owed  \in [Codes -> Int]
             /\ eff   \in [Requests -> Nat]
             /\ clean \in [Requests -> BOOLEAN]
BornType  == born \in 0 .. MaxRows
PlaceType == pc \in [Requests -> Labels] /\ answer \in [Requests -> Answers]
JobType   == job \in [Requests -> Job]
TodoType  == todo \in [Requests -> Seq(Items)]
SnapType  == snap \in [Requests -> Read]
TallyType == tally \in [Requests -> [ok : Nat, bad : Nat]]
Types     == TableType /\ PlaceType /\ JobType /\ TodoType /\ SnapType /\ TallyType

\* Rounding to the last decimal gives a natural number of units.
LEMMA NormalizedNat == ASSUME NEW q \in Nat PROVE Normalized(q) \in Nat
<1> DEFINE k == q \div Step
           m == q % Step
<1>1. Step \in Nat /\ Step > 0
  BY PortfolioAssumption
<1>2. k \in Nat
  BY <1>1
<1> HIDE DEF k, m
<1>3. k * Step \in Nat /\ (k + 1) * Step \in Nat
  BY <1>1, <1>2
<1>4. QED BY <1>3 DEF Normalized, k, m

\* So what a payload carries is one.
LEMMA PayloadNat == Payload \subseteq Nat
BY NormalizedNat, PortfolioAssumption DEF Payload

\* The items of a payload are items.
LEMMA ItemsType == Items \subseteq Item
BY PayloadNat DEF Items, Item

\* The parts make up the type invariant.
LEMMA TypesGiveTypeOK == Types /\ BornType => TypeOK
<1> SUFFICES ASSUME Types, BornType PROVE TypeOK
  OBVIOUS
<1>1. ASSUME NEW r \in Requests PROVE todo[r] \in Seq(Item)
  <2>1. todo[r] \in Seq(Items) BY DEF Types, TodoType
  <2>2. QED BY <2>1, ItemsType, SeqMonotonic
<1>2. QED BY <1>1 DEF TypeOK, Types, TableType, BornType, PlaceType, JobType, SnapType, TallyType

\* A session that goes on to the next place.
LEMMA GotoType ==
  ASSUME PlaceType, NEW r \in Requests, NEW l \in Labels, Goto(r, l)
  PROVE  PlaceType' /\ pc'[r] = l /\ answer'[r] = answer[r]
BY DEF PlaceType, Goto

\* A session that answers.
LEMMA ReplyType ==
  ASSUME PlaceType, NEW r \in Requests, NEW code \in Answers, Reply(r, code)
  PROVE  PlaceType' /\ pc'[r] = "done" /\ answer'[r] = code
BY DEF PlaceType, Reply, Labels

\* A session that starts.
LEMMA AdmitType ==
  ASSUME JobType, NEW r \in Requests, NEW h \in HandlerNames, NEW i \in 0 .. MaxRows, NEW q \in Nat,
         Admit(r, h, i, q)
  PROVE  JobType' /\ pc[r] = "new" /\ job'[r].op = h /\ job'[r].row = i /\ job'[r].qty = q
BY DEF JobType, Job, Admit

\* A change that is committed.
LEMMA CommitType ==
  ASSUME TableType, NEW r \in Requests, NEW c, NEW d \in Int, c \in Codes, Commit(r, c, d)
  PROVE  /\ owed' \in [Codes -> Int] /\ eff' \in [Requests -> Nat] /\ clean' \in [Requests -> BOOLEAN]
         /\ eff'[r] = eff[r] + 1
BY DEF TableType, Commit

\* A row that is there has a code and a quantity.
LEMMA RowType ==
  ASSUME TableType, NEW i \in RowIds, Alive(i)
  PROVE  rows[i] \in PortfolioRow /\ rows[i].qty \in Nat /\ rows[i].code \in Codes
BY DEF TableType, Alive, PortfolioRow

\* A quantity written leaves a table of rows.
LEMMA PutType ==
  ASSUME TableType, NEW i \in RowIds, Alive(i), NEW q \in Nat, NEW read, Put(i, read, q)
  PROVE  rows' \in [RowIds -> PortfolioRow \cup {NoRow}]
<1>1. rows[i] \in PortfolioRow BY RowType
<1>2. \A n \in Nat : [rows[i] EXCEPT !.qty = n] \in PortfolioRow
  BY <1>1 DEF PortfolioRow
<1>3. rows[i].qty \in Nat BY RowType
<1>4. QED BY <1>1, <1>2, <1>3 DEF Put, TableType

\* The total of a code is a sum over finitely many naturals.
LEMMA SumInType ==
  ASSUME NEW t \in [RowIds -> PortfolioRow \cup {NoRow}], NEW c
  PROVE  /\ SumIn(t, c) = QtySum(t, IdsIn(t, c)) /\ IsFiniteSet(IdsIn(t, c))
         /\ \A i \in IdsIn(t, c) : t[i].qty \in Nat
         /\ SumIn(t, c) \in Nat
<1>1. SumIn(t, c) = QtySum(t, IdsIn(t, c))
  BY DEF SumIn, QtySum, IdsIn
<1>2. IsFiniteSet(RowIds)
  BY PortfolioAssumption, FS_Interval DEF RowIds
<1>3. IsFiniteSet(IdsIn(t, c))
  BY <1>2, FS_Subset DEF IdsIn
<1>4. \A i \in IdsIn(t, c) : t[i].qty \in Nat
  BY DEF IdsIn, PortfolioRow
<1> DEFINE I == IdsIn(t, c)
<1> HIDE DEF I
<1>5. QtySum(t, I) \in Nat
  BY <1>3, <1>4, QtyCovers DEF I
<1>6. QED BY <1>1, <1>3, <1>4, <1>5 DEF I

\* When an item is over: one item fewer, and its outcome counted.
LEMMA ItemEndsType ==
  ASSUME Types, NEW r \in Requests, todo[r] # <<>>, NEW stored \in BOOLEAN, ItemEnds(r, stored)
  PROVE  /\ PlaceType' /\ TodoType' /\ TallyType' /\ Len(todo[r]) \in Nat
         /\ todo'[r] = Tail(todo[r]) /\ tally'[r].ok = (IF stored THEN tally[r].ok + 1 ELSE tally[r].ok)
         /\ \/ /\ Len(todo[r]) > 1 /\ todo'[r] # <<>>
               /\ pc'[r] = "add.read" /\ answer'[r] = answer[r]
            \/ /\ ~(Len(todo[r]) > 1) /\ pc'[r] = "done"
               /\ answer'[r] = (IF stored \/ job[r].op = "bulk" THEN "201" ELSE "503")
<1>1. /\ Tail(todo[r]) \in Seq(Items) /\ Len(Tail(todo[r])) = Len(todo[r]) - 1
      /\ Len(todo[r]) \in Nat
  BY HeadTailProperties, LenProperties DEF Types, TodoType
<1>2. TodoType' /\ todo'[r] = Tail(todo[r])
  BY <1>1 DEF Types, TodoType, ItemEnds
<1>3. TallyType' /\ tally'[r].ok = (IF stored THEN tally[r].ok + 1 ELSE tally[r].ok)
  <2>1. CASE stored
    <3>1. tally' = [tally EXCEPT ![r].ok = @ + 1]
      BY <2>1 DEF ItemEnds
    <3>2. TallyType' /\ tally'[r].ok = tally[r].ok + 1
      BY <3>1 DEF Types, TallyType
    <3>3. QED BY <2>1, <3>2
  <2>2. CASE ~stored
    BY <2>2 DEF ItemEnds, Types, TallyType
  <2>3. QED BY <2>1, <2>2
<1>4. CASE Len(todo[r]) > 1
  <2>1. Goto(r, "add.read") BY <1>4 DEF ItemEnds
  <2>2. PlaceType' /\ pc'[r] = "add.read" /\ answer'[r] = answer[r]
    BY <2>1, GotoType DEF Types, Labels
  <2>3. todo'[r] # <<>>
    <3>1. Len(todo'[r]) > 0 BY <1>1, <1>2, <1>4
    <3>2. QED BY <3>1, EmptySeq
  <2>4. QED BY <1>1, <1>2, <1>3, <1>4, <2>2, <2>3
<1>5. CASE ~(Len(todo[r]) > 1)
  <2> DEFINE code == IF stored \/ job[r].op = "bulk" THEN "201" ELSE "503"
  <2>1. Reply(r, code) BY <1>5 DEF ItemEnds
  <2>2. code \in Answers BY DEF Answers
  <2> HIDE DEF code
  <2>3. PlaceType' /\ pc'[r] = "done" /\ answer'[r] = code
    BY <2>1, <2>2, ReplyType DEF Types
  <2>4. QED BY <1>1, <1>2, <1>3, <1>5, <2>3 DEF code
<1>6. QED BY <1>4, <1>5

\* A row as a handler reads it.
LEMMA ReadRowType ==
  ASSUME Types, NEW r \in Requests, NEW i \in RowIds, Alive(i), ReadRow(r, i)
  PROVE  /\ SnapType' /\ clean' \in [Requests -> BOOLEAN]
         /\ snap'[r].row = i /\ snap'[r].code = rows[i].code /\ snap'[r].qty = rows[i].qty
<1>1. rows[i].code \in Codes /\ rows[i].qty \in Nat
  BY RowType DEF Types
<1>2. NoRead \in Read
  BY PortfolioAssumption DEF NoRead, Read, RowIds
<1>3. [NoRead EXCEPT !.row = i, !.code = rows[i].code, !.qty = rows[i].qty] \in Read
  <2>1. \A c \in Codes, q \in Nat : [NoRead EXCEPT !.row = i, !.code = c, !.qty = q] \in Read
    <3>1. i \in 0 .. MaxRows
      BY PortfolioAssumption DEF RowIds
    <3>2. QED BY <1>2, <3>1 DEF Read
  <2>2. QED BY <1>1, <2>1
<1>4. snap'[r] = [NoRead EXCEPT !.row = i, !.code = rows[i].code, !.qty = rows[i].qty]
  BY DEF Types, SnapType, ReadRow
<1>5. snap'[r].row = i /\ snap'[r].code = rows[i].code /\ snap'[r].qty = rows[i].qty
  BY <1>2, <1>4 DEF Read
<1>6. QED BY <1>3, <1>5 DEF Types, SnapType, TableType, ReadRow

-----------------------------------------------------------------------------
(* Where a session stands *)

Adding   == {"add.read", "add.commit", "add.refresh"}
Changing == {"patch.commit", "patch.refresh", "delete.commit", "sell.commit"}

\* Where a session stands in what it was asked to do, and what it has counted.
AddState(r) ==
  pc[r] \in Adding =>
    /\ todo[r] # <<>> /\ job[r].op \in {"create", "bulk"}
    /\ job[r].op = "create" =>
         /\ Len(todo[r]) = 1
         /\ pc[r] = "add.refresh" => eff[r] = 1
         /\ pc[r] # "add.refresh" => eff[r] = 0
    /\ pc[r] = "add.commit"  => snap[r].row <= born
    /\ pc[r] = "add.refresh" => tally[r].ok < eff[r]
ChangeState(r) ==
  pc[r] \in Changing =>
    /\ job[r].row \in RowIds /\ job[r].row <= born
    /\ job[r].op \notin {"merge", "create"}
    /\ pc[r] = "delete.commit" \/ job[r].qty \in Payload
    /\ pc[r] = "sell.commit" => job[r].qty <= snap[r].qty
    /\ snap[r].code \in Codes
MergeState(r) ==
  pc[r] = "merge.commit" => job[r].op = "merge" /\ Duplicated(snap[r].all) # {}
AnswerState(r) ==
  /\ pc[r] # "done" => answer[r] = "none"
  /\ pc[r] = "new"  => eff[r] = 0 /\ tally[r].ok = 0
  /\ answer[r] \in {"400", "404"} => eff[r] = 0
  /\ tally[r].ok <= eff[r]
  /\ answer[r] = "201" /\ job[r].op = "create" => eff[r] = 1
SessionState(r) == AddState(r) /\ ChangeState(r) /\ MergeState(r) /\ AnswerState(r)

\* No row is alive under an id not handed out.
FreeIds == \A i \in RowIds : i > born => ~Alive(i)

\* An item is over: the bulk goes on, or the answer says what was committed.
LEMMA ItemEndsState ==
  ASSUME Types, NEW r \in Requests, pc[r] \in Adding, SessionState(r),
         NEW stored \in BOOLEAN, ItemEnds(r, stored), stored => pc[r] = "add.refresh",
         eff'[r] = eff[r], job' = job, born' = born
  PROVE  PlaceType' /\ TodoType' /\ TallyType' /\ SessionState(r)'
<1>0. todo[r] # <<>> /\ answer[r] = "none"
  BY DEF SessionState, AddState, AnswerState, Adding
<1>1. /\ PlaceType' /\ TodoType' /\ TallyType' /\ Len(todo[r]) \in Nat
      /\ tally'[r].ok = (IF stored THEN tally[r].ok + 1 ELSE tally[r].ok)
      /\ \/ /\ Len(todo[r]) > 1 /\ todo'[r] # <<>>
            /\ pc'[r] = "add.read" /\ answer'[r] = answer[r]
         \/ /\ ~(Len(todo[r]) > 1) /\ pc'[r] = "done"
            /\ answer'[r] = (IF stored \/ job[r].op = "bulk" THEN "201" ELSE "503")
  BY <1>0, ItemEndsType
<1>2. tally[r].ok \in Nat /\ eff[r] \in Nat
  BY DEF Types, TallyType, TableType
<1>3. tally'[r].ok <= eff'[r]
  BY <1>1, <1>2 DEF SessionState, AddState, AnswerState, Adding
<1>4. CASE Len(todo[r]) > 1 /\ todo'[r] # <<>> /\ pc'[r] = "add.read" /\ answer'[r] = answer[r]
  <2>1. AddState(r)'
    <3>1. job[r].op # "create" /\ job[r].op \in {"create", "bulk"}
      <4>1. job[r].op = "create" => Len(todo[r]) = 1
        BY DEF SessionState, AddState
      <4>2. Len(todo[r]) # 1
        <5>1. \A n \in Nat : n > 1 => n # 1
          OBVIOUS
        <5>2. QED BY ONLY <1>1, <1>4, <5>1, Zenon
      <4>3. QED BY <4>1, <4>2 DEF SessionState, AddState
    <3>2. QED BY <1>4, <3>1 DEF AddState
  <2>2. ChangeState(r)' /\ MergeState(r)'
    BY <1>4 DEF ChangeState, MergeState, Changing
  <2>3. AnswerState(r)'
    BY <1>0, <1>3, <1>4 DEF AnswerState
  <2>4. QED BY <1>1, <2>1, <2>2, <2>3 DEF SessionState
<1>5. CASE /\ ~(Len(todo[r]) > 1) /\ pc'[r] = "done"
           /\ answer'[r] = (IF stored \/ job[r].op = "bulk" THEN "201" ELSE "503")
  <2>1. answer'[r] = "201" /\ job[r].op = "create" => eff'[r] = 1
    BY <1>5 DEF SessionState, AddState, Adding
  <2>2. answer'[r] \in {"201", "503"}
    BY <1>5
  <2>3. AddState(r)' /\ ChangeState(r)' /\ MergeState(r)'
    BY <1>5 DEF AddState, ChangeState, MergeState, Adding, Changing
  <2>4. AnswerState(r)'
    BY <1>3, <1>5, <2>1, <2>2 DEF AnswerState
  <2>5. QED BY <1>1, <2>3, <2>4 DEF SessionState
<1>6. QED BY <1>1, <1>4, <1>5

\* An add starts with at least one item.
LEMMA AddStartState ==
  ASSUME Types, BornType, NEW r \in Requests, SessionState(r),
         NEW h \in {"create", "bulk"}, NEW items \in Lists, AddStart(r, h, items)
  PROVE  Types' /\ SessionState(r)'
<1>1. items \in Seq(Items) /\ Len(items) \in Nat /\ items # <<>>
  <2>1. PICK n \in 1 .. MaxItems : items \in [1 .. n -> Items]
    BY DEF Lists
  <2>2. n \in Nat /\ n > 0
    BY <2>1, PortfolioAssumption
  <2>3. items \in Seq(Items) /\ Len(items) = n
    BY <2>1, <2>2, SeqDef
  <2>4. QED BY <2>2, <2>3, EmptySeq
<1>2. JobType' /\ pc[r] = "new" /\ job'[r].op = h
  <2>1. 0 \in 0 .. MaxRows BY PortfolioAssumption
  <2>2. h \in HandlerNames BY DEF HandlerNames
  <2>3. Admit(r, h, 0, 0) BY DEF AddStart, AdmitUser
  <2>4. QED BY <2>1, <2>2, <2>3, AdmitType DEF Types
<1>3. PlaceType' /\ pc'[r] = "add.read" /\ answer'[r] = answer[r]
  BY GotoType DEF Types, AddStart, Labels
<1>4. TodoType' /\ todo'[r] = items
  BY <1>1 DEF Types, TodoType, AddStart
<1>5. TableType' /\ SnapType' /\ TallyType' /\ eff' = eff /\ tally' = tally
  BY DEF Types, TableType, SnapType, TallyType, AddStart, table
<1>6. h = "create" => Len(items) = 1
  BY DEF AddStart
<1>7. QED
  BY <1>1, <1>2, <1>3, <1>4, <1>5, <1>6 DEF Types, SessionState, AddState, ChangeState, MergeState,
     AnswerState, Adding, Changing

\* The row of the code is one with an id handed out, or none.
LEMMA AddReadState ==
  ASSUME Types, BornType, FreeIds, NEW r \in Requests, SessionState(r), AddRead(r)
  PROVE  Types' /\ SessionState(r)'
<1> DEFINE c == Head(todo[r]).code
<1>1. pc[r] \in Adding /\ rows' = rows /\ born' = born /\ user' = user /\ owed' = owed
      /\ eff' = eff /\ job' = job
  BY DEF AddRead, Adding
<1>2. CASE /\ \E i \in Existing(c) :
                snap' = [snap EXCEPT ![r] = [NoRead EXCEPT !.row = i, !.at = born,
                            !.qty = IF i = 0 THEN 0 ELSE rows[i].qty]]
           /\ clean' = [clean EXCEPT ![r] = TRUE]
           /\ Goto(r, "add.commit")
           /\ UNCHANGED <<todo, tally>>
  <2>1. PICK i \in Existing(c) :
          snap' = [snap EXCEPT ![r] = [NoRead EXCEPT !.row = i, !.at = born,
                      !.qty = IF i = 0 THEN 0 ELSE rows[i].qty]]
    BY <1>2
  <2> DEFINE q == IF i = 0 THEN 0 ELSE rows[i].qty
  <2>2. i \in 0 .. MaxRows /\ (i # 0 => i \in RowIds /\ Alive(i))
    BY PortfolioAssumption DEF Existing, Of, RowIds
  <2>3. q \in Nat
    BY <2>2, RowType DEF Types
  <2>4. snap' = [snap EXCEPT ![r] = [NoRead EXCEPT !.row = i, !.at = born, !.qty = q]]
    BY <2>1
  <2> HIDE DEF q
  <2>5. /\ [NoRead EXCEPT !.row = i, !.at = born, !.qty = q] \in Read
        /\ [NoRead EXCEPT !.row = i, !.at = born, !.qty = q].row = i
    BY <2>2, <2>3, PortfolioAssumption DEF NoRead, Read, RowIds, BornType
  <2>6. SnapType' /\ snap'[r].row = i
    BY <2>4, <2>5 DEF Types, SnapType
  <2>7. PlaceType' /\ pc'[r] = "add.commit" /\ answer'[r] = answer[r]
    BY <1>2, GotoType DEF Types, Labels
  <2>8. TableType' /\ JobType' /\ TodoType' /\ TallyType'
    BY <1>1, <1>2 DEF Types, TableType, JobType, TodoType, TallyType
  <2>9. i <= born
    BY <2>2 DEF FreeIds, BornType
  <2>10. AddState(r)'
    BY <1>1, <1>2, <2>6, <2>7, <2>9 DEF SessionState, AddState, AddRead, Adding
  <2>11. ChangeState(r)' /\ MergeState(r)'
    BY <2>7 DEF ChangeState, MergeState, Changing
  <2>12. AnswerState(r)'
    BY <1>1, <1>2, <2>7 DEF SessionState, AnswerState, Adding
  <2>13. QED
    BY <2>6, <2>7, <2>8, <2>10, <2>11, <2>12 DEF Types, SessionState
<1>3. CASE ItemEnds(r, FALSE) /\ UNCHANGED <<snap, clean>>
  <2>1. PlaceType' /\ TodoType' /\ TallyType' /\ SessionState(r)'
    BY <1>1, <1>3, ItemEndsState
  <2>2. QED BY <1>1, <1>3, <2>1 DEF Types, TableType, JobType, SnapType
<1>4. QED BY <1>2, <1>3 DEF AddRead

\* An item is stored: one commit more than the tally says.
LEMMA AddCommitState ==
  ASSUME Types, BornType, FreeIds, NEW r \in Requests, SessionState(r),
         AddInsert(r) \/ AddMerge(r), born < MaxRows \/ ~AddInsert(r)
  PROVE  Types' /\ SessionState(r)'
<1> DEFINE item == Head(todo[r])
<1>1. /\ pc[r] = "add.commit" /\ pc[r] \in Adding /\ job' = job /\ todo' = todo /\ tally' = tally
      /\ user' = user /\ todo[r] # <<>>
  BY DEF AddInsert, AddMerge, Adding, SessionState, AddState
<1>2. item \in Items /\ item.code \in Codes /\ item.qty \in Nat
  <2>1. item \in Items
    BY <1>1, HeadTailProperties DEF Types, TodoType
  <2>2. QED BY <2>1, PayloadNat DEF Items
<1> HIDE DEF item
<1>3. PlaceType' /\ pc'[r] = "add.refresh" /\ answer'[r] = answer[r]
  BY GotoType DEF Types, AddInsert, AddMerge, Labels
<1>4. /\ owed' \in [Codes -> Int] /\ eff' \in [Requests -> Nat] /\ clean' \in [Requests -> BOOLEAN]
      /\ eff'[r] = eff[r] + 1
  <2>1. Commit(r, item.code, item.qty)
    BY DEF AddInsert, AddMerge, item
  <2>2. QED BY <1>2, <2>1, CommitType DEF Types
<1>5. CASE AddInsert(r)
  <2>1. rows' \in [RowIds -> PortfolioRow \cup {NoRow}]
    <3>1. [code |-> item.code, qty |-> item.qty] \in PortfolioRow
      BY <1>2 DEF PortfolioRow
    <3>2. rows' = [rows EXCEPT ![born + 1] = [code |-> item.code, qty |-> item.qty]]
      BY <1>5 DEF AddInsert, item
    <3>3. QED BY <3>1, <3>2 DEF Types, TableType
  <2>2. SnapType' /\ snap'[r].row = born + 1
    <3>1. born + 1 \in 0 .. MaxRows
      BY <1>5, PortfolioAssumption DEF BornType
    <3>2. snap[r] \in Read BY DEF Types, SnapType
    <3>3. [snap[r] EXCEPT !.row = born + 1] \in Read /\ [snap[r] EXCEPT !.row = born + 1].row = born + 1
      BY <3>1, <3>2 DEF Read
    <3>4. snap' = [snap EXCEPT ![r] = [snap[r] EXCEPT !.row = born + 1]]
      BY <1>5 DEF AddInsert
    <3>5. QED BY <3>3, <3>4 DEF Types, SnapType
  <2>3. TableType' /\ JobType' /\ TodoType' /\ TallyType'
    BY <1>1, <1>4, <2>1 DEF Types, TableType, JobType, TodoType, TallyType
  <2>4. eff[r] \in Nat /\ tally[r].ok \in Nat
    BY DEF Types, TableType, TallyType
  <2>5. AddState(r)'
    BY <1>1, <1>3, <1>4, <2>4 DEF SessionState, AddState, AnswerState, Adding
  <2>6. ChangeState(r)' /\ MergeState(r)'
    BY <1>3 DEF ChangeState, MergeState, Changing
  <2>7. AnswerState(r)'
    BY <1>1, <1>3, <1>4, <2>4 DEF SessionState, AnswerState
  <2>8. QED BY <1>3, <2>2, <2>3, <2>5, <2>6, <2>7 DEF Types, SessionState
<1>6. CASE AddMerge(r)
  <2>1. rows' \in [RowIds -> PortfolioRow \cup {NoRow}]
    <3>1. /\ snap[r].row # 0 /\ Alive(snap[r].row)
          /\ Put(snap[r].row, snap[r].qty, snap[r].qty + item.qty)
      BY <1>6 DEF AddMerge, item
    <3>2. snap[r].row \in RowIds /\ snap[r].qty \in Nat
      BY <3>1, PortfolioAssumption DEF Types, SnapType, Read, RowIds
    <3>3. snap[r].qty + item.qty \in Nat
      BY <1>2, <3>2
    <3>4. QED BY <3>1, <3>2, <3>3, PutType DEF Types
  <2>2. SnapType' BY <1>6 DEF AddMerge, Types, SnapType
  <2>3. TableType' /\ JobType' /\ TodoType' /\ TallyType'
    BY <1>1, <1>4, <2>1 DEF Types, TableType, JobType, TodoType, TallyType
  <2>4. eff[r] \in Nat /\ tally[r].ok \in Nat
    BY DEF Types, TableType, TallyType
  <2>5. AddState(r)'
    BY <1>1, <1>3, <1>4, <2>4 DEF SessionState, AddState, AnswerState, Adding
  <2>6. ChangeState(r)' /\ MergeState(r)'
    BY <1>3 DEF ChangeState, MergeState, Changing
  <2>7. AnswerState(r)'
    BY <1>1, <1>3, <1>4, <2>4 DEF SessionState, AnswerState
  <2>8. QED BY <1>3, <2>2, <2>3, <2>5, <2>6, <2>7 DEF Types, SessionState
<1>7. QED BY <1>5, <1>6

\* An item is refused, or counted after the row was read back.
LEMMA AddEndState ==
  ASSUME Types, BornType, NEW r \in Requests, SessionState(r),
         \/ AddRefused(r) \/ AddRefresh(r)
         \/ ItemEnds(r, FALSE) /\ pc[r] \in Adding /\ UNCHANGED <<table, job, snap>>
  PROVE  Types' /\ SessionState(r)'
<1>1. pc[r] \in Adding /\ job' = job /\ snap' = snap /\ UNCHANGED table
  BY DEF AddRefused, AddRefresh, Adding
<1>2. PICK stored \in BOOLEAN : ItemEnds(r, stored) /\ (stored => pc[r] = "add.refresh")
  <2>1. ASSUME AddRefresh(r)
        PROVE  \E stored \in BOOLEAN : ItemEnds(r, stored) /\ (stored => pc[r] = "add.refresh")
    <3>1. ItemEnds(r, Alive(snap[r].row)) /\ pc[r] = "add.refresh"
      BY <2>1 DEF AddRefresh
    <3>2. CASE Alive(snap[r].row)
      <4>1. ItemEnds(r, TRUE)
        BY <3>1, <3>2 DEF ItemEnds
      <4>2. QED BY <3>1, <4>1
    <3>3. CASE ~Alive(snap[r].row)
      <4>1. ItemEnds(r, FALSE)
        BY <3>1, <3>3 DEF ItemEnds
      <4>2. QED BY <4>1
    <3>4. QED BY <3>2, <3>3
  <2>2. QED BY <2>1 DEF AddRefused
<1>3. PlaceType' /\ TodoType' /\ TallyType' /\ SessionState(r)'
  BY <1>1, <1>2, ItemEndsState DEF table
<1>4. QED BY <1>1, <1>3 DEF Types, TableType, JobType, SnapType, table

\* A patch, a delete or a sale finds its row, or is refused.
LEMMA PatchReadState ==
  ASSUME Types, BornType, FreeIds, NEW r \in Requests, SessionState(r), NEW i \in RowIds,
         \/ \E q \in Payload : PatchRead(r, i, q) \/ SellRead(r, i, q)
         \/ DeleteRead(r, i)
  PROVE  Types' /\ SessionState(r)'
<1>1. i \in 0 .. MaxRows /\ 0 \in Nat /\ i \in Nat
  BY PortfolioAssumption DEF RowIds
<1>2. PICK h \in {"patch", "sell", "delete"}, q \in Nat :
        /\ Admit(r, h, i, q) /\ (h = "delete" \/ q \in Payload)
        /\ h = "patch"  => PatchRead(r, i, q)
        /\ h = "sell"   => SellRead(r, i, q)
        /\ h = "delete" => DeleteRead(r, i)
  BY <1>1, PayloadNat DEF PatchRead, SellRead, DeleteRead, AdmitUser
<1>3. JobType' /\ pc[r] = "new" /\ job'[r].op = h /\ job'[r].row = i /\ job'[r].qty = q
  <2>1. h \in HandlerNames BY DEF HandlerNames
  <2>2. QED BY <1>1, <1>2, <2>1, AdmitType DEF Types
<1>4. rows' = rows /\ born' = born /\ user' = user /\ owed' = owed /\ eff' = eff /\ todo' = todo
      /\ tally' = tally
  BY <1>2 DEF PatchRead, SellRead, DeleteRead
<1>5. eff[r] = 0 /\ tally[r].ok = 0 /\ answer[r] = "none"
  BY <1>3 DEF SessionState, AnswerState
<1>6. CASE \E code \in {"400", "404"} : Reply(r, code) /\ UNCHANGED <<snap, clean>>
  <2>1. PICK code \in {"400", "404"} : Reply(r, code) /\ UNCHANGED <<snap, clean>>
    BY <1>6
  <2>2. PlaceType' /\ pc'[r] = "done" /\ answer'[r] = code
    BY <2>1, ReplyType DEF Types, Answers
  <2>3. TableType' /\ TodoType' /\ SnapType' /\ TallyType'
    BY <1>4, <2>1 DEF Types, TableType, TodoType, SnapType, TallyType
  <2>4. AddState(r)' /\ ChangeState(r)' /\ MergeState(r)'
    BY <2>2 DEF AddState, ChangeState, MergeState, Adding, Changing
  <2>5. AnswerState(r)'
    BY <1>4, <1>5, <2>1, <2>2 DEF AnswerState
  <2>6. QED BY <1>3, <2>2, <2>3, <2>4, <2>5 DEF Types, SessionState
<1>7. CASE Alive(i) /\ ReadRow(r, i) /\ (h = "sell" => Sufficient(rows[i].qty, q))
           /\ \E l \in {"patch.commit", "sell.commit", "delete.commit"} :
                Goto(r, l) /\ (l = "sell.commit" <=> h = "sell") /\ (l = "delete.commit" <=> h = "delete")
  <2>1. PICK l \in {"patch.commit", "sell.commit", "delete.commit"} :
          Goto(r, l) /\ (l = "sell.commit" <=> h = "sell") /\ (l = "delete.commit" <=> h = "delete")
    BY <1>7
  <2>2. PlaceType' /\ pc'[r] = l /\ answer'[r] = answer[r]
    BY <2>1, GotoType DEF Types, Labels
  <2>3. /\ SnapType' /\ clean' \in [Requests -> BOOLEAN]
        /\ snap'[r].row = i /\ snap'[r].code = rows[i].code /\ snap'[r].qty = rows[i].qty
    BY <1>7, ReadRowType
  <2>4. TableType' /\ TodoType' /\ TallyType'
    BY <1>4, <2>3 DEF Types, TableType, TodoType, TallyType
  <2>5. i <= born /\ rows[i].code \in Codes
    BY <1>7, RowType DEF FreeIds, BornType, RowIds, Types
  <2>6. AddState(r)' /\ MergeState(r)'
    BY <2>2 DEF AddState, MergeState, Adding
  <2>7. ChangeState(r)'
    BY <1>2, <1>3, <1>4, <1>7, <2>1, <2>2, <2>3, <2>5 DEF ChangeState, Sufficient
  <2>8. AnswerState(r)'
    BY <1>4, <1>5, <2>2 DEF AnswerState
  <2>9. QED BY <1>3, <2>2, <2>3, <2>4, <2>6, <2>7, <2>8 DEF Types, SessionState
<1>8. QED
  BY <1>2, <1>6, <1>7 DEF PatchRead, SellRead, DeleteRead

\* A change that ends: its answer, and what it committed.
LEMMA ReplyState ==
  ASSUME Types, NEW r \in Requests, SessionState(r), pc[r] \in Changing \cup {"merge.commit"},
         NEW code \in {"200", "204", "503"}, Reply(r, code), UNCHANGED <<job, todo, snap, tally>>,
         rows' \in [RowIds -> PortfolioRow \cup {NoRow}], user' = user,
         owed' \in [Codes -> Int], eff' \in [Requests -> Nat], clean' \in [Requests -> BOOLEAN],
         eff'[r] = eff[r] \/ eff'[r] = eff[r] + 1
  PROVE  Types' /\ SessionState(r)'
<1>1. PlaceType' /\ pc'[r] = "done" /\ answer'[r] = code
  BY ReplyType DEF Types, Answers
<1>2. TableType' /\ JobType' /\ TodoType' /\ SnapType' /\ TallyType'
  BY DEF Types, TableType, JobType, TodoType, SnapType, TallyType
<1>3. AddState(r)' /\ ChangeState(r)' /\ MergeState(r)'
  BY <1>1 DEF AddState, ChangeState, MergeState, Adding, Changing
<1>4. tally'[r].ok <= eff'[r]
  BY DEF Types, TableType, TallyType, SessionState, AnswerState
<1>5. AnswerState(r)'
  BY <1>1, <1>4 DEF AnswerState
<1>6. QED BY <1>1, <1>2, <1>3, <1>5 DEF Types, SessionState

\* Without a write the table keeps its shape.
LEMMA SameTableTypes ==
  ASSUME Types, UNCHANGED table
  PROVE  /\ rows' \in [RowIds -> PortfolioRow \cup {NoRow}] /\ user' = user
         /\ owed' \in [Codes -> Int] /\ eff' \in [Requests -> Nat]
         /\ clean' \in [Requests -> BOOLEAN] /\ eff' = eff
BY DEF Types, TableType, table

\* A patch, a delete or a sale answers.
LEMMA ChangeEnds ==
  ASSUME Types, BornType, NEW r \in Requests, SessionState(r),
         PatchRefresh(r) \/ DeleteCommit(r) \/ SellCommit(r)
  PROVE  Types' /\ SessionState(r)'
<1> DEFINE i == job[r].row
<1>1. /\ pc[r] \in Changing /\ UNCHANGED <<job, todo, snap, tally>> /\ i \in RowIds
      /\ snap[r].code \in Codes /\ job[r].qty \in Nat /\ snap[r].qty \in Nat
  BY DEF PatchRefresh, DeleteCommit, SellCommit, Changing, SessionState, ChangeState,
     Types, JobType, Job, SnapType, Read
<1>2. CASE PatchRefresh(r)
  <2>1. PICK code \in {"200", "503"} : Reply(r, code)
    BY <1>2 DEF PatchRefresh
  <2>2. UNCHANGED table BY <1>2 DEF PatchRefresh
  <2>3. QED BY <1>1, <2>1, <2>2, SameTableTypes, ReplyState
<1>3. CASE DeleteCommit(r)
  <2> DEFINE d == IF Alive(i) THEN -rows[i].qty ELSE 0
  <2>1. d \in Int
    BY <1>1, RowType DEF Types
  <2>2. Commit(r, snap[r].code, d) /\ Reply(r, "204") /\ rows' = [rows EXCEPT ![i] = NoRow] /\ user' = user
    BY <1>3 DEF DeleteCommit
  <2> HIDE DEF d
  <2>3. /\ owed' \in [Codes -> Int] /\ eff' \in [Requests -> Nat] /\ clean' \in [Requests -> BOOLEAN]
        /\ eff'[r] = eff[r] + 1
    BY <1>1, <2>1, <2>2, CommitType DEF Types
  <2>4. rows' \in [RowIds -> PortfolioRow \cup {NoRow}]
    BY <2>2 DEF Types, TableType
  <2>5. QED BY <1>1, <2>2, <2>3, <2>4, ReplyState
<1>4. CASE SellCommit(r)
  <2> DEFINE left == snap[r].qty - job[r].qty
  <2>1. CASE ~SoldOut(left) /\ ~Alive(i) /\ Reply(r, "503") /\ UNCHANGED table
    BY <1>1, <2>1, SameTableTypes, ReplyState
  <2>2. ASSUME NEW c \in Codes, Commit(r, c, -job[r].qty), Reply(r, "200"), user' = user,
               rows' \in [RowIds -> PortfolioRow \cup {NoRow}]
        PROVE  Types' /\ SessionState(r)'
    <3>1. -job[r].qty \in Int BY <1>1
    <3>2. /\ owed' \in [Codes -> Int] /\ eff' \in [Requests -> Nat] /\ clean' \in [Requests -> BOOLEAN]
          /\ eff'[r] = eff[r] + 1
      BY <2>2, <3>1, CommitType DEF Types
    <3>3. QED BY <1>1, <2>2, <3>2, ReplyState
  <2>3. CASE /\ rows' = [rows EXCEPT ![i] = NoRow] /\ Commit(r, snap[r].code, -job[r].qty)
             /\ Reply(r, "200") /\ UNCHANGED <<born, user>>
    <3>1. rows' \in [RowIds -> PortfolioRow \cup {NoRow}]
      BY <2>3 DEF Types, TableType
    <3>2. QED BY <1>1, <2>2, <2>3, <3>1
  <2>4. CASE /\ ~SoldOut(left) /\ Alive(i) /\ Put(i, snap[r].qty, left)
             /\ Commit(r, rows[i].code, -job[r].qty) /\ Reply(r, "200") /\ UNCHANGED <<born, user>>
    <3>1. left \in Nat
      BY <1>1, <2>4 DEF SoldOut
    <3> HIDE DEF left
    <3>2. rows' \in [RowIds -> PortfolioRow \cup {NoRow}] /\ rows[i].code \in Codes
      BY <1>1, <2>4, <3>1, PutType, RowType DEF Types
    <3>3. QED BY <2>2, <2>4, <3>2
  <2>5. QED BY <1>4, <2>1, <2>3, <2>4 DEF SellCommit
<1>5. QED BY <1>2, <1>3, <1>4

\* A patch writes, or has nothing to write.
LEMMA PatchCommitState ==
  ASSUME Types, BornType, NEW r \in Requests, SessionState(r), PatchCommit(r)
  PROVE  Types' /\ SessionState(r)'
<1> DEFINE i == job[r].row
<1>1. /\ pc[r] = "patch.commit" /\ UNCHANGED <<job, todo, snap, tally>> /\ i \in RowIds
      /\ i <= born /\ job[r].op \notin {"merge", "create"} /\ job[r].qty \in Payload
      /\ snap[r].code \in Codes /\ job[r].qty \in Nat
  BY PayloadNat DEF PatchCommit, Changing, SessionState, ChangeState
<1>2. JobType' /\ TodoType' /\ SnapType' /\ TallyType'
  BY <1>1 DEF Types, JobType, TodoType, SnapType, TallyType
<1>3. eff[r] \in Nat /\ tally[r].ok \in Nat /\ tally[r].ok <= eff[r] /\ answer[r] = "none"
  BY <1>1 DEF Types, TableType, TallyType, SessionState, AnswerState
<1>4. CASE Reply(r, "503") /\ UNCHANGED table
  <2>1. pc[r] \in Changing BY <1>1 DEF Changing
  <2>2. QED BY <1>1, <1>4, <2>1, SameTableTypes, ReplyState
<1>5. ASSUME Goto(r, "patch.refresh"), TableType', born' = born,
             eff'[r] = eff[r] \/ eff'[r] = eff[r] + 1
      PROVE  Types' /\ SessionState(r)'
  <2>1. PlaceType' /\ pc'[r] = "patch.refresh" /\ answer'[r] = answer[r]
    BY <1>5, GotoType DEF Types, Labels
  <2>2. AddState(r)' /\ MergeState(r)'
    BY <2>1 DEF AddState, MergeState, Adding
  <2>3. ChangeState(r)'
    BY <1>1, <1>5, <2>1 DEF ChangeState
  <2>4. tally'[r].ok <= eff'[r]
    BY <1>1, <1>3, <1>5
  <2>5. AnswerState(r)'
    BY <1>3, <2>1, <2>4 DEF AnswerState
  <2>6. QED BY <1>2, <1>5, <2>1, <2>2, <2>3, <2>5 DEF Types, SessionState
<1>6. CASE Goto(r, "patch.refresh") /\ UNCHANGED table
  <2>1. TableType' /\ born' = born /\ eff' = eff
    BY <1>6 DEF Types, TableType, table
  <2>2. QED BY <1>5, <1>6, <2>1
<1>7. CASE /\ Alive(i) /\ Put(i, snap[r].qty, job[r].qty)
           /\ Commit(r, rows[i].code, job[r].qty - rows[i].qty)
           /\ Goto(r, "patch.refresh") /\ UNCHANGED <<born, user>>
  <2>1. rows[i].code \in Codes /\ job[r].qty - rows[i].qty \in Int
    <3>1. rows[i].code \in Codes /\ rows[i].qty \in Nat
      BY <1>1, <1>7, RowType DEF Types
    <3>2. QED BY <1>1, <3>1
  <2>2. rows' \in [RowIds -> PortfolioRow \cup {NoRow}]
    BY <1>1, <1>7, PutType DEF Types
  <2>3. /\ owed' \in [Codes -> Int] /\ eff' \in [Requests -> Nat] /\ clean' \in [Requests -> BOOLEAN]
        /\ eff'[r] = eff[r] + 1
    BY <1>7, <2>1, CommitType DEF Types
  <2>4. TableType'
    BY <1>7, <2>2, <2>3 DEF Types, TableType
  <2>5. QED BY <1>5, <1>7, <2>3, <2>4
<1>8. QED BY <1>4, <1>6, <1>7 DEF PatchCommit

\* A merge has duplicates to merge, or answers.
LEMMA MergeReadState ==
  ASSUME Types, BornType, NEW r \in Requests, SessionState(r), MergeRead(r)
  PROVE  Types' /\ SessionState(r)'
<1>1. JobType' /\ pc[r] = "new" /\ job'[r].op = "merge"
  <2>1. "merge" \in HandlerNames /\ 0 \in 0 .. MaxRows
    BY PortfolioAssumption DEF HandlerNames
  <2>2. Admit(r, "merge", 0, 0) BY DEF MergeRead
  <2>3. QED BY <2>1, <2>2, AdmitType DEF Types
<1>2. rows' = rows /\ born' = born /\ user' = user /\ owed' = owed /\ eff' = eff /\ todo' = todo
      /\ tally' = tally
  BY DEF MergeRead
<1>3. eff[r] = 0 /\ tally[r].ok = 0 /\ answer[r] = "none"
  BY <1>1 DEF SessionState, AnswerState
<1>4. CASE /\ Duplicated(rows) # {} /\ Goto(r, "merge.commit")
           /\ snap' = [snap EXCEPT ![r] = [NoRead EXCEPT !.all = rows]]
           /\ clean' = [clean EXCEPT ![r] = TRUE]
  <2>1. PlaceType' /\ pc'[r] = "merge.commit" /\ answer'[r] = answer[r]
    BY <1>4, GotoType DEF Types, Labels
  <2>2. /\ [NoRead EXCEPT !.all = rows] \in Read /\ [NoRead EXCEPT !.all = rows].all = rows
    BY PortfolioAssumption DEF NoRead, Read, RowIds, Types, TableType
  <2>3. SnapType' /\ snap'[r].all = rows
    BY <1>4, <2>2 DEF Types, SnapType
  <2>4. TableType' /\ TodoType' /\ TallyType'
    BY <1>2, <1>4 DEF Types, TableType, TodoType, TallyType
  <2>5. AddState(r)' /\ ChangeState(r)'
    BY <2>1 DEF AddState, ChangeState, Adding, Changing
  <2>6. MergeState(r)'
    <3>1. Duplicated(snap'[r].all) # {}
      BY <1>4, <2>3
    <3>2. QED BY <1>1, <3>1 DEF MergeState, Duplicated, IdsIn
  <2>7. AnswerState(r)'
    BY <1>2, <1>3, <2>1 DEF AnswerState
  <2>8. QED BY <1>1, <2>1, <2>3, <2>4, <2>5, <2>6, <2>7 DEF Types, SessionState
<1>5. CASE Reply(r, "200") /\ UNCHANGED <<snap, clean>>
  <2>1. PlaceType' /\ pc'[r] = "done" /\ answer'[r] = "200"
    BY <1>5, ReplyType DEF Types, Answers
  <2>2. TableType' /\ TodoType' /\ SnapType' /\ TallyType'
    BY <1>2, <1>5 DEF Types, TableType, TodoType, SnapType, TallyType
  <2>3. AddState(r)' /\ ChangeState(r)' /\ MergeState(r)'
    BY <2>1 DEF AddState, ChangeState, MergeState, Adding, Changing
  <2>4. AnswerState(r)'
    BY <1>2, <1>3, <2>1 DEF AnswerState
  <2>5. QED BY <1>1, <2>1, <2>2, <2>3, <2>4 DEF Types, SessionState
<1>6. QED BY <1>4, <1>5 DEF MergeRead

\* What the commit of a merge does to each row.
LEMMA MergedRows ==
  ASSUME Types, NEW r \in Requests, MergeCommit(r), ~UNCHANGED table
  PROVE  LET t == snap[r].all
             D == Duplicated(t)
         IN  /\ \A c \in D : Alive(Primary(t, c))
             /\ \A i \in RowIds :
                  /\ (\E c \in D : i = Primary(t, c)) =>
                       \E q \in Nat : /\ rows'[i] = [rows[i] EXCEPT !.qty = q]
                                      /\ q = rows[i].qty \/ q = SumIn(t, t[i].code)
                                      /\ SumIn(t, t[i].code) # t[i].qty => q = SumIn(t, t[i].code)
                                      /\ SumIn(t, t[i].code) = t[i].qty => q = rows[i].qty
                  /\ ~(\E c \in D : i = Primary(t, c)) =>
                       rows'[i] = IF \E c \in D : i \in IdsIn(t, c) THEN NoRow ELSE rows[i]
             /\ rows' = [i \in RowIds |-> rows'[i]]
<1> DEFINE t == snap[r].all
           D == Duplicated(t)
<1>1. /\ \A c \in D : Alive(Primary(t, c))
      /\ rows' = [i \in RowIds |->
                 IF \E c \in D : i = Primary(t, c)
                   THEN LET old == t[i]
                            new == Merged(t, old.code)
                        IN  [rows[i] EXCEPT !.qty = IF new = old.qty THEN @ ELSE new]
                 ELSE IF \E c \in D : i \in IdsIn(t, c) THEN NoRow
                 ELSE rows[i]]
  BY DEF MergeCommit
<1>2. t \in [RowIds -> PortfolioRow \cup {NoRow}]
  BY DEF Types, SnapType, Read
<1> HIDE DEF t
<1>3. \A c : SumIn(t, c) \in Nat
  BY <1>2, SumInType
<1>4. ASSUME NEW i \in RowIds, \E c \in D : i = Primary(t, c)
      PROVE  \E q \in Nat : /\ rows'[i] = [rows[i] EXCEPT !.qty = q]
                            /\ q = rows[i].qty \/ q = SumIn(t, t[i].code)
                            /\ SumIn(t, t[i].code) # t[i].qty => q = SumIn(t, t[i].code)
                            /\ SumIn(t, t[i].code) = t[i].qty => q = rows[i].qty
  <2> DEFINE new == SumIn(t, t[i].code)
             q   == IF new = t[i].qty THEN rows[i].qty ELSE new
  <2>1. rows'[i] = [rows[i] EXCEPT !.qty = q]
    BY <1>1, <1>4 DEF Merged
  <2>2. Alive(i)
    BY <1>1, <1>4
  <2>3. q \in Nat
    BY <1>3, <2>2, RowType DEF Types
  <2>4. q = rows[i].qty \/ q = new
    OBVIOUS
  <2>5. (new # t[i].qty => q = new) /\ (new = t[i].qty => q = rows[i].qty)
    OBVIOUS
  <2> HIDE DEF q
  <2>6. QED BY <2>1, <2>3, <2>4, <2>5
<1>5. \A i \in RowIds : ~(\E c \in D : i = Primary(t, c)) =>
         rows'[i] = IF \E c \in D : i \in IdsIn(t, c) THEN NoRow ELSE rows[i]
  BY <1>1
<1>6. rows' = [i \in RowIds |-> rows'[i]]
  BY <1>1
<1>7. QED BY <1>1, <1>4, <1>5, <1>6 DEF t

\* A merge leaves a table of rows.
LEMMA MergeCommitState ==
  ASSUME Types, BornType, NEW r \in Requests, SessionState(r), MergeCommit(r)
  PROVE  Types' /\ SessionState(r)'
<1>1. /\ pc[r] = "merge.commit" /\ UNCHANGED <<job, todo, snap, tally>> /\ Reply(r, "200")
  BY DEF MergeCommit
<1>2. CASE UNCHANGED table
  BY <1>1, <1>2, SameTableTypes, ReplyState
<1>3. CASE ~UNCHANGED table
  <2> DEFINE t == snap[r].all
             D == Duplicated(t)
  <2>1. user' = user /\ owed' = owed /\ eff' = [eff EXCEPT ![r] = @ + 1]
        /\ clean' = [p \in Requests |-> clean[p] /\ clean[r] /\ job[p].op = "merge"]
    BY <1>3 DEF MergeCommit
  <2>2. /\ owed' \in [Codes -> Int] /\ eff' \in [Requests -> Nat] /\ clean' \in [Requests -> BOOLEAN]
        /\ eff'[r] = eff[r] + 1
    BY <2>1 DEF Types, TableType
  <2>3. \A i \in RowIds : rows'[i] \in PortfolioRow \cup {NoRow}
    <3>1. ASSUME NEW i \in RowIds, \E c \in D : i = Primary(t, c)
          PROVE  rows'[i] \in PortfolioRow
      <4>1. PICK q \in Nat : rows'[i] = [rows[i] EXCEPT !.qty = q]
        BY <1>3, <3>1, MergedRows
      <4>2. Alive(i)
        BY <1>3, <3>1, MergedRows
      <4>3. rows[i] \in PortfolioRow
        BY <4>2, RowType DEF Types
      <4>4. QED BY <4>1, <4>3 DEF PortfolioRow
    <3>2. ASSUME NEW i \in RowIds, ~(\E c \in D : i = Primary(t, c))
          PROVE  rows'[i] \in PortfolioRow \cup {NoRow}
      <4>1. rows'[i] = NoRow \/ rows'[i] = rows[i]
        BY <1>3, <3>2, MergedRows
      <4>2. QED BY <4>1 DEF Types, TableType
    <3>3. QED BY <3>1, <3>2
  <2>4. rows' = [i \in RowIds |-> rows'[i]]
    BY <1>3, MergedRows
  <2>5. rows' \in [RowIds -> PortfolioRow \cup {NoRow}]
    BY <2>3, <2>4
  <2>6. QED BY <1>1, <2>1, <2>2, <2>5, ReplyState
<1>4. QED BY <1>2, <1>3

\* A withdrawal leaves an empty one.
LEMMA WithdrawState ==
  ASSUME Types, BornType, NEW r \in Requests, SessionState(r), Withdraw(r)
  PROVE  Types' /\ SessionState(r)'
<1>1. JobType' /\ pc[r] = "new" /\ job'[r].op = "withdraw"
  <2>1. "withdraw" \in HandlerNames /\ 0 \in 0 .. MaxRows
    BY PortfolioAssumption DEF HandlerNames
  <2>2. Admit(r, "withdraw", 0, 0) BY DEF Withdraw, AdmitUser
  <2>3. QED BY <2>1, <2>2, AdmitType DEF Types
<1>2. TableType'
  <2>1. rows' \in [RowIds -> PortfolioRow \cup {NoRow}] /\ user' \in BOOLEAN
    BY DEF Withdraw
  <2>2. owed' \in [Codes -> Int]
    BY DEF Withdraw
  <2>3. eff' \in [Requests -> Nat]
    BY DEF Withdraw, Types, TableType
  <2>4. clean' \in [Requests -> BOOLEAN]
    BY DEF Withdraw
  <2>5. QED BY <2>1, <2>2, <2>3, <2>4 DEF TableType
<1>6. TodoType' /\ SnapType' /\ TallyType'
  BY DEF Withdraw, Types, TodoType, SnapType, TallyType
<1>3. PlaceType' /\ pc'[r] = "done" /\ answer'[r] = "200"
  BY ReplyType DEF Types, Answers, Withdraw
<1>4. AddState(r)' /\ ChangeState(r)' /\ MergeState(r)'
  BY <1>3 DEF AddState, ChangeState, MergeState, Adding, Changing
<1>5. AnswerState(r)'
  BY <1>1, <1>3 DEF SessionState, AnswerState, Withdraw, Types, TableType
<1>7. QED BY <1>1, <1>2, <1>3, <1>4, <1>5, <1>6 DEF Types, SessionState

\* The database raises, or the pod stops.
LEMMA FaultState ==
  ASSUME Types, BornType, NEW r \in Requests, SessionState(r), DbError(r) \/ Crash(r)
  PROVE  Types' /\ SessionState(r)'
<1>1. CASE DbError(r)
  <2>1. CASE pc[r] \in {"add.read", "add.commit"} /\ ItemEnds(r, FALSE)
    <3>1. pc[r] \in Adding /\ UNCHANGED <<table, job, snap>>
      BY <1>1, <2>1 DEF DbError, Adding
    <3>2. QED BY <2>1, <3>1, AddEndState
  <2>2. CASE pc[r] \in {"patch.commit", "delete.commit", "sell.commit"} /\ Reply(r, "503")
             /\ UNCHANGED <<todo, tally>>
    <3>1. pc[r] \in Changing /\ UNCHANGED <<table, job, snap>>
      BY <1>1, <2>2 DEF DbError, Changing
    <3>2. QED BY <2>2, <3>1, SameTableTypes, ReplyState
  <2>3. QED BY <1>1, <2>1, <2>2 DEF DbError
<1>2. CASE Crash(r)
  <2>1. PlaceType' /\ pc'[r] = "crashed" /\ answer'[r] = answer[r]
    BY <1>2, GotoType DEF Types, Crash, Labels
  <2>2. TableType' /\ JobType' /\ TodoType' /\ SnapType' /\ TallyType'
        /\ eff' = eff /\ job' = job /\ tally' = tally
    BY <1>2 DEF Crash, Types, TableType, JobType, TodoType, SnapType, TallyType, table
  <2>3. AddState(r)' /\ ChangeState(r)' /\ MergeState(r)'
    BY <2>1 DEF AddState, ChangeState, MergeState, Adding, Changing
  <2>4. pc[r] \notin {"new", "done"}
    BY <1>2 DEF Crash, InFlight
  <2>5. AnswerState(r)'
    BY <2>1, <2>2, <2>4 DEF SessionState, AnswerState
  <2>6. QED BY <2>1, <2>2, <2>3, <2>5 DEF Types, SessionState
<1>3. QED BY <1>1, <1>2

-----------------------------------------------------------------------------
(* The ids suffice *)

\* The rows an add may still insert.
Left(r) ==
  IF pc[r] \in {"add.read", "add.commit"} THEN Len(todo[r])
  ELSE IF pc[r] = "add.refresh" THEN Len(todo[r]) - 1 ELSE 0

\* The ids handed out, and those the adds under way may still take, are within
\* the bound.
IdsSuffice ==
  /\ IsFiniteSet(InFlight)
  /\ born \in Nat
  /\ \A left, F : left = [r \in Requests |-> Left(r)] /\ F = InFlight
       => born + SumOver(left, F) <= MaxRows

\* What an add has left is a number of its items.
LEMMA LeftType ==
  ASSUME Types, NEW r \in Requests, SessionState(r)
  PROVE  /\ Len(todo[r]) \in Nat /\ Left(r) \in Nat /\ Left(r) <= Len(todo[r])
         /\ r \notin InFlight => Left(r) = 0
         /\ pc[r] = "add.commit" => Left(r) > 0
<1>1. Len(todo[r]) \in Nat
  BY LenProperties DEF Types, TodoType
<1>2. pc[r] \in Adding => Len(todo[r]) > 0
  <2>1. todo[r] \in Seq(Items)
    BY DEF Types, TodoType
  <2>2. pc[r] \in Adding => todo[r] # <<>>
    BY DEF SessionState, AddState
  <2>3. todo[r] # <<>> => Len(todo[r]) # 0
    BY <2>1, EmptySeq
  <2>4. QED BY <1>1, <2>2, <2>3
<1> DEFINE n == Len(todo[r])
<1> HIDE DEF n
<1>3. n \in Nat /\ (pc[r] \in Adding => n > 0)
  BY <1>1, <1>2 DEF n
<1>4. Left(r) = IF pc[r] \in {"add.read", "add.commit"} THEN n
                ELSE IF pc[r] = "add.refresh" THEN n - 1 ELSE 0
  BY DEF Left, n
<1>5. /\ n \in Nat /\ Left(r) \in Nat /\ Left(r) <= n
      /\ r \notin InFlight => Left(r) = 0
      /\ pc[r] = "add.commit" => Left(r) > 0
  BY <1>3, <1>4 DEF Adding, InFlight
<1>6. QED BY <1>5 DEF n

\* One session's part of the sum.
LEMMA LoadApart ==
  ASSUME NEW left, NEW F, IsFiniteSet(F), NEW r,
         \A p \in F \cup {r} : left[p] \in Nat, r \notin F => left[r] = 0
  PROVE  /\ SumOver(left, F) = left[r] + SumOver(left, F \ {r})
         /\ SumOver(left, F \ {r}) \in Nat /\ IsFiniteSet(F \ {r})
<1> DEFINE R == F \ {r}
<1>1. IsFiniteSet(R)
  BY FS_Subset
<1>2. SumOver(left, R) \in Nat
  <2>1. \A p \in R : left[p] \in Nat OBVIOUS
  <2> HIDE DEF R
  <2>2. QED BY <1>1, <2>1, SumCovers
<1>3. CASE r \in F
  <2>1. SumOver(left, F) = left[r] + SumOver(left, R)
    BY <1>3, SumSplit
  <2>2. QED BY <1>1, <1>2, <2>1
<1>4. CASE r \notin F
  <2>1. R = F BY <1>4
  <2> HIDE DEF R
  <2>2. SumOver(left, F) = left[r] + SumOver(left, R)
    BY <1>2, <1>4, <2>1
  <2>3. QED BY <1>1, <1>2, <2>2 DEF R
<1>5. QED BY <1>3, <1>4

\* An id is left for an add about to insert.
LEMMA IdIsFree ==
  ASSUME Types, IdsSuffice, \A p \in Requests : SessionState(p),
         NEW r \in Requests, pc[r] = "add.commit"
  PROVE  born < MaxRows
<1> DEFINE left == [p \in Requests |-> Left(p)]
           rest == SumOver(left, InFlight \ {r})
<1>1. left[r] \in Nat /\ left[r] > 0 /\ \A p \in Requests : left[p] \in Nat
  BY LeftType
<1>2. r \in InFlight /\ InFlight \subseteq Requests
  BY DEF InFlight
<1>3. born + SumOver(left, InFlight) <= MaxRows
  BY DEF IdsSuffice
<1> HIDE DEF left
<1>4. SumOver(left, InFlight) = left[r] + rest /\ rest \in Nat
  BY <1>1, <1>2, LoadApart DEF IdsSuffice
<1> HIDE DEF rest
<1>5. born \in Nat BY DEF IdsSuffice
<1>6. MaxRows \in Nat BY PortfolioAssumption
<1>7. QED BY <1>1, <1>3, <1>4, <1>5, <1>6

\* A step that takes no more ids than its session had left.
LEMMA LoadKept ==
  ASSUME IdsSuffice, NEW r \in Requests,
         \A p \in Requests : Left(p) \in Nat /\ (p \notin InFlight => Left(p) = 0),
         \A p \in Requests : Left(p)' \in Nat /\ (p \notin InFlight' => Left(p)' = 0),
         \A p \in Requests : p # r => pc'[p] = pc[p] /\ todo'[p] = todo[p],
         born' \in Nat, born' + Left(r)' <= born + Left(r)
  PROVE  IdsSuffice'
<1>1. \A p \in Requests : p # r => Left(p)' = Left(p)
  BY DEF Left
<1>2. InFlight' \ {r} = InFlight \ {r}
  BY DEF InFlight
<1>3. IsFiniteSet(InFlight')
  <2>1. IsFiniteSet(InFlight \cup {r})
    BY FS_AddElement DEF IdsSuffice
  <2>2. InFlight' \subseteq InFlight \cup {r}
    BY <1>2
  <2>3. QED BY <2>1, <2>2, FS_Subset
<1> DEFINE R == InFlight \ {r}
<1>4. ASSUME NEW before, before = [p \in Requests |-> Left(p)],
             NEW after, after = [p \in Requests |-> Left(p)']
      PROVE  born' + SumOver(after, InFlight') <= MaxRows
  <2>1. /\ \A p \in Requests : before[p] = Left(p) /\ before[p] \in Nat
        /\ \A p \in Requests : after[p] = Left(p)' /\ after[p] \in Nat
    BY <1>4
  <2>2. InFlight \subseteq Requests /\ InFlight' \subseteq Requests
    BY DEF InFlight
  <2>3. /\ SumOver(before, InFlight) = before[r] + SumOver(before, R)
        /\ SumOver(before, R) \in Nat /\ IsFiniteSet(R)
    BY <2>1, <2>2, LoadApart DEF IdsSuffice
  <2>4. /\ SumOver(after, InFlight') = after[r] + SumOver(after, R)
        /\ SumOver(after, R) \in Nat
    <3>1. ASSUME NEW G, G = InFlight'
          PROVE  /\ SumOver(after, G) = after[r] + SumOver(after, G \ {r})
                 /\ SumOver(after, G \ {r}) \in Nat
      <4>1. IsFiniteSet(G) /\ (\A p \in G \cup {r} : after[p] \in Nat) /\ (r \notin G => after[r] = 0)
        BY <1>3, <2>1, <2>2, <3>1
      <4>2. /\ SumOver(after, G) = after[r] + SumOver(after, G \ {r})
            /\ SumOver(after, G \ {r}) \in Nat /\ IsFiniteSet(G \ {r})
        BY ONLY <4>1, LoadApart
      <4>3. QED BY <4>2
    <3>2. QED BY <1>2, <3>1
  <2>5. SumOver(before, R) = SumOver(after, R)
    <3>1. \A p \in R : before[p] = after[p]
      BY <1>1, <2>1, <2>2
    <3> HIDE DEF R
    <3>2. QED BY <2>3, <3>1, SumSame
  <2>6. born + SumOver(before, InFlight) <= MaxRows
    BY <1>4 DEF IdsSuffice
  <2>7. born' + after[r] <= born + before[r] /\ before[r] \in Nat /\ after[r] \in Nat
    BY <2>1
  <2>8. born \in Nat /\ MaxRows \in Nat
    BY PortfolioAssumption DEF IdsSuffice
  <2> DEFINE rest == SumOver(before, R)
  <2>9. born + (before[r] + rest) <= MaxRows /\ SumOver(after, InFlight') = after[r] + rest /\ rest \in Nat
    BY <2>3, <2>4, <2>5, <2>6
  <2> HIDE DEF rest
  <2>10. QED BY ONLY <2>7, <2>8, <2>9, born' \in Nat
<1>5. QED BY <1>3, <1>4 DEF IdsSuffice

\* Items are admitted with room for their rows.
LEMMA LoadTaken ==
  ASSUME Types, IdsSuffice, \A p \in Requests : SessionState(p),
         \A p \in Requests : Left(p)' \in Nat,
         NEW r \in Requests, NEW h \in {"create", "bulk"}, NEW items \in Lists, AddStart(r, h, items)
  PROVE  IdsSuffice'
<1>1. /\ pc[r] = "new" /\ todo' = [todo EXCEPT ![r] = items] /\ born' = born
      /\ pc' = [pc EXCEPT ![r] = "add.read"] /\ born + Pending + Len(items) <= MaxRows
  BY DEF AddStart, AdmitUser, Admit, Goto, table
<1>2. r \notin InFlight /\ InFlight' = InFlight \cup {r} /\ InFlight \subseteq Requests
  BY <1>1 DEF InFlight, Types, PlaceType
<1>3. IsFiniteSet(InFlight')
  BY <1>2, FS_AddElement DEF IdsSuffice
<1>4. /\ todo'[r] = items
      /\ \A p \in Requests : p # r => pc'[p] = pc[p] /\ todo'[p] = todo[p]
  BY <1>1 DEF Types, PlaceType, TodoType
<1>5. Left(r)' = Len(items) /\ Len(items) \in Nat
  <2>1. pc'[r] = "add.read" BY <1>1 DEF Types, PlaceType
  <2>2. QED BY <1>4, <2>1 DEF Left
<1> DEFINE lens == [p \in InFlight |-> Len(todo[p])]
<1>6. Pending = SumOver(lens, InFlight)
  <2> DEFINE F == InFlight
  <2>1. IsFiniteSet(F) BY DEF IdsSuffice
  <2>2. Pending = MapThenSumSet(LAMBDA p : Len(todo[p]), F)
    BY DEF Pending
  <2> HIDE DEF F
  <2>3. MapThenSumSet(LAMBDA p : Len(todo[p]), F) = SumOver([p \in F |-> Len(todo[p])], F)
    BY <2>1, LenSumIsSum
  <2>4. QED BY <2>2, <2>3 DEF F
<1>7. ASSUME NEW after, after = [p \in Requests |-> Left(p)']
      PROVE  born' + SumOver(after, InFlight') <= MaxRows
  <2>1. \A p \in Requests : after[p] = Left(p)' /\ after[p] \in Nat
    BY <1>7
  <2>2. SumOver(after, InFlight') = after[r] + SumOver(after, InFlight)
    <3>1. \A p \in InFlight \cup {r} : after[p] \in Int BY <1>2, <2>1
    <3>2. SumOver(after, InFlight \cup {r}) = after[r] + SumOver(after, InFlight)
      BY <1>2, <3>1, SumAdd DEF IdsSuffice
    <3>3. QED BY <1>2, <3>2
  <2>3. \A p \in InFlight : after[p] \in Nat /\ lens[p] \in Nat /\ after[p] <= lens[p]
    BY <1>2, <1>4, <2>1, LeftType DEF Left
  <2>4. SumOver(after, InFlight) <= SumOver(lens, InFlight)
    <3> HIDE DEF lens
    <3>1. QED BY <2>3, SumLeq DEF IdsSuffice
  <2>5. SumOver(after, InFlight) \in Nat /\ SumOver(lens, InFlight) \in Nat
    <3> HIDE DEF lens
    <3>1. QED BY <2>3, SumCovers DEF IdsSuffice
  <2>6. born \in Nat /\ MaxRows \in Nat
    BY PortfolioAssumption DEF IdsSuffice
  <2> DEFINE a == SumOver(after, InFlight)
             b == SumOver(lens, InFlight)
             n == Len(items)
  <2>7. /\ SumOver(after, InFlight') = n + a /\ born + b + n <= MaxRows /\ a <= b
        /\ a \in Nat /\ b \in Nat /\ n \in Nat
    BY <1>1, <1>5, <1>6, <2>1, <2>2, <2>4, <2>5
  <2> HIDE DEF a, b, n
  <2>8. QED BY <1>1, <2>6, <2>7
<1>8. born' \in Nat BY <1>1 DEF IdsSuffice
<1>9. QED BY <1>3, <1>7, <1>8 DEF IdsSuffice

\* The same for all sessions,
LEMMA LeftTypes ==
  (\A p \in Requests : Types /\ SessionState(p) => Left(p) \in Nat /\ (p \notin InFlight => Left(p) = 0))
BY LeftType

\* and after the step.
LEMMA LeftTypesAfter ==
  (\A p \in Requests : Types /\ SessionState(p) => Left(p) \in Nat /\ (p \notin InFlight => Left(p) = 0))'
BY LeftTypes, PTL

-----------------------------------------------------------------------------
(* The sessions between each other *)

\* A step of r leaves what the other sessions know and have counted.
Frame(r) ==
  \A p \in Requests : p # r =>
    /\ pc'[p] = pc[p] /\ todo'[p] = todo[p] /\ snap'[p] = snap[p] /\ eff'[p] = eff[p]
    /\ job'[p] = job[p] /\ tally'[p] = tally[p] /\ answer'[p] = answer[p]

\* The frame, from the part known of every step.
LEMMA FrameFromOwn ==
  ASSUME Types, NEW r \in Requests, Own(r),
         \A p \in Requests : p # r => job'[p] = job[p] /\ tally'[p] = tally[p] /\ answer'[p] = answer[p]
  PROVE  Frame(r)
BY DEF Frame, Own, Types, PlaceType, TodoType, SnapType, TableType

\* What an action is built of leaves the answers and tallies of the others.
LEMMA MovesLeaveAnswers ==
  ASSUME Types, NEW r \in Requests, NEW p \in Requests, p # r
  PROVE  /\ \A l : Goto(r, l) => answer'[p] = answer[p]
         /\ \A code : Reply(r, code) => answer'[p] = answer[p]
         /\ \A h, i, q : Admit(r, h, i, q) => job'[p] = job[p]
         /\ \A b : ItemEnds(r, b) => answer'[p] = answer[p] /\ tally'[p] = tally[p]
<1>1. \A l : Goto(r, l) => answer'[p] = answer[p]
  BY DEF Goto
<1>2. \A code : Reply(r, code) => answer'[p] = answer[p]
  BY DEF Reply, Types, PlaceType
<1>3. \A h, i, q : Admit(r, h, i, q) => job'[p] = job[p]
  BY DEF Admit, Types, JobType
<1>4. ASSUME NEW b, ItemEnds(r, b) PROVE answer'[p] = answer[p] /\ tally'[p] = tally[p]
  <2>1. answer'[p] = answer[p]
    BY <1>1, <1>2, <1>4 DEF ItemEnds
  <2>2. \/ tally' = [tally EXCEPT ![r].ok  = @ + 1]
        \/ tally' = [tally EXCEPT ![r].bad = @ + 1]
    BY <1>4 DEF ItemEnds
  <2>3. QED BY <2>1, <2>2 DEF Types, TallyType
<1>5. QED BY <1>1, <1>2, <1>3, <1>4

\* An arrival leaves the others as they are,
LEMMA ArriveFrame ==
  ASSUME Tables, Types, NEW r \in Requests, Arrive(r)
  PROVE  Frame(r)
<1> SUFFICES ASSUME NEW p \in Requests, p # r
             PROVE  job'[p] = job[p] /\ tally'[p] = tally[p] /\ answer'[p] = answer[p]
  BY ArriveOwn, FrameFromOwn
<1> USE MovesLeaveAnswers
<1>1. ASSUME NEW h, NEW items, AddStart(r, h, items)
      PROVE  job'[p] = job[p] /\ tally'[p] = tally[p] /\ answer'[p] = answer[p]
  BY <1>1 DEF AddStart, AdmitUser
<1>2. ASSUME NEW i, NEW q, PatchRead(r, i, q)
      PROVE  job'[p] = job[p] /\ tally'[p] = tally[p] /\ answer'[p] = answer[p]
  BY <1>2 DEF PatchRead, AdmitUser
<1>3. ASSUME NEW i, NEW q, SellRead(r, i, q)
      PROVE  job'[p] = job[p] /\ tally'[p] = tally[p] /\ answer'[p] = answer[p]
  BY <1>3 DEF SellRead, AdmitUser
<1>4. ASSUME NEW i, DeleteRead(r, i)
      PROVE  job'[p] = job[p] /\ tally'[p] = tally[p] /\ answer'[p] = answer[p]
  BY <1>4 DEF DeleteRead, AdmitUser
<1>5. ASSUME MergeRead(r)
      PROVE  job'[p] = job[p] /\ tally'[p] = tally[p] /\ answer'[p] = answer[p]
  BY <1>5 DEF MergeRead
<1>6. ASSUME Withdraw(r)
      PROVE  job'[p] = job[p] /\ tally'[p] = tally[p] /\ answer'[p] = answer[p]
  BY <1>6 DEF Withdraw, AdmitUser
<1>7. QED BY <1>1, <1>2, <1>3, <1>4, <1>5, <1>6 DEF Arrive

\* so does the next step of a session,
LEMMA ProceedFrame ==
  ASSUME Tables, Types, NEW r \in Requests, Proceed(r)
  PROVE  Frame(r)
<1> SUFFICES ASSUME NEW p \in Requests, p # r
             PROVE  job'[p] = job[p] /\ tally'[p] = tally[p] /\ answer'[p] = answer[p]
  BY ProceedOwn, FrameFromOwn
<1> USE MovesLeaveAnswers
<1>1. CASE AddRead(r)      BY <1>1 DEF AddRead
<1>2. CASE AddInsert(r)    BY <1>2 DEF AddInsert
<1>3. CASE AddMerge(r)     BY <1>3 DEF AddMerge
<1>4. CASE AddRefused(r)   BY <1>4 DEF AddRefused
<1>5. CASE AddRefresh(r)   BY <1>5 DEF AddRefresh
<1>6. CASE PatchCommit(r)  BY <1>6 DEF PatchCommit
<1>7. CASE PatchRefresh(r) BY <1>7 DEF PatchRefresh
<1>8. CASE DeleteCommit(r) BY <1>8 DEF DeleteCommit
<1>9. CASE SellCommit(r)   BY <1>9 DEF SellCommit
<1>10. CASE MergeCommit(r) BY <1>10 DEF MergeCommit
<1>11. QED
  BY <1>1, <1>2, <1>3, <1>4, <1>5, <1>6, <1>7, <1>8, <1>9, <1>10 DEF Proceed

\* and a fault.
LEMMA FaultFrame ==
  ASSUME Tables, Types, NEW r \in Requests, DbError(r) \/ Crash(r)
  PROVE  Frame(r)
<1> SUFFICES ASSUME NEW p \in Requests, p # r
             PROVE  job'[p] = job[p] /\ tally'[p] = tally[p] /\ answer'[p] = answer[p]
  BY FaultOwn, FrameFromOwn
<1> USE MovesLeaveAnswers
<1>1. CASE DbError(r) BY <1>1 DEF DbError
<1>2. CASE Crash(r)   BY <1>2 DEF Crash
<1>3. QED BY <1>1, <1>2

\* Where a session stands outlasts the steps of others: ids only grow.
LEMMA OthersState ==
  ASSUME Tables, Types, RowsKept, NEW r \in Requests, Frame(r), NEW p \in Requests, p # r, SessionState(p)
  PROVE  SessionState(p)'
<1>1. /\ pc'[p] = pc[p] /\ todo'[p] = todo[p] /\ snap'[p] = snap[p] /\ eff'[p] = eff[p]
      /\ job'[p] = job[p] /\ tally'[p] = tally[p] /\ answer'[p] = answer[p]
  BY DEF Frame
<1>2. born \in Nat /\ born' \in Nat /\ born <= born' /\ snap[p].row \in Nat
      /\ job[p].row \in Nat
  BY DEF RowsKept, Tables, Types, SnapType, Read, JobType, Job
<1>3. AddState(p)'
  <2>1. snap[p].row <= born => snap'[p].row <= born'
    BY <1>1, <1>2
  <2> SUFFICES ASSUME pc[p] \in Adding
      PROVE  /\ todo[p] # <<>> /\ job[p].op \in {"create", "bulk"}
             /\ job[p].op = "create" =>
                 /\ Len(todo[p]) = 1
                 /\ pc[p] = "add.refresh" => eff[p] = 1
                 /\ pc[p] # "add.refresh" => eff[p] = 0
             /\ pc[p] = "add.commit"  => snap'[p].row <= born'
             /\ pc[p] = "add.refresh" => tally[p].ok < eff[p]
    BY <1>1 DEF AddState
  <2>2. QED BY <2>1 DEF SessionState, AddState
<1>4. ChangeState(p)'
  <2>1. job[p].row <= born => job'[p].row <= born'
    BY <1>1, <1>2
  <2>2. QED BY <1>1, <2>1 DEF SessionState, ChangeState
<1>5. MergeState(p)'
  BY <1>1 DEF SessionState, MergeState, Duplicated, IdsIn
<1>6. AnswerState(p)'
  BY <1>1 DEF SessionState, AnswerState
<1>7. QED BY <1>3, <1>4, <1>5, <1>6 DEF SessionState

-----------------------------------------------------------------------------
(* The sessions' invariant *)

\* Types, the bound on the ids, and where each session stands.
PInv == Types /\ IdsSuffice /\ \A r \in Requests : SessionState(r)

\* Nobody has started.
LEMMA InitPInv == Init => PInv
<1> SUFFICES ASSUME Init PROVE PInv
  OBVIOUS
<1>1. TableType
  BY DEF Init, TableType
<1>2. PlaceType /\ JobType /\ TodoType /\ TallyType
  <2>1. <<>> \in Seq(Items) BY EmptySeq
  <2>2. 0 \in 0 .. MaxRows BY PortfolioAssumption
  <2>3. QED BY <2>1, <2>2 DEF Init, PlaceType, JobType, Job, TodoType, TallyType, Labels, Answers
<1>3. SnapType
  BY PortfolioAssumption DEF Init, SnapType, NoRead, Read
<1>4. ASSUME NEW r \in Requests PROVE SessionState(r)
  <2>1. pc[r] = "new" /\ answer[r] = "none" /\ eff[r] = 0 /\ tally[r].ok = 0
    BY DEF Init
  <2>2. QED BY <2>1 DEF SessionState, AddState, ChangeState, MergeState, AnswerState, Adding, Changing
<1>5. IdsSuffice
  <2>1. InFlight = {} BY DEF Init, InFlight
  <2>2. IsFiniteSet(InFlight) /\ born = 0 BY <2>1, FS_EmptySet DEF Init
  <2>3. ASSUME NEW left, NEW F, F = InFlight PROVE born + SumOver(left, F) <= MaxRows
    <3>1. SumOver(left, {}) = 0 BY SumEmpty
    <3>2. F = {} BY <2>1, <2>3
    <3>3. SumOver(left, F) = 0 BY <3>1, <3>2
    <3>4. QED BY <2>2, <3>3, PortfolioAssumption
  <2>4. QED BY <2>2, <2>3 DEF IdsSuffice
<1>6. QED BY <1>1, <1>2, <1>3, <1>4, <1>5 DEF PInv, Types

\* The ids handed out are within the bound.
LEMMA BornTypeHolds == ASSUME PInv PROVE BornType /\ born \in Nat
<1>1. born \in Nat BY DEF PInv, IdsSuffice
<1> DEFINE left == [p \in Requests |-> Left(p)]
<1>2. born + SumOver(left, InFlight) <= MaxRows
  BY DEF PInv, IdsSuffice
<1>3. SumOver(left, InFlight) \in Nat
  <2>1. \A p \in InFlight : left[p] \in Nat
    BY LeftType DEF PInv, InFlight
  <2>2. IsFiniteSet(InFlight) BY DEF PInv, IdsSuffice
  <2> HIDE DEF left
  <2>3. QED BY <2>1, <2>2, SumCovers
<1> HIDE DEF left
<1>4. MaxRows \in Nat BY PortfolioAssumption
<1>5. QED BY <1>1, <1>2, <1>3, <1>4 DEF BornType

\* An arrival leaves its session in order,
LEMMA ArriveState ==
  ASSUME RInv, PInv, NEW r \in Requests, Arrive(r)
  PROVE  Types' /\ SessionState(r)'
<1>1. Types /\ BornType /\ FreeIds /\ SessionState(r)
  BY BornTypeHolds DEF PInv, RInv, Tables, FreeIds
<1>2. CASE \E h \in {"create", "bulk"}, items \in Lists : AddStart(r, h, items)
  BY <1>1, <1>2, AddStartState
<1>3. CASE \E i \in RowIds, q \in Payload : PatchRead(r, i, q) \/ SellRead(r, i, q)
  BY <1>1, <1>3, PatchReadState
<1>4. CASE \E i \in RowIds : DeleteRead(r, i)
  BY <1>1, <1>4, PatchReadState
<1>5. CASE MergeRead(r) BY <1>1, <1>5, MergeReadState
<1>6. CASE Withdraw(r)  BY <1>1, <1>6, WithdrawState
<1>7. QED BY <1>2, <1>3, <1>4, <1>5, <1>6 DEF Arrive

\* so does every later step.
LEMMA ProceedState ==
  ASSUME RInv, PInv, NEW r \in Requests, Proceed(r)
  PROVE  Types' /\ SessionState(r)'
<1>1. Types /\ BornType /\ FreeIds /\ SessionState(r)
  BY BornTypeHolds DEF PInv, RInv, Tables, FreeIds
<1>2. CASE AddRead(r) BY <1>1, <1>2, AddReadState
<1>3. CASE AddInsert(r) \/ AddMerge(r)
  <2>1. born < MaxRows
    BY <1>3, IdIsFree DEF AddInsert, AddMerge, PInv
  <2>2. QED BY <1>1, <1>3, <2>1, AddCommitState
<1>4. CASE AddRefused(r) \/ AddRefresh(r) BY <1>1, <1>4, AddEndState
<1>5. CASE PatchCommit(r) BY <1>1, <1>5, PatchCommitState
<1>6. CASE PatchRefresh(r) \/ DeleteCommit(r) \/ SellCommit(r) BY <1>1, <1>6, ChangeEnds
<1>7. CASE MergeCommit(r) BY <1>1, <1>7, MergeCommitState
<1>8. QED BY <1>2, <1>3, <1>4, <1>5, <1>6, <1>7 DEF Proceed

\* An item that is over frees what it had left.
LEMMA ItemEndsLoad ==
  ASSUME Types, NEW r \in Requests, SessionState(r), pc[r] \in Adding,
         NEW b, ItemEnds(r, b), born' = born
  PROVE  born' + Left(r)' <= born + Left(r) \/ born \notin Nat
<1>1. todo[r] # <<>> /\ todo[r] \in Seq(Items)
  BY DEF SessionState, AddState, Types, TodoType
<1>2. todo'[r] = Tail(todo[r])
  BY DEF ItemEnds, Types, TodoType
<1>3. Len(Tail(todo[r])) = Len(todo[r]) - 1 /\ Len(todo[r]) \in Nat /\ Len(todo[r]) > 0
  <2>1. Len(todo[r]) \in Nat BY <1>1, LenProperties
  <2>2. Len(Tail(todo[r])) = Len(todo[r]) - 1 BY <1>1, HeadTailProperties
  <2>3. Len(todo[r]) # 0 BY <1>1, EmptySeq
  <2>4. QED BY <2>1, <2>2, <2>3
<1>4. pc'[r] \in {"add.read", "done"}
  BY DEF ItemEnds, Goto, Reply, Types, PlaceType
<1> DEFINE n == Len(todo[r])
<1>5. n \in Nat /\ n > 0 /\ Len(todo'[r]) = n - 1
  BY <1>2, <1>3
<1>6. Left(r) = IF pc[r] \in {"add.read", "add.commit"} THEN n
                ELSE IF pc[r] = "add.refresh" THEN n - 1 ELSE 0
  BY DEF Left
<1>7. Left(r)' = IF pc'[r] = "add.read" THEN n - 1 ELSE 0
  BY <1>4, <1>5 DEF Left
<1> HIDE DEF n
<1>8. Left(r)' <= Left(r) /\ Left(r)' \in Nat /\ Left(r) \in Nat
  BY <1>5, <1>6, <1>7 DEF Adding
<1>9. QED BY <1>8

\* A session past its adds needs no ids.
LEMMA NoLoad ==
  ASSUME NEW r \in Requests, pc'[r] \notin Adding, born' = born, born \in Nat, Left(r) \in Nat
  PROVE  born' + Left(r)' <= born + Left(r)
<1>1. Left(r)' = 0 BY DEF Left, Adding
<1>2. QED BY <1>1

\* Only an add takes ids in advance.
LEMMA ArriveLoad ==
  ASSUME Tables, PInv, NEW r \in Requests, Arrive(r), \A h \in {"create", "bulk"}, items \in Lists : ~AddStart(r, h, items)
  PROVE  born' + Left(r)' <= born + Left(r)
<1>1. born' = born /\ born \in Nat /\ Left(r) \in Nat
  <2>1. born' = born
    BY DEF Arrive, PatchRead, SellRead, DeleteRead, MergeRead, Withdraw
  <2>2. QED BY <2>1, LeftType, BornTypeHolds DEF PInv
<1>2. pc'[r] \notin Adding
  <2>1. \/ \E l \in {"patch.commit", "delete.commit", "sell.commit", "merge.commit"} : Goto(r, l)
        \/ \E code : Reply(r, code)
    BY DEF Arrive, PatchRead, SellRead, DeleteRead, MergeRead, Withdraw
  <2>2. QED BY <2>1, MovesAreOwn DEF Adding
<1>3. QED BY <1>1, <1>2, NoLoad

\* An insert takes one of those its session had left.
LEMMA ProceedLoad ==
  ASSUME Tables, PInv, NEW r \in Requests, Proceed(r)
  PROVE  born' + Left(r)' <= born + Left(r) /\ born' \in Nat
<1>1. born \in Nat /\ Left(r) \in Nat /\ Types /\ SessionState(r)
  BY LeftType, BornTypeHolds DEF PInv
<1>2. CASE pc[r] \in Adding /\ born' = born /\ \E b : ItemEnds(r, b)
  BY <1>1, <1>2, ItemEndsLoad
<1>3. CASE AddRead(r) /\ Goto(r, "add.commit") /\ todo' = todo
  <2>1. pc[r] = "add.read" /\ pc'[r] = "add.commit" /\ born' = born
    BY <1>3, MovesAreOwn DEF AddRead
  <2>2. Left(r)' = Left(r)
    BY <1>3, <2>1 DEF Left
  <2>3. QED BY <1>1, <2>1, <2>2
<1>4. CASE AddInsert(r) \/ AddMerge(r)
  <2>1. pc[r] = "add.commit" /\ pc'[r] = "add.refresh" /\ todo' = todo
        /\ (born' = born \/ born' = born + 1)
    BY <1>4, MovesAreOwn DEF AddInsert, AddMerge
  <2>2. Left(r) = Len(todo[r]) /\ Left(r)' = Len(todo[r]) - 1
    BY <2>1 DEF Left
  <2> DEFINE n == Len(todo[r])
  <2>3. n \in Nat /\ Left(r) = n /\ Left(r)' = n - 1
    BY <1>1, <2>2
  <2> HIDE DEF n
  <2>4. QED BY <1>1, <2>1, <2>3
<1>5. CASE pc'[r] \notin Adding /\ born' = born
  BY <1>1, <1>5, NoLoad
<1>6. CASE PatchCommit(r) \/ PatchRefresh(r) \/ DeleteCommit(r) \/ SellCommit(r) \/ MergeCommit(r)
  <2>1. (Goto(r, "patch.refresh") \/ \E code : Reply(r, code)) /\ born' = born
    BY <1>6 DEF PatchCommit, PatchRefresh, DeleteCommit, SellCommit, MergeCommit, table
  <2>2. pc'[r] \notin Adding BY <2>1, MovesAreOwn DEF Adding
  <2>3. QED BY <1>5, <2>1, <2>2
<1>7. CASE AddRefused(r) \/ AddRefresh(r)
  <2>1. pc[r] \in Adding /\ born' = born /\ \E b : ItemEnds(r, b)
    BY <1>7 DEF AddRefused, AddRefresh, Adding, table
  <2>2. QED BY <1>2, <2>1
<1>8. CASE AddRead(r)
  <2>1. pc[r] \in Adding /\ born' = born
    BY <1>8 DEF AddRead, Adding
  <2>2. (\E b : ItemEnds(r, b)) \/ (Goto(r, "add.commit") /\ todo' = todo)
    BY <1>8 DEF AddRead
  <2>3. QED BY <1>2, <1>3, <1>8, <2>1, <2>2
<1>9. QED BY <1>4, <1>6, <1>7, <1>8 DEF Proceed

\* A fault takes none.
LEMMA FaultLoad ==
  ASSUME Tables, PInv, NEW r \in Requests, DbError(r) \/ Crash(r)
  PROVE  born' + Left(r)' <= born + Left(r) /\ born' = born
<1>1. born \in Nat /\ Left(r) \in Nat /\ Types /\ SessionState(r) /\ born' = born
  BY LeftType, BornTypeHolds DEF PInv, DbError, Crash, table
<1>2. CASE pc[r] \in Adding /\ \E b : ItemEnds(r, b)
  BY <1>1, <1>2, ItemEndsLoad
<1>3. CASE pc'[r] \notin Adding
  BY <1>1, <1>3, NoLoad
<1>4. CASE Crash(r)
  <2>1. pc'[r] = "crashed" BY <1>4, MovesAreOwn DEF Crash
  <2>2. QED BY <1>3, <2>1 DEF Adding
<1>5. CASE DbError(r)
  <2>1. (pc[r] \in Adding /\ ItemEnds(r, FALSE)) \/ Reply(r, "503")
    BY <1>5 DEF DbError, Adding
  <2>2. Reply(r, "503") => pc'[r] \notin Adding BY MovesAreOwn DEF Adding
  <2>3. QED BY <1>2, <1>3, <2>1, <2>2
<1>6. QED BY <1>4, <1>5

\* A step of one session.
LEMMA StepState ==
  ASSUME RInv, PInv, RowsKept, NEW r \in Requests, Frame(r), Types', SessionState(r)'
  PROVE  /\ \A p \in Requests : SessionState(p)'
         /\ \A p \in Requests : Left(p)' \in Nat /\ (p \notin InFlight' => Left(p)' = 0)
         /\ \A p \in Requests : Left(p) \in Nat /\ (p \notin InFlight => Left(p) = 0)
         /\ \A p \in Requests : p # r => pc'[p] = pc[p] /\ todo'[p] = todo[p]
<1>1. \A p \in Requests : SessionState(p)'
  BY OthersState DEF PInv, RInv
<1>2. \A p \in Requests : Left(p)' \in Nat /\ (p \notin InFlight' => Left(p)' = 0)
  BY <1>1, LeftTypesAfter
<1>3. \A p \in Requests : Left(p) \in Nat /\ (p \notin InFlight => Left(p) = 0)
  BY LeftTypes DEF PInv
<1>4. QED BY <1>1, <1>2, <1>3 DEF Frame

\* PInv is inductive, given RInv.
LEMMA NextPInv ==
  ASSUME RInv, PInv, [Next]_vars
  PROVE  PInv'
<1>1. Tables /\ Types /\ IdsSuffice /\ RowsKept /\ (\A p \in Requests : SessionState(p)) /\ born \in Nat
  BY NextRows, BornTypeHolds DEF RInv, PInv
<1>2. ASSUME NEW r \in Requests, Frame(r), Types', SessionState(r)',
             born' + Left(r)' <= born + Left(r), born' \in Nat
      PROVE  PInv'
  <2>1. IdsSuffice'
    BY <1>1, <1>2, StepState, LoadKept
  <2>2. \A p \in Requests : SessionState(p)'
    BY <1>1, <1>2, StepState
  <2>3. QED BY <1>2, <2>1, <2>2 DEF PInv
<1>3. ASSUME NEW r \in Requests, Arrive(r) PROVE PInv'
  <2>1. Frame(r) /\ Types' /\ SessionState(r)'
    BY <1>1, <1>3, ArriveFrame, ArriveState
  <2>2. CASE \E h \in {"create", "bulk"}, items \in Lists : AddStart(r, h, items)
    <3>1. PICK h \in {"create", "bulk"}, items \in Lists : AddStart(r, h, items)
      BY <2>2
    <3>2. IdsSuffice'
      BY <1>1, <2>1, <3>1, StepState, LoadTaken
    <3>3. \A p \in Requests : SessionState(p)'
      BY <1>1, <2>1, StepState
    <3>4. QED BY <2>1, <3>2, <3>3 DEF PInv
  <2>3. CASE \A h \in {"create", "bulk"}, items \in Lists : ~AddStart(r, h, items)
    <3>1. born' + Left(r)' <= born + Left(r)
      BY <1>1, <1>3, <2>3, ArriveLoad
    <3>2. born' \in Nat BY <1>1 DEF RowsKept
    <3>3. QED BY <1>2, <2>1, <3>1, <3>2
  <2>4. QED BY <2>2, <2>3
<1>4. ASSUME NEW r \in Requests, Proceed(r) PROVE PInv'
  BY <1>1, <1>2, <1>4, ProceedFrame, ProceedState, ProceedLoad
<1>5. ASSUME NEW r \in Requests, DbError(r) \/ Crash(r) PROVE PInv'
  <2>1. BornType BY BornTypeHolds
  <2>2. born' + Left(r)' <= born + Left(r) /\ born' = born
    BY <1>1, <1>5, FaultLoad
  <2>3. QED BY <1>1, <1>2, <1>5, <2>1, <2>2, FaultFrame, FaultState
<1>6. CASE UNCHANGED vars
  <2>1. Types' BY <1>1, <1>6 DEF vars, Types, TableType, PlaceType, JobType, TodoType, SnapType, TallyType
  <2>2. ASSUME NEW p \in Requests PROVE SessionState(p)'
    BY <1>1, <1>6 DEF vars, SessionState, AddState, ChangeState, MergeState, AnswerState, Duplicated, IdsIn
  <2>3. IdsSuffice'
    <3>1. InFlight' = InFlight /\ (\A p \in Requests : Left(p)' = Left(p)) /\ born' = born
      BY <1>6 DEF vars, InFlight, Left
    <3>2. QED BY <1>1, <3>1 DEF IdsSuffice
  <2>4. QED BY <2>1, <2>2, <2>3 DEF PInv
<1>7. QED BY <1>3, <1>4, <1>5, <1>6 DEF Next, Idle

\* Every session stands where its answer and its commits agree, and the ids
\* handed out stay within the bound.
THEOREM SessionsInvariant == Spec => []PInv
<1>1. Init => PInv
  BY InitPInv
<1>2. RInv /\ PInv /\ [Next]_vars => PInv'
  BY NextPInv
<1>3. QED BY <1>1, <1>2, RowsInvariant, PTL DEF Spec

\* The tables keep their shape, the ids AUTO_INCREMENT hands out included.
THEOREM TablesAreTyped == Spec => []TypeOK
<1>1. PInv => TypeOK
  BY BornTypeHolds, TypesGiveTypeOK DEF PInv
<1>2. QED BY <1>1, SessionsInvariant, PTL

\* A refused request changed nothing, a bulk calls stored only what it
\* committed, and 201 for one asset means one commit (create_portfolio_item,
\* bulk_create_portfolio_items, patch_portfolio_item, sell_portfolio_item).
THEOREM AnswersHold == Spec => []AnswersAreTrue
<1>1. PInv => AnswersAreTrue
  BY DEF PInv, SessionState, AnswerState, AnswersAreTrue
<1>2. QED BY <1>1, SessionsInvariant, PTL

-----------------------------------------------------------------------------
(* What a session read *)

\* What a merge makes of the rows it read, when nothing else was written since.
Merge(t) ==
  [i \in RowIds |->
     IF \E c \in Duplicated(t) : i = Primary(t, c)
       THEN [t[i] EXCEPT !.qty = SumIn(t, t[i].code)]
     ELSE IF \E c \in Duplicated(t) : i \in IdsIn(t, c) THEN NoRow
     ELSE t[i]]

\* The row a session is about to write is, while it is there, of the code it was
\* read under.
CodeState(r) ==
  /\ pc[r] = "add.commit" /\ snap[r].row # 0 /\ Alive(snap[r].row)
       => rows[snap[r].row].code = Head(todo[r]).code
  /\ pc[r] \in {"patch.commit", "delete.commit", "sell.commit"} /\ Alive(job[r].row)
       => rows[job[r].row].code = snap[r].code

\* A session nobody's commit came in between still finds what it read, or, for a
\* merge, what another merge made of it.
CleanState(r) ==
  clean[r] =>
    /\ pc[r] = "add.commit" /\ snap[r].row # 0
         => Alive(snap[r].row) /\ rows[snap[r].row].qty = snap[r].qty
    /\ pc[r] \in {"patch.commit", "delete.commit", "sell.commit"}
         => Alive(job[r].row) /\ rows[job[r].row].qty = snap[r].qty
    /\ pc[r] = "merge.commit" => rows \in {snap[r].all, Merge(snap[r].all)}

\* What a merge read is positive.
ReadPositive(r) ==
  pc[r] = "merge.commit" => \A i \in RowIds : snap[r].all[i] # NoRow => snap[r].all[i].qty > 0

\* Codes and quantities are as read.
ReadsInv == \A r \in Requests : CodeState(r) /\ CleanState(r)

\* So are the rows, and what a merge will write of them.
PosInv == RowsArePositive /\ \A r \in Requests : ReadPositive(r)

-----------------------------------------------------------------------------
(* Stored quantities are positive *)

\* More than half of the last decimal does not round to zero.
LEMMA NormalizedPositive ==
  ASSUME NEW q \in Nat, 2 * q > Step
  PROVE  Normalized(q) > 0
<1> DEFINE k == q \div Step
           m == q % Step
<1>1. Step \in Nat /\ Step > 0
  BY PortfolioAssumption
<1>2. k \in Nat /\ (q < Step => k = 0 /\ m = q)
  BY <1>1
<1>3. q >= Step => k > 0
  BY <1>1
<1> HIDE DEF k, m
<1>4. /\ (k + 1) * Step > 0
      /\ k > 0 => k * Step > 0
  BY <1>1, <1>2
<1>5. CASE k > 0
  BY <1>4, <1>5 DEF Normalized, k, m
<1>6. CASE k = 0
  <2>1. m = q /\ ~(2 * m < Step) /\ ~(2 * m = Step)
    BY <1>1, <1>2, <1>3, <1>6
  <2>2. Normalized(q) = (k + 1) * Step
    BY <2>1 DEF Normalized, k, m
  <2>3. QED BY <1>4, <2>2
<1>7. QED BY <1>2, <1>5, <1>6

\* Nor does what a payload carries.
LEMMA PayloadPositive ==
  ASSUME \A q \in Amounts : 2 * q > Step
  PROVE  \A q \in Payload : q > 0
BY NormalizedPositive, PortfolioAssumption DEF Payload

\* A finite set of numbers has a least element: the one below which there are
\* the fewest.
LEMMA LeastExists ==
  ASSUME NEW I, IsFiniteSet(I), I \subseteq Nat, I # {}
  PROVE  \E i \in I : \A j \in I : i <= j
<1> DEFINE Below(i) == {j \in I : j <= i}
           Bad == {Below(i) : i \in I}
<1>1. PICK T \in Bad : \A U \in Bad : U \subseteq T => U = T
  <2>0. Bad \in SUBSET (SUBSET I) OBVIOUS
  <2>1. Bad # {} OBVIOUS
  <2> HIDE DEF Bad, Below
  <2>2. \E T \in Bad : \A U \in Bad : U \subseteq T => U = T
    BY ONLY IsFiniteSet(I), <2>0, <2>1, SmallestSet
  <2>3. QED BY <2>2
<1>2. PICK i \in I : T = Below(i)
  OBVIOUS
<1>3. ASSUME NEW j \in I PROVE i <= j
  <2>1. CASE j <= i
    <3>1. \A k \in I : k <= j => k <= i
      <4>1. i \in Nat /\ j \in Nat /\ \A k \in I : k \in Nat OBVIOUS
      <4>2. QED BY ONLY <2>1, <4>1
    <3>5. Below(j) \subseteq Below(i) BY <3>1
    <3>2. Below(j) = Below(i) BY <1>1, <1>2, <3>5
    <3>3. i \in Below(i) OBVIOUS
    <3>4. QED BY <3>2, <3>3
  <2>2. CASE ~(j <= i)
    BY <2>2
  <2>3. QED BY <2>1, <2>2
<1>4. QED BY <1>3

\* The row a merge keeps is the first of its code.
LEMMA PrimaryIn ==
  ASSUME NEW t, NEW c, Cardinality(IdsIn(t, c)) > 1
  PROVE  Primary(t, c) \in IdsIn(t, c) /\ \A j \in IdsIn(t, c) : Primary(t, c) <= j
<1>1. IdsIn(t, c) \subseteq Nat /\ IsFiniteSet(IdsIn(t, c))
  <2>1. IsFiniteSet(RowIds) /\ RowIds \subseteq Nat
    BY PortfolioAssumption, FS_Interval DEF RowIds
  <2>2. QED BY <2>1, FS_Subset DEF IdsIn
<1>2. IdsIn(t, c) # {}
  BY FS_EmptySet
<1>3. \E i \in IdsIn(t, c) : \A j \in IdsIn(t, c) : i <= j
  <2> DEFINE I == IdsIn(t, c)
  <2> HIDE DEF I
  <2>1. I \subseteq Nat /\ IsFiniteSet(I) /\ I # {} BY <1>1, <1>2 DEF I
  <2>2. QED BY <2>1, LeastExists DEF I
<1>4. QED BY <1>3 DEF Primary

\* A positive quantity written.
LEMMA PutPositive ==
  ASSUME Types, RowsArePositive, NEW i \in RowIds, Alive(i), NEW q \in Nat, q > 0, NEW read, Put(i, read, q)
  PROVE  RowsArePositive'
<1>1. rows[i] \in PortfolioRow /\ rows[i].qty > 0
  BY RowType DEF Types, RowsArePositive
<1> DEFINE n == IF q = read THEN rows[i].qty ELSE q
<1>2. n > 0 BY <1>1
<1>3. rows' = [rows EXCEPT ![i] = [rows[i] EXCEPT !.qty = n]]
  BY DEF Put
<1> HIDE DEF n
<1>4. [rows[i] EXCEPT !.qty = n].qty = n
  BY <1>1 DEF PortfolioRow
<1>5. rows'[i].qty = n /\ \A j \in RowIds : j # i => rows'[j] = rows[j]
  BY <1>3, <1>4 DEF Types, TableType
<1>6. QED BY <1>2, <1>5 DEF RowsArePositive, Alive

\* A merge writes sums of positive quantities.
LEMMA MergePositive ==
  ASSUME Types, RowsArePositive, NEW r \in Requests, ReadPositive(r), MergeCommit(r)
  PROVE  RowsArePositive'
<1> DEFINE t == snap[r].all
           D == Duplicated(t)
<1>1. CASE UNCHANGED table
  BY <1>1 DEF table, RowsArePositive, Alive
<1>2. CASE ~UNCHANGED table
  <2> SUFFICES ASSUME NEW i \in RowIds, rows'[i] # NoRow PROVE rows'[i].qty > 0
    BY DEF RowsArePositive, Alive
  <2>1. t \in [RowIds -> PortfolioRow \cup {NoRow}]
    BY DEF Types, SnapType, Read
  <2>2. CASE \E c \in D : i = Primary(t, c)
    <3>1. PICK c \in D : i = Primary(t, c) BY <2>2
    <3>2. Alive(i) BY <1>2, <3>1, MergedRows
    <3>3. PICK q \in Nat : rows'[i] = [rows[i] EXCEPT !.qty = q]
                           /\ (q = rows[i].qty \/ q = SumIn(t, t[i].code))
                           /\ (SumIn(t, t[i].code) = t[i].qty => q = rows[i].qty)
      BY <1>2, <2>2, MergedRows
    <3>4. rows[i] \in PortfolioRow /\ rows[i].qty > 0
      BY <3>2, RowType DEF Types, RowsArePositive
    <3>5. rows'[i].qty = q
      BY <3>3, <3>4 DEF PortfolioRow
    <3>6. CASE t[i] # NoRow
      <4>1. t[i].qty > 0
        BY <3>6 DEF ReadPositive, MergeCommit
      <4>2. i \in IdsIn(t, t[i].code)
        BY <3>6 DEF IdsIn
      <4>3. t[i].qty <= SumIn(t, t[i].code) /\ t[i].qty \in Nat /\ SumIn(t, t[i].code) \in Nat
        <5> DEFINE I == IdsIn(t, t[i].code)
        <5>1. SumIn(t, t[i].code) = QtySum(t, I) /\ IsFiniteSet(I) /\ \A j \in I : t[j].qty \in Nat
          BY <2>1, SumInType
        <5>2. i \in I BY <4>2
        <5> HIDE DEF t, I
        <5>3. t[i].qty <= QtySum(t, I) /\ QtySum(t, I) \in Nat
          BY <5>1, <5>2, QtyCovers
        <5>4. QED BY <5>1, <5>2, <5>3
      <4>4. QED BY <3>3, <3>4, <3>5, <4>1, <4>3
    <3>7. CASE t[i] = NoRow
      <4>1. i \in IdsIn(t, c)
        <5>1. Cardinality(IdsIn(t, c)) > 1
          BY <3>1 DEF Duplicated
        <5>2. QED BY <2>1, <3>1, <5>1, PrimaryIn
      <4>2. QED BY <3>7, <4>1 DEF IdsIn
    <3>8. QED BY <3>6, <3>7
  <2>3. CASE ~(\E c \in D : i = Primary(t, c))
    <3>1. rows'[i] = rows[i]
      BY <1>2, <2>3, MergedRows
    <3>2. QED BY <3>1 DEF RowsArePositive, Alive
  <2>4. QED BY <2>2, <2>3
<1>3. QED BY <1>1, <1>2

\* The sessions that wait to merge read their rows then and there.
LEMMA MergesWait ==
  ASSUME Tables, Types, NEW r \in Requests, Arrive(r) \/ Proceed(r) \/ DbError(r) \/ Crash(r),
         pc'[r] = "merge.commit"
  PROVE  MergeRead(r) /\ rows' = rows /\ snap'[r].all = rows /\ clean'[r]
<1>0. /\ \A b : ~ItemEnds(r, b)
      /\ \A l : Goto(r, l) => l = "merge.commit"
      /\ \A code : ~Reply(r, code)
  BY MovesAreOwn
<1>1. ~(DbError(r) \/ Crash(r))
  BY <1>0 DEF DbError, Crash
<1>2. ~Proceed(r)
  <2>1. ~(AddRead(r) \/ AddInsert(r) \/ AddMerge(r) \/ AddRefused(r) \/ AddRefresh(r))
    BY <1>0 DEF AddRead, AddInsert, AddMerge, AddRefused, AddRefresh
  <2>2. ~(PatchCommit(r) \/ PatchRefresh(r) \/ DeleteCommit(r) \/ SellCommit(r) \/ MergeCommit(r))
    BY <1>0 DEF PatchCommit, PatchRefresh, DeleteCommit, SellCommit, MergeCommit
  <2>3. QED BY <2>1, <2>2 DEF Proceed
<1>3. MergeRead(r)
  BY <1>0, <1>1, <1>2 DEF Arrive, AddStart, PatchRead, SellRead, DeleteRead, Withdraw
<1>4. snap' = [snap EXCEPT ![r] = [NoRead EXCEPT !.all = rows]] /\ rows' = rows
      /\ clean' = [clean EXCEPT ![r] = TRUE]
  BY <1>0, <1>3 DEF MergeRead
<1>5. snap'[r] = [NoRead EXCEPT !.all = rows]
  BY <1>4 DEF Types, SnapType
<1>6. snap'[r].all = rows
  BY <1>5 DEF NoRead
<1>7. QED BY <1>3, <1>4, <1>6 DEF Types, TableType

\* A row is inserted with the quantity of its item.
LEMMA InsertPositive ==
  ASSUME Types, NEW r \in Requests, SessionState(r), RowsArePositive, \A q \in Payload : q > 0,
         AddInsert(r)
  PROVE  RowsArePositive'
<1> DEFINE item == Head(todo[r])
<1>1. item \in Items
  BY HeadTailProperties DEF AddInsert, Adding, SessionState, AddState, Types, TodoType
<1>2. item.qty > 0
  BY <1>1 DEF Items
<1>3. rows' = [rows EXCEPT ![born + 1] = [code |-> item.code, qty |-> item.qty]]
  BY DEF AddInsert
<1> HIDE DEF item
<1>4. QED BY <1>2, <1>3 DEF RowsArePositive, Alive, Types, TableType

\* A sale that leaves nothing removes the row.
LEMMA ProceedPositive ==
  ASSUME Types, NEW r \in Requests, SessionState(r), RowsArePositive, ReadPositive(r),
         \A q \in Payload : q > 0, Proceed(r)
  PROVE  RowsArePositive'
<1>1. CASE rows' = rows
  BY <1>1 DEF RowsArePositive, Alive
<1>2. ASSUME NEW i, rows' = [rows EXCEPT ![i] = NoRow] PROVE RowsArePositive'
  BY <1>2 DEF RowsArePositive, Alive, Types, TableType
<1>3. CASE AddInsert(r) BY <1>3, InsertPositive
<1>4. CASE AddMerge(r)
  <2> DEFINE item == Head(todo[r])
             i == snap[r].row
  <2>1. item \in Items
    BY <1>4, HeadTailProperties DEF AddMerge, Adding, SessionState, AddState, Types, TodoType
  <2>2. item.qty > 0 /\ item.qty \in Nat
    BY <2>1, PayloadNat DEF Items
  <2>3. Alive(i) /\ Put(i, snap[r].qty, snap[r].qty + item.qty) /\ i # 0
    BY <1>4 DEF AddMerge
  <2>4. i \in RowIds /\ snap[r].qty \in Nat
    BY <2>3, PortfolioAssumption DEF Types, SnapType, Read, RowIds
  <2> HIDE DEF item, i
  <2>5. snap[r].qty + item.qty \in Nat /\ snap[r].qty + item.qty > 0
    BY <2>2, <2>4
  <2>6. QED BY <2>3, <2>4, <2>5, PutPositive
<1>5. CASE PatchCommit(r)
  <2>1. CASE UNCHANGED table BY <1>1, <2>1 DEF table
  <2>2. CASE Alive(job[r].row) /\ Put(job[r].row, snap[r].qty, job[r].qty)
    <3>1. job[r].row \in RowIds /\ job[r].qty \in Payload
      BY <1>5 DEF PatchCommit, SessionState, ChangeState, Changing
    <3>2. job[r].qty \in Nat /\ job[r].qty > 0
      BY <3>1, PayloadNat
    <3>3. QED BY <2>2, <3>1, <3>2, PutPositive
  <2>3. QED BY <1>5, <2>1, <2>2 DEF PatchCommit
<1>6. CASE SellCommit(r)
  <2> DEFINE left == snap[r].qty - job[r].qty
  <2>1. CASE UNCHANGED table BY <1>1, <2>1 DEF table
  <2>2. CASE rows' = [rows EXCEPT ![job[r].row] = NoRow] BY <1>2, <2>2
  <2>3. CASE ~SoldOut(left) /\ Alive(job[r].row) /\ Put(job[r].row, snap[r].qty, left)
    <3>1. job[r].row \in RowIds
      BY <1>6 DEF SellCommit, SessionState, ChangeState, Changing
    <3>2. snap[r].qty \in Nat /\ job[r].qty \in Nat
      BY DEF Types, SnapType, Read, JobType, Job
    <3>3. left \in Nat /\ left > 0
      BY <2>3, <3>2 DEF SoldOut
    <3> HIDE DEF left
    <3>4. QED BY <2>3, <3>1, <3>3, PutPositive
  <2>4. QED BY <1>6, <2>1, <2>2, <2>3 DEF SellCommit
<1>7. CASE DeleteCommit(r)
  BY <1>2, <1>7 DEF DeleteCommit
<1>8. CASE MergeCommit(r)
  BY <1>8, MergePositive
<1>9. CASE AddRead(r) \/ AddRefused(r) \/ AddRefresh(r) \/ PatchRefresh(r)
  BY <1>1, <1>9 DEF AddRead, AddRefused, AddRefresh, PatchRefresh, table
<1>10. QED BY <1>3, <1>4, <1>5, <1>6, <1>7, <1>8, <1>9 DEF Proceed

\* PosInv is inductive, given RInv and PInv.
LEMMA NextPositive ==
  ASSUME RInv, PInv, PosInv, \A q \in Payload : q > 0, [Next]_vars
  PROVE  PosInv'
<1>1. Tables /\ Types /\ RowsArePositive /\ \A p \in Requests : SessionState(p) /\ ReadPositive(p)
  BY DEF RInv, PInv, PosInv
<1>2. ASSUME NEW r \in Requests, Arrive(r) \/ Proceed(r) \/ DbError(r) \/ Crash(r)
      PROVE  RowsArePositive'
  <2>1. CASE Proceed(r) BY <1>1, <2>1, ProceedPositive
  <2>2. CASE rows' = rows BY <1>1, <2>2 DEF RowsArePositive, Alive
  <2>3. CASE Withdraw(r) BY <2>3 DEF Withdraw, RowsArePositive, Alive
  <2>4. CASE Arrive(r)
    BY <2>2, <2>3, <2>4 DEF Arrive, AddStart, PatchRead, SellRead, DeleteRead, MergeRead, table
  <2>5. CASE DbError(r) \/ Crash(r)
    BY <2>2, <2>5 DEF DbError, Crash, table
  <2>6. QED BY <1>2, <2>1, <2>4, <2>5
<1>3. ASSUME NEW r \in Requests, Arrive(r) \/ Proceed(r) \/ DbError(r) \/ Crash(r),
             NEW p \in Requests
      PROVE  ReadPositive(p)'
  <2>1. Frame(r) BY <1>1, <1>3, ArriveFrame, ProceedFrame, FaultFrame
  <2>2. CASE p # r
    BY <1>1, <2>1, <2>2 DEF Frame, ReadPositive
  <2>3. CASE p = r /\ pc'[p] = "merge.commit"
    <3>1. snap'[p].all = rows
      BY <1>1, <1>3, <2>3, MergesWait
    <3>2. QED BY <1>1, <3>1 DEF ReadPositive, RowsArePositive, Alive
  <2>4. QED BY <2>2, <2>3 DEF ReadPositive
<1>4. CASE UNCHANGED vars
  BY <1>1, <1>4 DEF vars, PosInv, RowsArePositive, Alive, ReadPositive
<1>5. CASE \E r \in Requests : Arrive(r) \/ Proceed(r) \/ DbError(r) \/ Crash(r)
  BY <1>2, <1>3, <1>5 DEF PosInv
<1>6. QED BY <1>4, <1>5 DEF Next, Idle

\* No row is left with nothing in it, whichever sales, patches and merges
\* overlap, provided no payload rounds to zero: gt=0 is tested before
\* _normalize_decimal rounds, and 0.0000004 passes it.
THEOREM RowsStaySound ==
  ASSUME \A q \in Amounts : 2 * q > Step
  PROVE  Spec => []RowsAreSound
<1>1. Init => PosInv
  BY DEF Init, PosInv, RowsArePositive, Alive, ReadPositive
<1>2. RInv /\ PInv /\ PosInv /\ [Next]_vars => PosInv'
  BY NextPositive, PayloadPositive
<1>3. Spec => []PosInv
  BY <1>1, <1>2, RowsInvariant, SessionsInvariant, PTL DEF Spec
<1>4. PosInv /\ TypeOK => RowsAreSound
  BY DEF PosInv, RowsAreSound
<1>5. QED BY <1>3, <1>4, TablesAreTyped, PTL

-----------------------------------------------------------------------------
(* What merges make of the rows *)

\* What a table of rows may be.
TableSet == [RowIds -> PortfolioRow \cup {NoRow}]

\* What a merge leaves of each row.
LEMMA MergeAt ==
  ASSUME NEW t \in TableSet, NEW i \in RowIds
  PROVE  /\ t[i] = NoRow => Merge(t)[i] = NoRow
         /\ t[i] # NoRow /\ t[i].code \notin Duplicated(t) => Merge(t)[i] = t[i]
         /\ t[i] # NoRow /\ t[i].code \in Duplicated(t) =>
              IF i = Primary(t, t[i].code)
                THEN Merge(t)[i] = [code |-> t[i].code, qty |-> SumIn(t, t[i].code)]
                ELSE Merge(t)[i] = NoRow
<1>1. \A c \in Duplicated(t) : Primary(t, c) \in IdsIn(t, c)
  BY PrimaryIn DEF Duplicated
<1>2. \A c : i \in IdsIn(t, c) => t[i] # NoRow /\ c = t[i].code
  BY DEF IdsIn
<1>3. Merge(t)[i] = IF \E c \in Duplicated(t) : i = Primary(t, c)
                      THEN [t[i] EXCEPT !.qty = SumIn(t, t[i].code)]
                    ELSE IF \E c \in Duplicated(t) : i \in IdsIn(t, c) THEN NoRow
                    ELSE t[i]
  BY DEF Merge
<1>4. t[i] # NoRow => i \in IdsIn(t, t[i].code) /\ t[i] \in PortfolioRow
  BY DEF IdsIn, TableSet
<1>5. CASE t[i] = NoRow
  BY <1>1, <1>2, <1>3, <1>5
<1>6. CASE t[i] # NoRow /\ t[i].code \notin Duplicated(t)
  BY <1>1, <1>2, <1>3, <1>6
<1>7. CASE t[i] # NoRow /\ t[i].code \in Duplicated(t)
  <2>1. CASE i = Primary(t, t[i].code)
    <3>1. Merge(t)[i] = [t[i] EXCEPT !.qty = SumIn(t, t[i].code)]
      BY <1>3, <1>7, <2>1
    <3>2. \A q : [t[i] EXCEPT !.qty = q] = [code |-> t[i].code, qty |-> q]
      BY <1>4, <1>7 DEF PortfolioRow
    <3>3. QED BY <1>7, <2>1, <3>1, <3>2
  <2>2. CASE i # Primary(t, t[i].code)
    <3>1. ~(\E c \in Duplicated(t) : i = Primary(t, c))
      BY <1>1, <1>2, <2>2
    <3>2. Merge(t)[i] = NoRow
      BY <1>3, <1>4, <1>7, <3>1
    <3>3. QED BY <1>7, <2>2, <3>2
  <2>3. QED BY <2>1, <2>2
<1>8. QED BY <1>5, <1>6, <1>7

\* A merge makes a table of rows.
LEMMA MergeType ==
  ASSUME NEW t \in TableSet
  PROVE  Merge(t) \in TableSet
<1>1. \A i \in RowIds : Merge(t)[i] \in PortfolioRow \cup {NoRow}
  <2> SUFFICES ASSUME NEW i \in RowIds PROVE Merge(t)[i] \in PortfolioRow \cup {NoRow}
    OBVIOUS
  <2>1. Merge(t)[i] \in {NoRow, t[i], [code |-> t[i].code, qty |-> SumIn(t, t[i].code)]}
    BY MergeAt
  <2>2. t[i] # NoRow => t[i].code \in Codes
    BY DEF TableSet, PortfolioRow
  <2>3. SumIn(t, t[i].code) \in Nat
    BY SumInType DEF TableSet
  <2>4. t[i] # NoRow => [code |-> t[i].code, qty |-> SumIn(t, t[i].code)] \in PortfolioRow
    BY <2>2, <2>3 DEF PortfolioRow
  <2>5. t[i] = NoRow => Merge(t)[i] = NoRow
    BY MergeAt
  <2>6. QED BY <2>1, <2>4, <2>5 DEF TableSet
<1>2. Merge(t) = [i \in RowIds |-> Merge(t)[i]]
  BY DEF Merge
<1>3. QED BY <1>1, <1>2 DEF TableSet

\* One row of each merged code, and those of the others.
LEMMA MergeIds ==
  ASSUME NEW t \in TableSet, NEW c \in Codes
  PROVE  IdsIn(Merge(t), c) = IF c \in Duplicated(t) THEN {Primary(t, c)} ELSE IdsIn(t, c)
<1> DEFINE u == Merge(t)
<1>0. NoRow \notin PortfolioRow
  BY PortfolioAssumption DEF PortfolioRow
<1>1. ASSUME NEW i \in RowIds
      PROVE  /\ t[i] = NoRow => u[i] = NoRow
             /\ t[i] # NoRow /\ t[i].code \notin Duplicated(t) => u[i] = t[i]
             /\ t[i] # NoRow /\ t[i].code \in Duplicated(t) =>
                  IF i = Primary(t, t[i].code)
                    THEN u[i] # NoRow /\ u[i].code = t[i].code
                    ELSE u[i] = NoRow
  <2>1. t[i] # NoRow /\ t[i].code \in Duplicated(t) /\ i = Primary(t, t[i].code)
          => u[i] # NoRow /\ u[i].code = t[i].code
    <3> SUFFICES ASSUME t[i] # NoRow, t[i].code \in Duplicated(t), i = Primary(t, t[i].code)
                 PROVE  u[i] # NoRow /\ u[i].code = t[i].code
      OBVIOUS
    <3>1. u[i] = [code |-> t[i].code, qty |-> SumIn(t, t[i].code)]
      BY MergeAt
    <3>2. SumIn(t, t[i].code) \in Nat /\ t[i].code \in Codes
      BY SumInType DEF TableSet, PortfolioRow
    <3>3. u[i] \in PortfolioRow
      BY <3>1, <3>2 DEF PortfolioRow
    <3>4. QED BY <1>0, <3>1, <3>3
  <2>2. QED BY <2>1, MergeAt
<1>2. \A i \in RowIds : (t[i] # NoRow /\ t[i].code = c) <=> i \in IdsIn(t, c)
  BY DEF IdsIn
<1>3. IdsIn(u, c) = {i \in RowIds : u[i] # NoRow /\ u[i].code = c}
  BY DEF IdsIn
<1> HIDE DEF u
<1>4. CASE c \in Duplicated(t)
  <2>1. Primary(t, c) \in IdsIn(t, c) /\ IdsIn(t, c) \subseteq RowIds
    BY <1>4, PrimaryIn DEF Duplicated, IdsIn
  <2>2. \A i \in RowIds : i \in IdsIn(u, c) <=> i = Primary(t, c)
    BY <1>1, <1>2, <1>3, <1>4, <2>1
  <2>3. IdsIn(u, c) = {Primary(t, c)}
    BY <1>3, <2>1, <2>2
  <2>4. QED BY <1>4, <2>3 DEF u
<1>5. CASE c \notin Duplicated(t)
  <2>1. IdsIn(t, c) = {i \in RowIds : t[i] # NoRow /\ t[i].code = c}
    BY DEF IdsIn
  <2>2. \A i \in RowIds : i \in IdsIn(u, c) <=> i \in IdsIn(t, c)
    BY <1>1, <1>2, <1>3, <1>5
  <2>3. IdsIn(u, c) = IdsIn(t, c)
    BY <1>3, <2>1, <2>2
  <2>4. QED BY <1>5, <2>3 DEF u
<1>6. QED BY <1>4, <1>5

\* A merge leaves no duplicates.
LEMMA MergeDistinct ==
  ASSUME NEW t \in TableSet
  PROVE  Duplicated(Merge(t)) = {}
<1> SUFFICES ASSUME NEW c \in Codes, Cardinality(IdsIn(Merge(t), c)) > 1 PROVE FALSE
  BY DEF Duplicated
<1>1. CASE c \in Duplicated(t)
  <2>1. IdsIn(Merge(t), c) = {Primary(t, c)} BY <1>1, MergeIds
  <2>2. Cardinality({Primary(t, c)}) = 1 BY FS_Singleton
  <2>3. QED BY <2>1, <2>2
<1>2. CASE c \notin Duplicated(t)
  BY <1>2, MergeIds DEF Duplicated
<1>3. QED BY <1>1, <1>2

\* ... and the quantities of each code in the table.
LEMMA MergeTotal ==
  ASSUME NEW t \in TableSet, NEW c \in Codes
  PROVE  SumIn(Merge(t), c) = SumIn(t, c)
<1> DEFINE u == Merge(t)
           I == IdsIn(t, c)
           J == IdsIn(u, c)
<1>1. u \in TableSet BY MergeType
<1>2. /\ SumIn(t, c) = QtySum(t, I) /\ IsFiniteSet(I)
      /\ SumIn(u, c) = QtySum(u, J) /\ IsFiniteSet(J)
      /\ \A i \in J : u[i].qty \in Nat
  BY <1>1, SumInType DEF TableSet
<1>3. CASE c \in Duplicated(t)
  <2> DEFINE p == Primary(t, c)
  <2>1. J = {p} /\ p \in I
    BY <1>3, MergeIds, PrimaryIn DEF Duplicated
  <2>2. p \in RowIds /\ t[p] # NoRow /\ t[p].code = c
    BY <2>1 DEF IdsIn
  <2>3. u[p] = [code |-> c, qty |-> SumIn(t, c)]
    BY <1>3, <2>2, MergeAt
  <2>4. SumIn(t, c) \in Nat BY SumInType DEF TableSet
  <2> HIDE DEF u, I, J, p
  <2>5. QtySum(u, J) = u[p].qty + QtySum(u, J \ {p})
    BY <1>2, <2>1, QtySplit
  <2>6. J \ {p} = {} BY <2>1
  <2>7. QtySum(u, J) = u[p].qty
    BY <2>3, <2>4, <2>5, <2>6, QtyEmpty
  <2>8. QED BY <1>2, <2>3, <2>7 DEF u
<1>4. CASE c \notin Duplicated(t)
  <2>1. J = I BY <1>4, MergeIds
  <2>2. \A i \in I : t[i].qty = u[i].qty
    <3> SUFFICES ASSUME NEW i \in I PROVE t[i].qty = u[i].qty
      OBVIOUS
    <3>1. i \in RowIds /\ t[i] # NoRow /\ t[i].code = c BY DEF IdsIn
    <3>2. QED BY <1>4, <3>1, MergeAt
  <2> HIDE DEF u, I, J
  <2>3. QtySum(t, I) = QtySum(u, I) BY <1>2, <2>2, QtySame
  <2>4. QED BY <1>2, <2>1, <2>3 DEF u
<1>5. QED BY <1>3, <1>4

\* A merge that writes over what it read, or over what another merge made of
\* that, makes the same of it.
LEMMA MergeResult ==
  ASSUME Types, NEW r \in Requests, MergeCommit(r), ~UNCHANGED table,
         rows \in {snap[r].all, Merge(snap[r].all)}
  PROVE  rows' = Merge(snap[r].all)
<1> DEFINE t == snap[r].all
           D == Duplicated(t)
<1>1. t \in TableSet
  BY DEF Types, SnapType, Read, TableSet
<1>2. ASSUME NEW i \in RowIds PROVE rows'[i] = Merge(t)[i]
  <2>1. \A c \in D : Primary(t, c) \in IdsIn(t, c)
    BY PrimaryIn DEF Duplicated
  <2>2. CASE \E c \in D : i = Primary(t, c)
    <3>1. PICK c \in D : i = Primary(t, c) BY <2>2
    <3>2. t[i] # NoRow /\ t[i].code = c
      BY <2>1, <3>1 DEF IdsIn
    <3>3. Merge(t)[i] = [code |-> c, qty |-> SumIn(t, c)]
      BY <1>1, <3>1, <3>2, MergeAt
    <3>4. PICK q \in Nat : /\ rows'[i] = [rows[i] EXCEPT !.qty = q]
                           /\ SumIn(t, t[i].code) # t[i].qty => q = SumIn(t, t[i].code)
                           /\ SumIn(t, t[i].code) = t[i].qty => q = rows[i].qty
      BY <2>2, MergedRows
    <3>5. rows[i] \in {t[i], [code |-> c, qty |-> SumIn(t, c)]}
      BY <3>3
    <3>6. t[i] \in PortfolioRow /\ t[i] = [code |-> c, qty |-> t[i].qty]
      BY <1>1, <3>2 DEF TableSet, PortfolioRow
    <3>7. q = SumIn(t, c)
      <4>1. rows[i].qty \in {t[i].qty, SumIn(t, c)}
        BY <3>5
      <4>2. QED BY <3>2, <3>4, <4>1
    <3>8. \E n : rows[i] = [code |-> c, qty |-> n]
      BY <3>5, <3>6
    <3>9. rows'[i] = [code |-> c, qty |-> SumIn(t, c)]
      BY <3>4, <3>7, <3>8
    <3>10. QED BY <3>3, <3>9
  <2>3. CASE ~(\E c \in D : i = Primary(t, c))
    <3>1. rows'[i] = IF \E c \in D : i \in IdsIn(t, c) THEN NoRow ELSE rows[i]
      BY <2>3, MergedRows
    <3>2. Merge(t)[i] = IF \E c \in D : i \in IdsIn(t, c) THEN NoRow ELSE t[i]
      BY <2>3 DEF Merge
    <3>3. QED BY <3>1, <3>2
  <2>4. QED BY <2>2, <2>3
<1>3. rows' = [i \in RowIds |-> rows'[i]]
  BY MergedRows
<1>4. Merge(t) = [i \in RowIds |-> Merge(t)[i]]
  BY DEF Merge
<1>5. QED BY <1>2, <1>3, <1>4

-----------------------------------------------------------------------------
(* What a session still finds *)

\* Where the next place of a session is one before a write, its step was the read.
LEMMA ReadsFind ==
  ASSUME RInv, PInv, NEW r \in Requests, Arrive(r) \/ Proceed(r) \/ DbError(r) \/ Crash(r)
  PROVE  CodeState(r)' /\ CleanState(r)'
<1>1. Tables /\ Types BY DEF RInv, PInv
<1>2. CASE pc'[r] = "merge.commit"
  <2>1. rows' = rows /\ snap'[r].all = rows
    BY <1>1, <1>2, MergesWait
  <2>2. rows' \in {snap'[r].all, Merge(snap'[r].all)}
    BY <2>1
  <2>3. (Merge(snap[r].all))' = Merge(snap'[r].all)
    BY DEF Merge, Duplicated, Primary, IdsIn, SumIn, MapThenSumSet, MapThenFoldSet
  <2>4. CleanState(r)'
    BY <1>2, <2>2, <2>3 DEF CleanState
  <2>5. CodeState(r)'
    BY <1>2 DEF CodeState
  <2>6. QED BY <2>4, <2>5
<1>3. CASE pc'[r] = "add.commit"
  <2>1. AddRead(r)
    BY <1>1, <1>3, ArriveOwn, ProceedOwn, FaultOwn
  <2> DEFINE c == Head(todo[r]).code
  <2>2. rows' = rows /\ \A b : ~ItemEnds(r, b)
    BY <1>1, <1>3, <2>1, MovesAreOwn DEF AddRead
  <2>3. PICK i \in Existing(c) :
          snap' = [snap EXCEPT ![r] = [NoRead EXCEPT !.row = i, !.at = born,
                      !.qty = IF i = 0 THEN 0 ELSE rows[i].qty]]
    BY <2>1, <2>2 DEF AddRead
  <2>4. todo' = todo
    BY <2>1, <2>2 DEF AddRead
  <2>5. snap'[r].row = i /\ (i # 0 => snap'[r].qty = rows[i].qty)
    <3> DEFINE q == IF i = 0 THEN 0 ELSE rows[i].qty
    <3>1. snap'[r] = [NoRead EXCEPT !.row = i, !.at = born, !.qty = q]
      BY <1>1, <2>3 DEF Types, SnapType
    <3>2. i # 0 => q = rows[i].qty OBVIOUS
    <3> HIDE DEF q
    <3>3. QED BY <3>1, <3>2 DEF NoRead
  <2>6. i # 0 => Alive(i) /\ rows[i].code = c
    BY <2>3 DEF Existing, Of
  <2>7. CodeState(r)'
    BY <1>3, <2>2, <2>4, <2>5, <2>6 DEF CodeState, Alive
  <2>8. CleanState(r)'
    BY <1>3, <2>2, <2>5, <2>6 DEF CleanState, Alive
  <2>9. QED BY <2>7, <2>8
<1>4. CASE pc'[r] \in {"patch.commit", "delete.commit", "sell.commit"}
  <2>1. /\ \A b : ~ItemEnds(r, b)
        /\ \A code : ~Reply(r, code)
        /\ ~Goto(r, "crashed") /\ ~Goto(r, "add.read") /\ ~Goto(r, "add.commit")
        /\ ~Goto(r, "add.refresh") /\ ~Goto(r, "patch.refresh") /\ ~Goto(r, "merge.commit")
    BY <1>1, <1>4, MovesAreOwn
  <2>2. ~(DbError(r) \/ Crash(r))
    BY <2>1 DEF DbError, Crash
  <2>3. ~(AddRead(r) \/ AddInsert(r) \/ AddMerge(r) \/ AddRefused(r) \/ AddRefresh(r))
    BY <2>1 DEF AddRead, AddInsert, AddMerge, AddRefused, AddRefresh
  <2>4. ~(PatchCommit(r) \/ PatchRefresh(r) \/ DeleteCommit(r) \/ SellCommit(r) \/ MergeCommit(r))
    BY <2>1 DEF PatchCommit, PatchRefresh, DeleteCommit, SellCommit, MergeCommit
  <2>5. \E i \in RowIds : \/ \E q \in Payload : PatchRead(r, i, q) \/ SellRead(r, i, q)
                         \/ DeleteRead(r, i)
    BY <2>1, <2>2, <2>3, <2>4 DEF Arrive, Proceed, AddStart, MergeRead, Withdraw
  <2>6. PICK i \in RowIds, q \in Nat : /\ ReadRow(r, i) /\ Alive(i) /\ rows' = rows
                                      /\ \E h : Admit(r, h, i, q)
    BY <2>1, <2>5, PayloadNat DEF PatchRead, SellRead, DeleteRead, AdmitUser
  <2>7. snap'[r].code = rows[i].code /\ snap'[r].qty = rows[i].qty
    BY <1>1, <2>6, ReadRowType
  <2>8. job'[r].row = i
    BY <1>1, <2>6 DEF Admit, Types, JobType
  <2>9. CodeState(r)'
    BY <1>4, <2>6, <2>7, <2>8 DEF CodeState, Alive
  <2>10. CleanState(r)'
    BY <1>4, <2>6, <2>7, <2>8 DEF CleanState, Alive
  <2>11. QED BY <2>9, <2>10
<1>5. CASE pc'[r] \notin {"add.commit", "patch.commit", "delete.commit", "sell.commit", "merge.commit"}
  BY <1>5 DEF CodeState, CleanState
<1>6. QED BY <1>2, <1>3, <1>4, <1>5

\* A row keeps its code, and its id is not given again.
LEMMA CodesStay ==
  ASSUME Tables, RowsKept, NEW p \in Requests, Types, SessionState(p), CodeState(p),
         pc'[p] = pc[p], todo'[p] = todo[p], snap'[p] = snap[p], job'[p] = job[p]
  PROVE  CodeState(p)'
<1>1. ASSUME NEW i \in RowIds, i <= born, Alive(i)' PROVE Alive(i) /\ rows'[i].code = rows[i].code
  BY <1>1 DEF RowsKept, Tables
<1>2. ASSUME pc[p] = "add.commit", snap[p].row # 0, rows'[snap[p].row] # NoRow
      PROVE  rows'[snap[p].row].code = Head(todo[p]).code
  <2>1. snap[p].row <= born BY <1>2 DEF SessionState, AddState, Adding
  <2>2. snap[p].row \in RowIds
    BY <1>2, PortfolioAssumption DEF Types, SnapType, Read, RowIds
  <2>3. QED BY <1>1, <1>2, <2>1, <2>2 DEF CodeState, Alive
<1>3. ASSUME pc[p] \in {"patch.commit", "delete.commit", "sell.commit"}, rows'[job[p].row] # NoRow
      PROVE  rows'[job[p].row].code = snap[p].code
  <2>1. job[p].row <= born /\ job[p].row \in RowIds
    BY <1>3 DEF SessionState, ChangeState, Changing
  <2>2. QED BY <1>1, <1>3, <2>1 DEF CodeState, Alive
<1>4. QED BY <1>2, <1>3 DEF CodeState, Alive

\* Whose step it is decides whether the others stay undisturbed.
LEMMA Disturbs ==
  ASSUME Tables, Types, NEW r \in Requests, Arrive(r) \/ Proceed(r) \/ DbError(r) \/ Crash(r)
  PROVE  \/ rows' = rows /\ \A p \in Requests : p # r => clean'[p] = clean[p]
         \/ \A p \in Requests : p # r => ~clean'[p]
         \/ MergeCommit(r) /\ ~UNCHANGED table
<1> DEFINE Goal == \/ rows' = rows /\ \A p \in Requests : p # r => clean'[p] = clean[p]
                   \/ \A p \in Requests : p # r => ~clean'[p]
                   \/ MergeCommit(r) /\ ~UNCHANGED table
<1>1. ASSUME \E c, d : Commit(r, c, d) PROVE Goal
  BY <1>1 DEF Commit
<1>2. ASSUME UNCHANGED table PROVE Goal
  BY <1>2 DEF table
<1>3. ASSUME rows' = rows, clean' = clean \/ clean' = [clean EXCEPT ![r] = TRUE] PROVE Goal
  BY <1>3 DEF Types, TableType
<1>4. ASSUME Withdraw(r) PROVE Goal
  BY <1>4 DEF Withdraw
<1>5. ASSUME Arrive(r) PROVE Goal
  <2>1. \A h, items : AddStart(r, h, items) => UNCHANGED table
    BY DEF AddStart
  <2>2. \A i, q : PatchRead(r, i, q) \/ SellRead(r, i, q) \/ DeleteRead(r, i) \/ MergeRead(r)
          => rows' = rows /\ (clean' = clean \/ clean' = [clean EXCEPT ![r] = TRUE])
    BY DEF PatchRead, SellRead, DeleteRead, MergeRead, ReadRow
  <2> HIDE DEF Goal
  <2>3. QED BY <1>2, <1>3, <1>4, <1>5, <2>1, <2>2 DEF Arrive
<1>6. ASSUME Proceed(r) PROVE Goal
  <2>1. AddRead(r) => rows' = rows /\ (clean' = clean \/ clean' = [clean EXCEPT ![r] = TRUE])
    BY DEF AddRead
  <2>2. AddInsert(r) \/ AddMerge(r) \/ DeleteCommit(r) => \E c, d : Commit(r, c, d)
    BY DEF AddInsert, AddMerge, DeleteCommit
  <2>3. AddRefused(r) \/ AddRefresh(r) \/ PatchRefresh(r) => UNCHANGED table
    BY DEF AddRefused, AddRefresh, PatchRefresh
  <2>4. PatchCommit(r) => UNCHANGED table \/ \E c, d : Commit(r, c, d)
    BY DEF PatchCommit
  <2>5. SellCommit(r) => UNCHANGED table \/ \E c, d : Commit(r, c, d)
    BY DEF SellCommit
  <2>6. MergeCommit(r) => Goal
    BY <1>2
  <2> HIDE DEF Goal
  <2>7. QED BY <1>1, <1>2, <1>3, <1>6, <2>1, <2>2, <2>3, <2>4, <2>5, <2>6 DEF Proceed
<1>7. ASSUME DbError(r) \/ Crash(r) PROVE Goal
  BY <1>2, <1>7 DEF DbError, Crash
<1>8. QED BY <1>5, <1>6, <1>7

\* A merge of pods started together writes what the other would have written.
LEMMA MergesAgree ==
  ASSUME Types, NEW r \in Requests, SessionState(r), CleanState(r), MergeCommit(r), ~UNCHANGED table,
         NEW p \in Requests, CleanState(p), SessionState(p), pc[p] = "merge.commit", clean[p], clean[r]
  PROVE  rows' = Merge(snap[p].all)
<1> DEFINE t == snap[r].all
           u == snap[p].all
<1>1. t \in TableSet /\ u \in TableSet
  BY DEF Types, SnapType, Read, TableSet
<1>2. rows \in {t, Merge(t)} /\ rows \in {u, Merge(u)}
  BY DEF CleanState, MergeCommit
<1>3. Duplicated(t) # {} /\ Duplicated(u) # {}
  BY DEF SessionState, MergeState, MergeCommit
<1>4. Duplicated(Merge(t)) = {} /\ Duplicated(Merge(u)) = {}
  BY <1>1, MergeDistinct
<1>5. rows' = Merge(t)
  BY <1>2, MergeResult
<1> HIDE DEF t, u
<1>6. Merge(t) = Merge(u)
  BY <1>2, <1>3, <1>4
<1>7. QED BY <1>5, <1>6 DEF u

\* What another session read is disturbed, or still there.
LEMMA OthersFind ==
  ASSUME RInv, PInv, NEW r \in Requests, Arrive(r) \/ Proceed(r) \/ DbError(r) \/ Crash(r),
         Frame(r), RowsKept, NEW p \in Requests, p # r,
         CodeState(p), CleanState(p), CleanState(r)
  PROVE  CodeState(p)' /\ CleanState(p)'
<1>1. /\ Tables /\ Types /\ SessionState(p) /\ SessionState(r)
      /\ pc'[p] = pc[p] /\ todo'[p] = todo[p] /\ snap'[p] = snap[p] /\ job'[p] = job[p]
  BY DEF RInv, PInv, Frame
<1>2. CodeState(p)'
  BY <1>1, CodesStay
<1>3. (Merge(snap[p].all))' = Merge(snap[p].all)
  BY <1>1 DEF Merge, Duplicated, Primary, IdsIn, SumIn, MapThenSumSet, MapThenFoldSet
<1>4. CASE rows' = rows /\ clean'[p] = clean[p]
  BY <1>1, <1>2, <1>3, <1>4 DEF CleanState, Alive
<1>5. CASE ~clean'[p]
  BY <1>2, <1>5 DEF CleanState
<1>6. CASE MergeCommit(r) /\ ~UNCHANGED table /\ clean'[p]
  <2>1. clean[p] /\ clean[r] /\ job[p].op = "merge"
    BY <1>6 DEF MergeCommit, table
  <2>2. pc[p] \notin Adding \cup Changing
    BY <1>1, <2>1 DEF SessionState, AddState, ChangeState
  <2>3. pc[p] = "merge.commit" => rows' = Merge(snap[p].all)
    BY <1>1, <1>6, <2>1, MergesAgree
  <2>4. QED BY <1>1, <1>2, <1>3, <2>2, <2>3 DEF CleanState, Adding, Changing
<1>7. QED BY <1>1, <1>2, <1>4, <1>5, <1>6, Disturbs

\* ReadsInv is inductive, given RInv and PInv.
LEMMA NextFinds ==
  ASSUME RInv, PInv, ReadsInv, [Next]_vars
  PROVE  ReadsInv'
<1>1. Tables /\ Types /\ RowsKept
  BY NextRows DEF RInv, PInv
<1>2. ASSUME NEW r \in Requests, Arrive(r) \/ Proceed(r) \/ DbError(r) \/ Crash(r), NEW p \in Requests
      PROVE  CodeState(p)' /\ CleanState(p)'
  <2>1. Frame(r) BY <1>1, <1>2, ArriveFrame, ProceedFrame, FaultFrame
  <2>2. CASE p # r BY <1>1, <1>2, <2>1, <2>2, OthersFind DEF ReadsInv
  <2>3. CASE p = r BY <1>2, <2>3, ReadsFind
  <2>4. QED BY <2>2, <2>3
<1>3. ASSUME UNCHANGED vars, NEW p \in Requests PROVE CodeState(p)' /\ CleanState(p)'
  <2>1. (Merge(snap[p].all))' = Merge(snap[p].all)
    BY <1>3 DEF vars, Merge, Duplicated, Primary, IdsIn, SumIn, MapThenSumSet, MapThenFoldSet
  <2>2. QED BY <1>3, <2>1 DEF vars, ReadsInv, CodeState, CleanState, Alive
<1>4. CASE UNCHANGED vars
  BY <1>3, <1>4 DEF ReadsInv
<1>5. CASE \E r \in Requests : Arrive(r) \/ Proceed(r) \/ DbError(r) \/ Crash(r)
  BY <1>2, <1>5 DEF ReadsInv
<1>6. QED BY <1>4, <1>5 DEF Next, Idle

-----------------------------------------------------------------------------
(* What a commit is worth *)

\* What a row counts for the total of a code.
Worth(x, c) == IF x # NoRow /\ x.code = c THEN x.qty ELSE 0

\* One row and the rest of its total.
LEMMA RowApart ==
  ASSUME NEW t \in TableSet, NEW i \in RowIds, NEW c
  PROVE  /\ SumIn(t, c) = Worth(t[i], c) + QtySum(t, IdsIn(t, c) \ {i})
         /\ QtySum(t, IdsIn(t, c) \ {i}) \in Nat /\ Worth(t[i], c) \in Nat
<1> DEFINE I == IdsIn(t, c)
           R == I \ {i}
<1>1. SumIn(t, c) = QtySum(t, I) /\ IsFiniteSet(I) /\ \A j \in I : t[j].qty \in Nat
  BY SumInType DEF TableSet
<1>2. i \in I <=> t[i] # NoRow /\ t[i].code = c
  BY DEF IdsIn
<1>3. QtySum(t, R) \in Nat
  <2>1. IsFiniteSet(R) /\ \A j \in R : t[j].qty \in Nat BY <1>1, FS_Subset
  <2> HIDE DEF R
  <2>2. QED BY <2>1, QtyCovers
<1> HIDE DEF I
<1>4. CASE i \in I
  <2>1. QtySum(t, I) = t[i].qty + QtySum(t, R) BY <1>1, <1>4, QtySplit
  <2>2. Worth(t[i], c) = t[i].qty BY <1>2, <1>4 DEF Worth
  <2>3. t[i].qty \in Nat BY <1>1, <1>4
  <2>4. QED BY <1>1, <1>3, <2>1, <2>2, <2>3 DEF I
<1>5. CASE i \notin I
  <2>1. R = I BY <1>5
  <2>2. Worth(t[i], c) = 0 BY <1>2, <1>5 DEF Worth
  <2>3. QtySum(t, I) = 0 + QtySum(t, R)
    <3> HIDE DEF R
    <3>1. QED BY <1>3, <2>1
  <2>4. QED BY <1>1, <1>3, <2>2, <2>3 DEF I
<1>6. QED BY <1>4, <1>5

\* A table that differs from another in one row differs by what that row is worth.
LEMMA OneRowChanged ==
  ASSUME NEW t \in TableSet, NEW u \in TableSet, NEW i \in RowIds, NEW c,
         \A j \in RowIds : j # i => u[j] = t[j]
  PROVE  SumIn(u, c) - SumIn(t, c) = Worth(u[i], c) - Worth(t[i], c)
<1> DEFINE I == IdsIn(t, c) \ {i}
           J == IdsIn(u, c) \ {i}
<1>1. I = J /\ \A j \in I : t[j].qty = u[j].qty
  BY DEF IdsIn
<1>2. IsFiniteSet(I)
  BY SumInType, FS_Subset DEF TableSet
<1>3. /\ SumIn(t, c) = Worth(t[i], c) + QtySum(t, I)
      /\ QtySum(t, I) \in Nat /\ Worth(t[i], c) \in Nat
      /\ SumIn(u, c) = Worth(u[i], c) + QtySum(u, J)
      /\ QtySum(u, J) \in Nat /\ Worth(u[i], c) \in Nat
  BY RowApart
<1> HIDE DEF I, J
<1>4. QtySum(t, I) = QtySum(u, J)
  BY <1>1, <1>2, QtySame
<1>5. QED BY <1>3, <1>4

\* The totals of the table before and after a step.
LEMMA TotalIs ==
  ASSUME NEW t, t = rows, NEW u, u = rows', NEW c
  PROVE  Total(c) = SumIn(t, c) /\ Total(c)' = SumIn(u, c)
BY DEF Total, SumIn, MapThenSumSet, MapThenFoldSet

\* A new row is worth its quantity, to its code.
LEMMA WorthOf ==
  ASSUME NEW k \in Codes, NEW q \in Nat, NEW c
  PROVE  Worth([code |-> k, qty |-> q], c) = IF c = k THEN q ELSE 0
<1>1. [code |-> k, qty |-> q] # NoRow
  BY PortfolioAssumption
<1>2. QED BY <1>1 DEF Worth

\* One row is written, and the change committed is what it is worth.
LEMMA CommitExact ==
  ASSUME Types, Types', NEW i \in RowIds, \A j \in RowIds : j # i => rows'[j] = rows[j],
         NEW r, NEW k \in Codes, NEW d \in Int, Commit(r, k, d),
         \A c \in Codes : Worth(rows'[i], c) - Worth(rows[i], c) = IF c = k THEN d ELSE 0
  PROVE  \A c \in Codes : Total(c)' - Total(c) = owed'[c] - owed[c]
<1> SUFFICES ASSUME NEW c \in Codes PROVE Total(c)' - Total(c) = owed'[c] - owed[c]
  OBVIOUS
<1>1. ASSUME NEW t, t = rows, NEW u, u = rows'
      PROVE  Total(c)' - Total(c) = Worth(rows'[i], c) - Worth(rows[i], c)
  <2>1. t \in TableSet /\ u \in TableSet /\ \A j \in RowIds : j # i => u[j] = t[j]
    BY <1>1 DEF Types, TableType, TableSet
  <2>2. SumIn(u, c) - SumIn(t, c) = Worth(u[i], c) - Worth(t[i], c)
    BY <2>1, OneRowChanged
  <2>3. Total(c) = SumIn(t, c) /\ Total(c)' = SumIn(u, c)
    BY <1>1, TotalIs
  <2>4. QED BY <1>1, <2>2, <2>3
<1>2. owed'[c] - owed[c] = IF c = k THEN d ELSE 0
  <2>1. owed[c] \in Int /\ owed[k] \in Int
    BY DEF Types, TableType
  <2>2. owed' = [owed EXCEPT ![k] = owed[k] + d]
    BY DEF Commit
  <2>3. CASE c = k
    BY <2>1, <2>2, <2>3 DEF Types, TableType
  <2>4. CASE c # k
    BY <2>1, <2>2, <2>4 DEF Types, TableType
  <2>5. QED BY <2>3, <2>4
<1>3. QED BY <1>1, <1>2

\* A quantity written over the one that was there.
LEMMA PutExact ==
  ASSUME Types, Types', NEW r, NEW i \in RowIds, Alive(i), NEW q \in Nat, Put(i, rows[i].qty, q),
         Commit(r, rows[i].code, q - rows[i].qty)
  PROVE  \A c \in Codes : Total(c)' - Total(c) = owed'[c] - owed[c]
<1>1. rows[i] \in PortfolioRow /\ rows[i].qty \in Nat /\ rows[i].code \in Codes
  BY RowType DEF Types
<1> DEFINE k == rows[i].code
           m == rows[i].qty
<1>2. rows[i] = [code |-> k, qty |-> m]
  BY <1>1 DEF PortfolioRow
<1>3. rows' = [rows EXCEPT ![i] = [rows[i] EXCEPT !.qty = q]]
  <2>1. CASE q = m
    <3>1. [rows[i] EXCEPT !.qty = rows[i].qty] = [rows[i] EXCEPT !.qty = q]
      BY <2>1
    <3>2. rows' = [rows EXCEPT ![i] = [rows[i] EXCEPT !.qty = rows[i].qty]]
      BY <2>1 DEF Put
    <3>3. QED BY <3>1, <3>2
  <2>2. CASE q # m
    BY <2>2 DEF Put
  <2>3. QED BY <2>1, <2>2
<1>4. [rows[i] EXCEPT !.qty = q] = [code |-> k, qty |-> q]
  BY <1>1 DEF PortfolioRow
<1> HIDE DEF k, m
<1>5. rows'[i] = [code |-> k, qty |-> q] /\ \A j \in RowIds : j # i => rows'[j] = rows[j]
  BY <1>3, <1>4 DEF Types, TableType
<1>6. k \in Codes /\ m \in Nat /\ Commit(r, k, q - m)
  BY <1>1 DEF k, m
<1>7. \A c \in Codes : Worth(rows'[i], c) - Worth(rows[i], c) = IF c = k THEN q - m ELSE 0
  BY <1>2, <1>5, <1>6, WorthOf
<1>8. q - m \in Int BY <1>6
<1>9. QED BY <1>5, <1>6, <1>7, <1>8, CommitExact

\* A row taken out.
LEMMA RemovalExact ==
  ASSUME Types, Types', NEW r, NEW i \in RowIds, Alive(i), rows' = [rows EXCEPT ![i] = NoRow],
         Commit(r, rows[i].code, -rows[i].qty)
  PROVE  \A c \in Codes : Total(c)' - Total(c) = owed'[c] - owed[c]
<1>1. rows[i] \in PortfolioRow /\ rows[i].qty \in Nat /\ rows[i].code \in Codes
  BY RowType DEF Types
<1> DEFINE k == rows[i].code
           m == rows[i].qty
<1>2. rows[i] = [code |-> k, qty |-> m]
  BY <1>1 DEF PortfolioRow
<1> HIDE DEF k, m
<1>3. rows'[i] = NoRow /\ \A j \in RowIds : j # i => rows'[j] = rows[j]
  BY DEF Types, TableType
<1>4. k \in Codes /\ m \in Nat /\ Commit(r, k, -m) /\ -m \in Int
  BY <1>1 DEF k, m
<1>5. \A c : Worth(NoRow, c) = 0
  BY DEF Worth
<1>6. \A c \in Codes : Worth(rows'[i], c) - Worth(rows[i], c) = IF c = k THEN -m ELSE 0
  BY <1>2, <1>3, <1>4, <1>5, WorthOf
<1>7. QED BY <1>3, <1>4, <1>6, CommitExact

-----------------------------------------------------------------------------
(* Each commit of an undisturbed session *)

\* An insert adds its quantity,
LEMMA InsertExact ==
  ASSUME RInv, PInv, Types', NEW r \in Requests, AddInsert(r)
  PROVE  \A c \in Codes : Total(c)' - Total(c) = owed'[c] - owed[c]
<1> DEFINE item == Head(todo[r])
<1>1. item \in Items /\ Types
  BY HeadTailProperties DEF AddInsert, Adding, PInv, SessionState, AddState, Types, TodoType
<1>2. item.code \in Codes /\ item.qty \in Nat
  BY <1>1, PayloadNat DEF Items
<1>3. rows' = [rows EXCEPT ![born + 1] = [code |-> item.code, qty |-> item.qty]]
      /\ Commit(r, item.code, item.qty)
  BY DEF AddInsert
<1> HIDE DEF item
<1>4. born + 1 \in RowIds /\ rows[born + 1] = NoRow
  <2>1. born < MaxRows /\ born \in Nat /\ MaxRows \in Nat
    BY IdIsFree, BornTypeHolds, PortfolioAssumption DEF AddInsert, PInv
  <2>2. born + 1 \in RowIds /\ born + 1 > born
    BY <2>1 DEF RowIds
  <2>3. QED BY <2>2 DEF RInv, Tables, Alive
<1>5. rows'[born + 1] = [code |-> item.code, qty |-> item.qty]
      /\ \A j \in RowIds : j # born + 1 => rows'[j] = rows[j]
  BY <1>1, <1>3, <1>4 DEF Types, TableType
<1>6. \A c \in Codes : Worth(rows'[born + 1], c) - Worth(rows[born + 1], c)
                         = IF c = item.code THEN item.qty ELSE 0
  <2>1. \A c : Worth(NoRow, c) = 0 BY DEF Worth
  <2>2. QED BY <1>2, <1>4, <1>5, <2>1, WorthOf
<1>7. item.qty \in Int BY <1>2
<1>8. QED BY <1>1, <1>2, <1>3, <1>4, <1>5, <1>6, <1>7, CommitExact

\* an add to a row as well,
LEMMA AddMergeExact ==
  ASSUME PInv, Types', NEW r \in Requests, CodeState(r), CleanState(r), clean[r], AddMerge(r)
  PROVE  \A c \in Codes : Total(c)' - Total(c) = owed'[c] - owed[c]
<1> DEFINE item == Head(todo[r])
           i == snap[r].row
<1>1. item \in Items /\ Types
  BY HeadTailProperties DEF AddMerge, Adding, PInv, SessionState, AddState, Types, TodoType
<1>2. item.qty \in Nat
  BY <1>1, PayloadNat DEF Items
<1>3. Put(i, snap[r].qty, snap[r].qty + item.qty) /\ Commit(r, item.code, item.qty) /\ Alive(i)
      /\ i # 0
  BY DEF AddMerge
<1>4. rows[i].qty = snap[r].qty /\ rows[i].code = item.code
  BY DEF AddMerge, CodeState, CleanState
<1>5. i \in RowIds
  BY <1>1, <1>3, PortfolioAssumption DEF Types, SnapType, Read, RowIds
<1> HIDE DEF item, i
<1>6. rows[i].qty \in Nat
  BY <1>1, <1>3, <1>5, RowType DEF Types
<1> DEFINE q == rows[i].qty + item.qty
<1>7. q \in Nat /\ q - rows[i].qty = item.qty
  BY <1>2, <1>6
<1>8. Put(i, rows[i].qty, q)
  BY <1>3, <1>4
<1> HIDE DEF q
<1>9. Commit(r, rows[i].code, q - rows[i].qty)
  BY <1>3, <1>4, <1>7
<1>10. QED BY <1>1, <1>3, <1>5, <1>7, <1>8, <1>9, PutExact

\* a patch, a delete and a sale change what they were asked to,
LEMMA ChangeExact ==
  ASSUME PInv, Types', NEW r \in Requests, CodeState(r), CleanState(r), clean[r],
         PatchCommit(r) \/ DeleteCommit(r) \/ SellCommit(r), eff'[r] # eff[r]
  PROVE  \A c \in Codes : Total(c)' - Total(c) = owed'[c] - owed[c]
<1> DEFINE i == job[r].row
<1>1. pc[r] \in {"patch.commit", "delete.commit", "sell.commit"} /\ ~UNCHANGED table
  BY DEF PatchCommit, DeleteCommit, SellCommit, table
<1>2. /\ Types /\ i \in RowIds /\ Alive(i)
      /\ rows[i].qty = snap[r].qty /\ rows[i].code = snap[r].code
      /\ job[r].qty \in Nat
      /\ pc[r] = "sell.commit" => job[r].qty <= snap[r].qty
  BY <1>1 DEF PInv, SessionState, ChangeState, Changing, CodeState, CleanState, Types, JobType, Job
<1>3. rows[i].qty \in Nat
  BY <1>2, RowType DEF Types
<1>4. CASE PatchCommit(r)
  <2>1. Put(i, snap[r].qty, job[r].qty) /\ Commit(r, rows[i].code, job[r].qty - rows[i].qty)
    BY <1>1, <1>2, <1>4 DEF PatchCommit
  <2>2. Put(i, rows[i].qty, job[r].qty) BY <1>2, <2>1
  <2>3. QED BY <1>2, <2>1, <2>2, PutExact
<1>5. CASE DeleteCommit(r)
  <2>1. rows' = [rows EXCEPT ![i] = NoRow] /\ Commit(r, rows[i].code, -rows[i].qty)
    BY <1>2, <1>5 DEF DeleteCommit
  <2>2. QED BY <1>2, <2>1, RemovalExact
<1>6. CASE SellCommit(r)
  <2> DEFINE left == snap[r].qty - job[r].qty
  <2>1. pc[r] = "sell.commit" BY <1>6 DEF SellCommit
  <2>2. CASE SoldOut(left) /\ rows' = [rows EXCEPT ![i] = NoRow]
             /\ Commit(r, snap[r].code, -job[r].qty)
    <3>1. job[r].qty = rows[i].qty
      BY <1>2, <1>3, <2>1, <2>2 DEF SoldOut
    <3>2. Commit(r, rows[i].code, -rows[i].qty)
      BY <1>2, <2>2, <3>1
    <3>3. QED BY <1>2, <2>2, <3>2, RemovalExact
  <2>3. CASE ~SoldOut(left) /\ Put(i, snap[r].qty, left) /\ Commit(r, rows[i].code, -job[r].qty)
    <3>1. left \in Nat /\ left - rows[i].qty = -job[r].qty
      BY <1>2, <1>3, <2>3 DEF SoldOut
    <3> HIDE DEF left
    <3>2. Put(i, rows[i].qty, left) /\ Commit(r, rows[i].code, left - rows[i].qty)
      BY <1>2, <2>3, <3>1
    <3>3. QED BY <1>2, <3>1, <3>2, PutExact
  <2>4. QED BY <1>1, <1>2, <1>6, <2>2, <2>3 DEF SellCommit
<1>7. QED BY <1>4, <1>5, <1>6

\* and a merge nothing.
LEMMA MergeExact ==
  ASSUME PInv, NEW r \in Requests, CleanState(r), clean[r], MergeCommit(r), eff'[r] # eff[r]
  PROVE  \A c \in Codes : Total(c)' - Total(c) = owed'[c] - owed[c]
<1> DEFINE s == snap[r].all
<1>1. ~UNCHANGED table BY DEF table
<1>2. owed' = owed BY DEF MergeCommit, table
<1>3. Types /\ s \in TableSet
  BY DEF PInv, Types, SnapType, Read, TableSet
<1>4. rows \in {s, Merge(s)}
  BY DEF CleanState, MergeCommit
<1>5. rows' = Merge(s)
  BY <1>1, <1>3, <1>4, MergeResult
<1> HIDE DEF s
<1>6. ASSUME NEW c \in Codes, NEW t, t = rows, NEW u, u = rows' PROVE Total(c)' = Total(c) /\ Total(c) \in Nat
  <2>1. Total(c) = SumIn(t, c) /\ Total(c)' = SumIn(u, c)
    BY <1>6, TotalIs
  <2>2. SumIn(Merge(s), c) = SumIn(s, c) BY <1>3, MergeTotal
  <2>3. SumIn(s, c) \in Nat BY <1>3, SumInType DEF TableSet
  <2>4. (t = s \/ t = Merge(s)) /\ u = Merge(s) BY <1>4, <1>5, <1>6
  <2>5. QED BY <2>1, <2>2, <2>3, <2>4
<1>7. QED
  <2> SUFFICES ASSUME NEW c \in Codes PROVE Total(c)' - Total(c) = owed'[c] - owed[c]
    OBVIOUS
  <2>1. Total(c)' = Total(c) /\ Total(c) \in Nat BY <1>6
  <2>2. owed'[c] = owed[c] /\ owed[c] \in Int BY <1>2, <1>3 DEF Types, TableType
  <2>3. QED BY <2>1, <2>2

\* Every commit is one of these.
LEMMA NextExact ==
  ASSUME RInv, PInv, PInv', ReadsInv, [Next]_vars,
         NEW r \in Requests, eff'[r] # eff[r], clean[r], user'
  PROVE  \A c \in Codes : Total(c)' - Total(c) = owed'[c] - owed[c]
<1>1. Tables /\ Types /\ Types' /\ CodeState(r) /\ CleanState(r)
  BY DEF RInv, PInv, ReadsInv
<1>2. PICK p \in Requests : Arrive(p) \/ Proceed(p) \/ DbError(p) \/ Crash(p)
  BY DEF Next, Idle, vars
<1>3. p = r
  BY <1>1, <1>2, ArriveFrame, ProceedFrame, FaultFrame DEF Frame
<1>4. ~(DbError(r) \/ Crash(r))
  BY DEF DbError, Crash, table
<1>5. ~Arrive(r)
  BY DEF Arrive, AddStart, PatchRead, SellRead, DeleteRead, MergeRead, Withdraw, table
<1>6. Proceed(r)
  BY <1>2, <1>3, <1>4, <1>5
<1>7. ~(AddRead(r) \/ AddRefused(r) \/ AddRefresh(r) \/ PatchRefresh(r))
  BY DEF AddRead, AddRefused, AddRefresh, PatchRefresh, table
<1>8. QED
  BY <1>1, <1>6, <1>7, InsertExact, AddMergeExact, ChangeExact, MergeExact DEF Proceed

\* A session that nobody committed in between changes the total of each code
\* by what it was asked for (portfolio.py), and pods that merge duplicates at
\* once leave the totals as they are (merge_duplicate_portfolios).
THEOREM CommitsAreExact == Spec => UndisturbedCommitsAreExact
<1>1. Init => ReadsInv
  BY DEF Init, ReadsInv, CodeState, CleanState
<1>2. RInv /\ PInv /\ ReadsInv /\ [Next]_vars => ReadsInv'
  BY NextFinds
<1>3. Spec => []ReadsInv
  BY <1>1, <1>2, RowsInvariant, SessionsInvariant, PTL DEF Spec
<1>4. RInv /\ PInv /\ PInv' /\ ReadsInv /\ [Next]_vars =>
        [\A r \in Requests : eff'[r] # eff[r] /\ clean[r] /\ user'
           => \A c \in Codes : Total(c)' - Total(c) = owed'[c] - owed[c]]_vars
  BY NextExact
<1>5. QED
  BY <1>3, <1>4, RowsInvariant, SessionsInvariant, PTL DEF Spec, UndisturbedCommitsAreExact
=============================================================================
