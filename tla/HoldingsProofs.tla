--------------------------- MODULE HoldingsProofs ---------------------------
(***************************************************************************)
(* Theorems of Holdings, for every number of requests, assets and symbols: *)
(* its types (no quantity ever goes below zero), the agreement of ledger   *)
(* and stock, that it implements HoldingsBook, and then what the sums over *)
(* the stock, the imports and the cached portfolio keep to.                *)
(***************************************************************************)
EXTENDS Holdings, Sums

-----------------------------------------------------------------------------
(* Types, part by part *)

StoreType == /\ docs \in [Assets -> Doc \cup {NoDoc}]
             /\ born \in 0 .. MaxAssets
             /\ ver  \in Nat
             /\ eff  \in [Requests -> Nat]
             /\ owed \in [Symbols -> Int]
ControlType == pc \in [Requests -> Labels] /\ answer \in [Requests -> Codes]
JobType     == job \in [Requests -> Job]
SeenType    == seen \in [Requests -> Seen]
PlanType    == plan \in [Requests -> [Symbols -> Row]]
TallyType   == tally \in [Requests -> [ok : Int, bad : Nat]]
LedgerType  == ledger \subseteq Sale
CacheType   == cache \in Entry \cup {NoCache}

LEMMA TypeParts ==
  TypeOK <=> /\ StoreType /\ ControlType /\ JobType /\ SeenType
             /\ PlanType /\ TallyType /\ LedgerType /\ CacheType
BY DEF TypeOK, StoreType, ControlType, JobType, SeenType, PlanType, TallyType,
       LedgerType, CacheType

LEMMA TypePartsNext ==
  TypeOK' <=> /\ StoreType' /\ ControlType' /\ JobType' /\ SeenType'
              /\ PlanType' /\ TallyType' /\ LedgerType' /\ CacheType'
BY DEF TypeOK, StoreType, ControlType, JobType, SeenType, PlanType, TallyType,
       LedgerType, CacheType

\* The counts of an import are numbers: its rows are finitely many.
LEMMA RowsAreFinite ==
  ASSUME NEW r, NEW states
  PROVE  Cardinality(RowsIn(r, states)) \in Nat
<1>1. IsFiniteSet(RowsIn(r, states))
  BY HoldingsAssumption, FS_Subset DEF RowsIn
<1>2. QED
  BY <1>1, FS_CardinalityType

LEMMA GotoType ==
  ASSUME ControlType, NEW r \in Requests, NEW l \in Labels, Goto(r, l)
  PROVE  ControlType'
BY DEF ControlType, Goto

LEMMA ReplyType ==
  ASSUME ControlType, NEW r \in Requests, NEW code \in Codes, Reply(r, code)
  PROVE  ControlType'
BY DEF ControlType, Reply, Labels

LEMMA AdmitType ==
  ASSUME JobType, NEW r \in Requests, NEW h, NEW i \in 0 .. MaxAssets, NEW q \in Int,
         Admit(r, h, i, q)
  PROVE  JobType'
<1>1. [op |-> h, asset |-> i, qty |-> q] \in Job
  BY HoldingsAssumption DEF Admit, Job
<1>2. QED
  BY <1>1 DEF JobType, Admit

LEMMA EffectType ==
  ASSUME StoreType, NEW r \in Requests, NEW s \in Symbols, NEW d \in Int, Effect(r, s, d)
  PROVE  /\ ver' \in Nat
         /\ eff' \in [Requests -> Nat]
         /\ owed' \in [Symbols -> Int]
BY DEF StoreType, Effect

LEMMA SetQtyType ==
  ASSUME StoreType, NEW i \in Assets, Alive(i), NEW q \in Nat,
         docs' = [docs EXCEPT ![i].qty = q]
  PROVE  docs' \in [Assets -> Doc \cup {NoDoc}]
<1>1. docs[i] \in Doc
  BY DEF StoreType, Alive
<1>2. [docs[i] EXCEPT !.qty = q] \in Doc
  BY <1>1 DEF Doc
<1>3. QED
  BY <1>2 DEF StoreType

LEMMA InsertType ==
  ASSUME StoreType, NEW s \in Symbols, NEW q \in Nat, Insert(s, q)
  PROVE  docs' \in [Assets -> Doc \cup {NoDoc}] /\ born' \in 0 .. MaxAssets
<1>1. [sym |-> s, qty |-> q, price |-> "cost"] \in Doc
  BY DEF Doc
<1>2. born + 1 \in 0 .. MaxAssets
  BY HoldingsAssumption DEF StoreType, Insert
<1>3. QED
  BY <1>1, <1>2 DEF StoreType, Insert

LEMMA QtyType ==
  ASSUME StoreType, NEW i \in Assets, Alive(i)
  PROVE  docs[i].qty \in Nat /\ docs[i].sym \in Symbols
BY DEF StoreType, Alive, Doc

LEMMA SetRowType ==
  ASSUME PlanType, NEW r \in Requests, NEW s \in Symbols, NEW st \in RowState,
         SetRow(r, s, st)
  PROVE  PlanType'
<1>1. [plan[r][s] EXCEPT !.st = st] \in Row
  BY DEF PlanType, Row
<1>2. QED
  BY <1>1 DEF PlanType, SetRow

LEMMA ItemsType ==
  ASSUME StoreType, NEW filter
  PROVE  Items(filter) \in Listing
BY QtyType DEF Items, Listing

-----------------------------------------------------------------------------
\* Where a request stands in its sale: what it took, what it wrote, what it
\* answered.  The conjuncts about requests in progress are what makes
\* LedgerMatchesSales inductive.
Selling == {"sell.probe", "sell.empty", "sell.record"}
Elsewhere == {"list.query", "list.write", "list.fill", "bulk.read", "bulk.write"}
Unbooked(r) == \A t \in ledger : t.req # r

SaleState(r) ==
  /\ pc[r] # "done" => answer[r] = "none"
  /\ pc[r] = "new" => job[r] = NoJob /\ eff[r] = 0
  /\ pc[r] \in Selling \cup {"new"} => Unbooked(r)
  /\ pc[r] \in Selling =>
       IsSale(r) /\ job[r].asset \in Assets /\ job[r].qty \in Nat \ {0}
  /\ pc[r] = "sell.probe" => eff[r] = 0
  /\ pc[r] \in {"sell.empty", "sell.record"} => eff[r] > 0
  /\ pc[r] \in Elsewhere => ~IsSale(r)
  /\ pc[r] = "invalidate" /\ IsSale(r) => SaleOf(r) \in ledger
  /\ IsSale(r) => /\ answer[r] = "200" => SaleOf(r) \in ledger
                  /\ answer[r] \in {"400", "404"} => eff[r] = 0
  /\ \A t \in ledger : t.req = r => IsSale(r) /\ t = SaleOf(r) /\ eff[r] > 0

SaleInv == \A r \in Requests : SaleState(r)
IInv    == TypeOK /\ SaleInv

\* What an arriving request does to the types.
LEMMA ArriveType ==
  ASSUME TypeOK, NEW r \in Requests, Arrive(r)
  PROVE  TypeOK'
<1> USE TypeParts, TypePartsNext
<1> USE DEF Codes, Labels
<1>1. CASE ListHit(r)
  <2>1. ControlType' BY <1>1, ReplyType DEF ListHit
  <2>2. JobType' BY <1>1, AdmitType, HoldingsAssumption DEF ListHit
  <2>3. QED BY <1>1, <2>1, <2>2 DEF ListHit, store, StoreType, SeenType,
              PlanType, TallyType, LedgerType, CacheType
<1>2. ASSUME NEW filter \in BOOLEAN, ListMiss(r, filter) PROVE TypeOK'
  <2>1. ControlType' BY <1>2, GotoType DEF ListMiss
  <2>2. JobType' BY <1>2, AdmitType, HoldingsAssumption DEF ListMiss
  <2>3. SeenType' BY <1>2 DEF ListMiss, SeenType, Seen
  <2>4. QED BY <1>2, <2>1, <2>2, <2>3 DEF ListMiss, store, StoreType,
              PlanType, TallyType, LedgerType, CacheType
<1>3. ASSUME NEW s \in Symbols, NEW q \in Amounts, CreateInsert(r, s, q)
      PROVE  TypeOK'
  <2>0. q \in Nat BY HoldingsAssumption
  <2>1. ControlType' BY <1>3, GotoType DEF CreateInsert
  <2>2. JobType'
    <3>1. born + 1 \in 0 .. MaxAssets
      BY <1>3, HoldingsAssumption DEF CreateInsert, Insert, StoreType
    <3>2. QED BY <1>3, <2>0, <3>1, AdmitType DEF CreateInsert
  <2>3. StoreType'
    BY <1>3, <2>0, InsertType, EffectType DEF CreateInsert, StoreType
  <2>4. QED BY <1>3, <2>1, <2>2, <2>3 DEF CreateInsert, SeenType, PlanType,
              TallyType, LedgerType, CacheType
<1>4. ASSUME NEW q \in {0}, SellRejected(r, q)
      PROVE  TypeOK'
  <2>1. ControlType' BY <1>4, ReplyType DEF SellRejected
  <2>2. JobType' BY <1>4, AdmitType, HoldingsAssumption DEF SellRejected
  <2>3. QED BY <1>4, <2>1, <2>2 DEF SellRejected, store, StoreType, SeenType,
              PlanType, TallyType, LedgerType, CacheType
<1>5. ASSUME NEW i \in Assets, NEW q \in Amounts, SellTake(r, i, q)
      PROVE  TypeOK'
  <2>0. q \in Nat /\ i \in 0 .. MaxAssets BY HoldingsAssumption DEF Assets
  <2>1. ControlType' BY <1>5, GotoType, ReplyType DEF SellTake
  <2>2. JobType' BY <1>5, <2>0, AdmitType DEF SellTake
  <2>3. StoreType'
    <3>1. CASE /\ Covers(i, q)
               /\ docs' = [docs EXCEPT ![i].qty = @ - q]
               /\ Effect(r, docs[i].sym, -q)
               /\ UNCHANGED born
      <4>1. docs[i].qty - q \in Nat /\ docs[i].sym \in Symbols
        BY <3>1, <2>0, QtyType DEF Covers
      <4>2. docs' \in [Assets -> Doc \cup {NoDoc}]
        BY <3>1, <4>1, SetQtyType DEF Covers
      <4>3. QED BY <3>1, <4>1, <4>2, <2>0, EffectType DEF StoreType
    <3>2. CASE UNCHANGED store
      BY <3>2 DEF store, StoreType
    <3>3. QED BY <1>5, <3>1, <3>2 DEF SellTake
  <2>4. QED BY <1>5, <2>1, <2>2, <2>3 DEF SellTake, SeenType, PlanType,
              TallyType, LedgerType, CacheType
<1>6. ASSUME NEW i \in Assets, NEW q \in Amounts, UpdateApply(r, i, q)
      PROVE  TypeOK'
  <2>0. q \in Nat /\ i \in 0 .. MaxAssets BY HoldingsAssumption DEF Assets
  <2>1. ControlType' BY <1>6, GotoType, ReplyType DEF UpdateApply
  <2>2. JobType' BY <1>6, <2>0, AdmitType DEF UpdateApply
  <2>3. StoreType'
    <3>1. CASE Alive(i)
      <4>1. docs[i].qty \in Nat /\ docs[i].sym \in Symbols
        BY <3>1, QtyType
      <4>2. PICK nq \in {q, docs[i].qty} :
                /\ docs' = [docs EXCEPT ![i].qty = nq]
                /\ Effect(r, docs[i].sym, nq - docs[i].qty)
        BY <3>1, <1>6 DEF UpdateApply
      <4>3. nq \in Nat BY <4>1, <2>0
      <4>4. docs' \in [Assets -> Doc \cup {NoDoc}]
        BY <3>1, <4>2, <4>3, SetQtyType
      <4>5. born' = born BY <3>1, <1>6 DEF UpdateApply
      <4>6. nq - docs[i].qty \in Int BY <4>1, <4>3
      <4>7. QED BY <4>1, <4>2, <4>4, <4>5, <4>6, EffectType DEF StoreType
    <3>2. CASE ~Alive(i)
      BY <3>2, <1>6 DEF UpdateApply, store, StoreType
    <3>3. QED BY <3>1, <3>2
  <2>4. QED BY <1>6, <2>1, <2>2, <2>3 DEF UpdateApply, SeenType, PlanType,
              TallyType, LedgerType, CacheType
<1>7. ASSUME NEW i \in Assets, DeleteApply(r, i)
      PROVE  TypeOK'
  <2>0. i \in 0 .. MaxAssets BY HoldingsAssumption DEF Assets
  <2>1. ControlType' BY <1>7, GotoType, ReplyType DEF DeleteApply, DeleteMissingCode
  <2>2. JobType' BY <1>7, <2>0, AdmitType DEF DeleteApply
  <2>3. StoreType'
    <3>1. CASE Alive(i)
      <4>1. -docs[i].qty \in Int /\ docs[i].sym \in Symbols
        BY <3>1, QtyType
      <4>2. Effect(r, docs[i].sym, -docs[i].qty) /\ UNCHANGED born
            /\ docs' = [docs EXCEPT ![i] = NoDoc]
        BY <3>1, <1>7 DEF DeleteApply
      <4>3. QED BY <4>1, <4>2, EffectType DEF StoreType
    <3>2. CASE ~Alive(i)
      BY <3>2, <1>7 DEF DeleteApply, store, StoreType
    <3>3. QED BY <3>1, <3>2
  <2>4. QED BY <1>7, <2>1, <2>2, <2>3 DEF DeleteApply, SeenType, PlanType,
              TallyType, LedgerType, CacheType
<1>8. ASSUME NEW rows \in Rows, BulkStart(r, rows)
      PROVE  TypeOK'
  <2>1. ControlType' BY <1>8, GotoType DEF BulkStart
  <2>2. JobType' BY <1>8, AdmitType, HoldingsAssumption DEF BulkStart
  <2>3. PlanType'
    BY <1>8, HoldingsAssumption DEF BulkStart, PlanType, Rows, Row, NoRow, RowState
  <2>4. SeenType' BY <1>8 DEF BulkStart, SeenType, Seen, StoreType
  <2>5. QED BY <1>8, <2>1, <2>2, <2>3, <2>4 DEF BulkStart, store, StoreType,
              TallyType, LedgerType, CacheType
<1>9. QED
  BY <1>1, <1>2, <1>3, <1>4, <1>5, <1>6, <1>7, <1>8 DEF Arrive

\* What the next step of a request does to the types.
LEMMA ProceedType ==
  ASSUME IInv, NEW r \in Requests, Proceed(r)
  PROVE  TypeOK'
<1> TypeOK BY DEF IInv
<1> USE TypeParts, TypePartsNext
<1> USE DEF Codes, Labels
<1>1. CASE ListQuery(r)
  <2>1. ControlType' BY <1>1, GotoType DEF ListQuery
  <2>2. SeenType'
    <3>1. Items(seen[r].filter) \in Listing BY ItemsType
    <3>2. QED BY <1>1, <3>1 DEF ListQuery, SeenType, Seen, StoreType
  <2>3. QED BY <1>1, <2>1, <2>2 DEF ListQuery, store, StoreType, JobType,
              PlanType, TallyType, LedgerType, CacheType
<1>2. CASE ListWriteBack(r)
  <2>1. ControlType' BY <1>2, GotoType DEF ListWriteBack
  <2>2. Repriced(seen[r].items) \in [Assets -> Doc \cup {NoDoc}]
    BY DEF Repriced, StoreType, Alive, Doc
  <2>3. StoreType' BY <1>2, <2>2 DEF ListWriteBack, StoreType
  <2>4. QED BY <1>2, <2>1, <2>3 DEF ListWriteBack, locals, SeenType, JobType,
              PlanType, TallyType, LedgerType, CacheType
<1>3. CASE ListFill(r)
  <2>1. ControlType' BY <1>3, ReplyType DEF ListFill
  <2>2. CacheType' BY <1>3 DEF ListFill, CacheType, Entry, SeenType, Seen, StoreType
  <2>3. QED BY <1>3, <2>1, <2>2 DEF ListFill, store, locals, StoreType, SeenType,
              JobType, PlanType, TallyType, LedgerType
<1>4. CASE SellProbe(r)
  <2>1. ControlType' BY <1>4, ReplyType DEF SellProbe
  <2>2. QED BY <1>4, <2>1 DEF SellProbe, store, locals, StoreType, SeenType,
              JobType, PlanType, TallyType, LedgerType, CacheType
<1>5. CASE SellDropEmpty(r)
  <2>1. ControlType' BY <1>5, GotoType DEF SellDropEmpty
  <2>2. StoreType'
    <3>1. CASE StillEmpty(job[r].asset)
      <4> DEFINE i == job[r].asset
      <4>1. i \in Assets
        BY <1>5 DEF IInv, SaleInv, SaleState, Selling, SellDropEmpty
      <4>2. -Residue(i) \in Int /\ docs[i].sym \in Symbols
        BY <3>1, <4>1, QtyType DEF StillEmpty, Residue
      <4>3. Effect(r, docs[i].sym, -Residue(i)) /\ UNCHANGED born
            /\ docs' = [docs EXCEPT ![i] = NoDoc]
        BY <3>1, <1>5 DEF SellDropEmpty
      <4>4. QED BY <4>2, <4>3, EffectType DEF StoreType
    <3>2. CASE ~StillEmpty(job[r].asset)
      BY <3>2, <1>5 DEF SellDropEmpty, store, StoreType
    <3>3. QED BY <3>1, <3>2
  <2>3. QED BY <1>5, <2>1, <2>2 DEF SellDropEmpty, locals, SeenType,
              JobType, PlanType, TallyType, LedgerType, CacheType
<1>6. CASE SellRecord(r)
  <2>1. ControlType' BY <1>6, GotoType DEF SellRecord
  <2>2. SaleOf(r) \in Sale BY <1>6 DEF IInv, SaleInv, SaleState, Selling, SellRecord, SaleOf, Sale
  <2>3. LedgerType' BY <1>6, <2>2 DEF SellRecord, LedgerType
  <2>4. QED BY <1>6, <2>1, <2>3 DEF SellRecord, store, locals, StoreType, SeenType,
              JobType, PlanType, TallyType, CacheType
<1>7. ASSUME NEW s \in Symbols, BulkRead(r, s) PROVE TypeOK'
  <2>1. ControlType' BY <1>7, GotoType DEF BulkRead
  <2>2. PlanType'
    <3>1. CASE SetRow(r, s, "failed")
      BY <3>1, SetRowType DEF RowState
    <3>2. ASSUME NEW held \in HeldOf(s),
                 plan' = [plan EXCEPT ![r][s].st = "planned",
                                      ![r][s].total = BulkTotal(held, plan[r][s].add)]
          PROVE  PlanType'
      <4>1. held \in Nat
        BY QtyType DEF HeldOf, Oldest, Of
      <4>2. BulkTotal(held, plan[r][s].add) \in Nat
        BY <4>1 DEF PlanType, Row, BulkTotal
      <4>3. QED BY <3>2, <4>2 DEF PlanType, Row, RowState
    <3>3. QED BY <1>7, <3>1, <3>2 DEF BulkRead
  <2>3. QED BY <1>7, <2>1, <2>2 DEF BulkRead, store, StoreType, SeenType,
              JobType, TallyType, LedgerType, CacheType
<1>8. ASSUME NEW s \in Symbols, BulkUpdate(r, s) PROVE TypeOK'
  <2>0. plan[r][s].total \in Nat /\ plan[r][s].add \in Int
    BY DEF PlanType, Row
  <2>1. PlanType' BY <1>8, SetRowType DEF BulkUpdate, RowState
  <2>2. StoreType'
    <3>1. PICK i \in Oldest(s) : docs' = [docs EXCEPT ![i].qty = plan[r][s].total]
      BY <1>8 DEF BulkUpdate
    <3>2. i \in Assets /\ Alive(i) BY <3>1 DEF Oldest, Of
    <3>3. docs' \in [Assets -> Doc \cup {NoDoc}]
      BY <3>1, <3>2, <2>0, SetQtyType
    <3>4. QED BY <1>8, <3>3, <2>0, EffectType DEF BulkUpdate, StoreType
  <2>3. QED BY <1>8, <2>1, <2>2 DEF BulkUpdate, ControlType, SeenType,
              JobType, TallyType, LedgerType, CacheType
<1>9. ASSUME NEW s \in Symbols, BulkUpsertMiss(r, s) PROVE TypeOK'
  <2>1. PlanType' BY <1>9, SetRowType DEF BulkUpsertMiss, RowState
  <2>2. QED BY <1>9, <2>1 DEF BulkUpsertMiss, store, StoreType, ControlType,
              SeenType, JobType, TallyType, LedgerType, CacheType
<1>10. ASSUME NEW s \in Symbols, BulkInsert(r, s) PROVE TypeOK'
  <2>0. plan[r][s].total \in Nat /\ plan[r][s].add \in Int
    BY DEF PlanType, Row
  <2>1. PlanType' BY <1>10, SetRowType DEF BulkInsert, RowState
  <2>2. StoreType' BY <1>10, <2>0, InsertType, EffectType DEF BulkInsert, StoreType
  <2>3. QED BY <1>10, <2>1, <2>2 DEF BulkInsert, ControlType, SeenType,
              JobType, TallyType, LedgerType, CacheType
<1>11. CASE BulkFinish(r)
  <2>1. ControlType' BY <1>11, GotoType DEF BulkFinish
  <2>2. TallyType'
    BY <1>11, RowsAreFinite DEF BulkFinish, TallyType, SuccessCount
  <2>3. QED BY <1>11, <2>1, <2>2 DEF BulkFinish, store, StoreType, SeenType,
              JobType, PlanType, LedgerType, CacheType
<1>12. CASE Invalidate(r)
  <2>1. ControlType' BY <1>12, ReplyType DEF Invalidate
  <2>2. QED BY <1>12, <2>1 DEF Invalidate, DropsEntry, store, locals, StoreType,
              SeenType, JobType, PlanType, TallyType, LedgerType, CacheType
<1>13. QED
  BY <1>1, <1>2, <1>3, <1>4, <1>5, <1>6, <1>7, <1>8, <1>9, <1>10, <1>11, <1>12
     DEF Proceed

\* A failure changes no document: only where its request stands, and its rows.
LEMMA FailType ==
  ASSUME TypeOK, NEW r \in Requests, Fail(r)
  PROVE  TypeOK'
<1> USE TypeParts, TypePartsNext
<1> USE DEF Codes, Labels
<1>1. ASSUME NEW s \in Symbols, BulkReject(r, s) PROVE TypeOK'
  <2>1. PlanType' BY <1>1, SetRowType DEF BulkReject, RowState
  <2>2. QED BY <1>1, <2>1 DEF BulkReject, store, StoreType, ControlType,
              SeenType, JobType, TallyType, LedgerType, CacheType
<1>2. CASE BulkAbort(r)
  <2>1. ControlType' BY <1>2, GotoType DEF BulkAbort
  <2>2. TallyType' BY <1>2, RowsAreFinite DEF BulkAbort, TallyType
  <2>3. QED BY <1>2, <2>1, <2>2 DEF BulkAbort, store, StoreType, SeenType,
              JobType, PlanType, LedgerType, CacheType
<1>3. CASE MongoError(r)
  <2>1. ControlType' BY <1>3, ReplyType DEF MongoError
  <2>2. QED BY <1>3, <2>1 DEF MongoError, store, locals, StoreType, SeenType,
              JobType, PlanType, TallyType, LedgerType, CacheType
<1>4. CASE Crash(r)
  <2>1. ControlType' BY <1>4, GotoType DEF Crash
  <2>2. QED BY <1>4, <2>1 DEF Crash, store, locals, StoreType, SeenType,
              JobType, PlanType, TallyType, LedgerType, CacheType
<1>5. QED
  BY <1>1, <1>2, <1>3, <1>4 DEF Fail

-----------------------------------------------------------------------------
(* The ledger *)

\* A step of one request touches no other, and the ledger only by its sale.
Same(p) == /\ pc'[p] = pc[p] /\ answer'[p] = answer[p]
           /\ job'[p] = job[p] /\ eff'[p] = eff[p]

LEMMA GotoOthers ==
  ASSUME NEW r, NEW l, Goto(r, l), NEW p \in Requests \ {r}, TypeOK
  PROVE  pc'[p] = pc[p] /\ answer'[p] = answer[p]
BY DEF Goto, TypeOK

LEMMA ReplyOthers ==
  ASSUME NEW r, NEW code, Reply(r, code), NEW p \in Requests \ {r}, TypeOK
  PROVE  pc'[p] = pc[p] /\ answer'[p] = answer[p]
BY DEF Reply, TypeOK

LEMMA AdmitOthers ==
  ASSUME NEW r, NEW h, NEW i, NEW q, Admit(r, h, i, q), NEW p \in Requests \ {r}, TypeOK
  PROVE  job'[p] = job[p]
BY DEF Admit, TypeOK

LEMMA EffectOthers ==
  ASSUME NEW r, NEW s, NEW d, Effect(r, s, d), NEW p \in Requests \ {r}, TypeOK
  PROVE  eff'[p] = eff[p]
BY DEF Effect, TypeOK

LEMMA ArriveOthers ==
  ASSUME TypeOK, NEW r \in Requests, Arrive(r), NEW p \in Requests \ {r}
  PROVE  Same(p) /\ ledger' = ledger
<1> USE GotoOthers, ReplyOthers, AdmitOthers, EffectOthers DEF Same, store
<1>1. CASE ListHit(r)
  BY <1>1 DEF ListHit
<1>2. ASSUME NEW filter \in BOOLEAN, ListMiss(r, filter) PROVE Same(p) /\ ledger' = ledger
  BY <1>2 DEF ListMiss
<1>3. ASSUME NEW s \in Symbols, NEW q \in Amounts, CreateInsert(r, s, q)
      PROVE  Same(p) /\ ledger' = ledger
  BY <1>3 DEF CreateInsert
<1>4. ASSUME NEW q \in {0}, SellRejected(r, q) PROVE Same(p) /\ ledger' = ledger
  BY <1>4 DEF SellRejected
<1>5. ASSUME NEW i \in Assets, NEW q \in Amounts, SellTake(r, i, q)
      PROVE  Same(p) /\ ledger' = ledger
  BY <1>5 DEF SellTake
<1>6. ASSUME NEW i \in Assets, NEW q \in Amounts, UpdateApply(r, i, q)
      PROVE  Same(p) /\ ledger' = ledger
  BY <1>6 DEF UpdateApply
<1>7. ASSUME NEW i \in Assets, DeleteApply(r, i) PROVE Same(p) /\ ledger' = ledger
  BY <1>7 DEF DeleteApply
<1>8. ASSUME NEW rows \in Rows, BulkStart(r, rows) PROVE Same(p) /\ ledger' = ledger
  BY <1>8 DEF BulkStart
<1>9. QED
  BY <1>1, <1>2, <1>3, <1>4, <1>5, <1>6, <1>7, <1>8 DEF Arrive

LEMMA ServeOthers ==
  ASSUME TypeOK, NEW r \in Requests, Proceed(r) \/ Fail(r), NEW p \in Requests \ {r}
  PROVE  Same(p) /\ (ledger' = ledger \/ (SellRecord(r) /\ ledger' = ledger \cup {SaleOf(r)}))
<1> DEFINE Goal == Same(p) /\ (ledger' = ledger \/ (SellRecord(r) /\ ledger' = ledger \cup {SaleOf(r)}))
<1> USE GotoOthers, ReplyOthers, EffectOthers DEF Same, store, locals
<1>1. ListQuery(r) => Goal BY DEF ListQuery
<1>2. ListWriteBack(r) => Goal BY DEF ListWriteBack
<1>3. ListFill(r) => Goal BY DEF ListFill
<1>4. SellProbe(r) => Goal BY DEF SellProbe
<1>5. SellDropEmpty(r) => Goal BY DEF SellDropEmpty
<1>6. SellRecord(r) => Goal BY DEF SellRecord
<1>7. ASSUME NEW s \in Symbols PROVE BulkRead(r, s) => Goal BY DEF BulkRead
<1>8. ASSUME NEW s \in Symbols PROVE BulkUpdate(r, s) => Goal BY DEF BulkUpdate
<1>9. ASSUME NEW s \in Symbols PROVE BulkUpsertMiss(r, s) => Goal BY DEF BulkUpsertMiss
<1>10. ASSUME NEW s \in Symbols PROVE BulkInsert(r, s) => Goal BY DEF BulkInsert
<1>11. BulkFinish(r) => Goal BY DEF BulkFinish
<1>12. Invalidate(r) => Goal BY DEF Invalidate
<1>13. ASSUME NEW s \in Symbols PROVE BulkReject(r, s) => Goal BY DEF BulkReject
<1>14. BulkAbort(r) => Goal BY DEF BulkAbort
<1>15. MongoError(r) => Goal BY DEF MongoError
<1>16. Crash(r) => Goal BY DEF Crash
<1>17. QED
  BY <1>1, <1>2, <1>3, <1>4, <1>5, <1>6, <1>7, <1>8, <1>9, <1>10, <1>11, <1>12,
     <1>13, <1>14, <1>15, <1>16 DEF Proceed, Fail

\* The sale of a request that did not move is where it was.
LEMMA OtherSales ==
  ASSUME IInv, NEW r \in Requests, NEW p \in Requests \ {r}, Same(p),
         ledger' = ledger \/ ledger' = ledger \cup {SaleOf(r)}
  PROVE  SaleState(p)'
<1>1. SaleOf(r).req # p
  BY DEF SaleOf
<1>2. SaleState(p)
  BY DEF IInv, SaleInv
<1>3. \A t \in ledger' : t.req = p => t \in ledger
  BY <1>1
<1>4. SaleOf(p)' = SaleOf(p)
  BY DEF SaleOf, Same
<1>5. QED
  BY <1>2, <1>3, <1>4 DEF SaleState, Same, Unbooked, IsSale

\* The request that arrives.
LEMMA ArriveSale ==
  ASSUME IInv, NEW r \in Requests, Arrive(r)
  PROVE  SaleState(r)'
<1>0. TypeOK /\ SaleState(r)
  BY DEF IInv, SaleInv
<1>1. ledger' = ledger
  <2>1. UNCHANGED ledger
    BY DEF Arrive, ListHit, ListMiss, CreateInsert, SellRejected, SellTake,
           UpdateApply, DeleteApply, BulkStart
  <2>2. QED BY <2>1
<1>2. pc[r] = "new" /\ eff[r] = 0 /\ answer[r] = "none" /\ Unbooked(r)
  BY <1>0 DEF Arrive, ListHit, ListMiss, CreateInsert, SellRejected, SellTake,
     UpdateApply, DeleteApply, BulkStart, Admit, SaleState, Selling
<1>3. Unbooked(r)'
  BY <1>1, <1>2 DEF Unbooked
<1>4. ASSUME NEW h, NEW i, NEW q, Admit(r, h, i, q)
      PROVE  job'[r] = [op |-> h, asset |-> i, qty |-> q]
  BY <1>0, <1>4 DEF Admit, TypeOK
<1>5. ASSUME NEW l, Goto(r, l) PROVE pc'[r] = l /\ answer'[r] = "none"
  BY <1>0, <1>2, <1>5 DEF Goto, TypeOK
<1>6. ASSUME NEW code, Reply(r, code) PROVE pc'[r] = "done" /\ answer'[r] = code
  BY <1>0, <1>6 DEF Reply, TypeOK
<1>7. ASSUME NEW s, NEW d, Effect(r, s, d) PROVE eff'[r] > 0
  BY <1>0, <1>7 DEF Effect, TypeOK
<1> USE <1>2, <1>3 DEF SaleState, Selling, Elsewhere, IsSale, Unbooked
<1>8. CASE ListHit(r)
  <2>1. job'[r] = [op |-> "list", asset |-> 0, qty |-> 0]
    BY <1>8, <1>4 DEF ListHit
  <2>2. pc'[r] = "done"
    BY <1>8, <1>5, <1>6 DEF ListHit
  <2>3. QED BY <2>1, <2>2
<1>9. ASSUME NEW filter \in BOOLEAN, ListMiss(r, filter) PROVE SaleState(r)'
  <2>1. job'[r] = [op |-> "list", asset |-> 0, qty |-> 0]
    BY <1>9, <1>4 DEF ListMiss
  <2>2. pc'[r] = "list.query" /\ answer'[r] = "none"
    BY <1>9, <1>5, <1>6 DEF ListMiss
  <2>3. QED BY <2>1, <2>2
<1>10. ASSUME NEW s \in Symbols, NEW q \in Amounts, CreateInsert(r, s, q)
       PROVE  SaleState(r)'
  <2>1. job'[r] = [op |-> "create", asset |-> born + 1, qty |-> q]
    BY <1>10, <1>4 DEF CreateInsert
  <2>2. pc'[r] = "invalidate" /\ answer'[r] = "none"
    BY <1>10, <1>5, <1>6 DEF CreateInsert
  <2>3. QED BY <2>1, <2>2
<1>11. ASSUME NEW q \in {0}, SellRejected(r, q) PROVE SaleState(r)'
  <2>1. pc'[r] = "done" /\ answer'[r] = "400" /\ eff'[r] = 0
    BY <1>11, <1>6 DEF SellRejected, store
  <2>2. QED BY <2>1
<1>12. ASSUME NEW i \in Assets, NEW q \in Amounts, SellTake(r, i, q)
       PROVE  SaleState(r)'
  <2>0. q \in Nat \ {0} BY <1>12, HoldingsAssumption DEF SellTake
  <2>1. job'[r] = [op |-> "sell", asset |-> i, qty |-> q]
    BY <1>12, <1>4 DEF SellTake
  <2>2. CASE Effect(r, docs[i].sym, -q)
             /\ (Goto(r, "sell.empty") \/ Goto(r, "sell.record"))
    <3>1. pc'[r] \in {"sell.empty", "sell.record"} /\ answer'[r] = "none"
      BY <2>2, <1>5
    <3>2. eff'[r] > 0 BY <2>2, <1>7
    <3>3. QED BY <2>0, <2>1, <3>1, <3>2
  <2>3. CASE Goto(r, "sell.probe") /\ UNCHANGED store
    <3>1. pc'[r] = "sell.probe" /\ answer'[r] = "none" /\ eff'[r] = 0
      BY <2>3, <1>5 DEF store
    <3>2. QED BY <2>0, <2>1, <3>1
  <2>4. CASE Reply(r, "400") /\ UNCHANGED store
    <3>1. pc'[r] = "done" /\ answer'[r] = "400" /\ eff'[r] = 0
      BY <2>4, <1>6 DEF store
    <3>2. QED BY <2>1, <3>1
  <2>5. QED BY <1>12, <2>2, <2>3, <2>4 DEF SellTake
<1>13. ASSUME NEW i \in Assets, NEW q \in Amounts, UpdateApply(r, i, q)
       PROVE  SaleState(r)'
  <2>1. job'[r] = [op |-> "update", asset |-> i, qty |-> q]
    BY <1>13, <1>4 DEF UpdateApply
  <2>2. pc'[r] \in {"invalidate", "done"} /\ (pc'[r] # "done" => answer'[r] = "none")
    BY <1>13, <1>5, <1>6 DEF UpdateApply
  <2>3. QED BY <2>1, <2>2
<1>14. ASSUME NEW i \in Assets, DeleteApply(r, i) PROVE SaleState(r)'
  <2>1. job'[r] = [op |-> "delete", asset |-> i, qty |-> 0]
    BY <1>14, <1>4 DEF DeleteApply
  <2>2. pc'[r] \in {"invalidate", "done"} /\ (pc'[r] # "done" => answer'[r] = "none")
    BY <1>14, <1>5, <1>6 DEF DeleteApply
  <2>3. QED BY <2>1, <2>2
<1>15. ASSUME NEW rows \in Rows, BulkStart(r, rows) PROVE SaleState(r)'
  <2>1. job'[r] = [op |-> "bulk", asset |-> 0, qty |-> 0]
    BY <1>15, <1>4 DEF BulkStart
  <2>2. pc'[r] = "bulk.read" /\ answer'[r] = "none"
    BY <1>15, <1>5, <1>6 DEF BulkStart
  <2>3. QED BY <2>1, <2>2
<1>16. QED
  BY <1>8, <1>9, <1>10, <1>11, <1>12, <1>13, <1>14, <1>15 DEF Arrive

\* The request that is served, or fails.
LEMMA ServeSale ==
  ASSUME IInv, NEW r \in Requests, Proceed(r) \/ Fail(r)
  PROVE  SaleState(r)'
<1>0. TypeOK /\ SaleState(r)
  BY DEF IInv, SaleInv
<1>1. job' = job
  BY DEF Proceed, Fail, ListQuery, ListWriteBack, ListFill, SellProbe, SellDropEmpty,
     SellRecord, BulkRead, BulkUpdate, BulkUpsertMiss, BulkInsert, BulkFinish,
     Invalidate, BulkReject, BulkAbort, MongoError, Crash, locals
<1>2. SaleOf(r)' = SaleOf(r)
  BY <1>1 DEF SaleOf
<1>3. ASSUME NEW l, Goto(r, l) PROVE pc'[r] = l /\ answer'[r] = answer[r]
  BY <1>0, <1>3 DEF Goto, TypeOK
<1>4. ASSUME NEW code, Reply(r, code) PROVE pc'[r] = "done" /\ answer'[r] = code
  BY <1>0, <1>4 DEF Reply, TypeOK
<1>5. ASSUME NEW s, NEW d, Effect(r, s, d) PROVE eff'[r] > 0
  BY <1>0, <1>5 DEF Effect, TypeOK
<1> USE <1>0, <1>1, <1>2, <1>3, <1>4
    DEF SaleState, Selling, Elsewhere, IsSale, Unbooked, store, locals
<1>6. CASE ListQuery(r) BY <1>6 DEF ListQuery
<1>7. CASE ListWriteBack(r) BY <1>7 DEF ListWriteBack
<1>8. CASE ListFill(r) BY <1>8 DEF ListFill
<1>9. CASE SellProbe(r) BY <1>9 DEF SellProbe
<1>10. CASE SellDropEmpty(r)
  <2>1. ledger' = ledger /\ pc[r] = "sell.empty" /\ pc'[r] = "sell.record"
        /\ answer'[r] = answer[r]
    BY <1>10 DEF SellDropEmpty
  <2>2. eff'[r] > 0 BY <1>5, <1>10 DEF SellDropEmpty
  <2>3. QED BY <2>1, <2>2
<1>11. CASE SellRecord(r)
  <2>1. ledger' = ledger \cup {SaleOf(r)} /\ pc[r] = "sell.record"
        /\ pc'[r] = "invalidate" /\ answer'[r] = "none" /\ eff'[r] = eff[r]
    BY <1>11 DEF SellRecord
  <2>2. \A t \in ledger' : t.req = r => t = SaleOf(r)
    BY <2>1
  <2>3. QED BY <2>1, <2>2
<1>12. ASSUME NEW s \in Symbols, BulkRead(r, s) PROVE SaleState(r)'
  BY <1>12 DEF BulkRead
<1>13. ASSUME NEW s \in Symbols, BulkUpdate(r, s) PROVE SaleState(r)'
  BY <1>13 DEF BulkUpdate
<1>14. ASSUME NEW s \in Symbols, BulkUpsertMiss(r, s) PROVE SaleState(r)'
  BY <1>14 DEF BulkUpsertMiss
<1>15. ASSUME NEW s \in Symbols, BulkInsert(r, s) PROVE SaleState(r)'
  BY <1>15 DEF BulkInsert
<1>16. CASE BulkFinish(r) BY <1>16 DEF BulkFinish
<1>17. CASE Invalidate(r) BY <1>17 DEF Invalidate
<1>18. ASSUME NEW s \in Symbols, BulkReject(r, s) PROVE SaleState(r)'
  BY <1>18 DEF BulkReject
<1>19. CASE BulkAbort(r) BY <1>19 DEF BulkAbort
<1>20. CASE MongoError(r) BY <1>20 DEF MongoError
<1>21. CASE Crash(r) BY <1>21 DEF Crash, InFlight
<1>22. QED
  BY <1>6, <1>7, <1>8, <1>9, <1>10, <1>11, <1>12, <1>13, <1>14, <1>15, <1>16,
     <1>17, <1>18, <1>19, <1>20, <1>21 DEF Proceed, Fail

-----------------------------------------------------------------------------
(* The invariant *)

LEMMA InitInv == Init => IInv
<1> SUFFICES ASSUME Init PROVE IInv
  OBVIOUS
<1> USE HoldingsAssumption
<1>1. TypeOK
  BY DEF Init, TypeOK, Labels, Codes, Job, NoJob, HandlerNames, Seen, Listing,
         Row, NoRow, RowState
<1>2. SaleInv
  BY DEF Init, SaleInv, SaleState, Selling, Elsewhere, Unbooked, IsSale, NoJob
<1>3. QED
  BY <1>1, <1>2 DEF IInv

LEMMA StillInv ==
  ASSUME IInv, UNCHANGED <<docs, born, ledger, pc, job, seen, plan, tally, answer,
                           ver, eff, owed>>, CacheType'
  PROVE  IInv'
<1>1. TypeOK'
  BY DEF IInv, TypeOK, CacheType
<1>2. SaleInv'
  BY DEF IInv, SaleInv, SaleState, Unbooked, IsSale, SaleOf
<1>3. QED
  BY <1>1, <1>2 DEF IInv

LEMMA StepInv == IInv /\ [Next]_vars => IInv'
<1> SUFFICES ASSUME IInv, [Next]_vars PROVE IInv'
  OBVIOUS
<1>1. ASSUME NEW r \in Requests, Arrive(r) PROVE IInv'
  <2>1. TypeOK' BY <1>1, ArriveType DEF IInv
  <2>2. SaleState(r)' BY <1>1, ArriveSale
  <2>3. ASSUME NEW p \in Requests \ {r} PROVE SaleState(p)'
    BY <1>1, ArriveOthers, OtherSales DEF IInv
  <2>4. QED BY <2>1, <2>2, <2>3 DEF IInv, SaleInv
<1>2. ASSUME NEW r \in Requests, Proceed(r) \/ Fail(r) PROVE IInv'
  <2>1. TypeOK' BY <1>2, ProceedType, FailType DEF IInv
  <2>2. SaleState(r)' BY <1>2, ServeSale
  <2>3. ASSUME NEW p \in Requests \ {r} PROVE SaleState(p)'
    BY <1>2, ServeOthers, OtherSales DEF IInv
  <2>4. QED BY <2>1, <2>2, <2>3 DEF IInv, SaleInv
<1>3. CASE Expire
  BY <1>3, StillInv DEF Expire, store, locals, CacheType
<1>4. CASE UNCHANGED vars
  BY <1>4, StillInv DEF vars, CacheType, IInv, TypeOK
<1>5. QED
  BY <1>1, <1>2, <1>3, <1>4 DEF Next, Idle

THEOREM InductiveInvariant == Spec => []IInv
BY InitInv, StepInv, PTL DEF Spec

\* Every reachable state is well typed; in particular no holding is negative,
\* however many sales of the same asset interleave.
THEOREM TypeCorrect == Spec => []TypeOK
<1>1. IInv => TypeOK
  BY DEF IInv
<1>2. QED
  BY <1>1, InductiveInvariant, PTL

\* A sale answered 200 is in the ledger, a refused one took nothing, and every
\* row of the ledger is the sale of one request that took its quantity.
THEOREM LedgerCorrect == Spec => []LedgerMatchesSales
<1>1. IInv => LedgerMatchesSales
  <2> SUFFICES ASSUME IInv PROVE LedgerMatchesSales
    OBVIOUS
  <2>1. \A t \in ledger : t.req \in Requests
    BY DEF IInv, TypeOK, Sale
  <2>2. QED
    BY <2>1 DEF LedgerMatchesSales, IInv, SaleInv, SaleState
<1>2. QED
  BY <1>1, InductiveInvariant, PTL

-----------------------------------------------------------------------------
(* Holdings implements HoldingsBook *)

\* The tickets stay when nobody takes up or leaves a sale in progress.
LEMMA SameTickets ==
  ASSUME NEW r \in Requests,
         \A p \in Requests \ {r} : Same(p),
         r \in Ticketed <=> (r \in Ticketed)',
         r \in Ticketed => job'[r] = job[r]
  PROVE  Tickets' = Tickets
<1>1. \A p \in Requests : p \in Ticketed <=> (p \in Ticketed)'
  BY DEF Ticketed, Same
<1>2. \A p \in Ticketed : SaleOf(p)' = SaleOf(p)
  BY DEF Ticketed, SaleOf, Same
<1>3. QED
  BY <1>1, <1>2 DEF Tickets, Ticketed

LEMMA HeldTypeNext ==
  ASSUME StoreType', NEW i \in Assets
  PROVE  Held(i)' \in Nat /\ Abstract!Rounded(Held(i)') = Held(i)'
BY HoldingsAssumption DEF Held, Abstract!Rounded, StoreType, Alive, Doc

\* A write to one document, outside a sale, sets the balance of one account.
LEMMA OneWrite ==
  ASSUME StoreType', NEW i \in Assets, \A j \in Assets \ {i} : docs'[j] = docs[j],
         Tickets' = Tickets, ledger' = ledger
  PROVE  Abstract!SetBalance(i)
<1>1. \A j \in Assets \ {i} : Held(j)' = Held(j)
  BY DEF Held, Alive
<1>2. \A j \in Assets : Held(j)' \in Nat
  BY HeldTypeNext
<1>3. Abstract!Rounded(Held(i)') = Held(i)'
  BY HeldTypeNext
<1>4. QED
  BY <1>1, <1>2, <1>3 DEF Abstract!SetBalance, Abstract!Rounded

\* A sale is on no ticket and in no ledger row before it is taken.
LEMMA FreshTicket ==
  ASSUME IInv, NEW r \in Requests, pc[r] = "new"
  PROVE  \A u \in Tickets \cup ledger : u.req # r
<1>1. \A u \in ledger : u.req # r
  BY DEF IInv, SaleInv, SaleState, Unbooked
<1>2. r \notin Ticketed /\ \A p \in Ticketed : SaleOf(p).req = p
  BY DEF Ticketed, SaleOf
<1>3. QED
  BY <1>1, <1>2 DEF Tickets

LEMMA TakeStep ==
  ASSUME IInv, IInv', NEW r \in Requests, \A p \in Requests \ {r} : Same(p),
         NEW i \in Assets, NEW q \in Amounts, SellTake(r, i, q), Covers(i, q),
         docs' = [docs EXCEPT ![i].qty = @ - q],
         (r \in Ticketed)', ledger' = ledger
  PROVE  \E t \in Tickets' \ Tickets : Abstract!Take(t)
<1> DEFINE t == [req |-> r, asset |-> i, qty |-> q]
<1>0. TypeOK /\ TypeOK' /\ StoreType /\ StoreType' /\ JobType
  BY TypeParts, TypePartsNext DEF IInv
<1>1. pc[r] = "new" /\ job'[r] = [op |-> "sell", asset |-> i, qty |-> q]
  BY <1>0 DEF SellTake, Admit, JobType
<1>2. SaleOf(r)' = t
  BY <1>1 DEF SaleOf
<1>3. q \in Nat /\ q > Dust /\ Dust \in Nat
  BY HoldingsAssumption
<1>4. Alive(i) /\ docs[i].qty >= q /\ docs[i] \in Doc /\ docs[i].qty \in Nat
  BY <1>0 DEF Covers, StoreType, Alive, Doc
<1>5. Held(i) = docs[i].qty
  BY <1>3, <1>4 DEF Held
<1>6. docs'[i].qty = docs[i].qty - q /\ docs'[i] # NoDoc
  <2>1. docs'[i] = [docs[i] EXCEPT !.qty = @ - q]
    BY <1>0 DEF StoreType
  <2>2. docs'[i] \in Doc
    BY <2>1, <1>3, <1>4 DEF Doc
  <2>3. QED BY <2>1, <2>2, <1>4, HoldingsAssumption DEF Doc
<1>7. Held(i)' = Abstract!Rounded(Held(i) - q)
  BY <1>3, <1>4, <1>5, <1>6 DEF Held, Alive, Abstract!Rounded
<1>8. \A j \in Assets \ {i} : Held(j)' = Held(j)
  BY <1>0 DEF Held, Alive, StoreType
<1>9. [j \in Assets |-> Held(j)'] =
        [[j \in Assets |-> Held(j)] EXCEPT ![i] = Abstract!Rounded(@ - q)]
  BY <1>7, <1>8
<1>10. \A u \in Tickets \cup ledger : u.req # r
  BY <1>1, FreshTicket
<1>11. Tickets' = Tickets \cup {t}
  <2>1. \A p \in Requests \ {r} : p \in Ticketed <=> (p \in Ticketed)'
    BY DEF Ticketed, Same
  <2>2. \A p \in Requests \ {r} : SaleOf(p)' = SaleOf(p)
    BY DEF SaleOf, Same
  <2>3. r \notin Ticketed
    BY <1>1 DEF Ticketed
  <2>4. QED BY <1>2, <2>1, <2>2, <2>3, (r \in Ticketed)' DEF Tickets, Ticketed
<1>12. t \in Abstract!BookSale
  BY <1>3 DEF Abstract!BookSale
<1>13. Abstract!Take(t)
  BY <1>3, <1>4, <1>5, <1>9, <1>10, <1>11, <1>12 DEF Abstract!Take
<1>14. QED
  BY <1>10, <1>11, <1>13

\* A ticket leaves with its request's step, to the ledger or for good.
LEMMA LeaveStep ==
  ASSUME NEW r \in Requests, \A p \in Requests \ {r} : Same(p),
         r \in Ticketed, ~(r \in Ticketed)'
  PROVE  SaleOf(r) \in Tickets /\ Tickets' = Tickets \ {SaleOf(r)}
<1>1. \A p \in Requests \ {r} : p \in Ticketed <=> (p \in Ticketed)'
  BY DEF Ticketed, Same
<1>2. \A p \in Requests \ {r} : SaleOf(p)' = SaleOf(p)
  BY DEF SaleOf, Same
<1>3. \A p \in Requests \ {r} : SaleOf(p) # SaleOf(r)
  <2>1. \A p \in Requests : SaleOf(p).req = p
    BY DEF SaleOf
  <2>2. QED BY <2>1
<1>4. QED
  BY <1>1, <1>2, <1>3 DEF Tickets, Ticketed

\* What an arriving request does to the book.
LEMMA ArriveBook ==
  ASSUME IInv, IInv', NEW r \in Requests, Arrive(r)
  PROVE  [Abstract!BookNext]_(Abstract!book)
<1>0. TypeOK /\ TypeOK' /\ StoreType /\ StoreType' /\ ControlType
  BY TypeParts, TypePartsNext DEF IInv
<1>2. \A p \in Requests \ {r} : Same(p)
  BY <1>0, ArriveOthers
<1>3. ledger' = ledger
  <2>1. UNCHANGED ledger
    BY DEF Arrive, ListHit, ListMiss, CreateInsert, SellRejected, SellTake,
           UpdateApply, DeleteApply, BulkStart
  <2>2. QED BY <2>1
<1>4. r \notin Ticketed
  BY DEF Arrive, ListHit, ListMiss, CreateInsert, SellRejected, SellTake,
     UpdateApply, DeleteApply, BulkStart, Admit, Ticketed
<1>5. ASSUME ~(r \in Ticketed)', NEW i \in Assets, \A j \in Assets \ {i} : docs'[j] = docs[j]
      PROVE  Abstract!BookNext
  <2>1. Tickets' = Tickets BY <1>2, <1>4, <1>5, SameTickets
  <2>2. Abstract!SetBalance(i) BY <1>0, <1>3, <1>5, <2>1, OneWrite
  <2>3. QED BY <2>2 DEF Abstract!BookNext
<1>6. ASSUME ~(r \in Ticketed)', docs' = docs PROVE UNCHANGED Abstract!book
  <2>1. Tickets' = Tickets BY <1>2, <1>4, <1>6, SameTickets
  <2>2. [i \in Assets |-> Held(i)]' = [i \in Assets |-> Held(i)]
    BY <1>6 DEF Held, Alive
  <2>3. QED BY <1>3, <2>1, <2>2 DEF Abstract!book
<1>7. ASSUME NEW l, Goto(r, l) PROVE pc'[r] = l
  BY <1>0, <1>7 DEF Goto, ControlType
<1>8. ASSUME NEW code, Reply(r, code) PROVE pc'[r] = "done"
  BY <1>0, <1>8 DEF Reply, ControlType
<1>9. CASE ListHit(r)
  BY <1>6, <1>8, <1>9 DEF ListHit, Ticketed, store
<1>10. ASSUME NEW filter \in BOOLEAN, ListMiss(r, filter)
       PROVE  [Abstract!BookNext]_(Abstract!book)
  BY <1>6, <1>7, <1>10 DEF ListMiss, Ticketed, store
<1>11. ASSUME NEW s \in Symbols, NEW q \in Amounts, CreateInsert(r, s, q)
       PROVE  [Abstract!BookNext]_(Abstract!book)
  <2>1. ~(r \in Ticketed)' BY <1>7, <1>11 DEF CreateInsert, Ticketed
  <2>2. born + 1 \in Assets
    BY <1>0, <1>11, HoldingsAssumption DEF CreateInsert, Insert, StoreType, Assets
  <2>3. \A j \in Assets \ {born + 1} : docs'[j] = docs[j]
    BY <1>0, <1>11 DEF CreateInsert, Insert, StoreType
  <2>4. QED BY <1>5, <2>1, <2>2, <2>3
<1>12. ASSUME NEW q \in {0}, SellRejected(r, q)
       PROVE  [Abstract!BookNext]_(Abstract!book)
  BY <1>6, <1>8, <1>12 DEF SellRejected, Ticketed, store
<1>13. ASSUME NEW i \in Assets, NEW q \in Amounts, SellTake(r, i, q)
       PROVE  [Abstract!BookNext]_(Abstract!book)
  <2>1. CASE (r \in Ticketed)'
    <3>1. Covers(i, q) /\ docs' = [docs EXCEPT ![i].qty = @ - q]
      BY <1>7, <1>8, <1>13, <2>1 DEF SellTake, Ticketed
    <3>2. \E t \in Tickets' \ Tickets : Abstract!Take(t)
      BY <1>2, <1>3, <1>13, <2>1, <3>1, TakeStep
    <3>3. QED BY <3>2 DEF Abstract!BookNext
  <2>2. CASE ~(r \in Ticketed)'
    <3>1. docs' = docs
      <4>1. r \in Requests OBVIOUS
      <4>2. ~Goto(r, "sell.empty") /\ ~Goto(r, "sell.record")
        BY <1>7, <2>2 DEF Ticketed
      <4>3. QED BY <1>13, <4>2 DEF SellTake, store
    <3>2. QED BY <1>6, <2>2, <3>1
  <2>3. QED BY <2>1, <2>2
<1>14. ASSUME NEW i \in Assets, NEW q \in Amounts, UpdateApply(r, i, q)
       PROVE  [Abstract!BookNext]_(Abstract!book)
  <2>1. ~(r \in Ticketed)' BY <1>7, <1>8, <1>14 DEF UpdateApply, Ticketed
  <2>2. \A j \in Assets \ {i} : docs'[j] = docs[j]
    BY <1>0, <1>14 DEF UpdateApply, StoreType, store
  <2>3. QED BY <1>5, <2>1, <2>2
<1>15. ASSUME NEW i \in Assets, DeleteApply(r, i)
       PROVE  [Abstract!BookNext]_(Abstract!book)
  <2>1. ~(r \in Ticketed)' BY <1>7, <1>8, <1>15 DEF DeleteApply, Ticketed
  <2>2. \A j \in Assets \ {i} : docs'[j] = docs[j]
    BY <1>0, <1>15 DEF DeleteApply, StoreType, store
  <2>3. QED BY <1>5, <2>1, <2>2
<1>16. ASSUME NEW rows \in Rows, BulkStart(r, rows)
       PROVE  [Abstract!BookNext]_(Abstract!book)
  BY <1>6, <1>7, <1>16 DEF BulkStart, Ticketed, store
<1>17. QED
  BY <1>9, <1>10, <1>11, <1>12, <1>13, <1>14, <1>15, <1>16 DEF Arrive

\* What a request that is served, or fails, does to the book.
LEMMA ServeBook ==
  ASSUME IInv, IInv', NEW r \in Requests, Proceed(r) \/ Fail(r)
  PROVE  [Abstract!BookNext]_(Abstract!book)
<1>0. TypeOK /\ TypeOK' /\ StoreType /\ StoreType' /\ ControlType /\ SaleState(r)
  BY TypeParts, TypePartsNext DEF IInv, SaleInv
<1>1. \A p \in Requests \ {r} : Same(p)
  BY <1>0, ServeOthers
<1>2. job' = job
  BY DEF Proceed, Fail, ListQuery, ListWriteBack, ListFill, SellProbe, SellDropEmpty,
     SellRecord, BulkRead, BulkUpdate, BulkUpsertMiss, BulkInsert, BulkFinish,
     Invalidate, BulkReject, BulkAbort, MongoError, Crash, locals
<1>3. ASSUME NEW l, Goto(r, l) PROVE pc'[r] = l
  BY <1>0, <1>3 DEF Goto, ControlType
<1>4. ASSUME NEW code, Reply(r, code) PROVE pc'[r] = "done"
  BY <1>0, <1>4 DEF Reply, ControlType
\* The three ways a step shows at the level of the book.
<1>5. ASSUME r \in Ticketed <=> (r \in Ticketed)', ledger' = ledger,
             \A i \in Assets : Held(i)' = Held(i)
      PROVE  UNCHANGED Abstract!book
  <2>1. Tickets' = Tickets BY <1>1, <1>2, <1>5, SameTickets
  <2>2. QED BY <1>5, <2>1 DEF Abstract!book
<1>6. ASSUME r \in Ticketed <=> (r \in Ticketed)', ledger' = ledger,
             NEW i \in Assets, \A j \in Assets \ {i} : docs'[j] = docs[j]
      PROVE  Abstract!BookNext
  <2>1. Tickets' = Tickets BY <1>1, <1>2, <1>6, SameTickets
  <2>2. Abstract!SetBalance(i) BY <1>0, <1>6, <2>1, OneWrite
  <2>3. QED BY <2>2 DEF Abstract!BookNext
<1>7. ASSUME r \in Ticketed, ~(r \in Ticketed)', docs' = docs,
             ledger' = ledger \/ ledger' = ledger \cup {SaleOf(r)}
      PROVE  Abstract!BookNext
  <2>1. SaleOf(r) \in Tickets /\ Tickets' = Tickets \ {SaleOf(r)}
    BY <1>1, <1>7, LeaveStep
  <2>2. \A i \in Assets : Held(i)' = Held(i)
    BY <1>7 DEF Held, Alive
  <2>3. CASE ledger' = ledger
    <3>1. Abstract!Lose(SaleOf(r)) BY <2>1, <2>2, <2>3 DEF Abstract!Lose
    <3>2. QED BY <2>1, <3>1 DEF Abstract!BookNext
  <2>4. CASE ledger' = ledger \cup {SaleOf(r)}
    <3>1. Abstract!Book(SaleOf(r)) BY <2>1, <2>2, <2>4 DEF Abstract!Book
    <3>2. QED BY <2>1, <3>1 DEF Abstract!BookNext
  <2>5. QED BY <1>7, <2>3, <2>4
<1>8. docs' = docs => \A i \in Assets : Held(i)' = Held(i)
  BY DEF Held, Alive
<1> DEFINE Goal == [Abstract!BookNext]_(Abstract!book)
<1>9. ListQuery(r) => Goal
  BY <1>3, <1>5, <1>8 DEF ListQuery, Ticketed, store
<1>10. ListWriteBack(r) => Goal
  <2>1. SUFFICES ASSUME ListWriteBack(r) PROVE Goal OBVIOUS
  <2>2. \A i \in Assets : Held(i)' = Held(i)
    <3>1. CASE docs' = docs BY <3>1, <1>8
    <3>2. CASE docs' = Repriced(seen[r].items)
      <4>1. ASSUME NEW i \in Assets PROVE Held(i)' = Held(i)
        <5>1. CASE docs'[i] = docs[i] BY <5>1 DEF Held, Alive
        <5>2. CASE Alive(i) /\ docs'[i] = [docs[i] EXCEPT !.price = "live"]
          <6>1. docs[i] \in Doc /\ docs'[i] \in Doc /\ docs'[i].qty = docs[i].qty
            BY <1>0, <5>2 DEF StoreType, Alive, Doc
          <6>2. docs'[i] # NoDoc BY <6>1, HoldingsAssumption DEF Doc
          <6>3. QED BY <5>2, <6>1, <6>2 DEF Held, Alive
        <5>3. QED BY <3>2, <5>1, <5>2 DEF Repriced
      <4>2. QED BY <4>1
    <3>3. QED BY <2>1, <3>1, <3>2 DEF ListWriteBack
  <2>3. QED BY <1>3, <1>5, <2>1, <2>2 DEF ListWriteBack, Ticketed
<1>11. ListFill(r) => Goal
  BY <1>4, <1>5, <1>8 DEF ListFill, Ticketed, store
<1>12. SellProbe(r) => Goal
  BY <1>4, <1>5, <1>8 DEF SellProbe, Ticketed, store
<1>13. SellDropEmpty(r) => Goal
  <2>1. SUFFICES ASSUME SellDropEmpty(r) PROVE Goal OBVIOUS
  <2>2. r \in Ticketed /\ (r \in Ticketed)' /\ ledger' = ledger
    BY <1>3, <2>1 DEF SellDropEmpty, Ticketed
  <2>3. job[r].asset \in Assets
    BY <1>0, <2>1 DEF SaleState, Selling, SellDropEmpty
  <2>4. \A j \in Assets \ {job[r].asset} : docs'[j] = docs[j]
    BY <1>0, <2>1 DEF SellDropEmpty, StoreType, store
  <2>5. QED BY <1>6, <2>2, <2>3, <2>4
<1>14. SellRecord(r) => Goal
  BY <1>3, <1>7 DEF SellRecord, Ticketed, store
<1>15. ASSUME NEW s \in Symbols PROVE BulkRead(r, s) => Goal
  BY <1>3, <1>5, <1>8 DEF BulkRead, Ticketed, store
<1>16. ASSUME NEW s \in Symbols, BulkUpdate(r, s) PROVE Goal
  <2>1. PICK i \in Oldest(s) : docs' = [docs EXCEPT ![i].qty = plan[r][s].total]
    BY <1>16 DEF BulkUpdate
  <2>2. i \in Assets BY <2>1 DEF Oldest, Of
  <2>3. \A j \in Assets \ {i} : docs'[j] = docs[j]
    BY <1>0, <2>1 DEF StoreType
  <2>4. QED BY <1>6, <1>16, <2>2, <2>3 DEF BulkUpdate, Ticketed
<1>17. ASSUME NEW s \in Symbols PROVE BulkUpsertMiss(r, s) => Goal
  BY <1>5, <1>8 DEF BulkUpsertMiss, Ticketed, store
<1>18. ASSUME NEW s \in Symbols, BulkInsert(r, s) PROVE Goal
  <2>1. born + 1 \in Assets
    BY <1>0, <1>18, HoldingsAssumption DEF BulkInsert, Insert, StoreType, Assets
  <2>2. \A j \in Assets \ {born + 1} : docs'[j] = docs[j]
    BY <1>0, <1>18 DEF BulkInsert, Insert, StoreType
  <2>3. QED BY <1>6, <1>18, <2>1, <2>2 DEF BulkInsert, Ticketed
<1>19. BulkFinish(r) => Goal
  BY <1>3, <1>5, <1>8 DEF BulkFinish, Ticketed, store
<1>20. Invalidate(r) => Goal
  BY <1>4, <1>5, <1>8 DEF Invalidate, Ticketed, store
<1>21. ASSUME NEW s \in Symbols PROVE BulkReject(r, s) => Goal
  BY <1>5, <1>8 DEF BulkReject, Ticketed, store
<1>22. BulkAbort(r) => Goal
  BY <1>3, <1>5, <1>8 DEF BulkAbort, Ticketed, store
<1>23. MongoError(r) => Goal
  BY <1>4, <1>5, <1>7, <1>8 DEF MongoError, Ticketed, store
<1>24. Crash(r) => Goal
  BY <1>3, <1>5, <1>7, <1>8 DEF Crash, Ticketed, store
<1>25. QED
  BY <1>9, <1>10, <1>11, <1>12, <1>13, <1>14, <1>15, <1>16, <1>17, <1>18, <1>19,
     <1>20, <1>21, <1>22, <1>23, <1>24 DEF Proceed, Fail

\* The book sees deposits, edits, removals, sales taken, booked and lost: the
\* clean-up of empty rows, the listings and the cache never show.
THEOREM Implementation == Spec => ImplementsBook
<1>1. Init => Abstract!BookInit
  BY DEF Init, Abstract!BookInit, Held, Alive, Tickets, Ticketed
<1>2. IInv /\ IInv' /\ [Next]_vars => [Abstract!BookNext]_(Abstract!book)
  <2> SUFFICES ASSUME IInv, IInv', [Next]_vars
               PROVE  [Abstract!BookNext]_(Abstract!book)
    OBVIOUS
  <2>1. ASSUME UNCHANGED <<docs, pc, job, ledger>> PROVE UNCHANGED Abstract!book
    <3>1. [i \in Assets |-> Held(i)]' = [i \in Assets |-> Held(i)]
      BY <2>1 DEF Held, Alive
    <3>2. Tickets' = Tickets
      BY <2>1 DEF Tickets, Ticketed, SaleOf
    <3>3. QED BY <2>1, <3>1, <3>2 DEF Abstract!book
  <2>2. CASE Expire
    BY <2>1, <2>2 DEF Expire, store, locals
  <2>3. CASE UNCHANGED vars
    BY <2>1, <2>3 DEF vars
  <2>4. QED
    BY <2>2, <2>3, ArriveBook, ServeBook DEF Next, Idle
<1>3. QED
  BY <1>1, <1>2, InductiveInvariant, PTL DEF Spec, ImplementsBook, Abstract!BookSpec

-----------------------------------------------------------------------------
(* What the stock adds to the invariant *)

Waiting  == {"ask", "planned", "insert"}   \* rows of an import not yet decided
Importing == {"bulk.read", "bulk.write"}

\* No document has an id that was not handed out.
FreeIds == \A i \in Assets : i > born => ~Alive(i)

\* What an import holds: rows worth having, of which none is unread when it
\* writes; and what it reports once it has written.
ImportState(r) ==
  /\ pc[r] \in Importing => job[r].op = "bulk" /\ "bulk" \in Handlers
  /\ job[r].op = "bulk" => pc[r] \in Importing \cup {"invalidate", "done", "crashed"}
  /\ pc[r] = "bulk.write" => RowsIn(r, {"ask"}) = {}
  /\ \A s \in Symbols : plan[r][s].st \in Waiting => plan[r][s].add > Dust
  /\ \A s \in Symbols : plan[r][s].st \in {"planned", "insert"} => plan[r][s].total > Dust

Counted(r) ==
  /\ tally[r].ok + tally[r].bad = Cardinality(RowsIn(r, RowState \ {"none"}))
  /\ tally[r].ok <= Cardinality(RowsIn(r, {"applied"}))
CountState(r) ==
  job[r].op = "bulk" /\ (pc[r] = "invalidate" \/ answer[r] = "200") => Counted(r)

\* While nobody else has written since a listing read, or an import began, what
\* it read is what is stored.
Undisturbed(r) == ver = seen[r].at + Cardinality(RowsIn(r, {"applied"}))
RowIsFresh(r, s) ==
  /\ plan[r][s].st = "planned" => \E held \in HeldOf(s) : plan[r][s].total = BulkTotal(held, plan[r][s].add)
  /\ plan[r][s].st = "insert"  => Of(s) = {} /\ plan[r][s].total = plan[r][s].add
QuietState(r) ==
  /\ eff[r] <= ver
  /\ pc[r] \in Importing =>
       /\ seen[r].at + Cardinality(RowsIn(r, {"applied"})) <= ver
       /\ Undisturbed(r) => \A s \in Symbols : RowIsFresh(r, s)
  /\ pc[r] \in {"list.write", "list.fill"} =>
       /\ seen[r].at <= ver
       /\ seen[r].at = ver => seen[r].items = Items(seen[r].filter)

-----------------------------------------------------------------------------
(* Sums over the documents of a symbol *)

\* SumOf is the sum of the quantities of a symbol's documents, before a step and after.
LEMMA SumOfIs == ASSUME NEW s PROVE SumOf(s) = QtySum(docs, Of(s))
BY DEF SumOf, QtySum

\* The same after the step.
LEMMA SumOfIsNext == ASSUME NEW s PROVE SumOf(s)' = QtySum(docs', Of(s)')
BY DEF SumOf, QtySum, MapThenSumSet, MapThenFoldSet

\* A symbol has finitely many documents.
LEMMA OfIsFinite == ASSUME NEW s PROVE IsFiniteSet(Of(s))
<1>1. IsFiniteSet(Assets)
  BY HoldingsAssumption, FS_Interval DEF Assets
<1>2. QED BY <1>1, FS_Subset DEF Of

\* The same after the step.
LEMMA OfIsFiniteNext == ASSUME NEW s PROVE IsFiniteSet(Of(s)')
<1>1. IsFiniteSet(Assets)
  BY HoldingsAssumption, FS_Interval DEF Assets
<1>2. QED BY <1>1, FS_Subset DEF Of

\* A write to one document: a new quantity, a removal, or a new document.
Sets(i, q) == Alive(i) /\ docs' = [docs EXCEPT ![i].qty = q] /\ born' = born
Drops(i)   == Alive(i) /\ docs' = [docs EXCEPT ![i] = NoDoc] /\ born' = born

\* A new quantity leaves everything else of every document.
LEMMA SetDoc ==
  ASSUME StoreType, NEW i \in Assets, NEW q \in Nat, Sets(i, q)
  PROVE  /\ \A j \in Assets : Alive(j)' <=> Alive(j)
         /\ \A j \in Assets : Alive(j) => docs'[j].sym = docs[j].sym
         /\ \A j \in Assets \ {i} : docs'[j] = docs[j]
         /\ docs'[i].qty = q
         /\ \A x : Of(x)' = Of(x)
<1>1. docs[i] \in Doc /\ docs'[i] = [docs[i] EXCEPT !.qty = q]
  BY DEF Sets, StoreType, Alive
<1>2. docs'[i] \in Doc /\ docs'[i].sym = docs[i].sym /\ docs'[i].qty = q
  BY <1>1 DEF Doc
<1>3. docs'[i] # NoDoc
  BY <1>2, HoldingsAssumption DEF Doc
<1>4. \A j \in Assets \ {i} : docs'[j] = docs[j]
  BY DEF Sets, StoreType
<1>5. QED BY <1>1, <1>2, <1>3, <1>4 DEF Alive, Sets, Of

\* It moves the sum of the document's symbol by the difference, no other sum.
LEMMA SetSum ==
  ASSUME StoreType, NEW i \in Assets, NEW q \in Nat, Sets(i, q), NEW x
  PROVE  SumOf(x)' = SumOf(x) + (IF x = docs[i].sym THEN q - docs[i].qty ELSE 0)
<1> DEFINE I == Of(x)
           R == I \ {i}
<1>1. \A j \in I : docs[j].qty \in Int /\ docs'[j].qty \in Int
  BY SetDoc, QtyType DEF Of
<1>2. IsFiniteSet(I) /\ IsFiniteSet(R)
  BY OfIsFinite, FS_Subset
<1>3. Of(x)' = I
  BY SetDoc
<1>4. \A j \in R : docs[j].qty = docs'[j].qty
  BY SetDoc DEF Of
<1>5. SumOf(x) = QtySum(docs, I) /\ SumOf(x)' = QtySum(docs', I)
  BY <1>3, SumOfIs, SumOfIsNext
<1>6. i \in I <=> x = docs[i].sym
  BY DEF Of, Sets
<1>7. docs'[i].qty = q /\ docs[i].qty \in Int
  <2>1. docs[i].qty \in Nat BY QtyType DEF Sets
  <2>2. QED BY <2>1, SetDoc
<1> HIDE DEF I
<1>8. CASE i \in I
  <2> HIDE DEF R
  <2>1. QtySum(docs, R) = QtySum(docs', R)
    BY <1>2, <1>4, QtySame
  <2>2. QtySum(docs, R) \in Int
    BY <1>1, <1>2, QtyInt DEF R
  <2>3. /\ QtySum(docs, I) = docs[i].qty + QtySum(docs, R)
        /\ QtySum(docs', I) = docs'[i].qty + QtySum(docs', R)
    BY <1>1, <1>2, <1>8, QtySplit DEF R
  <2>4. QED BY <1>5, <1>6, <1>7, <1>8, <2>1, <2>2, <2>3
<1>9. CASE i \notin I
  <2>1. QtySum(docs, I) = QtySum(docs', I)
    BY <1>2, <1>4, <1>9, QtySame
  <2>2. QtySum(docs, I) \in Int
    BY <1>1, <1>2, QtyInt
  <2>3. QED BY <1>5, <1>6, <1>9, <2>1, <2>2
<1>10. QED BY <1>8, <1>9

\* A removal leaves every other document.
LEMMA DropDoc ==
  ASSUME StoreType, NEW i \in Assets, Drops(i)
  PROVE  /\ docs'[i] = NoDoc
         /\ \A j \in Assets \ {i} : docs'[j] = docs[j]
         /\ \A x : Of(x)' = Of(x) \ {i}
BY DEF Drops, StoreType, Of, Alive

\* It takes the document's quantity from the sum of its symbol.
LEMMA DropSum ==
  ASSUME StoreType, NEW i \in Assets, Drops(i), NEW x
  PROVE  SumOf(x)' = SumOf(x) + (IF x = docs[i].sym THEN -docs[i].qty ELSE 0)
<1> DEFINE I == Of(x)
           R == I \ {i}
<1>1. \A j \in I : docs[j].qty \in Int
  BY QtyType DEF Of
<1>2. IsFiniteSet(I) /\ IsFiniteSet(R)
  BY OfIsFinite, FS_Subset
<1>3. SumOf(x) = QtySum(docs, I) /\ SumOf(x)' = QtySum(docs', R)
  BY DropDoc, SumOfIs, SumOfIsNext
<1>4. \A j \in R : docs[j].qty = docs'[j].qty
  BY DropDoc DEF Of
<1>5. i \in I <=> x = docs[i].sym
  BY DEF Of, Drops
<1>6. docs[i].qty \in Int
  BY QtyType DEF Drops
<1> HIDE DEF I
<1>7. QtySum(docs, R) = QtySum(docs', R)
  <2> HIDE DEF R
  <2>1. QED BY <1>2, <1>4, QtySame
<1>8. QtySum(docs, R) \in Int
  <2>1. \A j \in R : docs[j].qty \in Int BY <1>1
  <2> HIDE DEF R
  <2>2. QED BY <1>2, <2>1, QtyInt
<1>9. CASE i \in I
  <2>1. QtySum(docs, I) = docs[i].qty + QtySum(docs, R)
    BY <1>1, <1>2, <1>9, QtySplit
  <2> HIDE DEF R
  <2>2. QED BY <1>3, <1>5, <1>6, <1>7, <1>8, <1>9, <2>1
<1>10. CASE i \notin I
  <2>1. R = I BY <1>10
  <2> HIDE DEF R
  <2>2. QED BY <1>3, <1>5, <1>7, <1>8, <1>10, <2>1
<1>11. QED BY <1>9, <1>10

\* A new document gets an id no document has, and leaves every other one.
LEMMA InsertDoc ==
  ASSUME StoreType, FreeIds, NEW s \in Symbols, NEW q \in Nat, Insert(s, q)
  PROVE  /\ born + 1 \in Assets /\ docs[born + 1] = NoDoc
         /\ docs'[born + 1] = [sym |-> s, qty |-> q, price |-> "cost"]
         /\ docs'[born + 1] # NoDoc
         /\ \A j \in Assets \ {born + 1} : docs'[j] = docs[j]
         /\ \A x : Of(x)' = IF x = s THEN Of(x) \cup {born + 1} ELSE Of(x)
<1>1. born + 1 \in Assets
  BY HoldingsAssumption DEF Insert, StoreType, Assets
<1>2. docs[born + 1] = NoDoc
  BY <1>1 DEF FreeIds, Alive, StoreType
<1>3. docs'[born + 1] = [sym |-> s, qty |-> q, price |-> "cost"]
  BY <1>1 DEF Insert, StoreType
<1>4. [sym |-> s, qty |-> q, price |-> "cost"] # NoDoc
  BY HoldingsAssumption
<1>5. \A j \in Assets \ {born + 1} : docs'[j] = docs[j]
  BY DEF Insert, StoreType
<1>6. ASSUME NEW x PROVE Of(x)' = IF x = s THEN Of(x) \cup {born + 1} ELSE Of(x)
  BY <1>1, <1>2, <1>3, <1>4, <1>5 DEF Of, Alive
<1>7. QED BY <1>1, <1>2, <1>3, <1>4, <1>5, <1>6

\* It adds its quantity to the sum of its symbol.
LEMMA InsertSum ==
  ASSUME StoreType, FreeIds, NEW s \in Symbols, NEW q \in Nat, Insert(s, q), NEW x
  PROVE  SumOf(x)' = SumOf(x) + (IF x = s THEN q ELSE 0)
<1> DEFINE R == Of(x)
           n == born + 1
<1>1. /\ n \in Assets /\ docs[n] = NoDoc /\ docs'[n].qty = q
      /\ \A j \in Assets \ {n} : docs'[j] = docs[j]
      /\ Of(x)' = IF x = s THEN R \cup {n} ELSE R
  <2>1. docs'[n] = [sym |-> s, qty |-> q, price |-> "cost"]
    BY InsertDoc
  <2>2. QED BY <2>1, InsertDoc
<1>2. n \notin R
  BY <1>1 DEF Of, Alive
<1>3. \A j \in R : docs[j].qty \in Int /\ docs[j].qty = docs'[j].qty
  BY <1>1, <1>2, QtyType DEF Of
<1>4. IsFiniteSet(R)
  BY OfIsFinite
<1>5. SumOf(x) = QtySum(docs, R) /\ SumOf(x)' = QtySum(docs', IF x = s THEN R \cup {n} ELSE R)
  BY <1>1, SumOfIs, SumOfIsNext
<1> HIDE DEF R, n
<1>6. QtySum(docs, R) = QtySum(docs', R) /\ QtySum(docs, R) \in Int
  BY <1>3, <1>4, QtySame, QtyInt
<1>7. QtySum(docs', R \cup {n}) = q + QtySum(docs', R)
  <2> DEFINE I == R \cup {n}
  <2>1. IsFiniteSet(I) /\ n \in I /\ \A j \in I : docs'[j].qty \in Int
    BY <1>1, <1>3, <1>4, FS_AddElement
  <2>2. I \ {n} = R
    BY <1>2
  <2> HIDE DEF I
  <2>3. QtySum(docs', I) = docs'[n].qty + QtySum(docs', I \ {n})
    BY <2>1, QtySplit
  <2>4. QED BY <1>1, <2>2, <2>3 DEF I
<1>8. QED BY <1>5, <1>6, <1>7

\* No change of quantity, no change of a sum.
LEMMA SameSum ==
  ASSUME StoreType,
         \A j \in Assets : Alive(j)' <=> Alive(j),
         \A j \in Assets : Alive(j) => docs'[j].sym = docs[j].sym /\ docs'[j].qty = docs[j].qty,
         NEW x
  PROVE  SumOf(x)' = SumOf(x) /\ SumOf(x) \in Int
<1> DEFINE I == Of(x)
<1>1. \A j \in I : docs[j].qty \in Int /\ docs[j].qty = docs'[j].qty
  BY QtyType DEF Of
<1>2. IsFiniteSet(I)
  BY OfIsFinite
<1>3. SumOf(x) = QtySum(docs, I) /\ SumOf(x)' = QtySum(docs', I)
  <2>1. Of(x)' = I BY DEF Of
  <2>2. QED BY <2>1, SumOfIs, SumOfIsNext
<1> HIDE DEF I
<1>4. QED BY <1>1, <1>2, <1>3, QtySame, QtyInt

-----------------------------------------------------------------------------
(* What a step does to the stock *)

\* The step writes document i, and says what it is worth.
SetsIt(r, i, q) == Sets(i, q) /\ Effect(r, docs[i].sym, q - docs[i].qty)
DropsIt(r, i)   == Drops(i) /\ Effect(r, docs[i].sym, -docs[i].qty)
AddsIt(r, s, q) == Insert(s, q) /\ Effect(r, s, q)
Imports(r)      == \E s \in Symbols : BulkUpdate(r, s) \/ BulkInsert(r, s)

ArriveWrites(r) ==
  \/ UNCHANGED store
  \/ \E s \in Symbols, q \in Amounts : AddsIt(r, s, q)
  \/ \E i \in Assets, q \in Nat :
       /\ SetsIt(r, i, q)
       /\ \/ q > Dust \/ q = docs[i].qty
          \/ pc'[r] = "sell.empty" /\ job'[r].asset = i /\ job'[r].op = "sell"
  \/ \E i \in Assets : DropsIt(r, i) /\ job'[r].op = "delete" /\ pc[r] = "new" /\ pc'[r] # "new"

ServeWrites(r) ==
  \/ UNCHANGED store
  \/ docs' = Repriced(seen[r].items) /\ UNCHANGED <<born, ver, eff, owed>>
  \/ SellDropEmpty(r) /\ job[r].asset \in Assets /\ StillEmpty(job[r].asset)
     /\ DropsIt(r, job[r].asset)
  \/ Imports(r)

\* What the first step of a request does to the store is one of these writes,
\* with the effect it is accounted for.
LEMMA ArriveStock ==
  ASSUME IInv, NEW r \in Requests, Arrive(r)
  PROVE  ArriveWrites(r)
<1>0. TypeOK /\ StoreType /\ ControlType /\ JobType
  BY TypeParts DEF IInv
<1>1. ASSUME NEW h, NEW i, NEW q, Admit(r, h, i, q)
      PROVE  job'[r] = [op |-> h, asset |-> i, qty |-> q] /\ pc[r] = "new"
  BY <1>0, <1>1 DEF Admit, JobType
<1>2. ASSUME NEW l, Goto(r, l) PROVE pc'[r] = l
  BY <1>0, <1>2 DEF Goto, ControlType
<1>3. CASE \/ ListHit(r) \/ \E filter \in BOOLEAN : ListMiss(r, filter)
           \/ \E q \in {0} : SellRejected(r, q) \/ \E rows \in Rows : BulkStart(r, rows)
  BY <1>3 DEF ListHit, ListMiss, SellRejected, BulkStart, ArriveWrites
<1>4. ASSUME NEW s \in Symbols, NEW q \in Amounts, CreateInsert(r, s, q)
      PROVE  ArriveWrites(r)
  BY <1>4 DEF CreateInsert, ArriveWrites, AddsIt
<1>5. ASSUME NEW i \in Assets, NEW q \in Amounts, SellTake(r, i, q)
      PROVE  ArriveWrites(r)
  <2>1. CASE UNCHANGED store
    BY <2>1 DEF ArriveWrites
  <2>2. CASE /\ Covers(i, q)
             /\ docs' = [docs EXCEPT ![i].qty = @ - q]
             /\ Effect(r, docs[i].sym, -q)
             /\ Goto(r, IF docs[i].qty - q <= Dust THEN "sell.empty" ELSE "sell.record")
             /\ UNCHANGED born
    <3>1. q \in Nat /\ docs[i].qty \in Nat /\ docs[i].qty >= q /\ Alive(i) /\ Dust \in Nat
      BY <1>0, <2>2, QtyType, HoldingsAssumption DEF Covers
    <3> DEFINE n == docs[i].qty - q
    <3>2. n \in Nat /\ n - docs[i].qty = -q
      BY <3>1
    <3>3. docs' = [docs EXCEPT ![i].qty = n]
      BY <2>2
    <3>4. job'[r].asset = i /\ job'[r].op = "sell"
      <4>1. job'[r] = [op |-> "sell", asset |-> i, qty |-> q] BY <1>1, <1>5 DEF SellTake
      <4>2. QED BY <4>1
    <3>5. n > Dust \/ pc'[r] = "sell.empty"
      BY <1>2, <2>2, <3>1, <3>2
    <3> HIDE DEF n
    <3>6. SetsIt(r, i, n)
      BY <2>2, <3>1, <3>2, <3>3 DEF SetsIt, Sets
    <3>7. QED BY <3>2, <3>4, <3>5, <3>6 DEF ArriveWrites
  <2>3. QED BY <1>5, <2>1, <2>2 DEF SellTake
<1>6. ASSUME NEW i \in Assets, NEW q \in Amounts, UpdateApply(r, i, q)
      PROVE  ArriveWrites(r)
  <2>1. CASE UNCHANGED store
    BY <2>1 DEF ArriveWrites
  <2>2. CASE Alive(i)
    <3>1. q \in Nat /\ q > Dust /\ docs[i].qty \in Nat
      BY <1>0, <2>2, QtyType, HoldingsAssumption
    <3>2. PICK nq \in {q, docs[i].qty} :
            docs' = [docs EXCEPT ![i].qty = nq] /\ Effect(r, docs[i].sym, nq - docs[i].qty)
      BY <1>6, <2>2 DEF UpdateApply
    <3>3. born' = born
      BY <1>6, <2>2 DEF UpdateApply
    <3>4. SetsIt(r, i, nq)
      BY <2>2, <3>2, <3>3 DEF SetsIt, Sets
    <3>5. nq \in Nat /\ (nq > Dust \/ nq = docs[i].qty)
      BY <3>1, <3>2
    <3>6. QED BY <3>4, <3>5 DEF ArriveWrites
  <2>3. QED BY <1>6, <2>1, <2>2 DEF UpdateApply
<1>7. ASSUME NEW i \in Assets, DeleteApply(r, i)
      PROVE  ArriveWrites(r)
  <2>1. CASE UNCHANGED store
    BY <2>1 DEF ArriveWrites
  <2>2. CASE Alive(i)
    <3>1. DropsIt(r, i)
      BY <1>7, <2>2 DEF DeleteApply, DropsIt, Drops
    <3>2. job'[r].op = "delete" /\ pc[r] = "new"
      <4>1. job'[r] = [op |-> "delete", asset |-> i, qty |-> 0] /\ pc[r] = "new"
        BY <1>1, <1>7 DEF DeleteApply
      <4>2. QED BY <4>1
    <3>3. pc'[r] = "invalidate"
      BY <1>2, <1>7, <2>2 DEF DeleteApply
    <3>4. QED BY <3>1, <3>2, <3>3 DEF ArriveWrites
  <2>3. QED BY <1>7, <2>1, <2>2 DEF DeleteApply
<1>8. QED
  BY <1>3, <1>4, <1>5, <1>6, <1>7 DEF Arrive

\* So is what a later step does, unless it is the write of an import.
LEMMA ServeStock ==
  ASSUME IInv, NEW r \in Requests, Proceed(r) \/ Fail(r)
  PROVE  ServeWrites(r)
<1>1. CASE SellDropEmpty(r)
  <2> DEFINE i == job[r].asset
  <2>1. i \in Assets
    BY <1>1 DEF IInv, SaleInv, SaleState, Selling, SellDropEmpty
  <2>2. CASE StillEmpty(i)
    <3>1. Residue(i) = docs[i].qty
      BY <2>2 DEF StillEmpty, Residue
    <3>2. DropsIt(r, i)
      BY <1>1, <2>2, <3>1 DEF SellDropEmpty, DropsIt, Drops, StillEmpty
    <3>3. QED BY <1>1, <2>1, <2>2, <3>2 DEF ServeWrites
  <2>3. CASE ~StillEmpty(i)
    BY <1>1, <2>3 DEF SellDropEmpty, ServeWrites
  <2>4. QED BY <2>2, <2>3
<1>2. CASE ListWriteBack(r)
  BY <1>2 DEF ListWriteBack, ServeWrites, store
<1>3. CASE \E s \in Symbols : BulkUpdate(r, s) \/ BulkInsert(r, s)
  BY <1>3 DEF ServeWrites, Imports
<1>4. CASE \E s \in Symbols : BulkRead(r, s) \/ BulkUpsertMiss(r, s) \/ BulkReject(r, s)
  BY <1>4 DEF ServeWrites, BulkRead, BulkUpsertMiss, BulkReject
<1>5. CASE ListQuery(r) \/ ListFill(r) \/ SellProbe(r) \/ SellRecord(r) \/ BulkFinish(r)
           \/ Invalidate(r) \/ BulkAbort(r) \/ MongoError(r) \/ Crash(r)
  BY <1>5 DEF ServeWrites, ListQuery, ListFill, SellProbe, SellRecord, BulkFinish,
     Invalidate, BulkAbort, MongoError, Crash
<1>6. QED
  BY <1>1, <1>2, <1>3, <1>4, <1>5 DEF Proceed, Fail

\* The write-back of live prices changes no quantity.
LEMMA RepricedDocs ==
  ASSUME StoreType, NEW items, docs' = Repriced(items)
  PROVE  /\ \A j \in Assets : Alive(j)' <=> Alive(j)
         /\ \A j \in Assets : Alive(j) => docs'[j].sym = docs[j].sym /\ docs'[j].qty = docs[j].qty
<1> SUFFICES ASSUME NEW j \in Assets
             PROVE  /\ Alive(j)' <=> Alive(j)
                    /\ Alive(j) => docs'[j].sym = docs[j].sym /\ docs'[j].qty = docs[j].qty
  OBVIOUS
<1>1. CASE docs'[j] = docs[j]
  BY <1>1 DEF Alive
<1>2. CASE Alive(j) /\ docs'[j] = [docs[j] EXCEPT !.price = "live"]
  <2>1. docs[j] \in Doc
    BY <1>2 DEF StoreType, Alive
  <2>2. docs'[j] \in Doc /\ docs'[j].sym = docs[j].sym /\ docs'[j].qty = docs[j].qty
    BY <1>2, <2>1 DEF Doc
  <2>3. docs'[j] # NoDoc
    BY <2>2, HoldingsAssumption DEF Doc
  <2>4. QED BY <1>2, <2>2, <2>3 DEF Alive
<1>3. QED BY <1>1, <1>2 DEF Repriced

\* An import's writes: one document of the symbol gets the planned total, or a
\* new one does.
LEMMA ImportDocs ==
  ASSUME IInv, NEW r \in Requests, Imports(r)
  PROVE  \E s \in Symbols :
           /\ pc[r] = "bulk.write" /\ plan[r][s].st \in {"planned", "insert"}
           /\ plan[r][s].total \in Nat
           /\ plan' = [plan EXCEPT ![r][s].st = "applied"]
           /\ Effect(r, s, plan[r][s].add)
           /\ \/ plan[r][s].st = "planned" /\ \E i \in Oldest(s) : Sets(i, plan[r][s].total)
              \/ plan[r][s].st = "insert" /\ Insert(s, plan[r][s].total)
<1>1. PICK s \in Symbols : BulkUpdate(r, s) \/ BulkInsert(r, s)
  BY DEF Imports
<1>2. plan[r][s].total \in Nat
  BY TypeParts DEF IInv, PlanType, Row
<1>3. CASE BulkUpdate(r, s)
  <2>1. PICK i \in Oldest(s) : docs' = [docs EXCEPT ![i].qty = plan[r][s].total]
    BY <1>3 DEF BulkUpdate
  <2>2. Sets(i, plan[r][s].total)
    BY <1>3, <2>1 DEF BulkUpdate, Sets, Oldest, Of
  <2>3. QED BY <1>2, <1>3, <2>2 DEF BulkUpdate, SetRow
<1>4. CASE BulkInsert(r, s)
  BY <1>2, <1>4 DEF BulkInsert, SetRow
<1>5. QED BY <1>1, <1>3, <1>4

-----------------------------------------------------------------------------
(* What a step of one request leaves alone in the others *)

Alone(p) == Same(p) /\ seen'[p] = seen[p] /\ plan'[p] = plan[p] /\ tally'[p] = tally[p]

\* A request that arrives leaves what the others are at.
LEMMA ArriveAlone ==
  ASSUME TypeOK, NEW r \in Requests, Arrive(r), NEW p \in Requests \ {r}
  PROVE  Alone(p)
<1>1. Same(p)
  BY ArriveOthers
<1>2. seen'[p] = seen[p] /\ plan'[p] = plan[p] /\ tally'[p] = tally[p]
  BY DEF Arrive, ListHit, ListMiss, CreateInsert, SellRejected, SellTake, UpdateApply,
     DeleteApply, BulkStart, TypeOK
<1>3. QED BY <1>1, <1>2 DEF Alone

\* So does one that is served, or fails.
LEMMA ServeAlone ==
  ASSUME TypeOK, NEW r \in Requests, Proceed(r) \/ Fail(r), NEW p \in Requests \ {r}
  PROVE  Alone(p)
<1>1. Same(p)
  BY ServeOthers
<1>2. ASSUME NEW s, NEW st, SetRow(r, s, st) PROVE plan'[p] = plan[p]
  BY <1>2 DEF SetRow, TypeOK
<1> DEFINE Goal == seen'[p] = seen[p] /\ plan'[p] = plan[p] /\ tally'[p] = tally[p]
<1>3. ASSUME \/ ListWriteBack(r) \/ ListFill(r) \/ SellProbe(r) \/ SellDropEmpty(r)
             \/ SellRecord(r) \/ Invalidate(r) \/ MongoError(r) \/ Crash(r)
      PROVE  Goal
  BY <1>3 DEF ListWriteBack, ListFill, SellProbe, SellDropEmpty,
     SellRecord, Invalidate, MongoError, Crash, locals
<1>4. ASSUME ListQuery(r) \/ BulkFinish(r) \/ BulkAbort(r) PROVE Goal
  <2>1. ListQuery(r) => Goal
    BY DEF ListQuery, TypeOK
  <2>2. BulkFinish(r) => Goal
    BY DEF BulkFinish, TypeOK
  <2>3. BulkAbort(r) => Goal
    BY DEF BulkAbort, TypeOK
  <2>4. QED BY <1>4, <2>1, <2>2, <2>3
<1>5. ASSUME NEW s \in Symbols, BulkRead(r, s) PROVE Goal
  <2>1. plan'[p] = plan[p]
    BY <1>2, <1>5 DEF BulkRead, TypeOK
  <2>2. QED BY <1>5, <2>1 DEF BulkRead
<1>6. ASSUME NEW s \in Symbols,
             BulkUpdate(r, s) \/ BulkUpsertMiss(r, s) \/ BulkInsert(r, s) \/ BulkReject(r, s)
      PROVE  Goal
  BY <1>2, <1>6 DEF BulkUpdate, BulkUpsertMiss, BulkInsert, BulkReject
<1> HIDE DEF Goal
<1>7. Goal
  BY <1>3, <1>4, <1>5, <1>6 DEF Proceed, Fail
<1>8. QED BY <1>1, <1>7 DEF Alone, Goal

\* Only a new request arrives.
LEMMA ArriveFrom ==
  ASSUME TypeOK, NEW r, Arrive(r)
  PROVE  pc[r] = "new"
BY DEF Arrive, ListHit, ListMiss, CreateInsert, SellRejected, SellTake, UpdateApply,
   DeleteApply, BulkStart, Admit

\* Where an arriving request comes to stand, by its handler.
LEMMA ArriveTo ==
  ASSUME TypeOK, NEW r \in Requests, Arrive(r)
  PROVE  /\ pc'[r] \in {"list.query", "sell.probe", "sell.empty", "sell.record",
                        "bulk.read", "invalidate", "done"}
         /\ job'[r].op = "bulk" <=> \E rows \in Rows : BulkStart(r, rows)
         /\ pc'[r] = "bulk.read" <=> \E rows \in Rows : BulkStart(r, rows)
<1>1. ASSUME NEW h, NEW i, NEW q, Admit(r, h, i, q) PROVE job'[r].op = h
  BY <1>1 DEF Admit, TypeOK
<1>2. ASSUME NEW l, Goto(r, l) PROVE pc'[r] = l
  BY <1>2 DEF Goto, TypeOK
<1>3. ASSUME NEW code, Reply(r, code) PROVE pc'[r] = "done"
  BY <1>3 DEF Reply, TypeOK
<1> DEFINE Starts == \E rows \in Rows : BulkStart(r, rows)
           Outside == {"list.query", "sell.probe", "sell.empty", "sell.record",
                          "invalidate", "done"}
<1>4. CASE Starts
  BY <1>1, <1>2, <1>4 DEF BulkStart
<1>5. CASE ~Starts
  <2>1. CASE ListHit(r)
    BY <1>1, <1>3, <1>5, <2>1 DEF ListHit
  <2>2. ASSUME NEW filter \in BOOLEAN, ListMiss(r, filter)
        PROVE  pc'[r] \in Outside /\ job'[r].op # "bulk"
    BY <1>1, <1>2, <2>2 DEF ListMiss
  <2>3. ASSUME NEW s \in Symbols, NEW q \in Amounts, CreateInsert(r, s, q)
        PROVE  pc'[r] \in Outside /\ job'[r].op # "bulk"
    BY <1>1, <1>2, <2>3 DEF CreateInsert
  <2>4. ASSUME NEW q \in {0}, SellRejected(r, q)
        PROVE  pc'[r] \in Outside /\ job'[r].op # "bulk"
    BY <1>1, <1>3, <2>4 DEF SellRejected
  <2>5. ASSUME NEW i \in Assets, NEW q \in Amounts, SellTake(r, i, q)
        PROVE  pc'[r] \in Outside /\ job'[r].op # "bulk"
    BY <1>1, <1>2, <1>3, <2>5 DEF SellTake
  <2>6. ASSUME NEW i \in Assets, NEW q \in Amounts, UpdateApply(r, i, q)
        PROVE  pc'[r] \in Outside /\ job'[r].op # "bulk"
    BY <1>1, <1>2, <1>3, <2>6 DEF UpdateApply
  <2>7. ASSUME NEW i \in Assets, DeleteApply(r, i)
        PROVE  pc'[r] \in Outside /\ job'[r].op # "bulk"
    BY <1>1, <1>2, <1>3, <2>7 DEF DeleteApply
  <2>8. QED BY <1>5, <2>1, <2>2, <2>3, <2>4, <2>5, <2>6, <2>7 DEF Arrive
<1>6. QED BY <1>4, <1>5

\* What a request asks for is noted once.
LEMMA JobStays ==
  ASSUME NEW r, Proceed(r) \/ Fail(r)
  PROVE  job' = job
BY DEF Proceed, Fail, ListQuery, ListWriteBack, ListFill, SellProbe, SellDropEmpty,
   SellRecord, BulkRead, BulkUpdate, BulkUpsertMiss, BulkInsert, BulkFinish,
   Invalidate, BulkReject, BulkAbort, MongoError, Crash, locals

\* A request that is served and is not importing leaves its rows and its counts.
LEMMA ServeApart ==
  ASSUME TypeOK, NEW r \in Requests, Proceed(r) \/ Fail(r), pc[r] \notin Importing
  PROVE  plan' = plan /\ tally' = tally /\ pc'[r] \notin Importing
<1> USE DEF Importing
<1>1. ASSUME NEW l, Goto(r, l) PROVE pc'[r] = l
  BY <1>1 DEF Goto, TypeOK
<1>2. ASSUME NEW code, Reply(r, code) PROVE pc'[r] = "done"
  BY <1>2 DEF Reply, TypeOK
<1>3. \A s \in Symbols : ~BulkRead(r, s) /\ ~BulkUpdate(r, s) /\ ~BulkUpsertMiss(r, s)
        /\ ~BulkInsert(r, s) /\ ~BulkReject(r, s)
  BY DEF BulkRead, BulkUpdate, BulkUpsertMiss, BulkInsert, BulkReject
<1>4. ~BulkFinish(r) /\ ~BulkAbort(r)
  BY DEF BulkFinish, BulkAbort
<1>5. CASE ListQuery(r) \/ ListWriteBack(r) \/ ListFill(r) \/ SellProbe(r)
  BY <1>1, <1>2, <1>5 DEF ListQuery, ListWriteBack, ListFill, SellProbe, locals
<1>6. CASE SellDropEmpty(r) \/ SellRecord(r) \/ Invalidate(r) \/ MongoError(r) \/ Crash(r)
  BY <1>1, <1>2, <1>6 DEF SellDropEmpty, SellRecord, Invalidate, MongoError, Crash, locals
<1>7. QED BY <1>3, <1>4, <1>5, <1>6 DEF Proceed, Fail

\* Only a request in flight is served, or fails.
LEMMA ServeFrom ==
  ASSUME NEW r, Proceed(r) \/ Fail(r)
  PROVE  pc[r] \notin {"new", "done", "crashed"}
BY DEF Proceed, Fail, ListQuery, ListWriteBack, ListFill, SellProbe, SellDropEmpty,
   SellRecord, BulkRead, BulkUpdate, BulkUpsertMiss, BulkInsert, BulkFinish,
   Invalidate, BulkReject, BulkAbort, MongoError, Crash, InFlight

\* A step from the invalidation answers 200 or dies.
LEMMA ServeInvalidate ==
  ASSUME TypeOK, NEW r \in Requests, Proceed(r) \/ Fail(r), pc[r] = "invalidate"
  PROVE  pc'[r] \in {"done", "crashed"} /\ (Invalidate(r) \/ Crash(r))
<1>1. Invalidate(r) \/ Crash(r)
  BY DEF Proceed, Fail, ListQuery, ListWriteBack, ListFill, SellProbe, SellDropEmpty,
   SellRecord, BulkRead, BulkUpdate, BulkUpsertMiss, BulkInsert, BulkFinish,
   BulkReject, BulkAbort, MongoError
<1>2. Invalidate(r) => pc'[r] = "done"
  BY DEF Invalidate, Reply, TypeOK
<1>3. Crash(r) => pc'[r] = "crashed"
  BY DEF Crash, Goto, TypeOK
<1>4. QED BY <1>1, <1>2, <1>3

\* An import goes on until it has written or failed.
LEMMA ImportMoves ==
  ASSUME TypeOK, NEW r \in Requests, Proceed(r) \/ Fail(r), pc[r] \in Importing
  PROVE  \/ BulkFinish(r) \/ BulkAbort(r)
         \/ /\ pc'[r] \in Importing \cup {"crashed"} /\ answer' = answer
            /\ seen' = seen /\ job' = job
            /\ \/ \E s \in Symbols : BulkRead(r, s) \/ BulkUpdate(r, s) \/ BulkUpsertMiss(r, s)
                                     \/ BulkInsert(r, s) \/ BulkReject(r, s)
               \/ Crash(r)
<1>1. ASSUME NEW l, Goto(r, l) PROVE pc'[r] = l /\ answer' = answer
  BY <1>1 DEF Goto, TypeOK
<1>2. ~ListQuery(r) /\ ~ListWriteBack(r) /\ ~ListFill(r) /\ ~SellProbe(r) /\ ~SellDropEmpty(r)
      /\ ~SellRecord(r) /\ ~Invalidate(r) /\ ~MongoError(r)
  BY DEF Importing, ListQuery, ListWriteBack, ListFill, SellProbe, SellDropEmpty, SellRecord,
     Invalidate, MongoError
<1>3. Crash(r) => pc'[r] = "crashed" /\ answer' = answer /\ seen' = seen /\ job' = job
  BY <1>1 DEF Crash, locals
<1>4. ASSUME NEW s \in Symbols, BulkRead(r, s)
      PROVE  pc'[r] \in Importing /\ answer' = answer /\ seen' = seen /\ job' = job
  BY <1>1, <1>4 DEF BulkRead, Importing
<1>5. ASSUME NEW s \in Symbols,
             BulkUpdate(r, s) \/ BulkUpsertMiss(r, s) \/ BulkInsert(r, s) \/ BulkReject(r, s)
      PROVE  pc'[r] \in Importing /\ answer' = answer /\ seen' = seen /\ job' = job
  BY <1>5 DEF BulkUpdate, BulkUpsertMiss, BulkInsert, BulkReject, Importing
<1>6. QED BY <1>2, <1>3, <1>4, <1>5 DEF Proceed, Fail

-----------------------------------------------------------------------------
(* Imports *)

\* An arriving import is well formed.
LEMMA ImportArrive ==
  ASSUME IInv, NEW r \in Requests, Arrive(r), ImportState(r)
  PROVE  ImportState(r)'
<1>0. TypeOK /\ PlanType BY TypeParts DEF IInv
<1>1. CASE \E rows \in Rows : BulkStart(r, rows)
  <2>1. PICK rows \in Rows : BulkStart(r, rows)
    BY <1>1
  <2>2. pc'[r] = "bulk.read" /\ job'[r].op = "bulk" /\ "bulk" \in Handlers
    BY <1>0, <1>1, <2>1, ArriveTo DEF BulkStart, Admit
  <2>3. /\ \A s \in Symbols : s \in DOMAIN rows =>
                plan'[r][s] = [st |-> "ask", add |-> rows[s], total |-> 0]
        /\ \A s \in Symbols : s \notin DOMAIN rows => plan'[r][s] = NoRow
    BY <1>0, <2>1 DEF BulkStart, PlanType
  <2>4. \A s \in DOMAIN rows : rows[s] > Dust
    BY HoldingsAssumption DEF Rows
  <2>5. \A s \in Symbols : plan'[r][s].st \in Waiting =>
                plan'[r][s].add > Dust /\ plan'[r][s].st = "ask"
    <3>1. ASSUME NEW s \in Symbols, s \notin DOMAIN rows PROVE plan'[r][s].st = "none"
      BY <2>3, <3>1 DEF NoRow
    <3>2. ASSUME NEW s \in Symbols, s \in DOMAIN rows
          PROVE  plan'[r][s].st = "ask" /\ plan'[r][s].add > Dust
      <4>1. plan'[r][s] = [st |-> "ask", add |-> rows[s], total |-> 0] BY <2>3, <3>2
      <4>2. plan'[r][s].st = "ask" /\ plan'[r][s].add = rows[s] BY ONLY <4>1
      <4>3. rows[s] > Dust BY <2>4, <3>2
      <4>4. QED BY ONLY <4>2, <4>3
    <3>3. QED BY <3>1, <3>2 DEF Waiting
  <2>6. QED BY <2>2, <2>5 DEF ImportState, Importing, Waiting
<1>2. CASE ~\E rows \in Rows : BulkStart(r, rows)
  <2>1. plan' = plan
    BY <1>2 DEF Arrive, ListHit, ListMiss, CreateInsert, SellRejected, SellTake, UpdateApply,
       DeleteApply
  <2>2. pc'[r] \notin Importing /\ job'[r].op # "bulk"
    BY <1>0, <1>2, ArriveTo DEF Importing
  <2>3. QED BY <2>1, <2>2 DEF ImportState, Importing
<1>3. QED BY <1>1, <1>2

\* It stays so while it is served.
LEMMA ImportServe ==
  ASSUME IInv, NEW r \in Requests, Proceed(r) \/ Fail(r), ImportState(r)
  PROVE  ImportState(r)'
<1>0. TypeOK /\ PlanType /\ StoreType BY TypeParts DEF IInv
<1>1. job' = job
  BY JobStays
<1>2. ASSUME NEW l, Goto(r, l) PROVE pc'[r] = l
  BY <1>0, <1>2 DEF Goto, TypeOK
<1>3. CASE pc[r] \notin Importing
  <2>1. plan' = plan /\ pc'[r] \notin Importing
    BY <1>0, <1>3, ServeApart
  <2>2. job[r].op = "bulk" => pc[r] = "invalidate"
    BY <1>3, ServeFrom DEF ImportState
  <2>3. pc[r] = "invalidate" => pc'[r] \in {"done", "crashed"}
    BY <1>0, ServeInvalidate
  <2>4. QED BY <1>1, <2>1, <2>2, <2>3 DEF ImportState, Importing
<1>4. ASSUME NEW s \in Symbols, NEW st \in RowState, SetRow(r, s, st)
      PROVE  /\ \A x \in Symbols : plan'[r][x].add = plan[r][x].add /\ plan'[r][x].total = plan[r][x].total
             /\ \A x \in Symbols \ {s} : plan'[r][x].st = plan[r][x].st
             /\ plan'[r][s].st = st
  BY <1>0, <1>4 DEF SetRow, PlanType, Row
<1>5. ASSUME NEW s \in Symbols, BulkRead(r, s) PROVE ImportState(r)'
  <2>1. pc[r] = "bulk.read" /\ plan[r][s].st = "ask" /\ job[r].op = "bulk" /\ "bulk" \in Handlers
    BY <1>5 DEF BulkRead, ImportState, Importing
  <2>2. plan[r][s].add > Dust
    BY <2>1 DEF ImportState, Waiting
  <2>3. /\ \A x \in Symbols \ {s} : plan'[r][x] = plan[r][x]
        /\ plan'[r][s].st \in {"planned", "failed"} /\ plan'[r][s].add = plan[r][s].add
        /\ plan'[r][s].st = "planned" => plan'[r][s].total > Dust
    <3>1. CASE SetRow(r, s, "failed")
      BY <1>0, <3>1 DEF SetRow, PlanType, Row
    <3>2. ASSUME NEW held \in HeldOf(s),
                 plan' = [plan EXCEPT ![r][s].st = "planned",
                                      ![r][s].total = BulkTotal(held, plan[r][s].add)]
          PROVE  /\ \A x \in Symbols \ {s} : plan'[r][x] = plan[r][x]
                 /\ plan'[r][s].st = "planned" /\ plan'[r][s].add = plan[r][s].add
                 /\ plan'[r][s].total > Dust
      <4>1. held \in Nat
        BY <1>0, QtyType DEF HeldOf, Oldest, Of
      <4>2. BulkTotal(held, plan[r][s].add) > Dust
        BY <1>0, <2>2, <4>1, HoldingsAssumption DEF PlanType, Row, BulkTotal
      <4>3. QED BY <1>0, <3>2, <4>2 DEF PlanType, Row
    <3>3. QED BY <1>5, <3>1, <3>2 DEF BulkRead
  <2>4. pc'[r] = IF RowsIn(r, {"ask"}) = {s} THEN "bulk.write" ELSE "bulk.read"
    BY <1>2, <1>5 DEF BulkRead
  <2>5. pc'[r] = "bulk.write" => RowsIn(r, {"ask"})' = {}
    BY <2>3, <2>4 DEF RowsIn
  <2>6. \A x \in Symbols : plan'[r][x].st \in Waiting => plan'[r][x].add > Dust
    BY <2>2, <2>3 DEF ImportState
  <2>7. \A x \in Symbols : plan'[r][x].st \in {"planned", "insert"} => plan'[r][x].total > Dust
    BY <2>3 DEF ImportState
  <2>8. QED BY <1>1, <2>1, <2>4, <2>5, <2>6, <2>7 DEF ImportState, Importing
<1>6. ASSUME NEW s \in Symbols, NEW st \in {"insert", "applied", "lost"}, SetRow(r, s, st),
             pc[r] = "bulk.write", pc' = pc, plan[r][s].st \in {"planned", "insert"}
      PROVE  ImportState(r)'
  <2>1. st \in RowState BY DEF RowState
  <2>2. RowsIn(r, {"ask"})' = {}
    BY <1>4, <1>6, <2>1 DEF RowsIn, ImportState
  <2>3. QED
    BY <1>1, <1>4, <1>6, <2>1, <2>2 DEF ImportState, Waiting, Importing
<1>7. ASSUME NEW s \in Symbols,
             BulkUpdate(r, s) \/ BulkUpsertMiss(r, s) \/ BulkInsert(r, s) \/ BulkReject(r, s)
      PROVE  ImportState(r)'
  BY <1>6, <1>7 DEF BulkUpdate, BulkUpsertMiss, BulkInsert, BulkReject
<1>8. CASE BulkFinish(r) \/ BulkAbort(r) \/ Crash(r)
  <2>1. plan' = plan /\ pc'[r] \in {"invalidate", "crashed"}
    BY <1>2, <1>8 DEF BulkFinish, BulkAbort, Crash, locals
  <2>2. QED BY <2>1 DEF ImportState, Importing
<1>9. CASE pc[r] \in Importing
  <2>1. ~ListQuery(r) /\ ~ListWriteBack(r) /\ ~ListFill(r) /\ ~SellProbe(r) /\ ~SellDropEmpty(r)
        /\ ~SellRecord(r) /\ ~Invalidate(r) /\ ~MongoError(r)
    BY <1>9 DEF Importing, ListQuery, ListWriteBack, ListFill, SellProbe, SellDropEmpty, SellRecord,
       Invalidate, MongoError
  <2>2. QED BY <1>5, <1>7, <1>8, <2>1 DEF Proceed, Fail
<1>10. QED BY <1>3, <1>9

\* Rows counted: sets of symbols are finite.
LEMMA RowsFinite == ASSUME NEW r, NEW states PROVE IsFiniteSet(RowsIn(r, states))
BY HoldingsAssumption, FS_Subset DEF RowsIn

\* The counts an import reports add up to its rows.
LEMMA FinishCounts ==
  ASSUME IInv, NEW r \in Requests, ImportState(r), BulkFinish(r)
  PROVE  Counted(r)'
<1> DEFINE A == RowsIn(r, {"applied"})
           L == RowsIn(r, {"lost"})
           F == RowsIn(r, {"failed"})
<1>1. IsFiniteSet(A) /\ IsFiniteSet(L) /\ IsFiniteSet(F)
  BY RowsFinite
<1>2. A \cap L = {} /\ F \cap L = {} /\ A \cap (F \cup L) = {}
  BY DEF RowsIn
<1>3. RowsIn(r, {"applied", "lost"}) = A \cup L /\ RowsIn(r, {"failed", "lost"}) = F \cup L
  BY DEF RowsIn
<1>4. RowsIn(r, RowState \ {"none"}) = A \cup (F \cup L)
  BY DEF RowsIn, RowState, BulkFinish, ImportState
<1>5. plan' = plan
  BY DEF BulkFinish
<1>6. /\ RowsIn(r, {"applied"})' = A
      /\ RowsIn(r, RowState \ {"none"})' = A \cup (F \cup L)
  BY <1>4, <1>5 DEF RowsIn
<1>7. tally'[r] = [ok |-> SuccessCount(r), bad |-> Cardinality(F \cup L)]
  BY <1>3, TypeParts DEF IInv, BulkFinish, TallyType
<1>8. SuccessCount(r) = Cardinality(A \cup L) - Cardinality(L)
  BY <1>3 DEF SuccessCount
<1> HIDE DEF A, L, F
<1>9. /\ Cardinality(A) \in Nat /\ Cardinality(L) \in Nat /\ Cardinality(F) \in Nat
      /\ IsFiniteSet(F \cup L)
  BY <1>1, FS_CardinalityType, FS_Union
<1>10. Cardinality({}) = 0
  BY FS_EmptySet
<1>11. /\ Cardinality(A \cup L) = Cardinality(A) + Cardinality(L) - Cardinality({})
       /\ Cardinality(F \cup L) = Cardinality(F) + Cardinality(L) - Cardinality({})
       /\ Cardinality(A \cup (F \cup L)) = Cardinality(A) + Cardinality(F \cup L) - Cardinality({})
  <2>1. Cardinality(A \cup L) = Cardinality(A) + Cardinality(L) - Cardinality(A \cap L)
    BY ONLY <1>1, FS_Union
  <2>2. Cardinality(F \cup L) = Cardinality(F) + Cardinality(L) - Cardinality(F \cap L)
    BY ONLY <1>1, FS_Union
  <2>3. Cardinality(A \cup (F \cup L))
          = Cardinality(A) + Cardinality(F \cup L) - Cardinality(A \cap (F \cup L))
    BY ONLY <1>1, <1>9, FS_Union
  <2>4. QED BY ONLY <1>2, <2>1, <2>2, <2>3
<1>12. /\ tally'[r].ok = Cardinality(A) /\ tally'[r].bad = Cardinality(F \cup L)
       /\ Cardinality(A \cup (F \cup L)) = Cardinality(A) + Cardinality(F \cup L)
  <2>1. tally'[r].ok = SuccessCount(r) /\ tally'[r].bad = Cardinality(F \cup L)
    BY ONLY <1>7
  <2>2. SuccessCount(r) = Cardinality(A)
    BY ONLY <1>8, <1>9, <1>10, <1>11
  <2>3. Cardinality(F \cup L) \in Nat
    BY ONLY <1>9, <1>10, <1>11, FS_CardinalityType
  <2>4. Cardinality(A \cup (F \cup L)) = Cardinality(A) + Cardinality(F \cup L)
    BY ONLY <1>9, <1>10, <1>11, <2>3
  <2>5. QED BY ONLY <2>1, <2>2, <2>4
<1>13. Cardinality(F \cup L) \in Nat
  BY <1>9, FS_CardinalityType
<1>14. QED
  <2>1. tally'[r].ok <= Cardinality(RowsIn(r, {"applied"})')
    BY <1>6, <1>9, <1>12
  <2>2. tally'[r].ok + tally'[r].bad = Cardinality(RowsIn(r, RowState \ {"none"})')
    BY <1>6, <1>12
  <2>3. QED BY <2>1, <2>2 DEF Counted

\* An import given up reports each of its rows as failed.
LEMMA AbortCounts ==
  ASSUME IInv, NEW r \in Requests, BulkAbort(r)
  PROVE  Counted(r)'
<1> DEFINE N == Cardinality(RowsIn(r, RowState \ {"none"}))
<1>1. tally'[r].ok = 0 /\ tally'[r].bad = N
  BY TypeParts DEF IInv, BulkAbort, TallyType
<1>2. /\ Cardinality(RowsIn(r, RowState \ {"none"}))' = N
      /\ Cardinality(RowsIn(r, {"applied"}))' = Cardinality(RowsIn(r, {"applied"}))
  BY DEF BulkAbort, RowsIn
<1>3. N \in Nat /\ Cardinality(RowsIn(r, {"applied"})) \in Nat
  BY RowsAreFinite
<1>4. QED BY <1>1, <1>2, <1>3 DEF Counted

\* Whatever it does, an import that is about to answer has counted its rows.
LEMMA CountStep ==
  ASSUME IInv, IInv', NEW r \in Requests, ImportState(r), CountState(r),
         Arrive(r) \/ Proceed(r) \/ Fail(r)
  PROVE  CountState(r)'
<1>0. TypeOK BY DEF IInv
<1>1. CASE Arrive(r)
  <2>1. SaleState(r)' /\ answer[r] = "none"
    BY <1>0, <1>1, ArriveFrom DEF IInv, SaleInv, SaleState
  <2>2. job'[r].op = "bulk" => pc'[r] = "bulk.read"
    BY <1>0, <1>1, ArriveTo
  <2>3. pc'[r] # "done" => answer'[r] = "none"
    BY <2>1 DEF SaleState
  <2>4. QED BY <2>2, <2>3 DEF CountState
<1>2. CASE Proceed(r) \/ Fail(r)
  <2>1. CASE BulkFinish(r)
    BY <2>1, FinishCounts DEF CountState
  <2>2. CASE BulkAbort(r)
    BY <2>2, AbortCounts DEF CountState
  <2>3. CASE pc[r] \notin Importing
    <3>1. plan' = plan /\ tally' = tally /\ job' = job
      BY <1>0, <1>2, <2>3, ServeApart, JobStays
    <3>2. job[r].op = "bulk" => pc[r] = "invalidate"
      BY <1>0, <1>2, <2>3, ServeFrom DEF ImportState
    <3>3. QED BY <3>1, <3>2 DEF CountState, Counted, RowsIn
  <2>4. CASE pc[r] \in Importing /\ ~BulkFinish(r) /\ ~BulkAbort(r)
    <3>1. pc'[r] \notin {"invalidate", "done"}
      BY <1>0, <1>2, <2>4, ImportMoves DEF Importing
    <3>2. SaleState(r)' BY DEF IInv, SaleInv
    <3>3. QED BY <3>1, <3>2 DEF CountState, SaleState
  <2>5. QED BY <2>1, <2>2, <2>3, <2>4
<1>3. QED BY <1>1, <1>2

-----------------------------------------------------------------------------
(* Reads that are still true *)

\* Every step either leaves all quantities, or is a write, which counts.
Quiet == /\ ver' = ver /\ eff' = eff
         /\ \A s \in Symbols : Of(s)' = Of(s) /\ HeldOf(s)' = HeldOf(s)
         /\ \A filter \in BOOLEAN : Items(filter)' = Items(filter)
Counts(r) == \E s \in Symbols, d \in Int : Effect(r, s, d)

\* A step that leaves all quantities leaves all that requests have read.
LEMMA QuietStock ==
  ASSUME StoreType, ver' = ver, eff' = eff,
         \A j \in Assets : Alive(j)' <=> Alive(j),
         \A j \in Assets : Alive(j) => docs'[j].sym = docs[j].sym /\ docs'[j].qty = docs[j].qty
  PROVE  Quiet
<1>1. ASSUME NEW s \in Symbols PROVE Of(s)' = Of(s)
  BY DEF Of
<1>2. ASSUME NEW s \in Symbols PROVE HeldOf(s)' = HeldOf(s)
  <2>1. Oldest(s)' = Oldest(s)
    BY <1>1 DEF Oldest
  <2>2. \A j \in Oldest(s) : docs'[j].qty = docs[j].qty
    BY DEF Oldest, Of
  <2>3. QED BY <1>1, <2>1, <2>2 DEF HeldOf
<1>3. ASSUME NEW filter \in BOOLEAN PROVE Items(filter)' = Items(filter)
  BY DEF Items
<1>4. QED BY <1>1, <1>2, <1>3 DEF Quiet

\* Every step is one or the other.
LEMMA StepCounts ==
  ASSUME IInv, NEW r \in Requests, Arrive(r) \/ Proceed(r) \/ Fail(r)
  PROVE  Quiet \/ Counts(r)
<1>0. TypeOK /\ StoreType BY TypeParts DEF IInv
<1>1. CASE UNCHANGED store
  <2>1. docs' = docs /\ ver' = ver /\ eff' = eff
    BY <1>1 DEF store
  <2>2. QED BY <1>0, <2>1, QuietStock DEF Alive
<1>2. CASE Arrive(r)
  <2>1. ASSUME NEW s \in Symbols, NEW q \in Amounts, AddsIt(r, s, q) PROVE Counts(r)
    BY <2>1, HoldingsAssumption DEF AddsIt, Counts
  <2>2. ASSUME NEW i \in Assets, NEW q \in Nat, SetsIt(r, i, q) PROVE Counts(r)
    <3>1. docs[i].qty \in Nat /\ docs[i].sym \in Symbols
      BY <1>0, <2>2, QtyType DEF SetsIt, Sets
    <3>2. q - docs[i].qty \in Int BY <3>1
    <3>3. QED BY <2>2, <3>1, <3>2 DEF SetsIt, Counts
  <2>3. ASSUME NEW i \in Assets, DropsIt(r, i) PROVE Counts(r)
    <3>1. docs[i].qty \in Nat /\ docs[i].sym \in Symbols
      BY <1>0, <2>3, QtyType DEF DropsIt, Drops
    <3>2. -docs[i].qty \in Int BY <3>1
    <3>3. QED BY <2>3, <3>1, <3>2 DEF DropsIt, Counts
  <2>4. QED BY <1>1, <1>2, <2>1, <2>2, <2>3, ArriveStock DEF ArriveWrites
<1>3. CASE Proceed(r) \/ Fail(r)
  <2>1. CASE docs' = Repriced(seen[r].items) /\ UNCHANGED <<born, ver, eff, owed>>
    BY <1>0, <2>1, RepricedDocs, QuietStock
  <2>2. CASE job[r].asset \in Assets /\ DropsIt(r, job[r].asset)
    <3> DEFINE i == job[r].asset
    <3>1. docs[i].qty \in Nat /\ docs[i].sym \in Symbols
      BY <1>0, <2>2, QtyType DEF DropsIt, Drops
    <3>2. -docs[i].qty \in Int BY <3>1
    <3>3. QED BY <2>2, <3>1, <3>2 DEF DropsIt, Counts
  <2>3. CASE Imports(r)
    <3>1. PICK s \in Symbols : Effect(r, s, plan[r][s].add)
      BY <2>3, ImportDocs
    <3>2. plan[r][s].add \in Int
      BY TypeParts DEF IInv, PlanType, Row
    <3>3. QED BY <3>1, <3>2 DEF Counts
  <2>4. QED BY <1>1, <1>3, <2>1, <2>2, <2>3, ServeStock DEF ServeWrites
<1>4. QED BY <1>2, <1>3

\* What others have read stays true, or the version tells.
LEMMA QuietOthers ==
  ASSUME IInv, NEW r \in Requests, Quiet \/ Counts(r), NEW p \in Requests \ {r}, Alone(p),
         QuietState(p)
  PROVE  QuietState(p)'
<1>0. TypeOK BY DEF IInv
<1> DEFINE n == Cardinality(RowsIn(p, {"applied"}))
<1>1. Cardinality(RowsIn(p, {"applied"}))' = n /\ n \in Nat
  BY RowsAreFinite DEF RowsIn, Alone
<1>2. seen'[p] = seen[p] /\ pc'[p] = pc[p] /\ eff'[p] = eff[p] /\ plan'[p] = plan[p]
  BY DEF Alone, Same
<1>3. seen[p].at \in Nat /\ seen[p].filter \in BOOLEAN /\ ver \in Nat /\ eff[p] \in Nat
  BY <1>0 DEF TypeOK, Seen
<1> HIDE DEF n
<1>4. CASE Quiet
  <2>1. \A s \in Symbols : RowIsFresh(p, s) => RowIsFresh(p, s)'
    BY <1>2, <1>4 DEF RowIsFresh, Quiet, BulkTotal
  <2>2. Undisturbed(p)' <=> Undisturbed(p)
    BY <1>1, <1>2, <1>4 DEF Undisturbed, Quiet, n
  <2>3. pc[p] \in {"list.write", "list.fill"} /\ seen[p].at = ver
          => seen'[p].items = Items(seen[p].filter)'
    <3>1. ASSUME NEW f \in BOOLEAN, seen[p].items = Items(f), f = seen'[p].filter
          PROVE  seen'[p].items = Items(seen[p].filter)'
      <4>1. seen[p].items = Items(f)' BY <1>4, <3>1 DEF Quiet
      <4>2. QED BY <1>2, <3>1, <4>1 DEF Items
    <3>2. QED BY <1>2, <1>3, <3>1 DEF QuietState
  <2>4. ver' = ver
    BY <1>4 DEF Quiet
  <2>5. QED BY <1>1, <1>2, <2>1, <2>2, <2>3, <2>4 DEF QuietState, n
<1>5. CASE Counts(r)
  <2>1. ver' = ver + 1
    BY <1>5 DEF Counts, Effect
  <2>2. pc[p] \in Importing => seen[p].at + n <= ver
    BY DEF QuietState, n
  <2>3. pc[p] \in Importing => seen[p].at + n <= ver' /\ ver' # seen[p].at + n
    BY <1>1, <1>3, <2>1, <2>2
  <2>4. pc[p] \in {"list.write", "list.fill"} => seen[p].at <= ver' /\ seen[p].at # ver'
    BY <1>3, <2>1 DEF QuietState
  <2>5. eff[p] <= ver'
    BY <1>3, <2>1 DEF QuietState
  <2>6. QED BY <1>1, <1>2, <2>3, <2>4, <2>5 DEF QuietState, Undisturbed, n
<1>6. QED BY <1>4, <1>5

\* The version of a request's own write is not ahead of the store's.
LEMMA QuietEff ==
  ASSUME IInv, NEW r \in Requests, Quiet \/ Counts(r), eff[r] <= ver
  PROVE  eff'[r] <= ver'
BY DEF IInv, TypeOK, Quiet, Counts, Effect

\* A request that arrives has read nothing yet.
LEMMA QuietArrive ==
  ASSUME IInv, NEW r \in Requests, Arrive(r), QuietState(r)
  PROVE  QuietState(r)'
<1>0. TypeOK BY DEF IInv
<1>1. eff'[r] <= ver'
  BY StepCounts, QuietEff DEF QuietState
<1>2. pc'[r] \notin {"list.write", "list.fill"}
  BY <1>0, ArriveTo
<1>3. CASE \E rows \in Rows : BulkStart(r, rows)
  <2>1. PICK rows \in Rows : BulkStart(r, rows)
    BY <1>3
  <2>2. \A s \in Symbols : plan'[r][s].st \in {"ask", "none"}
    <3>1. /\ \A s \in Symbols : s \in DOMAIN rows =>
                plan'[r][s] = [st |-> "ask", add |-> rows[s], total |-> 0]
          /\ \A s \in Symbols : s \notin DOMAIN rows => plan'[r][s] = NoRow
      BY <1>0, <2>1 DEF BulkStart, TypeOK
    <3>2. ASSUME NEW s \in Symbols, plan'[r][s] = NoRow PROVE plan'[r][s].st = "none"
      BY <3>2 DEF NoRow
    <3>3. ASSUME NEW s \in Symbols, NEW a, plan'[r][s] = [st |-> "ask", add |-> a, total |-> 0]
          PROVE  plan'[r][s].st = "ask"
      BY <3>3
    <3>4. QED BY <3>1, <3>2, <3>3
  <2>3. Cardinality(RowsIn(r, {"applied"}))' = 0
    <3>1. RowsIn(r, {"applied"})' = {} BY <2>2 DEF RowsIn
    <3>2. QED BY <3>1, FS_EmptySet
  <2>4. seen'[r].at = ver /\ ver' = ver /\ ver \in Nat
    BY <1>0, <2>1 DEF BulkStart, TypeOK, Seen, store
  <2>5. \A s \in Symbols : RowIsFresh(r, s)'
    BY <2>2 DEF RowIsFresh
  <2>6. QED BY <1>1, <1>2, <2>3, <2>4, <2>5 DEF QuietState
<1>4. CASE ~\E rows \in Rows : BulkStart(r, rows)
  <2>1. pc'[r] \notin Importing
    BY <1>0, <1>4, ArriveTo DEF Importing
  <2>2. QED BY <1>1, <1>2, <2>1 DEF QuietState
<1>5. QED BY <1>3, <1>4

\* One symbol's row of an import changes its state.
LEMMA RowMoves ==
  ASSUME TypeOK, NEW r \in Requests, NEW s \in Symbols, NEW st \in RowState, SetRow(r, s, st),
         plan[r][s].st # "applied"
  PROVE  /\ \A x \in Symbols \ {s} : plan'[r][x] = plan[r][x]
         /\ plan'[r][s].st = st /\ plan'[r][s].add = plan[r][s].add
         /\ plan'[r][s].total = plan[r][s].total
         /\ st # "applied" => Cardinality(RowsIn(r, {"applied"}))' = Cardinality(RowsIn(r, {"applied"}))
         /\ st = "applied" => Cardinality(RowsIn(r, {"applied"}))' = Cardinality(RowsIn(r, {"applied"})) + 1
<1> DEFINE A == RowsIn(r, {"applied"})
<1>1. /\ \A x \in Symbols \ {s} : plan'[r][x] = plan[r][x]
      /\ plan'[r][s].st = st /\ plan'[r][s].add = plan[r][s].add
      /\ plan'[r][s].total = plan[r][s].total
  BY DEF SetRow, TypeOK, Row
<1>2. IsFiniteSet(A) /\ s \notin A
  BY RowsFinite DEF RowsIn
<1>3. RowsIn(r, {"applied"})' = IF st = "applied" THEN A \cup {s} ELSE A
  BY <1>1 DEF RowsIn
<1> HIDE DEF A
<1>4. Cardinality(A \cup {s}) = Cardinality(A) + 1
  BY <1>2, FS_AddElement
<1>5. QED BY <1>1, <1>3, <1>4 DEF A

\* The row an import reads is the one it will write, as it is stored now.
LEMMA QuietRead ==
  ASSUME IInv, NEW r \in Requests, NEW s \in Symbols, BulkRead(r, s), QuietState(r), Quiet
  PROVE  QuietState(r)'
<1> DEFINE n == Cardinality(RowsIn(r, {"applied"}))
<1>0. TypeOK BY DEF IInv
<1>1. pc[r] = "bulk.read" /\ plan[r][s].st = "ask" /\ seen' = seen
  BY DEF BulkRead
<1>2. /\ \A x \in Symbols \ {s} : plan'[r][x] = plan[r][x]
      /\ \/ plan'[r][s].st = "failed"
         \/ /\ plan'[r][s].st = "planned"
            /\ \E held \in HeldOf(s) : plan'[r][s].total = BulkTotal(held, plan'[r][s].add)
  <2>1. CASE SetRow(r, s, "failed")
    BY <1>0, <2>1 DEF SetRow, TypeOK, Row
  <2>2. ASSUME NEW held \in HeldOf(s),
               plan' = [plan EXCEPT ![r][s].st = "planned",
                                    ![r][s].total = BulkTotal(held, plan[r][s].add)]
        PROVE  /\ \A x \in Symbols \ {s} : plan'[r][x] = plan[r][x]
               /\ plan'[r][s].st = "planned" /\ plan'[r][s].total = BulkTotal(held, plan'[r][s].add)
    <3>1. /\ \A x \in Symbols \ {s} : plan'[r][x] = plan[r][x]
          /\ plan'[r][s] = [plan[r][s] EXCEPT !.st = "planned",
                                             !.total = BulkTotal(held, plan[r][s].add)]
      BY <1>0, <2>2 DEF TypeOK
    <3>2. plan[r][s] \in Row BY <1>0 DEF TypeOK
    <3>3. QED BY <3>1, <3>2 DEF Row
  <2>3. QED BY <2>1, <2>2 DEF BulkRead
<1>3. RowsIn(r, {"applied"})' = RowsIn(r, {"applied"})
  BY <1>1, <1>2 DEF RowsIn
<1>4. pc'[r] \in Importing
  BY <1>0 DEF BulkRead, Goto, TypeOK, Importing
<1>5. ver' = ver /\ eff' = eff
  BY DEF Quiet
<1>6. Undisturbed(r)' <=> Undisturbed(r)
  BY <1>1, <1>3, <1>5 DEF Undisturbed
<1>7. \A x \in Symbols : RowIsFresh(r, x) => RowIsFresh(r, x)'
  <2>1. ASSUME NEW x \in Symbols \ {s}, RowIsFresh(r, x) PROVE RowIsFresh(r, x)'
    <3>1. plan'[r][x] = plan[r][x] /\ Of(x)' = Of(x) /\ HeldOf(x)' = HeldOf(x)
      BY <1>2 DEF Quiet
    <3>2. QED BY <2>1, <3>1 DEF RowIsFresh, BulkTotal
  <2>2. RowIsFresh(r, s)'
    <3>1. HeldOf(s)' = HeldOf(s) BY DEF Quiet
    <3>2. QED BY <1>2, <3>1 DEF RowIsFresh, BulkTotal
  <2>3. QED BY <2>1, <2>2
<1>8. pc[r] \in Importing
  BY <1>1 DEF Importing
<1>9. pc'[r] \notin {"list.write", "list.fill"}
  BY <1>4 DEF Importing
<1>10. QED BY <1>1, <1>3, <1>4, <1>5, <1>6, <1>7, <1>8, <1>9 DEF QuietState

\* A row that is given up, or waits for its insert, disturbs nothing.
LEMMA QuietRow ==
  ASSUME IInv, NEW r \in Requests, NEW s \in Symbols, BulkUpsertMiss(r, s) \/ BulkReject(r, s),
         QuietState(r), Quiet
  PROVE  QuietState(r)'
<1>0. TypeOK BY DEF IInv
<1>1. PICK st \in {"insert", "lost"} : SetRow(r, s, st) /\ (st = "insert" => BulkUpsertMiss(r, s))
  BY DEF BulkUpsertMiss, BulkReject
<1>2. /\ pc[r] = "bulk.write" /\ pc' = pc /\ seen' = seen /\ plan[r][s].st # "applied"
      /\ ver' = ver /\ eff' = eff
  BY DEF BulkUpsertMiss, BulkReject, Quiet
<1>3. /\ \A x \in Symbols \ {s} : plan'[r][x] = plan[r][x]
      /\ plan'[r][s].st = st /\ plan'[r][s].add = plan[r][s].add
      /\ plan'[r][s].total = plan[r][s].total
      /\ Cardinality(RowsIn(r, {"applied"}))' = Cardinality(RowsIn(r, {"applied"}))
  BY <1>0, <1>1, <1>2, RowMoves DEF RowState
<1>4. Undisturbed(r)' <=> Undisturbed(r)
  BY <1>2, <1>3 DEF Undisturbed
<1>5. ASSUME NEW x \in Symbols \ {s}, RowIsFresh(r, x) PROVE RowIsFresh(r, x)'
  <2>1. plan'[r][x] = plan[r][x] /\ Of(x)' = Of(x) /\ HeldOf(x)' = HeldOf(x)
    BY <1>3 DEF Quiet
  <2>2. QED BY <1>5, <2>1 DEF RowIsFresh, BulkTotal
<1>6. ASSUME RowIsFresh(r, s) PROVE RowIsFresh(r, s)'
  <2>1. CASE st = "lost"
    BY <1>3, <2>1 DEF RowIsFresh
  <2>2. CASE st = "insert"
    <3>1. Of(s) = {} /\ plan[r][s].st = "planned"
      BY <1>1, <2>2 DEF BulkUpsertMiss
    <3>2. plan[r][s].total = BulkTotal(0, plan[r][s].add)
      BY <1>6, <3>1 DEF RowIsFresh, HeldOf
    <3>3. plan[r][s].total = plan[r][s].add
      BY <1>0, <3>2 DEF BulkTotal, TypeOK, Row
    <3>4. Of(s)' = {}
      BY <3>1 DEF Quiet
    <3>5. QED BY <1>3, <2>2, <3>3, <3>4 DEF RowIsFresh
  <2>3. QED BY <2>1, <2>2
<1>7. pc[r] \in Importing /\ pc[r] \notin {"list.write", "list.fill"}
  BY <1>2 DEF Importing
<1>8. QED BY <1>2, <1>3, <1>4, <1>5, <1>6, <1>7 DEF QuietState

\* An import's own write leaves the rows of its other symbols as it read them.
LEMMA QuietImport ==
  ASSUME IInv, FreeIds, NEW r \in Requests, Imports(r), pc' = pc, seen' = seen, QuietState(r)
  PROVE  QuietState(r)'
<1>0. TypeOK /\ StoreType BY TypeParts DEF IInv
<1>1. PICK s \in Symbols :
           /\ pc[r] = "bulk.write" /\ plan[r][s].st \in {"planned", "insert"}
           /\ plan[r][s].total \in Nat
           /\ plan' = [plan EXCEPT ![r][s].st = "applied"]
           /\ Effect(r, s, plan[r][s].add)
           /\ \/ plan[r][s].st = "planned" /\ \E i \in Oldest(s) : Sets(i, plan[r][s].total)
              \/ plan[r][s].st = "insert" /\ Insert(s, plan[r][s].total)
  BY ImportDocs
<1>2. /\ \A x \in Symbols \ {s} : plan'[r][x] = plan[r][x]
      /\ plan'[r][s].st = "applied"
      /\ Cardinality(RowsIn(r, {"applied"}))' = Cardinality(RowsIn(r, {"applied"})) + 1
  BY <1>0, <1>1, RowMoves DEF RowState, SetRow
<1>3. ver' = ver + 1 /\ eff'[r] = ver + 1 /\ ver \in Nat
  BY <1>0, <1>1 DEF Effect, TypeOK
<1>4. ASSUME NEW x \in Symbols \ {s} PROVE Of(x)' = Of(x) /\ HeldOf(x)' = HeldOf(x)
  <2>1. Of(x)' = Of(x) /\ \A j \in Of(x) : docs'[j] = docs[j]
    <3>1. ASSUME NEW i \in Oldest(s), Sets(i, plan[r][s].total)
          PROVE  Of(x)' = Of(x) /\ \A j \in Of(x) : docs'[j] = docs[j]
      <4>1. i \in Assets /\ i \notin Of(x) /\ Of(x) \subseteq Assets
        BY <3>1 DEF Oldest, Of
      <4>2. Of(x)' = Of(x) /\ \A j \in Assets \ {i} : docs'[j] = docs[j]
        BY <1>0, <1>1, <3>1, <4>1, SetDoc
      <4>3. QED BY <4>1, <4>2
    <3>2. ASSUME Insert(s, plan[r][s].total)
          PROVE  Of(x)' = Of(x) /\ \A j \in Of(x) : docs'[j] = docs[j]
      <4>1. /\ docs[born + 1] = NoDoc /\ Of(x)' = Of(x)
            /\ \A j \in Assets \ {born + 1} : docs'[j] = docs[j]
        BY <1>0, <1>1, <1>4, <3>2, InsertDoc
      <4>2. QED BY <4>1 DEF Of, Alive
    <3>3. QED BY <1>1, <3>1, <3>2
  <2>2. Oldest(x)' = Oldest(x) /\ Oldest(x) \subseteq Of(x)
    BY <2>1 DEF Oldest
  <2>3. QED BY <2>1, <2>2 DEF HeldOf
<1>5. ASSUME NEW x \in Symbols, RowIsFresh(r, x) PROVE RowIsFresh(r, x)'
  <2>1. CASE x = s
    BY <1>2, <2>1 DEF RowIsFresh
  <2>2. CASE x # s
    <3>1. plan'[r][x] = plan[r][x] /\ Of(x)' = Of(x) /\ HeldOf(x)' = HeldOf(x)
      BY <1>2, <1>4, <2>2
    <3>2. QED BY <1>5, <3>1 DEF RowIsFresh, BulkTotal
  <2>3. QED BY <2>1, <2>2
<1> DEFINE n == Cardinality(RowsIn(r, {"applied"}))
<1>6. n \in Nat /\ seen[r].at \in Nat
  BY <1>0, RowsAreFinite DEF TypeOK, Seen
<1>7. pc[r] \in Importing /\ pc[r] \notin {"list.write", "list.fill"}
  BY <1>1 DEF Importing
<1>8. seen[r].at + n <= ver /\ (ver = seen[r].at + n => \A x \in Symbols : RowIsFresh(r, x))
  BY <1>7 DEF QuietState, Undisturbed
<1>9. seen[r].at + (n + 1) <= ver' /\ (ver' = seen[r].at + (n + 1) => ver = seen[r].at + n)
  <2> HIDE DEF n
  <2>1. QED BY <1>3, <1>6, <1>8
<1>10. eff'[r] <= ver' BY <1>3
<1>11. Cardinality(RowsIn(r, {"applied"}))' = n + 1 BY <1>2
<1> HIDE DEF n
<1>12. QED BY <1>5, <1>7, <1>8, <1>9, <1>10, <1>11 DEF QuietState, Undisturbed

\* Where a request that is served outside an import goes on reading.
LEMMA ServeReads ==
  ASSUME TypeOK, NEW r \in Requests, Proceed(r) \/ Fail(r), pc[r] \notin Importing,
         pc'[r] \in {"list.write", "list.fill"}
  PROVE  ListQuery(r) \/ (ListWriteBack(r) /\ pc[r] = "list.write" /\ seen' = seen)
<1>1. ASSUME NEW l, Goto(r, l) PROVE pc'[r] = l
  BY <1>1 DEF Goto, TypeOK
<1>2. ASSUME NEW code, Reply(r, code) PROVE pc'[r] = "done"
  BY <1>2 DEF Reply, TypeOK
<1>3. \A s \in Symbols : ~BulkRead(r, s) /\ ~BulkUpdate(r, s) /\ ~BulkUpsertMiss(r, s)
        /\ ~BulkInsert(r, s) /\ ~BulkReject(r, s)
  BY DEF BulkRead, BulkUpdate, BulkUpsertMiss, BulkInsert, BulkReject, Importing
<1>4. ~BulkFinish(r) /\ ~BulkAbort(r)
  BY DEF BulkFinish, BulkAbort, Importing
<1>5. ~ListFill(r) /\ ~SellProbe(r) /\ ~SellDropEmpty(r) /\ ~SellRecord(r) /\ ~Invalidate(r)
      /\ ~MongoError(r) /\ ~Crash(r)
  BY <1>1, <1>2 DEF ListFill, SellProbe, SellDropEmpty, SellRecord, Invalidate, MongoError, Crash
<1>6. QED BY <1>3, <1>4, <1>5 DEF Proceed, Fail, ListWriteBack, locals

\* What a request has read stays true as it goes on.
LEMMA QuietServe ==
  ASSUME IInv, FreeIds, NEW r \in Requests, Proceed(r) \/ Fail(r), QuietState(r)
  PROVE  QuietState(r)'
<1>0. TypeOK /\ StoreType BY TypeParts DEF IInv
<1>1. eff'[r] <= ver'
  BY StepCounts, QuietEff DEF QuietState
<1>2. CASE pc[r] \notin Importing
  <2>1. pc'[r] \notin Importing
    BY <1>0, <1>2, ServeApart
  <2>2. CASE pc'[r] \notin {"list.write", "list.fill"}
    BY <1>1, <2>1, <2>2 DEF QuietState
  <2>3. CASE ListQuery(r)
    <3>1. /\ docs' = docs /\ ver' = ver /\ ver \in Nat /\ seen[r].filter \in BOOLEAN
          /\ seen'[r] = [filter |-> seen[r].filter, items |-> Items(seen[r].filter), at |-> ver]
      BY <1>0, <2>3 DEF ListQuery, store, TypeOK, Seen
    <3>2. seen'[r].items = Items(seen[r].filter)'
      BY <3>1 DEF Items, Alive
    <3>3. QED BY <1>1, <2>1, <3>1, <3>2 DEF QuietState
  <2>4. CASE ListWriteBack(r) /\ pc[r] = "list.write" /\ seen' = seen
    <3>1. ver' = ver
      BY <2>4 DEF ListWriteBack
    <3>2. Items(seen[r].filter)' = Items(seen[r].filter)
      <4>1. Quiet \/ Counts(r)
        BY StepCounts
      <4>2. ~Counts(r)
        BY <1>0, <3>1 DEF Counts, Effect, TypeOK
      <4>3. ASSUME NEW f \in BOOLEAN, f = seen[r].filter
            PROVE  Items(seen[r].filter)' = Items(seen[r].filter)
        <5>1. Items(f)' = Items(f) BY <4>1, <4>2 DEF Quiet
        <5>2. QED BY <2>4, <4>3, <5>1 DEF Items
      <4>4. QED BY <1>0, <4>3 DEF TypeOK, Seen
    <3>3. QED BY <1>1, <2>1, <2>4, <3>1, <3>2 DEF QuietState
  <2>5. QED BY <1>0, <1>2, <2>2, <2>3, <2>4, ServeReads
<1>3. CASE pc[r] \in Importing
  <2>1. CASE pc'[r] \in {"invalidate", "crashed"}
    BY <1>1, <2>1 DEF QuietState, Importing
  <2>2. CASE BulkFinish(r) \/ BulkAbort(r)
    <3>1. pc'[r] = "invalidate"
      BY <1>0, <2>2 DEF BulkFinish, BulkAbort, Goto, TypeOK
    <3>2. QED BY <2>1, <3>1
  <2>3. ASSUME NEW s \in Symbols, BulkRead(r, s) \/ BulkUpsertMiss(r, s) \/ BulkReject(r, s)
        PROVE  QuietState(r)'
    <3>1. UNCHANGED store
      BY <2>3 DEF BulkRead, BulkUpsertMiss, BulkReject
    <3>2. Quiet
      BY <1>0, <3>1, QuietStock DEF store, Alive
    <3>3. QED BY <2>3, <3>2, QuietRead, QuietRow
  <2>4. ASSUME NEW s \in Symbols, BulkUpdate(r, s) \/ BulkInsert(r, s)
        PROVE  QuietState(r)'
    <3>1. pc' = pc /\ seen' = seen /\ Imports(r)
      BY <2>4 DEF BulkUpdate, BulkInsert, Imports
    <3>2. QED BY <3>1, QuietImport
  <2>5. CASE Crash(r)
    <3>1. pc'[r] = "crashed"
      BY <1>0, <2>5 DEF Crash, Goto, TypeOK
    <3>2. QED BY <2>1, <3>1
  <2>6. QED BY <1>0, <1>3, <2>2, <2>3, <2>4, <2>5, ImportMoves
<1>4. QED BY <1>2, <1>3

-----------------------------------------------------------------------------
(* The stock *)

\* An id that was not handed out stays free.
LEMMA FreeIdsStep ==
  ASSUME IInv, FreeIds, NEW r \in Requests, Arrive(r) \/ Proceed(r) \/ Fail(r)
  PROVE  FreeIds'
<1>0. StoreType BY TypeParts DEF IInv
<1>1. ASSUME born' = born, \A j \in Assets : Alive(j)' => Alive(j) PROVE FreeIds'
  BY <1>1 DEF FreeIds
<1>2. ASSUME NEW s \in Symbols, NEW q \in Nat, Insert(s, q) PROVE FreeIds'
  <2>1. \A j \in Assets \ {born + 1} : docs'[j] = docs[j]
    BY <1>0, <1>2, InsertDoc
  <2>2. born' = born + 1 /\ born \in Nat
    BY <1>0, <1>2, HoldingsAssumption DEF Insert, StoreType
  <2>3. QED BY <2>1, <2>2 DEF FreeIds, Alive, Assets
<1>3. ASSUME NEW i \in Assets, NEW q \in Nat, Sets(i, q) PROVE FreeIds'
  BY <1>0, <1>1, <1>3, SetDoc DEF Sets
<1>4. ASSUME NEW i \in Assets, Drops(i) PROVE FreeIds'
  <2>1. \A j \in Assets : Alive(j)' => Alive(j)
    BY <1>0, <1>4, DropDoc DEF Alive
  <2>2. QED BY <1>1, <1>4, <2>1 DEF Drops
<1>5. CASE UNCHANGED store
  BY <1>1, <1>5 DEF store, Alive
<1>6. CASE Arrive(r)
  BY <1>2, <1>3, <1>4, <1>5, <1>6, ArriveStock, HoldingsAssumption
     DEF ArriveWrites, AddsIt, SetsIt, DropsIt
<1>7. CASE docs' = Repriced(seen[r].items) /\ UNCHANGED <<born, ver, eff, owed>>
  BY <1>0, <1>1, <1>7, RepricedDocs
<1>8. CASE Imports(r)
  BY <1>2, <1>3, <1>8, ImportDocs DEF Oldest, Of
<1>9. QED
  BY <1>4, <1>5, <1>6, <1>7, <1>8, ServeStock DEF ServeWrites, DropsIt

\* Whatever a step does but an import's write changes the sum of a symbol's
\* documents by what it is accounted for.
Accounted == \A s \in Symbols : SumOf(s)' - SumOf(s) = owed'[s] - owed[s]

\* Proved from what each kind of write does to the sums.
LEMMA StepAccounted ==
  ASSUME IInv, FreeIds, NEW r \in Requests, Arrive(r) \/ Proceed(r) \/ Fail(r), ~Imports(r)
  PROVE  Accounted
<1>0. StoreType /\ \A s \in Symbols : owed[s] \in Int
  BY TypeParts DEF IInv, StoreType
<1>1. \A x \in Symbols : SumOf(x) \in Int
  <2>1. ASSUME NEW x \in Symbols PROVE SumOf(x) \in Int
    <3>1. \A j \in Of(x) : docs[j].qty \in Int
      BY <1>0, QtyType DEF Of
    <3>2. QED BY <3>1, SumOfIs, OfIsFinite, QtyInt
  <2>2. QED BY <2>1
<1>2. ASSUME NEW s \in Symbols, NEW d \in Int, Effect(r, s, d),
             \A x \in Symbols : SumOf(x)' = SumOf(x) + (IF x = s THEN d ELSE 0)
      PROVE  Accounted
  <2>1. \A x \in Symbols : owed'[x] = owed[x] + (IF x = s THEN d ELSE 0)
    BY <1>0, <1>2 DEF Effect, StoreType
  <2>2. QED BY <1>0, <1>1, <1>2, <2>1 DEF Accounted
<1>3. ASSUME owed' = owed, \A j \in Assets : Alive(j)' <=> Alive(j),
             \A j \in Assets : Alive(j) => docs'[j].sym = docs[j].sym /\ docs'[j].qty = docs[j].qty
      PROVE  Accounted
  <2>1. \A x \in Symbols : SumOf(x)' = SumOf(x)
    BY <1>0, <1>3, SameSum
  <2>2. QED BY <1>0, <1>1, <1>3, <2>1 DEF Accounted
<1>4. CASE UNCHANGED store
  BY <1>3, <1>4 DEF store, Alive
<1>5. ASSUME NEW i \in Assets, DropsIt(r, i) PROVE Accounted
  <2>1. docs[i].sym \in Symbols /\ -docs[i].qty \in Int
    <3>1. docs[i].sym \in Symbols /\ docs[i].qty \in Nat
      BY <1>0, <1>5, QtyType DEF DropsIt, Drops
    <3>2. QED BY <3>1
  <2>2. \A x : SumOf(x)' = SumOf(x) + (IF x = docs[i].sym THEN -docs[i].qty ELSE 0)
    BY <1>0, <1>5, DropSum DEF DropsIt
  <2>3. QED BY <1>2, <1>5, <2>1, <2>2 DEF DropsIt
<1>6. ASSUME NEW i \in Assets, NEW q \in Nat, SetsIt(r, i, q) PROVE Accounted
  <2>1. docs[i].sym \in Symbols /\ q - docs[i].qty \in Int
    <3>1. docs[i].sym \in Symbols /\ docs[i].qty \in Nat
      BY <1>0, <1>6, QtyType DEF SetsIt, Sets
    <3>2. QED BY <3>1
  <2>2. \A x : SumOf(x)' = SumOf(x) + (IF x = docs[i].sym THEN q - docs[i].qty ELSE 0)
    BY <1>0, <1>6, SetSum DEF SetsIt
  <2>3. QED BY <1>2, <1>6, <2>1, <2>2 DEF SetsIt
<1>7. ASSUME NEW s \in Symbols, NEW q \in Amounts, AddsIt(r, s, q) PROVE Accounted
  <2>1. q \in Nat BY HoldingsAssumption
  <2>2. \A x : SumOf(x)' = SumOf(x) + (IF x = s THEN q ELSE 0)
    BY <1>0, <1>7, <2>1, InsertSum DEF AddsIt
  <2>3. QED BY <1>2, <1>7, <2>1, <2>2 DEF AddsIt
<1>8. CASE Arrive(r)
  BY <1>4, <1>5, <1>6, <1>7, <1>8, ArriveStock DEF ArriveWrites
<1>9. CASE docs' = Repriced(seen[r].items) /\ UNCHANGED <<born, ver, eff, owed>>
  BY <1>0, <1>3, <1>9, RepricedDocs
<1>10. QED BY <1>4, <1>5, <1>8, <1>9, ServeStock DEF ServeWrites

\* The sale that sold a document out is still there to remove it.
LEMMA EmptyingStays ==
  ASSUME IInv, NEW r \in Requests, Arrive(r) \/ Proceed(r) \/ Fail(r),
         \A p \in Requests \ {r} : Same(p),
         NEW i \in Assets, NEW p \in Requests, Emptying(p, i),
         ~(SellDropEmpty(r) /\ job[r].asset = i)
  PROVE  Emptying(p, i)'
<1>0. TypeOK BY DEF IInv
<1>1. CASE p # r
  BY <1>1 DEF Emptying, Same, IsSale
<1>2. CASE p = r
  <2>1. ~Arrive(r)
    <3>1. Arrive(r) => pc[r] = "new" /\ job[r] = NoJob
      BY <1>0, ArriveFrom DEF IInv, SaleInv, SaleState
    <3>2. QED BY <1>2, <3>1 DEF Emptying, IsSale, NoJob
  <2>2. job' = job
    BY <2>1, JobStays
  <2>3. pc[r] = "sell.empty"
    <3>1. SaleState(r) BY DEF IInv, SaleInv
    <3>2. pc[r] # "done" => answer[r] # "500" BY <3>1 DEF SaleState
    <3>3. QED BY <1>2, <2>1, <3>2, ServeFrom DEF Emptying
  <2>4. MongoError(r) \/ Crash(r)
    BY <1>2, <2>1, <2>3 DEF Proceed, Fail, ListQuery, ListWriteBack, ListFill, SellProbe,
       SellDropEmpty, SellRecord, BulkRead, BulkUpdate, BulkUpsertMiss, BulkInsert, BulkFinish,
       Invalidate, BulkReject, BulkAbort, Emptying
  <2>5. pc'[r] = "crashed" \/ answer'[r] = "500"
    BY <1>0, <2>4 DEF MongoError, Crash, Goto, Reply, TypeOK
  <2>6. QED BY <1>2, <2>2, <2>5 DEF Emptying, IsSale
<1>3. QED BY <1>1, <1>2

\* No step leaves a sold-out document behind.
LEMMA OrphanStep ==
  ASSUME IInv, FreeIds, NoOrphanedEmptyRow, NEW r \in Requests, Arrive(r) \/ Proceed(r) \/ Fail(r),
         \A p \in Requests \ {r} : Same(p), ImportState(r)
  PROVE  NoOrphanedEmptyRow'
<1>0. StoreType /\ Dust \in Nat BY TypeParts, HoldingsAssumption DEF IInv
<1> SUFFICES ASSUME NEW i \in Assets, Alive(i)', docs'[i].qty <= Dust
             PROVE  \E p \in Requests : Emptying(p, i)'
  BY DEF NoOrphanedEmptyRow
\* Either the document was as empty before, or it is the step that emptied it.
<1>1. ASSUME Alive(i), docs[i].qty <= Dust, ~(SellDropEmpty(r) /\ job[r].asset = i)
      PROVE  \E p \in Requests : Emptying(p, i)'
  <2>1. PICK p \in Requests : Emptying(p, i)
    BY <1>1 DEF NoOrphanedEmptyRow
  <2>2. QED BY <1>1, <2>1, EmptyingStays
<1>2. ASSUME docs'[i] = docs[i], ~(SellDropEmpty(r) /\ job[r].asset = i)
      PROVE  \E p \in Requests : Emptying(p, i)'
  BY <1>1, <1>2 DEF Alive
<1>3. ASSUME NEW j \in Assets, NEW q \in Nat, Sets(j, q), q > Dust,
             ~(SellDropEmpty(r) /\ job[r].asset = i)
      PROVE  \E p \in Requests : Emptying(p, i)'
  <2>1. i # j
    BY <1>0, <1>3, SetDoc
  <2>2. QED BY <1>0, <1>2, <1>3, <2>1, SetDoc
<1>4. ASSUME NEW s \in Symbols, NEW q \in Nat, Insert(s, q), q > Dust,
             ~(SellDropEmpty(r) /\ job[r].asset = i)
      PROVE  \E p \in Requests : Emptying(p, i)'
  <2>1. docs'[born + 1].qty = q /\ \A j \in Assets \ {born + 1} : docs'[j] = docs[j]
    <3>1. /\ docs'[born + 1] = [sym |-> s, qty |-> q, price |-> "cost"]
          /\ \A j \in Assets \ {born + 1} : docs'[j] = docs[j]
      BY <1>0, <1>4, InsertDoc
    <3>2. QED BY <3>1
  <2>2. i # born + 1
    BY <1>0, <1>4, <2>1
  <2>3. QED BY <1>2, <1>4, <2>1, <2>2
<1>5. CASE Arrive(r)
  <2>0. ~SellDropEmpty(r)
    BY <1>5, ArriveFrom DEF SellDropEmpty, IInv
  <2>1. CASE UNCHANGED store
    BY <1>2, <2>0, <2>1 DEF store
  <2>2. ASSUME NEW s \in Symbols, NEW q \in Amounts, AddsIt(r, s, q)
        PROVE  \E p \in Requests : Emptying(p, i)'
    BY <1>4, <2>0, <2>2, HoldingsAssumption DEF AddsIt
  <2>3. ASSUME NEW j \in Assets, DropsIt(r, j)
        PROVE  \E p \in Requests : Emptying(p, i)'
    BY <1>0, <1>2, <2>0, <2>3, DropDoc DEF DropsIt, Alive
  <2>4. ASSUME NEW j \in Assets, NEW q \in Nat, SetsIt(r, j, q),
               \/ q > Dust \/ q = docs[j].qty
               \/ pc'[r] = "sell.empty" /\ job'[r].asset = j /\ job'[r].op = "sell"
        PROVE  \E p \in Requests : Emptying(p, i)'
    <3>1. CASE i # j
      BY <1>0, <1>2, <2>0, <2>4, <3>1, SetDoc DEF SetsIt
    <3>2. CASE i = j /\ q > Dust
      BY <1>3, <2>0, <2>4, <3>2 DEF SetsIt
    <3>3. CASE i = j /\ q = docs[j].qty
      <4>1. docs'[i].qty = docs[i].qty /\ Alive(i)
        BY <1>0, <2>4, <3>3, SetDoc DEF SetsIt, Sets
      <4>2. QED BY <1>1, <2>0, <4>1
    <3>4. CASE i = j /\ pc'[r] = "sell.empty" /\ job'[r].asset = j /\ job'[r].op = "sell"
      BY <3>4 DEF Emptying, IsSale
    <3>5. QED BY <2>4, <3>1, <3>2, <3>3, <3>4
  <2>5. QED BY <1>5, <2>1, <2>2, <2>3, <2>4, ArriveStock DEF ArriveWrites
<1>6. CASE SellDropEmpty(r) /\ job[r].asset = i
  <2>1. ~StillEmpty(i)
    BY <1>6, DropDoc, <1>0 DEF SellDropEmpty, StillEmpty, Alive, StoreType
  <2>2. docs' = docs
    BY <1>6, <2>1 DEF SellDropEmpty, store
  <2>3. QED BY <2>1, <2>2 DEF StillEmpty, Alive
<1>7. CASE (Proceed(r) \/ Fail(r)) /\ ~(SellDropEmpty(r) /\ job[r].asset = i)
  <2>1. CASE UNCHANGED store
    BY <1>2, <1>7, <2>1 DEF store
  <2>2. CASE docs' = Repriced(seen[r].items) /\ UNCHANGED <<born, ver, eff, owed>>
    <3>1. Alive(i) /\ docs'[i].qty = docs[i].qty
      BY <1>0, <2>2, RepricedDocs
    <3>2. QED BY <1>1, <1>7, <3>1
  <2>3. CASE job[r].asset \in Assets /\ DropsIt(r, job[r].asset)
    BY <1>0, <1>2, <1>7, <2>3, DropDoc DEF DropsIt, Alive
  <2>4. CASE Imports(r)
    <3>1. PICK s \in Symbols :
           /\ plan[r][s].st \in {"planned", "insert"} /\ plan[r][s].total \in Nat
           /\ \/ \E j \in Oldest(s) : Sets(j, plan[r][s].total)
              \/ Insert(s, plan[r][s].total)
      BY <2>4, ImportDocs
    <3>2. plan[r][s].total > Dust
      BY <3>1 DEF ImportState
    <3>3. QED BY <1>3, <1>4, <1>7, <3>1, <3>2 DEF Oldest, Of
  <2>5. QED BY <1>7, <2>1, <2>2, <2>3, <2>4, ServeStock DEF ServeWrites
<1>8. QED BY <1>5, <1>6, <1>7

\* Nothing but the owner's delete, and the clean-up of a row that is still
\* empty, removes a document.
LEMMA RemovalStep ==
  ASSUME IInv, FreeIds, NEW r \in Requests, Arrive(r) \/ Proceed(r) \/ Fail(r),
         NEW i \in Assets, Alive(i), docs'[i] = NoDoc
  PROVE  docs[i].qty <= Dust \/ (job'[r].op = "delete" /\ pc[r] = "new" /\ pc'[r] # "new")
<1>0. StoreType BY TypeParts DEF IInv
<1>1. \A j \in Assets, q \in Nat : ~Sets(j, q)
  <2>1. ASSUME NEW j \in Assets, NEW q \in Nat, Sets(j, q) PROVE FALSE
    BY <1>0, <2>1, SetDoc DEF Alive
  <2>2. QED BY <2>1
<1>2. \A s \in Symbols, q \in Nat : ~Insert(s, q)
  <2>1. ASSUME NEW s \in Symbols, NEW q \in Nat, Insert(s, q) PROVE FALSE
    BY <1>0, <2>1, InsertDoc DEF Alive
  <2>2. QED BY <2>1
<1>3. ASSUME NEW j \in Assets, Drops(j) PROVE i = j
  BY <1>0, <1>3, DropDoc DEF Alive
<1>4. ~UNCHANGED store
  BY DEF store, Alive
<1>5. CASE Arrive(r)
  BY <1>1, <1>2, <1>3, <1>4, <1>5, ArriveStock, HoldingsAssumption
     DEF ArriveWrites, AddsIt, SetsIt, DropsIt
<1>6. ~(docs' = Repriced(seen[r].items))
  BY <1>0, RepricedDocs DEF Alive
<1>7. ~Imports(r)
  BY <1>1, <1>2, ImportDocs DEF Oldest, Of
<1>8. QED
  BY <1>3, <1>4, <1>5, <1>6, <1>7, ServeStock DEF ServeWrites, DropsIt, StillEmpty

-----------------------------------------------------------------------------
(* The cached portfolio *)

Reads == {"list.query", "list.write", "list.fill"}

\* A listing writes nothing.
ListState(r) == pc[r] \in Reads => eff[r] = 0

\* A listing stays without writes.
LEMMA ListStep ==
  ASSUME IInv, NEW r \in Requests, Arrive(r) \/ Proceed(r) \/ Fail(r), ListState(r)
  PROVE  ListState(r)'
<1>0. TypeOK /\ SaleState(r) BY DEF IInv, SaleInv
<1>1. ASSUME NEW l, Goto(r, l) PROVE pc'[r] = l
  BY <1>0, <1>1 DEF Goto, TypeOK
<1>2. ASSUME NEW code, Reply(r, code) PROVE pc'[r] = "done"
  BY <1>0, <1>2 DEF Reply, TypeOK
<1>3. CASE Arrive(r)
  <2>1. CASE \E filter \in BOOLEAN : ListMiss(r, filter)
    <3>1. eff'[r] = 0
      BY <1>0, <2>1, <1>3, ArriveFrom DEF ListMiss, store, SaleState
    <3>2. QED BY <3>1 DEF ListState
  <2>2. CASE ~\E filter \in BOOLEAN : ListMiss(r, filter)
    <3>1. pc'[r] \notin Reads
      BY <1>1, <1>2, <1>3, <2>2 DEF Arrive, ListHit, CreateInsert, SellRejected, SellTake,
         UpdateApply, DeleteApply, BulkStart, Reads
    <3>2. QED BY <3>1 DEF ListState
  <2>3. QED BY <2>1, <2>2
<1>4. CASE Proceed(r) \/ Fail(r)
  <2>1. CASE ListQuery(r) \/ ListWriteBack(r)
    <3>1. eff'[r] = 0
      BY <2>1 DEF ListQuery, ListWriteBack, store, ListState, Reads
    <3>2. QED BY <3>1 DEF ListState
  <2>2. CASE pc[r] \in Importing
    <3>1. pc'[r] \notin Reads
      <4>1. BulkFinish(r) \/ BulkAbort(r) => pc'[r] = "invalidate"
        BY <1>1 DEF BulkFinish, BulkAbort
      <4>2. QED BY <1>0, <1>4, <2>2, <4>1, ImportMoves DEF Importing, Reads
    <3>2. QED BY <3>1 DEF ListState
  <2>3. CASE pc[r] \notin Importing /\ ~(ListQuery(r) \/ ListWriteBack(r))
    <3>1. pc'[r] \notin {"list.write", "list.fill"}
      BY <1>0, <1>4, <2>3, ServeReads
    <3>2. pc'[r] # "list.query"
      <4>1. \A s \in Symbols : ~BulkRead(r, s) /\ ~BulkUpdate(r, s) /\ ~BulkUpsertMiss(r, s)
              /\ ~BulkInsert(r, s) /\ ~BulkReject(r, s)
        BY <2>3 DEF BulkRead, BulkUpdate, BulkUpsertMiss, BulkInsert, BulkReject, Importing
      <4>2. QED
        BY <1>1, <1>2, <1>4, <2>3, <4>1 DEF Proceed, Fail, ListFill, SellProbe, SellDropEmpty,
           SellRecord, BulkFinish, Invalidate, BulkAbort, MongoError, Crash
    <3>3. QED BY <3>1, <3>2 DEF ListState, Reads
  <2>4. QED BY <2>1, <2>2, <2>3
<1>5. QED BY <1>3, <1>4

\* Who answers 200.
LEMMA Answers200 ==
  ASSUME IInv, NEW r \in Requests, Arrive(r) \/ Proceed(r) \/ Fail(r), answer'[r] = "200"
  PROVE  ListHit(r) \/ ListFill(r) \/ Invalidate(r)
<1>0. TypeOK /\ SaleState(r) BY DEF IInv, SaleInv
<1>1. answer[r] = "none"
  BY <1>0, ArriveFrom, ServeFrom DEF SaleState
<1>2. ASSUME NEW l, Goto(r, l) PROVE FALSE
  BY <1>0, <1>1, <1>2 DEF Goto
<1>3. ASSUME NEW code, Reply(r, code) PROVE code = "200"
  BY <1>0, <1>3 DEF Reply, TypeOK
<1>4. CASE Arrive(r)
  BY <1>2, <1>3, <1>4 DEF Arrive, ListMiss, CreateInsert, SellRejected, SellTake,
     UpdateApply, DeleteApply, DeleteMissingCode, BulkStart
<1>5. ASSUME NEW s \in Symbols PROVE ~BulkUpdate(r, s) /\ ~BulkUpsertMiss(r, s) /\ ~BulkInsert(r, s)
                                     /\ ~BulkReject(r, s) /\ ~BulkRead(r, s)
  BY <1>1, <1>2 DEF BulkUpdate, BulkUpsertMiss, BulkInsert, BulkReject, BulkRead
<1>6. CASE Proceed(r)
  BY <1>2, <1>3, <1>5, <1>6 DEF Proceed, ListQuery, ListWriteBack, SellProbe, SellDropEmpty,
     SellRecord, BulkFinish
<1>7. CASE Fail(r)
  BY <1>2, <1>3, <1>5, <1>7 DEF Fail, BulkAbort, MongoError, Crash
<1>8. QED BY <1>4, <1>6, <1>7

\* Who touches the entry.
LEMMA CacheMoves ==
  ASSUME NEW r \in Requests, Arrive(r) \/ Proceed(r) \/ Fail(r), cache' # cache
  PROVE  (ListFill(r) /\ cache' = [items |-> seen[r].items, asOf |-> ver] /\ ~AssetTypeGiven(seen[r]))
         \/ (Invalidate(r) /\ cache' = NoCache)
<1>1. ~Arrive(r)
  BY DEF Arrive, ListHit, ListMiss, CreateInsert, SellRejected, SellTake,
     UpdateApply, DeleteApply, BulkStart
<1>2. ~Fail(r)
  BY DEF Fail, BulkReject, BulkAbort, MongoError, Crash
<1>3. QED
  BY <1>1, <1>2 DEF Proceed, ListQuery, ListWriteBack, ListFill, SellProbe, SellDropEmpty,
     SellRecord, BulkRead, BulkUpdate, BulkUpsertMiss, BulkInsert, BulkFinish, Invalidate, DropsEntry

\* An entry put before a write is gone when the write is answered.
LEMMA EntryStep ==
  ASSUME IInv, NEW r \in Requests, Arrive(r) \/ Proceed(r) \/ Fail(r),
         \A p \in Requests \ {r} : Same(p),
         \A p \in Requests : QuietState(p), ListState(r), "redis" \notin Faults,
         NoEntrySurvivesAWrite
  PROVE  NoEntrySurvivesAWrite'
<1>0. TypeOK /\ SaleState(r) BY DEF IInv, SaleInv
<1>1. CASE cache' # cache
  <2>1. CASE cache' = NoCache
    BY <2>1 DEF NoEntrySurvivesAWrite
  <2>2. CASE ListFill(r) /\ cache' = [items |-> seen[r].items, asOf |-> ver]
    <3>1. \A p \in Requests : eff'[p] = eff[p] /\ eff[p] <= ver
      BY <2>2 DEF ListFill, store, QuietState
    <3>2. QED BY <2>2, <3>1 DEF NoEntrySurvivesAWrite
  <2>3. QED BY <1>1, <2>1, <2>2, CacheMoves
<1>2. CASE cache' = cache
  <2> SUFFICES ASSUME cache # NoCache, NEW p \in Requests, answer'[p] = "200"
               PROVE  cache.asOf >= eff'[p]
    BY <1>2 DEF NoEntrySurvivesAWrite
  <2>1. CASE p # r
    BY <2>1 DEF NoEntrySurvivesAWrite, Same
  <2>2. CASE p = r
    <3>1. ~Invalidate(r)
      BY <1>2 DEF Invalidate, DropsEntry
    <3>2. CASE ListHit(r)
      BY <1>0, <2>2, <3>2 DEF ListHit, Admit, SaleState, store, TypeOK, Entry
    <3>3. CASE ListFill(r)
      BY <1>0, <2>2, <3>3 DEF ListFill, ListState, Reads, store, TypeOK, Entry
    <3>4. QED BY <2>2, <3>1, <3>2, <3>3, Answers200
  <2>3. QED BY <2>1, <2>2
<1>3. QED BY <1>1, <1>2

-----------------------------------------------------------------------------
(* The invariant of the stock *)

RequestState(r) == ImportState(r) /\ CountState(r) /\ QuietState(r) /\ ListState(r)

\* Without imports the stock is conserved; without failing invalidations the
\* entry is never older than an answered write.  The rest holds in any case.
HInv ==
  /\ IInv /\ FreeIds /\ NoOrphanedEmptyRow
  /\ \A r \in Requests : RequestState(r)
  /\ "bulk" \notin Handlers => Conservation
  /\ "redis" \notin Faults  => NoEntrySurvivesAWrite

\* The empty store satisfies it.
LEMMA InitHInv == Init => HInv
<1> SUFFICES ASSUME Init PROVE HInv
  OBVIOUS
<1>1. IInv BY InitInv
<1>2. FreeIds /\ NoOrphanedEmptyRow
  BY DEF Init, FreeIds, NoOrphanedEmptyRow, Alive
<1>3. ASSUME NEW r \in Requests PROVE RequestState(r)
  <2>1. RowsIn(r, {"ask"}) = {}
    BY DEF Init, RowsIn, NoRow
  <2>2. ImportState(r)
    BY DEF Init, ImportState, Importing, Waiting, NoRow, NoJob
  <2>3. CountState(r) /\ QuietState(r) /\ ListState(r)
    BY DEF Init, CountState, QuietState, ListState, Reads, Importing, NoJob
  <2>4. QED BY <2>2, <2>3 DEF RequestState
<1>4. Conservation
  <2>1. ASSUME NEW s \in Symbols PROVE SumOf(s) = 0
    <3>1. Of(s) = {} BY DEF Init, Of, Alive
    <3>2. QED BY <3>1, SumOfIs, QtyEmpty
  <2>2. QED BY <2>1 DEF Init, Conservation
<1>5. NoEntrySurvivesAWrite
  BY DEF Init, NoEntrySurvivesAWrite
<1>6. QED BY <1>1, <1>2, <1>3, <1>4, <1>5 DEF HInv

\* What a step leaves alone stays well formed.
LEMMA AloneState ==
  ASSUME IInv, NEW r \in Requests, Quiet \/ Counts(r), NEW p \in Requests \ {r}, Alone(p),
         RequestState(p)
  PROVE  RequestState(p)'
<1>1. QuietState(p)'
  BY QuietOthers DEF RequestState
<1>2. ImportState(p)'
  BY DEF RequestState, ImportState, Alone, Same, RowsIn
<1>3. CountState(p)'
  BY DEF RequestState, CountState, Counted, Alone, Same, RowsIn
<1>4. ListState(p)'
  BY DEF RequestState, ListState, Alone, Same
<1>5. QED BY <1>1, <1>2, <1>3, <1>4 DEF RequestState

\* A step of a request keeps the invariant.
LEMMA StepHInv ==
  ASSUME HInv, NEW r \in Requests, Arrive(r) \/ Proceed(r) \/ Fail(r)
  PROVE  HInv'
<1>0. IInv /\ TypeOK /\ FreeIds /\ RequestState(r) /\ \A p \in Requests : QuietState(p)
  BY DEF HInv, IInv, RequestState
<1>1. IInv'
  BY <1>0, StepInv DEF Next
<1>2. \A p \in Requests \ {r} : Alone(p) /\ Same(p)
  BY <1>0, ArriveAlone, ServeAlone DEF Alone
<1>3. FreeIds'
  BY <1>0, FreeIdsStep
<1>4. NoOrphanedEmptyRow'
  BY <1>0, <1>2, OrphanStep DEF HInv, RequestState
<1>5. RequestState(r)'
  BY <1>0, <1>1, ImportArrive, ImportServe, CountStep, QuietArrive, QuietServe, ListStep
     DEF RequestState
<1>6. \A p \in Requests \ {r} : RequestState(p)'
  BY <1>0, <1>2, StepCounts, AloneState DEF HInv
<1>7. "bulk" \notin Handlers => Conservation'
  <2> SUFFICES ASSUME "bulk" \notin Handlers PROVE Conservation'
    OBVIOUS
  <2>1. ~Imports(r)
    BY <1>0 DEF Imports, BulkUpdate, BulkInsert, RequestState, ImportState, Importing
  <2>2. Accounted /\ Conservation
    BY <1>0, <2>1, StepAccounted DEF HInv
  <2>3. \A s \in Symbols : owed[s] \in Int /\ owed'[s] \in Int
    BY <1>0, <1>1 DEF IInv, TypeOK
  <2>4. ASSUME NEW s \in Symbols PROVE SumOf(s)' \in Int
    <3>1. \A j \in Of(s)' : docs'[j].qty \in Int
      BY <1>1 DEF IInv, TypeOK, Of, Alive, Doc
    <3>2. QED BY <3>1, SumOfIsNext, OfIsFiniteNext, QtyInt
  <2>5. QED BY <2>2, <2>3, <2>4 DEF Accounted, Conservation
<1>8. "redis" \notin Faults => NoEntrySurvivesAWrite'
  BY <1>0, <1>2, EntryStep DEF HInv, RequestState
<1>9. QED BY <1>1, <1>3, <1>4, <1>5, <1>6, <1>7, <1>8 DEF HInv

\* A step of no request: the entry expires, or nothing happens.
LEMMA RestHInv ==
  ASSUME HInv, UNCHANGED <<docs, born, ledger, pc, job, seen, plan, tally, answer, ver, eff, owed>>,
         cache' \in {cache, NoCache}
  PROVE  HInv'
<1>1. IInv'
  <2>1. CacheType' BY DEF HInv, IInv, TypeOK, CacheType
  <2>2. QED BY <2>1, StillInv DEF HInv
<1>2. FreeIds' /\ NoOrphanedEmptyRow'
  BY DEF HInv, FreeIds, NoOrphanedEmptyRow, Alive, Emptying, IsSale
<1>3. ASSUME NEW r \in Requests PROVE RequestState(r)'
  <2>1. RequestState(r) BY DEF HInv
  <2>2. ImportState(r)' /\ CountState(r)' /\ ListState(r)'
    BY <2>1 DEF RequestState, ImportState, CountState, Counted, ListState, RowsIn
  <2>3. QuietState(r)'
    <3>1. \A s \in Symbols : RowIsFresh(r, s) => RowIsFresh(r, s)'
      <4>1. \A s \in Symbols : Of(s)' = Of(s) /\ HeldOf(s)' = HeldOf(s)
        BY DEF HeldOf, Oldest, Of, Alive
      <4>2. QED BY <4>1 DEF RowIsFresh, BulkTotal
    <3>2. Undisturbed(r)' <=> Undisturbed(r)
      BY DEF Undisturbed, RowsIn
    <3>3. Cardinality(RowsIn(r, {"applied"}))' = Cardinality(RowsIn(r, {"applied"}))
      BY DEF RowsIn
    <3>4. Items(seen[r].filter)' = Items(seen[r].filter)
      BY DEF Items, Alive
    <3>5. QuietState(r) BY <2>1 DEF RequestState
    <3>6. QED BY <3>1, <3>2, <3>3, <3>4, <3>5 DEF QuietState
  <2>4. QED BY <2>2, <2>3 DEF RequestState
<1>4. \A s \in Symbols : SumOf(s)' = SumOf(s)
  BY SumOfIs, SumOfIsNext DEF Of, Alive
<1>5. Conservation => Conservation'
  BY <1>4 DEF Conservation
<1>6. NoEntrySurvivesAWrite => NoEntrySurvivesAWrite'
  BY DEF NoEntrySurvivesAWrite
<1>7. QED BY <1>1, <1>2, <1>3, <1>5, <1>6 DEF HInv

\* So does every step.
LEMMA NextHInv == HInv /\ [Next]_vars => HInv'
<1> SUFFICES ASSUME HInv, [Next]_vars PROVE HInv'
  OBVIOUS
<1>1. CASE \E r \in Requests : Arrive(r) \/ Proceed(r) \/ Fail(r)
  BY <1>1, StepHInv
<1>2. CASE Expire
  BY <1>2, RestHInv DEF Expire, store, locals
<1>3. CASE UNCHANGED vars
  BY <1>3, RestHInv DEF vars
<1>4. QED BY <1>1, <1>2, <1>3 DEF Next, Idle

\* The invariant of the stock: the ids, the reads and rows of every request, the
\* empty rows, and, under their hypotheses, the sums and the entry.
THEOREM StockInvariant == Spec => []HInv
BY InitHInv, NextHInv, PTL DEF Spec

\* Conservation and no orphan, for any number of lists, creates, sales, edits and
\* deletes in flight: a symbol's documents add up to what was deposited less what
\* was sold, edited away or removed.  Only handlers that compute a total and write
\* it later (bulk_create_assets) break it, hence the hypothesis.
THEOREM StockIsConserved ==
  ASSUME "bulk" \notin Handlers
  PROVE  Spec => []StockInv
<1>1. HInv => StockInv
  BY DEF HInv, StockInv
<1>2. QED BY <1>1, StockInvariant, PTL

\* A document at or below Dust is there only while the sale that emptied it is
\* about to remove it, or has failed before it could: sell_asset's delete_one.
THEOREM EmptyRowsAreRemoved == Spec => []NoOrphanedEmptyRow
<1>1. HInv => NoOrphanedEmptyRow
  BY DEF HInv
<1>2. QED BY <1>1, StockInvariant, PTL

\* Even while imports run, they alone miscount: every other step moves the sum of
\* each symbol by exactly what it is accounted for.
THEOREM OnlyImportsMiscount ==
  Spec => [][(\A r \in Requests : ~Imports(r)) => Accounted]_vars
<1>1. HInv /\ [Next]_vars => [(\A r \in Requests : ~Imports(r)) => Accounted]_vars
  <2> SUFFICES ASSUME HInv, Next, \A r \in Requests : ~Imports(r)
               PROVE  Accounted
    OBVIOUS
  <2>1. CASE \E r \in Requests : Arrive(r) \/ Proceed(r) \/ Fail(r)
    BY <2>1, StepAccounted DEF HInv
  <2>2. CASE Expire \/ Idle
    <3>1. docs' = docs /\ owed' = owed
      BY <2>2 DEF Expire, Idle, vars, store
    <3>2. StoreType
      BY TypeParts DEF HInv, IInv
    <3>3. \A s \in Symbols : SumOf(s)' = SumOf(s) /\ SumOf(s) \in Int /\ owed[s] \in Int
      BY <3>1, <3>2, SameSum DEF Alive, StoreType
    <3>4. QED BY <3>1, <3>3 DEF Accounted
  <2>3. QED BY <2>1, <2>2 DEF Next
<1>2. QED BY <1>1, StockInvariant, PTL DEF Spec

\* A document with stock goes by delete_asset only: delete_one in sell_asset tests
\* the quantity again.
THEOREM RemovalsAreDeletes == Spec => OnlyDeletesRemoveStock
<1>1. HInv /\ [Next]_vars => [\A i \in Assets : Alive(i) /\ docs'[i] = NoDoc =>
       \/ docs[i].qty <= Dust
       \/ \E r \in Requests : job'[r].op = "delete" /\ pc[r] = "new" /\ pc'[r] # "new"]_vars
  <2> SUFFICES ASSUME HInv, Next, NEW i \in Assets, Alive(i), docs'[i] = NoDoc
               PROVE  \/ docs[i].qty <= Dust
                      \/ \E r \in Requests : job'[r].op = "delete" /\ pc[r] = "new" /\ pc'[r] # "new"
    OBVIOUS
  <2>1. ~Expire /\ ~Idle
    BY DEF Expire, Idle, vars, store, Alive
  <2>2. QED BY <2>1, RemovalStep DEF HInv, Next
<1>2. QED BY <1>1, StockInvariant, PTL DEF Spec, OnlyDeletesRemoveStock

\* The entry in Redis is never older than a write that was answered 200, as long as
\* Redis answers the invalidation: a timeout is swallowed and leaves the entry.
THEOREM EntriesAreFresh ==
  ASSUME "redis" \notin Faults
  PROVE  Spec => []NoEntrySurvivesAWrite
<1>1. HInv => NoEntrySurvivesAWrite
  BY DEF HInv
<1>2. QED BY <1>1, StockInvariant, PTL

\* bulk_create_assets reports each row as one success or one failure, and no
\* success it did not apply, whatever fails on the way.
THEOREM ImportsAreCounted == Spec => []BulkTally
<1>1. HInv => BulkTally
  BY DEF HInv, BulkTally, RequestState, CountState, Counted
<1>2. QED BY <1>1, StockInvariant, PTL

-----------------------------------------------------------------------------
(* Requests nobody disturbed *)

\* A listing that fills the entry while no write has come since it read caches
\* all of the portfolio: its `asset_type' guard lets no filtered listing through.
LEMMA FillStep ==
  ASSUME HInv, NEW r \in Requests, Arrive(r) \/ Proceed(r) \/ Fail(r),
         NEW p \in Requests, pc[p] = "list.fill", pc'[p] = "done", cache' # cache, seen[p].at = ver
  PROVE  cache'.items = Items(FALSE)
<1>0. IInv /\ TypeOK BY DEF HInv, IInv
<1>1. p = r
  BY <1>0, ArriveAlone, ServeAlone DEF Alone, Same
<1>2. ~Invalidate(r)
  BY <1>1 DEF Invalidate
<1>3. cache' = [items |-> seen[r].items, asOf |-> ver] /\ ~AssetTypeGiven(seen[r])
  BY <1>2, CacheMoves
<1>4. seen[r].items = Items(seen[r].filter)
  BY <1>1 DEF HInv, RequestState, QuietState
<1>5. seen[r].filter = FALSE
  BY <1>0, <1>3 DEF AssetTypeGiven, TypeOK, Seen
<1>6. QED BY <1>3, <1>4, <1>5

\* Rows become "applied" by an import's own write, and no other step.
LEMMA AppliedBy ==
  ASSUME HInv, NEW r \in Requests, Arrive(r) \/ Proceed(r) \/ Fail(r),
         NEW p \in Requests, NEW s \in Symbols,
         plan[p][s].st # "applied", plan'[p][s].st = "applied"
  PROVE  p = r /\ Imports(r)
<1>0. IInv /\ TypeOK BY DEF HInv, IInv
<1>1. p = r
  BY <1>0, ArriveAlone, ServeAlone DEF Alone
<1>2. ~Arrive(r)
  <2>1. ASSUME NEW rows \in Rows, BulkStart(r, rows) PROVE FALSE
    <3>1. plan'[r][s] = IF s \in DOMAIN rows THEN [st |-> "ask", add |-> rows[s], total |-> 0]
                        ELSE NoRow
      BY <1>0, <2>1 DEF BulkStart, TypeOK
    <3>2. CASE s \in DOMAIN rows
      BY <1>1, <3>1, <3>2
    <3>3. CASE s \notin DOMAIN rows
      BY <1>1, <3>1, <3>3 DEF NoRow
    <3>4. QED BY <3>2, <3>3
  <2>2. ~\E rows \in Rows : BulkStart(r, rows)
    BY <2>1
  <2>3. plan' # plan
    BY DEF TypeOK
  <2>4. QED
    BY <2>2, <2>3 DEF Arrive, ListHit, ListMiss, CreateInsert, SellRejected, SellTake,
       UpdateApply, DeleteApply
<1>3. ASSUME NEW x \in Symbols, BulkRead(r, x) PROVE FALSE
  <2>1. CASE SetRow(r, x, "failed")
    BY <1>0, <1>1, <2>1 DEF SetRow, TypeOK, Row
  <2>2. ASSUME NEW held,
               plan' = [plan EXCEPT ![r][x].st = "planned",
                                    ![r][x].total = BulkTotal(held, plan[r][x].add)]
        PROVE  FALSE
    <3>1. /\ \A y \in Symbols \ {x} : plan'[r][y] = plan[r][y]
          /\ plan'[r][x] = [plan[r][x] EXCEPT !.st = "planned",
                                             !.total = BulkTotal(held, plan[r][x].add)]
      BY <1>0, <2>2 DEF TypeOK
    <3>2. plan[r][x] \in Row BY <1>0 DEF TypeOK
    <3>3. plan'[r][x].st = "planned"
      BY <3>1, <3>2 DEF Row
    <3>4. QED BY <1>1, <3>1, <3>3
  <2>3. QED BY <1>3, <2>1, <2>2 DEF BulkRead
<1>4. ASSUME NEW x \in Symbols, BulkUpsertMiss(r, x) \/ BulkReject(r, x) PROVE FALSE
  <2>1. PICK st \in {"insert", "lost"} : SetRow(r, x, st)
    BY <1>4 DEF BulkUpsertMiss, BulkReject
  <2>2. QED BY <1>0, <1>1, <2>1 DEF SetRow, TypeOK, Row
<1>5. plan' # plan
  BY DEF TypeOK
<1>6. Imports(r)
  BY <1>2, <1>3, <1>4, <1>5 DEF Proceed, Fail, ListQuery, ListWriteBack, ListFill, SellProbe,
     SellDropEmpty, SellRecord, BulkFinish, Invalidate, BulkAbort, MongoError, Crash, Imports, locals
<1>7. QED BY <1>1, <1>6

\* An import's write adds to the symbol what the row carries, when nobody has
\* written since the import began: the total it computed is still right.
LEMMA ImportAdds ==
  ASSUME HInv, NEW r \in Requests, Imports(r), NEW s \in Symbols,
         plan[r][s].st # "applied", plan'[r][s].st = "applied", Undisturbed(r)
  PROVE  SumOf(s)' = SumOf(s) + plan[r][s].add
<1>0. IInv /\ TypeOK /\ StoreType /\ FreeIds /\ QuietState(r)
  BY TypeParts DEF HInv, IInv, RequestState
<1>1. /\ pc[r] = "bulk.write" /\ plan[r][s].total \in Nat
      /\ \/ plan[r][s].st = "planned" /\ \E i \in Oldest(s) : Sets(i, plan[r][s].total)
         \/ plan[r][s].st = "insert" /\ Insert(s, plan[r][s].total)
  <2>1. PICK x \in Symbols :
           /\ pc[r] = "bulk.write" /\ plan[r][x].total \in Nat
           /\ plan' = [plan EXCEPT ![r][x].st = "applied"]
           /\ \/ plan[r][x].st = "planned" /\ \E i \in Oldest(x) : Sets(i, plan[r][x].total)
              \/ plan[r][x].st = "insert" /\ Insert(x, plan[r][x].total)
    BY <1>0, ImportDocs
  <2>2. x = s
    BY <1>0, <2>1 DEF TypeOK
  <2>3. QED BY <2>1, <2>2
<1>2. RowIsFresh(r, s)
  BY <1>0, <1>1 DEF QuietState, Importing
<1>3. plan[r][s].add \in Nat
  BY <1>0 DEF TypeOK, Row
<1>4. CASE plan[r][s].st = "planned"
  <2>1. PICK i \in Oldest(s) : Sets(i, plan[r][s].total)
    BY <1>1, <1>4
  <2>2. i \in Assets /\ docs[i].sym = s /\ docs[i].qty \in Nat /\ Of(s) # {}
    BY <1>0, <2>1, QtyType DEF Oldest, Of
  <2>3. ASSUME NEW j \in Oldest(s) PROVE j = i
    BY <2>1, <2>3 DEF Oldest, Of, Assets
  <2>4. HeldOf(s) = {docs[i].qty}
    BY <2>1, <2>2, <2>3 DEF HeldOf
  <2>5. plan[r][s].total = docs[i].qty + plan[r][s].add
    BY <1>2, <1>4, <2>4 DEF RowIsFresh, BulkTotal
  <2>6. SumOf(s)' = SumOf(s) + (plan[r][s].total - docs[i].qty)
    BY <1>0, <1>1, <2>1, <2>2, SetSum
  <2>7. SumOf(s) \in Int
    <3>1. \A j \in Of(s) : docs[j].qty \in Int
      BY <1>0, QtyType DEF Of
    <3>2. QED BY <3>1, SumOfIs, OfIsFinite, QtyInt
  <2>8. QED BY <1>3, <2>2, <2>5, <2>6, <2>7
<1>5. CASE plan[r][s].st = "insert"
  <2>1. plan[r][s].total = plan[r][s].add
    BY <1>2, <1>5 DEF RowIsFresh
  <2>2. Insert(s, plan[r][s].total)
    BY <1>1, <1>5
  <2>3. QED BY <1>0, <1>3, <2>1, <2>2, InsertSum
<1>6. QED BY <1>1, <1>4, <1>5

\* list_assets caches the whole portfolio as stored, unless a write overlapped it.
THEOREM QuietListingsAreExact == Spec => QuietFillIsExact
<1>1. HInv /\ [Next]_vars => [\A r \in Requests :
         pc[r] = "list.fill" /\ pc'[r] = "done" /\ cache' # cache /\ seen[r].at = ver
           => cache'.items = Items(FALSE)]_vars
  <2> SUFFICES ASSUME HInv, Next, NEW p \in Requests, pc[p] = "list.fill", pc'[p] = "done",
                      cache' # cache, seen[p].at = ver
               PROVE  cache'.items = Items(FALSE)
    OBVIOUS
  <2>1. ~Expire /\ ~Idle
    BY DEF Expire, Idle, vars
  <2>2. QED BY <2>1, FillStep DEF Next
<1>2. QED BY <1>1, StockInvariant, PTL DEF Spec, QuietFillIsExact

\* An import adds exactly what its rows carry, unless a write overlapped it.
THEOREM QuietImportsAreExact == Spec => QuietImportAdds
<1>1. HInv /\ [Next]_vars => [\A r \in Requests, s \in Symbols :
         plan[r][s].st # "applied" /\ plan'[r][s].st = "applied"
           /\ ver = seen[r].at + Cardinality(RowsIn(r, {"applied"}))
         => SumOf(s)' = SumOf(s) + plan[r][s].add]_vars
  <2> SUFFICES ASSUME HInv, Next, NEW p \in Requests, NEW s \in Symbols,
                      plan[p][s].st # "applied", plan'[p][s].st = "applied",
                      ver = seen[p].at + Cardinality(RowsIn(p, {"applied"}))
               PROVE  SumOf(s)' = SumOf(s) + plan[p][s].add
    OBVIOUS
  <2>1. ~Expire /\ ~Idle
    BY DEF Expire, Idle, vars, locals
  <2>2. PICK r \in Requests : Arrive(r) \/ Proceed(r) \/ Fail(r)
    BY <2>1 DEF Next
  <2>3. p = r /\ Imports(r)
    BY <2>2, AppliedBy
  <2>4. QED BY <2>3, ImportAdds DEF Undisturbed
<1>2. QED BY <1>1, StockInvariant, PTL DEF Spec, QuietImportAdds

\* Both at once: QuietRequestsAreExact, for all constants.
THEOREM UndisturbedRequestsAreExact == Spec => QuietRequestsAreExact
BY QuietListingsAreExact, QuietImportsAreExact DEF QuietRequestsAreExact

=============================================================================
