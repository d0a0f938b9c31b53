------------------------------ MODULE Holdings ------------------------------
(***************************************************************************)
(* One user's holdings as backend/app/routers/assets.py keeps them: the    *)
(* `assets' collection of MongoDB, the `transactions' ledger, and the      *)
(* user's entry `portfolio:{user_id}' in Redis.                            *)
(*                                                                         *)
(* Every handler runs as a coroutine: each await on MongoDB or Redis is a  *)
(* step of its own, and requests (of one pod or of several) interleave     *)
(* between the steps.  A step that only computes is merged with the await  *)
(* before it.  A request may be cut by the death of its pod (Crash), and a *)
(* database call may raise (the "mongo" fault) or a Redis call may time    *)
(* out and be swallowed (the "redis" fault).                               *)
(*                                                                         *)
(* Quantities are integers: the unit is the smallest amount told apart.    *)
(* Dust is the 1e-12 below which a float quantity counts as sold out.      *)
(* Prices, names and memos are left out; the weighted average price is an  *)
(* algorithm of its own.                                                   *)
(***************************************************************************)
EXTENDS Integers, FiniteSets, FiniteSetsExt

CONSTANTS
  Requests,   \* the requests the user's clients may have in flight
  MaxAssets,  \* bound on the number of documents ever inserted
  Symbols,    \* ticker symbols, upper-cased by the handlers
  Stocks,     \* the symbols a listing filtered by asset_type returns
  Amounts,    \* the quantities a request may carry
  Dust,       \* a quantity at most this counts as zero
  MaxInFlight,\* how many requests are served at a time
  Handlers,   \* the handlers that run, a subset of HandlerNames
  Faults,     \* the faults that happen, a subset of FaultNames
  NoDoc,      \* no document with this _id
  NoCache     \* no entry in Redis

Assets == 1 .. MaxAssets   \* ObjectIds in the order they are allocated

HandlerNames == {"list", "create", "sell", "update", "delete", "bulk"}
FaultNames   == {"crash", "mongo", "redis"}

ASSUME HoldingsAssumption ==
  /\ MaxAssets \in Nat
  /\ MaxInFlight \in Nat
  /\ IsFiniteSet(Symbols) /\ Stocks \subseteq Symbols
  /\ Dust \in Nat
  /\ \A q \in Amounts : q \in Nat /\ q > Dust
  /\ Handlers \subseteq HandlerNames
  /\ Faults \subseteq FaultNames
  /\ NoDoc \notin [sym : Symbols, qty : Nat, price : {"cost", "live"}]
  /\ NoCache \notin [items : SUBSET (Assets \X Nat), asOf : Nat]

VARIABLES
  docs,     \* the `assets' collection: _id -> document or NoDoc
  born,     \* how many ObjectIds were handed out; an _id is never reused
  ledger,   \* the `transactions' collection
  cache,    \* the Redis entry portfolio:{user_id}
  pc,       \* where each request stands
  job,      \* handler, asset and quantity of the request
  seen,     \* what a listing read; the version it, or an import, began at
  plan,     \* the rows of an import: status, incoming and total quantity
  tally,    \* success_count and failure_count of an import
  answer,   \* the HTTP status sent
  ver,      \* history: number of writes to `assets' so far
  eff,      \* history: the version each request's own write produced
  owed      \* history: per symbol, what the accepted requests add up to

vars == <<docs, born, ledger, cache, pc, job, seen, plan, tally, answer,
          ver, eff, owed>>
store   == <<docs, born, ver, eff, owed>>
locals  == <<job, seen, plan, tally>>

-----------------------------------------------------------------------------
(* Types *)

Doc      == [sym : Symbols, qty : Nat, price : {"cost", "live"}]
Listing  == SUBSET (Assets \X Nat)
Entry    == [items : Listing, asOf : Nat]
Job      == [op : HandlerNames \cup {"none"}, asset : 0 .. MaxAssets, qty : Int]
Seen     == [filter : BOOLEAN, items : Listing, at : Nat]
RowState == {"none", "ask", "planned", "insert", "applied", "lost", "failed"}
Row      == [st : RowState, add : Nat, total : Nat]
Sale     == [req : Requests, asset : Assets, qty : Nat]
Codes    == {"none", "200", "400", "404", "500"}
Labels   == {"new", "list.query", "list.write", "list.fill", "sell.probe",
             "sell.empty", "sell.record", "bulk.read", "bulk.write",
             "invalidate", "done", "crashed"}

NoJob == [op |-> "none", asset |-> 0, qty |-> 0]
NoRow == [st |-> "none", add |-> 0, total |-> 0]

TypeOK ==
  /\ docs   \in [Assets -> Doc \cup {NoDoc}]
  /\ born   \in 0 .. MaxAssets
  /\ ledger \subseteq Sale
  /\ cache  \in Entry \cup {NoCache}
  /\ pc     \in [Requests -> Labels]
  /\ job    \in [Requests -> Job]
  /\ seen   \in [Requests -> Seen]
  /\ plan   \in [Requests -> [Symbols -> Row]]
  /\ tally  \in [Requests -> [ok : Int, bad : Nat]]
  /\ answer \in [Requests -> Codes]
  /\ ver    \in Nat
  /\ eff    \in [Requests -> Nat]
  /\ owed   \in [Symbols -> Int]

-----------------------------------------------------------------------------
(* The store *)

Alive(i) == docs[i] # NoDoc

Of(s) == {i \in Assets : Alive(i) /\ docs[i].sym = s}

\* The oldest document of a symbol (none or one), which find_one and UpdateOne
\* select: the collection is scanned in the order of insertion.
Oldest(s) == {i \in Of(s) : \A j \in Of(s) : i <= j}

\* What assets.find(query) returns, as pairs of _id and quantity.
Items(filter) == {<<i, docs[i].qty>> : i \in {j \in Assets :
                    Alive(j) /\ (filter => docs[j].sym \in Stocks)}}

Insert(s, q) ==
  /\ born < MaxAssets
  /\ born' = born + 1
  /\ docs' = [docs EXCEPT ![born + 1] = [sym |-> s, qty |-> q, price |-> "cost"]]

\* A write to `assets' by request r: quantity delta d reaches symbol s.
Effect(r, s, d) ==
  /\ ver'  = ver + 1
  /\ eff'  = [eff EXCEPT ![r] = ver + 1]
  /\ owed' = [owed EXCEPT ![s] = @ + d]

Init ==
  /\ docs   = [i \in Assets |-> NoDoc]
  /\ born   = 0
  /\ ledger = {}
  /\ cache  = NoCache
  /\ pc     = [r \in Requests |-> "new"]
  /\ job    = [r \in Requests |-> NoJob]
  /\ seen   = [r \in Requests |-> [filter |-> FALSE, items |-> {}, at |-> 0]]
  /\ plan   = [r \in Requests |-> [s \in Symbols |-> NoRow]]
  /\ tally  = [r \in Requests |-> [ok |-> 0, bad |-> 0]]
  /\ answer = [r \in Requests |-> "none"]
  /\ ver    = 0
  /\ eff    = [r \in Requests |-> 0]
  /\ owed   = [s \in Symbols |-> 0]

Goto(r, l) == pc' = [pc EXCEPT ![r] = l] /\ UNCHANGED answer
Reply(r, code) ==
  /\ pc' = [pc EXCEPT ![r] = "done"]
  /\ answer' = [answer EXCEPT ![r] = code]
InFlight == {r \in Requests : pc[r] \notin {"new", "done", "crashed"}}

\* A request for handler h is received: its asset and quantity are noted.
Admit(r, h, i, q) ==
  /\ pc[r] = "new"
  /\ h \in Handlers
  /\ Cardinality(InFlight) < MaxInFlight
  /\ job' = [job EXCEPT ![r] = [op |-> h, asset |-> i, qty |-> q]]

-----------------------------------------------------------------------------
(* list_assets *)

\* The cached portfolio answers an unfiltered request that does not skip it.
ListHit(r) ==
  /\ Admit(r, "list", 0, 0)
  /\ cache # NoCache
  /\ Reply(r, "200")
  /\ UNCHANGED <<store, ledger, cache, seen, plan, tally>>

\* A filtered request, one with skip_cache, a miss or an unreachable Redis.
ListMiss(r, filter) ==
  /\ Admit(r, "list", 0, 0)
  /\ Goto(r, "list.query")
  /\ seen' = [seen EXCEPT ![r].filter = filter]
  /\ UNCHANGED <<store, ledger, cache, plan, tally>>

ListQuery(r) ==
  /\ pc[r] = "list.query"
  /\ seen' = [seen EXCEPT ![r].items = Items(seen[r].filter), ![r].at = ver]
  /\ Goto(r, "list.write")
  /\ UNCHANGED <<store, ledger, cache, job, plan, tally>>

\* The documents after bulk_write of the live prices: by _id, no upsert.
Repriced(items) ==
  [i \in Assets |-> IF Alive(i) /\ i \in {p[1] : p \in items}
                      THEN [docs[i] EXCEPT !.price = "live"] ELSE docs[i]]

\* A failure of the bulk_write is logged and the listing goes on.
ListWriteBack(r) ==
  /\ pc[r] = "list.write"
  /\ \/ docs' = Repriced(seen[r].items)
     \/ docs' = docs
  /\ Goto(r, "list.fill")
  /\ UNCHANGED <<born, ver, eff, owed, ledger, cache, locals>>

\* The loop over the documents assigns `asset_type', the name of the query
\* parameter: after it the parameter counts as given once a document was read.
AssetTypeGiven(sn) == sn.filter \/ sn.items # {}

ListFill(r) ==
  /\ pc[r] = "list.fill"
  /\ \/ /\ ~AssetTypeGiven(seen[r])
        /\ cache' = [items |-> seen[r].items, asOf |-> ver]
     \/ /\ AssetTypeGiven(seen[r]) \/ "redis" \in Faults
        /\ UNCHANGED cache
  /\ Reply(r, "200")
  /\ UNCHANGED <<store, ledger, locals>>

-----------------------------------------------------------------------------
(* create_asset, update_asset, delete_asset *)

CreateInsert(r, s, q) ==
  /\ Admit(r, "create", born + 1, q)
  /\ Insert(s, q)
  /\ Effect(r, s, q)
  /\ Goto(r, "invalidate")
  /\ UNCHANGED <<ledger, cache, seen, plan, tally>>

\* find_one_and_update with $set: a blind overwrite of the quantity; a
\* request without a quantity leaves it as it is.
UpdateApply(r, i, q) ==
  /\ Admit(r, "update", i, q)
  /\ \/ /\ Alive(i)
        /\ \E nq \in {q, docs[i].qty} :
             /\ docs' = [docs EXCEPT ![i].qty = nq]
             /\ Effect(r, docs[i].sym, nq - docs[i].qty)
        /\ Goto(r, "invalidate")
        /\ UNCHANGED born
     \/ /\ ~Alive(i)
        /\ Reply(r, "404")
        /\ UNCHANGED store
  /\ UNCHANGED <<ledger, cache, seen, plan, tally>>

\* The HTTPException(404) raised inside the try block is an Exception too:
\* the handler's own except clause turns it into a 500.
DeleteMissingCode == "500"

DeleteApply(r, i) ==
  /\ Admit(r, "delete", i, 0)
  /\ \/ /\ Alive(i)
        /\ docs' = [docs EXCEPT ![i] = NoDoc]
        /\ Effect(r, docs[i].sym, -docs[i].qty)
        /\ Goto(r, "invalidate")
        /\ UNCHANGED born
     \/ /\ ~Alive(i)
        /\ Reply(r, DeleteMissingCode)
        /\ UNCHANGED store
  /\ UNCHANGED <<ledger, cache, seen, plan, tally>>

\* Variant with a bug: the writer leaves the entry.
KeepsEntry == UNCHANGED cache

\* invalidate_portfolio_cache, then the handler's answer; an error of Redis
\* is logged by cache_delete and nothing else.
DropsEntry == cache' = NoCache

Invalidate(r) ==
  /\ pc[r] = "invalidate"
  /\ \/ DropsEntry
     \/ "redis" \in Faults /\ UNCHANGED cache
  /\ Reply(r, "200")
  /\ UNCHANGED <<store, ledger, locals>>

-----------------------------------------------------------------------------
(* sell_asset *)

SellRejected(r, q) ==
  /\ Admit(r, "sell", 0, q)
  /\ q <= 0
  /\ Reply(r, "400")
  /\ UNCHANGED <<store, ledger, cache, seen, plan, tally>>

\* Variant with a bug: the filter without its $gte.
CoversAlive(i, q) == Alive(i)

\* The filter of find_one_and_update.
Covers(i, q) == Alive(i) /\ docs[i].qty >= q

\* find_one_and_update with $inc: test and decrement are one step.
SellTake(r, i, q) ==
  /\ Admit(r, "sell", i, q)
  /\ q > 0
  /\ \/ /\ Covers(i, q)
        /\ docs' = [docs EXCEPT ![i].qty = @ - q]
        /\ Effect(r, docs[i].sym, -q)
        /\ Goto(r, IF docs[i].qty - q <= Dust THEN "sell.empty" ELSE "sell.record")
        /\ UNCHANGED born
     \/ /\ ~Covers(i, q)
        /\ Goto(r, "sell.probe")
        /\ UNCHANGED store
     \/ /\ "mongo" \in Faults      \* except Exception: 400, nothing changed
        /\ Reply(r, "400")
        /\ UNCHANGED store
  /\ UNCHANGED <<ledger, cache, seen, plan, tally>>

\* Tell a missing asset from an insufficient one.
SellProbe(r) ==
  /\ pc[r] = "sell.probe"
  /\ Reply(r, IF Alive(job[r].asset) THEN "400" ELSE "404")
  /\ UNCHANGED <<store, ledger, cache, locals>>

\* Variant with a bug: the test is dropped.
StillEmptyUnchecked(i) == Alive(i)

\* delete_one repeats the test on the quantity: the row may have been refilled.
StillEmpty(i) == Alive(i) /\ docs[i].qty <= Dust

\* What a clean-up may throw away.
Residue(i) == IF docs[i].qty <= Dust THEN docs[i].qty ELSE 0

SellDropEmpty(r) ==
  /\ pc[r] = "sell.empty"
  /\ LET i == job[r].asset
     IN  \/ /\ StillEmpty(i)
            /\ docs' = [docs EXCEPT ![i] = NoDoc]
            /\ Effect(r, docs[i].sym, -Residue(i))
            /\ UNCHANGED born
         \/ /\ ~StillEmpty(i)
            /\ UNCHANGED store
  /\ Goto(r, "sell.record")
  /\ UNCHANGED <<ledger, cache, locals>>

SaleOf(r) == [req |-> r, asset |-> job[r].asset, qty |-> job[r].qty]

SellRecord(r) ==
  /\ pc[r] = "sell.record"
  /\ ledger' = ledger \cup {SaleOf(r)}
  /\ Goto(r, "invalidate")
  /\ UNCHANGED <<store, cache, locals>>

-----------------------------------------------------------------------------
(* bulk_create_assets: an import, its rows already merged per symbol *)

\* existing.get("quantity", 0) if existing else 0
HeldOf(s) == IF Of(s) = {} THEN {0} ELSE {docs[i].qty : i \in Oldest(s)}

RowsIn(r, states) == {s \in Symbols : plan[r][s].st \in states}
SetRow(r, s, st)  == plan' = [plan EXCEPT ![r][s].st = st]

BulkStart(r, rows) ==
  /\ Admit(r, "bulk", 0, 0)
  /\ plan' = [plan EXCEPT ![r] = [s \in Symbols |->
                IF s \in DOMAIN rows THEN [st |-> "ask", add |-> rows[s], total |-> 0]
                ELSE NoRow]]
  /\ seen' = [seen EXCEPT ![r].at = ver]     \* history
  /\ Goto(r, "bulk.read")
  /\ UNCHANGED <<store, ledger, cache, tally>>

\* Variant with a bug: what the user already holds is overwritten.
BulkOverwrite(held, add) == add

\* The quantity a row will be $set to: computed here, written later.
BulkTotal(held, add) == held + add

\* One turn of the loop: find_one; an exception makes the row a failure.
BulkRead(r, s) ==
  /\ pc[r] = "bulk.read"
  /\ plan[r][s].st = "ask"
  /\ \/ \E held \in HeldOf(s) :
          plan' = [plan EXCEPT ![r][s].st = "planned",
                               ![r][s].total = BulkTotal(held, plan[r][s].add)]
     \/ "mongo" \in Faults /\ SetRow(r, s, "failed")
  /\ Goto(r, IF RowsIn(r, {"ask"}) = {s} THEN "bulk.write" ELSE "bulk.read")
  /\ UNCHANGED <<store, ledger, cache, job, seen, tally>>

\* bulk_write(ordered=False): each UpdateOne is atomic, the batch is not.
BulkUpdate(r, s) ==
  /\ pc[r] = "bulk.write"
  /\ plan[r][s].st = "planned"
  /\ \E i \in Oldest(s) : docs' = [docs EXCEPT ![i].qty = plan[r][s].total]
  /\ Effect(r, s, plan[r][s].add)
  /\ SetRow(r, s, "applied")
  /\ UNCHANGED <<born, ledger, cache, pc, job, seen, tally, answer>>

\* upsert=True without a unique index: no match, and then the insert; another
\* request may insert the symbol in between.
BulkUpsertMiss(r, s) ==
  /\ pc[r] = "bulk.write"
  /\ plan[r][s].st = "planned"
  /\ Of(s) = {}
  /\ SetRow(r, s, "insert")
  /\ UNCHANGED <<store, ledger, cache, pc, job, seen, tally, answer>>

BulkInsert(r, s) ==
  /\ pc[r] = "bulk.write"
  /\ plan[r][s].st = "insert"
  /\ Insert(s, plan[r][s].total)
  /\ Effect(r, s, plan[r][s].add)
  /\ SetRow(r, s, "applied")
  /\ UNCHANGED <<ledger, cache, pc, job, seen, tally, answer>>

\* A write error of one operation: reported in BulkWriteError.details.
BulkReject(r, s) ==
  /\ "mongo" \in Faults
  /\ pc[r] = "bulk.write"
  /\ plan[r][s].st \in {"planned", "insert"}
  /\ SetRow(r, s, "lost")
  /\ UNCHANGED <<store, ledger, cache, pc, job, seen, tally, answer>>

\* Variant with a bug: the writeErrors are counted as successes.
SentCount(r) == Cardinality(RowsIn(r, {"applied", "lost"}))

\* Operations sent, less the writeErrors.
SuccessCount(r) ==
  Cardinality(RowsIn(r, {"applied", "lost"})) - Cardinality(RowsIn(r, {"lost"}))

BulkFinish(r) ==
  /\ pc[r] = "bulk.write"
  /\ RowsIn(r, {"planned", "insert"}) = {}
  /\ tally' = [tally EXCEPT ![r] =
       [ok |-> SuccessCount(r), bad |-> Cardinality(RowsIn(r, {"failed", "lost"}))]]
  /\ Goto(r, "invalidate")
  /\ UNCHANGED <<store, ledger, cache, job, seen, plan>>

\* Any other exception of bulk_write: every operation is reported as failed,
\* those the server had applied already included.
BulkAbort(r) ==
  /\ "mongo" \in Faults
  /\ pc[r] = "bulk.write"
  /\ RowsIn(r, {"planned", "insert"}) # {}
  /\ tally' = [tally EXCEPT ![r] =
       [ok |-> 0, bad |-> Cardinality(RowsIn(r, RowState \ {"none"}))]]
  /\ Goto(r, "invalidate")
  /\ UNCHANGED <<store, ledger, cache, job, seen, plan>>

-----------------------------------------------------------------------------
(* Failures and the environment *)

\* Variant with a bug: sell_asset's `except Exception: 400' around all of it.
MongoErrorAs400(r) ==
  /\ "mongo" \in Faults
  /\ pc[r] \in {"list.query", "sell.probe", "sell.empty", "sell.record"}
  /\ Reply(r, "400")
  /\ UNCHANGED <<store, ledger, cache, locals>>

\* A database call raises outside any handler's recovery: 500.  Nothing that
\* was done before is undone.
MongoError(r) ==
  /\ "mongo" \in Faults
  /\ pc[r] \in {"list.query", "sell.probe", "sell.empty", "sell.record"}
  /\ Reply(r, "500")
  /\ UNCHANGED <<store, ledger, cache, locals>>

\* The pod dies: the request gets no answer and leaves what it did.
Crash(r) ==
  /\ "crash" \in Faults
  /\ r \in InFlight
  /\ Goto(r, "crashed")
  /\ UNCHANGED <<store, ledger, cache, locals>>

\* Variant with a bug: the entry is stored without a TTL.
ExpireNever == FALSE /\ UNCHANGED vars

\* PORTFOLIO_CACHE_TTL runs out.
Expire ==
  /\ cache # NoCache
  /\ cache' = NoCache
  /\ UNCHANGED <<store, ledger, pc, locals, answer>>

\* Every request was served: the service idles.
Idle == InFlight = {} /\ (\A r \in Requests : pc[r] # "new") /\ UNCHANGED vars

-----------------------------------------------------------------------------
(* Specification *)

Rows == UNION {[D -> Amounts] : D \in SUBSET Symbols \ {{}}}

Arrive(r) ==
  \/ ListHit(r)
  \/ \E filter \in BOOLEAN : ListMiss(r, filter)
  \/ \E s \in Symbols, q \in Amounts : CreateInsert(r, s, q)
  \/ \E q \in {0} : SellRejected(r, q)
  \/ \E i \in Assets, q \in Amounts :
       SellTake(r, i, q) \/ UpdateApply(r, i, q)
  \/ \E i \in Assets : DeleteApply(r, i)
  \/ \E rows \in Rows : BulkStart(r, rows)

\* The next step of a request that is being served.
Proceed(r) ==
  \/ ListQuery(r) \/ ListWriteBack(r) \/ ListFill(r)
  \/ SellProbe(r) \/ SellDropEmpty(r) \/ SellRecord(r)
  \/ \E s \in Symbols : \/ BulkRead(r, s) \/ BulkUpdate(r, s)
                        \/ BulkUpsertMiss(r, s) \/ BulkInsert(r, s)
  \/ BulkFinish(r)
  \/ Invalidate(r)

Fail(r) ==
  \/ \E s \in Symbols : BulkReject(r, s)
  \/ BulkAbort(r) \/ MongoError(r) \/ Crash(r)

Next ==
  \/ \E r \in Requests : Arrive(r) \/ Proceed(r) \/ Fail(r)
  \/ Expire
  \/ Idle

Spec == Init /\ [][Next]_vars

\* A running coroutine is resumed, and Redis expires what has a TTL.  Nothing
\* obliges a client to send a request or a pod to die.
Fairness == WF_vars(Expire) /\ \A r \in Requests : WF_vars(Proceed(r))
FairSpec == Spec /\ Fairness

-----------------------------------------------------------------------------
(* Safety *)

SumOf(s) == MapThenSumSet(LAMBDA i : docs[i].qty, Of(s))

\* The documents of a symbol add up to what the accepted requests amount to:
\* deposits, edits and removals, less the quantities sold.  No quantity is
\* lost or comes back, whatever the interleaving ("subtract the sold
\* quantity", sell_asset).  Under concurrency it is the atomic $inc of
\* sell_asset that keeps it.
Conservation == \A s \in Symbols : SumOf(s) = owed[s]

IsSale(r) == job[r].op = "sell"

\* The ledger and the stock agree request by request: a row of the ledger is
\* the sale its request took from the stock; a sale answered 200 has its row;
\* a sale refused with 400 or 404 took nothing.
LedgerMatchesSales ==
  /\ \A t \in ledger : IsSale(t.req) /\ t = SaleOf(t.req) /\ eff[t.req] > 0
  /\ \A r \in Requests : IsSale(r) =>
       /\ answer[r] = "200" => SaleOf(r) \in ledger
       /\ answer[r] \in {"400", "404"} => eff[r] = 0

\* A sold-out document is about to be removed by the sale that emptied it,
\* unless that sale failed before the removal.
Emptying(r, i) ==
  /\ IsSale(r) /\ job[r].asset = i
  /\ pc[r] \in {"sell.empty", "crashed"} \/ answer[r] = "500"
NoOrphanedEmptyRow ==
  \A i \in Assets : Alive(i) /\ docs[i].qty <= Dust => \E r \in Requests : Emptying(r, i)

\* What may never be wrong with the stock, whatever interleaves, fails or dies: it
\* adds up to what was asked for, and no row stays behind empty.
StockInv == Conservation /\ NoOrphanedEmptyRow

\* Removing a document that still has stock takes the owner's own delete: the
\* clean-up of a sale never removes what was refilled in between.
OnlyDeletesRemoveStock ==
  [][\A i \in Assets : Alive(i) /\ docs'[i] = NoDoc =>
       \/ docs[i].qty <= Dust
       \/ \E r \in Requests : job'[r].op = "delete" /\ pc[r] = "new" /\ pc'[r] # "new"
    ]_vars

\* A cached portfolio is never older than a write already answered: an entry
\* put before the write took effect is gone when its request is answered.
\* (An entry put after it may still hold what was read before it.)
NoEntrySurvivesAWrite ==
  cache # NoCache =>
    \A r \in Requests : answer[r] = "200" => cache.asOf >= eff[r]

\* A listing that no write overlapped caches the whole portfolio as stored,
\* whatever filter the request carried.
QuietFillIsExact ==
  [][\A r \in Requests :
       pc[r] = "list.fill" /\ pc'[r] = "done" /\ cache' # cache /\ seen[r].at = ver
         => cache'.items = Items(FALSE)]_vars

\* An import accounts for every row exactly once, and never reports a success
\* it did not apply.
BulkTally ==
  \A r \in Requests : job[r].op = "bulk" /\ answer[r] = "200" =>
    /\ tally[r].ok + tally[r].bad = Cardinality(RowsIn(r, RowState \ {"none"}))
    /\ tally[r].ok <= Cardinality(RowsIn(r, {"applied"}))

\* The absolute total an import writes is right as long as nobody else has
\* written since it began: the symbol then gains exactly what the row carries.
QuietImportAdds ==
  [][\A r \in Requests, s \in Symbols :
       plan[r][s].st # "applied" /\ plan'[r][s].st = "applied"
         /\ ver = seen[r].at + Cardinality(RowsIn(r, {"applied"}))
       => SumOf(s)' = SumOf(s) + plan[r][s].add]_vars

\* A listing and an import that nobody disturbed are exact: the one in what it
\* caches, the other in what it adds.
QuietRequestsAreExact == QuietFillIsExact /\ QuietImportAdds

-----------------------------------------------------------------------------
(* The abstract book *)

\* A row at or below Dust is no holding any more, removed or not.
Held(i)  == IF ~Alive(i) \/ docs[i].qty <= Dust THEN 0 ELSE docs[i].qty
Ticketed == {r \in Requests : pc[r] \in {"sell.empty", "sell.record"}}
Tickets  == {SaleOf(r) : r \in Ticketed}

Abstract == INSTANCE HoldingsBook WITH
  Tickets <- Requests, Accounts <- Assets, Least <- Dust,
  balance <- [i \in Assets |-> Held(i)], open <- Tickets, booked <- ledger

\* The handlers, their clean-ups and their failures implement the book.
ImplementsBook == Abstract!BookSpec

-----------------------------------------------------------------------------
(* Liveness *)

Stale == cache # NoCache /\ cache.items # Items(FALSE)

\* A cached portfolio that differs from the store does not stay: it is
\* dropped by a write or by its TTL.
StaleEntryGoes == Stale ~> ~Stale

-----------------------------------------------------------------------------
(* What the code's comments say and the code does not keep *)

\* "Subtract the sold quantity" (sell_asset): what an import writes adds no
\* more to a symbol than the import carries, so what was sold stays sold.
SoldStaysSold ==
  [][\A r \in Requests, s \in Symbols :
       plan[r][s].st # "applied" /\ plan'[r][s].st = "applied"
         => SumOf(s)' <= SumOf(s) + plan[r][s].add]_vars

=============================================================================
