----------------------------- MODULE EntryForm -----------------------------
(***************************************************************************)
(* Choosing an asset on the entry page (app/direct-input, step 1): the     *)
(* search, the form for the asset that is selected, the exchange rate and  *)
(* the AI remark that fill it, and the list of what was added.             *)
(*                                                                         *)
(* A rate or a price of a currency is named by the currency it is of, a    *)
(* remark by the asset it was written for, the results of a search by      *)
(* their query.  Currencies other than KRW have a rate to be fetched.      *)
(***************************************************************************)
EXTENDS Integers, FiniteSets

CONSTANTS
  Foreign,    \* currencies other than KRW
  Queries,    \* what is typed into the search
  MaxCart     \* bound on the list

ASSUME FormAssumption ==
  MaxCart \in Nat /\ Foreign \cap {"KRW", "share", "", "typed"} = {} /\ "" \notin Queries

VARIABLES
  chosen,    \* selectedAsset, "" when there is none
  quantity,  \* there is one in the form
  price,     \* of the form: "", "typed" or the rate it was set to
  memo,      \* "" or the asset the remark is about
  rate,      \* exchangeRate: "" or the currency it is of
  asked,     \* rate requests under way
  rateBusy,  \* isLoadingRate
  remark,    \* the asset of the remark that is being written
  added,     \* the list: asset, price and memo
  query,     \* searchQuery
  finding,   \* searches: of the timer, of requests under way
  found,     \* searchResults, by query
  finds,     \* isSearching
  crossed,   \* history: a rate came or was left for another currency
  overtaken  \* history: a search was typed over while its request ran

formVars == <<chosen, quantity, price, memo, rate, asked, rateBusy, remark,
              added, query, finding, found, finds, crossed, overtaken>>

Assets == Foreign \cup {"KRW", "share"}
Added  == [asset : Assets, price : Foreign \cup {"KRW", "typed"}, memo : Assets \cup {""}]

FormTypeOK ==
  /\ chosen \in Assets \cup {""} /\ quantity \in BOOLEAN
  /\ price \in Foreign \cup {"", "KRW", "typed"} /\ memo \in Assets \cup {""}
  /\ rate \in Foreign \cup {"", "KRW"}
  /\ asked \subseteq Foreign /\ rateBusy \in BOOLEAN
  /\ remark \in Assets \cup {""}
  /\ added \subseteq Added
  /\ query \in Queries \cup {""}
  /\ finding \in [timer : Queries \cup {""}, sent : SUBSET Queries]
  /\ found \in Queries \cup {""} /\ finds \in BOOLEAN
  /\ crossed \in BOOLEAN /\ overtaken \in BOOLEAN

FormInit ==
  /\ chosen = "" /\ quantity = FALSE /\ price = "" /\ memo = ""
  /\ rate = "" /\ asked = {} /\ rateBusy = FALSE /\ remark = ""
  /\ added = {}
  /\ query = "" /\ finding = [timer |-> "", sent |-> {}] /\ found = ""
  /\ finds = FALSE
  /\ crossed = FALSE /\ overtaken = FALSE

searchVars == <<query, finding, found, finds, overtaken>>

-----------------------------------------------------------------------------
(* The asset and its rate *)

\* What is offered without a search: shares, coins and currencies.
Offered == Assets

\* The effect on exchangeRate and selectedAsset: the rate becomes the price.
PriceFor(asset, r, p) == IF asset \in Foreign /\ r # "" THEN r ELSE p

\* Variant with a bug: the rate of the asset before is kept.
SelectKeepsRate(asset) ==
  /\ rate' = IF asset = "KRW" THEN "KRW" ELSE rate
  /\ price' = PriceFor(asset, rate', IF asset = "KRW" THEN "KRW" ELSE "")
  /\ asked' = IF asset \in Foreign THEN asked \cup {asset} ELSE asked
  /\ rateBusy' = (rateBusy \/ asset \in Foreign)
  /\ UNCHANGED crossed

\* handleSelect: the rate is emptied, that of a currency asked for.  The
\* requests for the currencies before are not given up.
Select(asset) ==
  /\ rate' = IF asset = "KRW" THEN "KRW" ELSE ""
  /\ price' = IF asset = "KRW" THEN "KRW" ELSE ""
  /\ asked' = IF asset \in Foreign THEN asked \cup {asset} ELSE asked
  /\ rateBusy' = (rateBusy \/ asset \in Foreign)
  /\ crossed' = (asked \ {asset} # {})

ChooseAsset ==
  /\ \E asset \in Offered : chosen' = asset /\ Select(asset)
  /\ quantity' = FALSE /\ memo' = ""
  /\ UNCHANGED <<remark, added, searchVars>>

\* fetchExchangeRate answers; a failure empties the rate and leaves the price.
\* isLoadingRate ends with the first of several requests.
RateAnswer ==
  /\ \E c \in asked :
       /\ asked' = asked \ {c}
       /\ rate' \in {c, ""}
       /\ price' = IF rate' # rate THEN PriceFor(chosen, rate', price) ELSE price
       /\ crossed' = (crossed \/ c # chosen)
  /\ rateBusy' = FALSE
  /\ UNCHANGED <<chosen, quantity, memo, remark, added, searchVars>>

-----------------------------------------------------------------------------
(* The form *)

TypeQuantity ==
  /\ chosen # ""
  /\ quantity' \in BOOLEAN
  /\ UNCHANGED <<chosen, price, memo, rate, asked, rateBusy, remark, added,
                 crossed, searchVars>>

\* The price of a currency has no field.
TypePrice ==
  /\ chosen = "share"
  /\ price' \in {"", "typed"}
  /\ UNCHANGED <<chosen, quantity, memo, rate, asked, rateBusy, remark, added,
                 crossed, searchVars>>

\* handleAIAnalysis; its button is not there for a currency, and waits.
RemarkStart ==
  /\ chosen = "share" /\ remark = ""
  /\ remark' = chosen
  /\ UNCHANGED <<chosen, quantity, price, memo, rate, asked, rateBusy, added,
                 crossed, searchVars>>

\* 1.5 seconds later, into the form of whatever is selected by then.
RemarkEnds ==
  /\ remark # ""
  /\ memo' = remark /\ remark' = ""
  /\ UNCHANGED <<chosen, quantity, price, rate, asked, rateBusy, added,
                 crossed, searchVars>>

\* The guards of handleAddToCart and of its button.
FormIsComplete == chosen # "" /\ quantity /\ price # ""

\* handleAddToCart: the form is emptied, the rate stays.
AddChosen ==
  /\ FormIsComplete
  /\ added' = added \cup {[asset |-> chosen, price |-> price, memo |-> memo]}
  /\ Cardinality(added') <= MaxCart
  /\ chosen' = "" /\ quantity' = FALSE /\ price' = "" /\ memo' = ""
  /\ UNCHANGED <<rate, asked, rateBusy, remark, crossed, searchVars>>

\* handleEditCartItem: the row goes back to the form and out of the list, the
\* rate that is left becomes its price.
EditAdded ==
  /\ \E a \in added :
       /\ added' = added \ {a}
       /\ chosen' = a.asset /\ memo' = a.memo
       /\ price' = PriceFor(a.asset, rate, a.price)
       /\ crossed' = (crossed \/ (a.asset \in Foreign
                    /\ (a.price # a.asset \/ rate \notin {"", a.asset}
                        \/ asked \ {a.asset} # {})))
  /\ quantity' = TRUE
  /\ UNCHANGED <<rate, asked, rateBusy, remark, searchVars>>

DropAdded ==
  /\ \E a \in added : added' = added \ {a}
  /\ UNCHANGED <<chosen, quantity, price, memo, rate, asked, rateBusy, remark,
                 crossed, searchVars>>

-----------------------------------------------------------------------------
(* The search *)

assetVars == <<chosen, quantity, price, memo, rate, asked, rateBusy, remark,
               added, crossed>>

AfterTyping(q) == q

\* The effect on searchQuery: the timer starts anew, a request that has been
\* sent goes on.
TypeQuery ==
  /\ \E q \in (Queries \cup {""}) \ {query} :
       /\ query' = q
       /\ finding' = [finding EXCEPT !.timer = AfterTyping(q)]
       /\ found' = IF q = "" THEN "" ELSE found
       /\ finds' = (q # "")
  /\ overtaken' = (finding.sent # {})
  /\ UNCHANGED assetVars

\* 300 ms without a key.
SearchSent ==
  /\ finding.timer # "" /\ finding.timer \notin finding.sent
  /\ finding' = [timer |-> "", sent |-> finding.sent \cup {finding.timer}]
  /\ UNCHANGED <<query, found, finds, overtaken, assetVars>>

\* Results of the service or, when it fails, of the lists of the page.
SearchAnswer ==
  /\ \E q \in finding.sent :
       /\ finding' = [finding EXCEPT !.sent = @ \ {q}]
       /\ found' = q
  /\ finds' = FALSE
  /\ UNCHANGED <<query, overtaken, assetVars>>

-----------------------------------------------------------------------------
(* Specification *)

FillNext ==
  \/ ChooseAsset \/ RateAnswer \/ TypeQuantity \/ TypePrice
  \/ RemarkStart \/ RemarkEnds \/ AddChosen \/ EditAdded \/ DropAdded

SearchNext == TypeQuery \/ SearchSent \/ SearchAnswer

FormNext == FillNext \/ SearchNext

\* Requests end and timers fire.
FormFairness ==
  /\ WF_formVars(RemarkEnds) /\ WF_formVars(SearchSent) /\ WF_formVars(SearchAnswer)

FormSpec == FormInit /\ [][FormNext]_formVars /\ FormFairness

-----------------------------------------------------------------------------
(* Properties *)

\* A row of a foreign currency in the list has the rate of that currency as its
\* price, as long as no rate came late or was left over for another one.
RowsHaveTheirRate ==
  [][~crossed => \A a \in added' \ added : a.asset \in Foreign => a.price = a.asset]_formVars

\* The results under a query that nobody typed over are those of the query.
ResultsFitTheQuery ==
  query # "" /\ ~finds /\ ~overtaken => found = query

\* The spinner of the search, and the remark that goes away by itself.
FormWaits == <<finds, remark # "">>

==================================================
