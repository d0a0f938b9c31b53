----------------------------- MODULE AssetEntry -----------------------------
(***************************************************************************)
(* How assets get from a browser into the user's book: the OCR and CSV     *)
(* pages hand what they read to the entry page (app/direct-input) through  *)
(* localStorage; that page collects, reviews and sends it in three steps;  *)
(* app/confirm-input shows the same hand-over and sends it to the other    *)
(* API.                                                                    *)
(*                                                                         *)
(* One tab; `page' is what it shows.  A request outlives the page that     *)
(* made it: its continuation still touches localStorage and the router,    *)
(* and sets state of a page that is gone, which does nothing.              *)
(***************************************************************************)
EXTENDS Integers, FiniteSets

CONSTANTS
  Rows,        \* rows that are typed or read
  MaxStore     \* bound on how often the API stores one of them

ASSUME EntryAssumption == MaxStore \in Nat

VARIABLES
  page,      \* "ocr", "csv", "direct", "confirm" or "book"
  signed,    \* there is a user
  pending,   \* localStorage: pending_assets
  step,      \* currentStep of the entry page
  cart,      \* rows of the page that is shown
  blank,     \* those of them whose quantity or price is 0
  post,      \* the requests: of this page, of one that was left
  reading,   \* the OCR request is under way
  stored,    \* external: how often the API has stored a row
  dropped,   \* history: rows the user or a later hand-over threw away
  heard,     \* history: rows the user got an answer for
  edited,    \* history: the cart changed while it was sent
  outrun     \* history: a page with a request under way was left

entryVars == <<page, signed, pending, step, cart, blank, post, reading, stored,
               dropped, heard, edited, outrun>>

Pages   == {"ocr", "csv", "direct", "confirm", "book"}
NoPost  == [from |-> "book", rows |-> {}, spoilt |-> FALSE, handled |-> FALSE, failed |-> {}]
Post    == [from : {"book", "direct", "confirm"}, rows : SUBSET Rows,
            spoilt : BOOLEAN, handled : BOOLEAN, failed : SUBSET Rows]

EntryTypeOK ==
  /\ page \in Pages /\ signed \in BOOLEAN
  /\ pending \subseteq Rows /\ cart \subseteq Rows /\ blank \subseteq cart
  /\ step \in 1 .. 3
  /\ post \in [{"now", "old"} -> Post]
  /\ reading \in BOOLEAN
  /\ stored \in [Rows -> 0 .. MaxStore]
  /\ dropped \subseteq Rows
  /\ heard \subseteq Rows
  /\ edited \in BOOLEAN /\ outrun \in BOOLEAN

EntryInit ==
  /\ page = "book" /\ signed \in BOOLEAN
  /\ pending = {} /\ step = 1 /\ cart = {} /\ blank = {}
  /\ post = [p \in {"now", "old"} |-> NoPost]
  /\ reading = FALSE
  /\ stored = [r \in Rows |-> 0]
  /\ dropped = {} /\ heard = {}
  /\ edited = FALSE /\ outrun = FALSE

\* isSubmitting of the page.
Submitting == post["now"] # NoPost
Sent       == post["now"].rows \cup post["old"].rows
Known      == {r \in Rows : stored[r] > 0}

\* Rows nobody has typed or read yet.
FreshRows == Rows \ (pending \cup cart \cup Sent \cup Known \cup dropped)

-----------------------------------------------------------------------------
(* Pages *)

\* Variant with a bug: the hand-over is cleared, and only shown in an empty
\* cart of the page before.
MountedForgets(p, given) ==
  /\ page' = p
  /\ cart' = IF p \in {"direct", "confirm"} /\ cart = {} THEN given ELSE {}
  /\ step' = IF p = "direct" /\ given # {} THEN 2 ELSE 1
  /\ pending' = IF p = "direct" THEN {} ELSE given
  /\ blank' = {}

\* The entry page takes the hand-over out of localStorage and goes to the
\* review; the confirm page leaves it there.
Mounted(p, given) ==
  /\ page' = p
  /\ cart' = IF p \in {"direct", "confirm"} THEN given ELSE {}
  /\ step' = IF p = "direct" /\ given # {} THEN 2 ELSE 1
  /\ pending' = IF p = "direct" THEN {} ELSE given
  /\ blank' = {}

\* What the page that is left showed is gone; its request is not.
PageLeft ==
  /\ post["old"] = NoPost \/ ~Submitting
  /\ post' = IF Submitting THEN [now |-> NoPost, old |-> post["now"]] ELSE post
  /\ outrun' = (outrun \/ Submitting)
  /\ dropped' = dropped \cup (cart \ (Sent \cup Known \cup pending))
  /\ edited' = FALSE

\* The user follows a link, or reloads.  OCR and CSV are links of AddAssetModal.
EntryGo ==
  /\ \E p \in Pages : Mounted(p, pending)
  /\ PageLeft
  /\ UNCHANGED <<signed, reading, stored, heard>>

\* router.push, which does nothing more when the page is shown already.
PushDirect(given) ==
  IF page = "direct"
  THEN /\ pending' = given
       /\ UNCHANGED <<page, cart, step, blank, post, outrun, edited>>
       /\ dropped' = dropped \cup (pending \ given)
  ELSE /\ Mounted("direct", given)
       /\ post["old"] = NoPost \/ ~Submitting
       /\ post' = IF Submitting THEN [now |-> NoPost, old |-> post["now"]] ELSE post
       /\ outrun' = (outrun \/ Submitting)
       /\ dropped' = dropped \cup ((cart \cup pending) \ (given \cup Sent \cup Known))
       /\ edited' = FALSE

-----------------------------------------------------------------------------
(* Uploads *)

\* handleBulkSubmit of the CSV page, with rows that passed validateRows.
CsvHandsOver ==
  /\ page = "csv"
  /\ \E rows \in SUBSET FreshRows : rows # {} /\ PushDirect(rows)
  /\ UNCHANGED <<signed, reading, stored, heard>>

\* handleNext of the OCR page: isProcessing is the page's own.
OcrStart ==
  /\ page = "ocr" /\ ~reading
  /\ reading' = TRUE
  /\ UNCHANGED <<page, signed, pending, step, cart, blank, post, stored,
                 dropped, heard, edited, outrun>>

\* Draft rows, perhaps none, or a draft without the list; whatever page is
\* shown by then.
OcrAnswer ==
  /\ reading /\ reading' = FALSE
  /\ \/ \E rows \in SUBSET FreshRows : PushDirect(rows)
     \/ PushDirect(pending)
  /\ UNCHANGED <<signed, stored, heard>>

\* Upload or draft fail: an alert.
OcrFails ==
  /\ reading /\ reading' = FALSE
  /\ UNCHANGED <<page, signed, pending, step, cart, blank, post, stored,
                 dropped, heard, edited, outrun>>

-----------------------------------------------------------------------------
(* The rows of a page *)

CartIs(rows) ==
  /\ cart' = rows
  /\ edited' = (edited \/ Submitting)
  /\ UNCHANGED <<page, signed, pending, step, post, reading, stored,
                 heard, outrun>>

\* handleAddToCart, which wants a quantity and a price.
AddToCart ==
  /\ page = "direct" /\ step = 1
  /\ \E r \in FreshRows : CartIs(cart \cup {r})
  /\ UNCHANGED <<blank, dropped>>

\* handleAddRow of the confirm page: quantity and price are 0.
AddBlankRow ==
  /\ page = "confirm"
  /\ \E r \in FreshRows : CartIs(cart \cup {r}) /\ blank' = blank \cup {r}
  /\ UNCHANGED dropped

RowRemoved(r) ==
  /\ CartIs(cart \ {r})
  /\ blank' = blank \ {r}
  /\ dropped' = dropped \cup ({r} \ (Sent \cup Known \cup pending))

\* The tables of both pages: a row goes.
TableRemove ==
  /\ \/ page = "direct" /\ step = 2
     \/ page = "confirm"
  /\ \E r \in cart : RowRemoved(r)

\* The list beside the form: a row goes, or goes back to the form, from which
\* it is added again or not.
SideRemove ==
  /\ page = "direct" /\ step = 1
  /\ \E r \in cart : RowRemoved(r)

\* updateCartItem, updateAsset: what is no number counts as 0.
TableUpdate ==
  /\ \/ page = "direct" /\ step = 2
     \/ page = "confirm"
  /\ \E r \in cart : blank' \in {blank \cup {r}, blank \ {r}} /\ blank' # blank
  /\ CartIs(cart)
  /\ UNCHANGED dropped

-----------------------------------------------------------------------------
(* The steps of the entry page *)

StepIs(n) ==
  /\ step' = n
  /\ UNCHANGED <<page, signed, pending, cart, blank, post, reading, stored,
                 dropped, heard, edited, outrun>>

\* handleNext of step 1; the button waits for a request.
ToReview == page = "direct" /\ step = 1 /\ cart # {} /\ ~Submitting /\ StepIs(2)

\* handlePrevious: its button is there in steps 1 and 2, and waits for nothing.
BackToFill == page = "direct" /\ step = 2 /\ StepIs(1)

\* The steps in the sidebar.
Sidebar ==
  /\ page = "direct"
  /\ \E n \in 1 .. 2 : (n < step \/ (n = 2 /\ cart # {})) /\ n # step /\ StepIs(n)

-----------------------------------------------------------------------------
(* Sending *)

\* Variant with a bug: a second click is as good as the first.
MaySendAlways == cart # {}

\* The buttons of both pages.
MaySend == cart # {} /\ ~Submitting

SendsCart ==
  /\ post' = [post EXCEPT !["now"] =
                [from |-> page, rows |-> cart, handled |-> FALSE, failed |-> {},
                 spoilt |-> page = "direct" /\ blank # {}]]
  /\ edited' = FALSE
  /\ UNCHANGED <<page, signed, pending, step, cart, blank, reading, stored,
                 dropped, heard, outrun>>

\* The end of step 2: addHoldings.  Without a user it returns at once, and the
\* page goes on as after a success.
SubmitCart ==
  /\ page = "direct" /\ step = 2 /\ MaySend
  /\ \A r \in cart : stored[r] < MaxStore
  /\ \/ signed /\ SendsCart
     \/ /\ ~signed /\ ~Submitting
        /\ step' = 3 /\ pending' = {} /\ edited' = FALSE
        /\ dropped' = dropped \cup cart \cup pending
        /\ UNCHANGED <<page, signed, cart, blank, post, reading, stored,
                       heard, outrun>>

\* handleRegister of the confirm page; without a user an alert.
Register ==
  /\ page = "confirm" /\ signed /\ MaySend
  /\ \A r \in cart : stored[r] < MaxStore
  /\ SendsCart

\* The API takes the rows one by one; a row that fails is named in an answer
\* that is a success.  The portfolio API refuses a request with a quantity of 0.
PostHandled(p) ==
  /\ post[p] # NoPost /\ ~post[p].handled /\ ~post[p].spoilt
  /\ \E failed \in SUBSET post[p].rows :
       /\ \A r \in post[p].rows \ failed : stored[r] < MaxStore
       /\ stored' = [r \in Rows |-> IF r \in post[p].rows \ failed
                                    THEN stored[r] + 1 ELSE stored[r]]
       /\ post' = [post EXCEPT ![p].handled = TRUE, ![p].failed = failed]
  /\ UNCHANGED <<page, signed, pending, step, cart, blank, reading, dropped,
                 heard, edited, outrun>>

Heard(p) == heard' = heard \cup post[p].rows

\* A success empties pending_assets, whoever filled it since.
Swept(p) ==
  /\ pending' = {}
  /\ dropped' = dropped \cup ((pending \cup post[p].failed) \ (cart \cup Known))

\* handleNext after addHoldings: step 3, if the page is still there.
CartSaved(p) ==
  /\ post[p].from = "direct" /\ post[p].handled
  /\ post' = [post EXCEPT ![p] = NoPost]
  /\ step' = IF p = "now" THEN 3 ELSE step
  /\ Heard(p) /\ Swept(p)
  /\ UNCHANGED <<page, signed, cart, blank, reading, stored, edited, outrun>>

\* handleRegister after its answer: to the book, from wherever the user is.
Registered(p) ==
  /\ post[p].from = "confirm" /\ post[p].handled
  /\ p = "now" \/ ~Submitting
  /\ post' = [post EXCEPT ![p] = NoPost]
  /\ page' = "book" /\ cart' = {} /\ blank' = {} /\ step' = 1 /\ edited' = FALSE
  /\ pending' = {}
  /\ dropped' = dropped \cup ((pending \cup cart \cup post[p].failed) \ Known)
  /\ Heard(p)
  /\ UNCHANGED <<signed, reading, stored, outrun>>

AfterRefusal(p) == [post EXCEPT ![p] = NoPost]

\* An alert; the rows are still there.  The answer may be the one to a request
\* the API has carried out.
PostFails(p) ==
  /\ post[p] # NoPost
  /\ post' = AfterRefusal(p)
  /\ Heard(p)
  /\ dropped' = dropped \cup (post[p].rows \ (pending \cup cart \cup Known
                                              \cup post'["now"].rows))
  /\ UNCHANGED <<page, signed, pending, step, cart, blank, reading, stored,
                 edited, outrun>>

-----------------------------------------------------------------------------
(* Specification *)

EntryNext ==
  \/ EntryGo \/ CsvHandsOver \/ OcrStart \/ OcrAnswer \/ OcrFails
  \/ AddToCart \/ AddBlankRow \/ TableRemove \/ SideRemove \/ TableUpdate
  \/ ToReview \/ BackToFill \/ Sidebar \/ SubmitCart \/ Register
  \/ \E p \in {"now", "old"} :
       PostHandled(p) \/ CartSaved(p) \/ Registered(p) \/ PostFails(p)

\* Requests end.
EntryFairness ==
  \A p \in {"now", "old"} :
    WF_entryVars(CartSaved(p) \/ Registered(p) \/ PostFails(p))

EntrySpec == EntryInit /\ [][EntryNext]_entryVars /\ EntryFairness

-----------------------------------------------------------------------------
(* Properties *)

\* Between a file or a form and the book no row gets lost on the way: what the
\* user did not throw away is waiting, shown, sent or stored.
NoRowIsMislaid ==
  [][\A r \in pending \cup cart \cup Sent :
       r \in (pending \cup cart \cup Sent \cup Known \cup dropped)']_entryVars

\* The last step is shown only after an answer for the rows it shows, unless
\* they were changed while they were sent, or there is no user.
CompleteWasAnswered ==
  page = "direct" /\ step = 3 /\ signed /\ ~edited => cart \subseteq heard

\* A row is stored a second time only after the user has heard of the first,
\* unless a page was left before its answer.
NoSilentDouble == ~outrun => \A r \in Rows : stored[r] > 1 => r \in heard

\* What the user is told of rows on their way: complete only when answered, and
\* twice only when known.
EntryInv == EntryTypeOK /\ CompleteWasAnswered /\ NoSilentDouble

\* What a button of the pages waits for.
EntryWaits == <<Submitting>>

=============================================================================
