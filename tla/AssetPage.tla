----------------------------- MODULE AssetPage -----------------------------
(***************************************************************************)
(* What the user does on the asset page (app/portfolio/asset): the editor  *)
(* in a row of the table, the dialog in which a holding is sold            *)
(* (components/SellAssetDialog), removing a row, and the order of the      *)
(* widgets, which localStorage keeps.                                      *)
(*                                                                         *)
(* Dialog and editor are shared by all rows: one state, whatever row they  *)
(* are open for.  A request goes on when they are closed.  A quantity or   *)
(* price that was typed is "fits" or "over" what is held.                  *)
(***************************************************************************)
EXTENDS Integers, FiniteSets, Sequences

CONSTANTS
  Holding,     \* the holdings
  Cash,        \* a subset: they can only be removed
  Widgets      \* the widgets of the page

ASSUME PageAssumption ==
  Cash \subseteq Holding /\ "" \notin Holding /\ IsFiniteSet(Widgets) /\ Widgets # {}

VARIABLES
  listed,    \* holdings of AssetContext that are shown
  narrow,    \* the screen is that of a phone
  selling,   \* sellAsset: the holding the dialog is open for
  typed,     \* the quantity in the dialog
  sales,     \* sales under way
  busy,      \* isSubmitting of the dialog
  editing,   \* editingAssetId
  text,      \* editValues, by the holding they were taken from
  saves,     \* updates under way: whose row, whose values
  order,     \* canvasOrder or widgetOrder: a sequence of the widgets
  kept,      \* external: what localStorage has of it, <<>> for nothing
  loaded,    \* what the load effect found, to be shown by the next render
  arranged,  \* history: the order the user arranged
  torn       \* history: the tab was closed between two renders

tableVars  == <<listed, narrow, selling, typed, sales, busy, editing, text, saves>>
layoutVars == <<order, kept, loaded, arranged, torn>>
pageVars   == <<tableVars, layoutVars>>

Typed  == {"", "fits", "over"}
Orders == {o \in [1 .. Cardinality(Widgets) -> Widgets] :
             \A w \in Widgets : \E i \in DOMAIN o : o[i] = w}
Default == CHOOSE o \in Orders : TRUE

PageTypeOK ==
  /\ listed \subseteq Holding /\ narrow \in BOOLEAN
  /\ selling \in Holding \cup {""} /\ typed \in Typed
  /\ sales \subseteq Holding /\ busy \in BOOLEAN
  /\ editing \in Holding \cup {""} /\ text \in Holding \cup {""}
  /\ saves \subseteq Holding \X Holding
  /\ order \in Orders /\ kept \in Orders \cup {<<>>} /\ loaded \in Orders \cup {<<>>}
  /\ arranged \in Orders /\ torn \in BOOLEAN

PageInit ==
  /\ listed = Holding /\ narrow \in BOOLEAN
  /\ selling = "" /\ typed = "" /\ sales = {} /\ busy = FALSE
  /\ editing = "" /\ text = "" /\ saves = {}
  /\ order = Default /\ kept = <<>> /\ loaded = Default
  /\ arranged = Default /\ torn = FALSE

-----------------------------------------------------------------------------
(* What a row offers *)

\* The table: save and cancel in the row that is edited, edit, sell and remove
\* in the others.
DetailOffers(h) ==
  CASE narrow \/ h \in Cash -> {}
    [] ~narrow /\ h \notin Cash /\ editing = h -> {"save", "cancel"}
    [] OTHER -> {"edit", "sell", "remove"}

\* The cards of a small screen: no save, no sale.
MobileOffers(h) == IF narrow /\ h \notin Cash THEN {"edit", "remove"} ELSE {}

\* Cash, on either screen.
CashOffers(h) == IF h \in Cash THEN {"remove"} ELSE {}

Offers(h, what) ==
  /\ h \in listed /\ selling = ""
  /\ what \in DetailOffers(h) \cup MobileOffers(h) \cup CashOffers(h)

\* A read of the holdings answered: rows come and go.
ListChanges ==
  /\ listed' \in (SUBSET Holding) \ {listed}
  /\ UNCHANGED <<narrow, selling, typed, sales, busy, editing, text, saves, layoutVars>>

-----------------------------------------------------------------------------
(* Selling *)

SaleOpens(h) ==
  /\ Offers(h, "sell")
  /\ selling' = h
  /\ UNCHANGED <<listed, narrow, typed, sales, busy, editing, text, saves, layoutVars>>

SaleTyped ==
  /\ selling # ""
  /\ typed' \in Typed \ {typed}
  /\ UNCHANGED <<listed, narrow, selling, sales, busy, editing, text, saves, layoutVars>>

\* Variant with a bug: closing the dialog makes it ready for the next sale.
AfterCloseReady == FALSE

\* What was typed and isSubmitting survive the dialog.
AfterClosing == busy

SaleCloses ==
  /\ selling # ""
  /\ selling' = "" /\ busy' = AfterClosing
  /\ UNCHANGED <<listed, narrow, typed, sales, editing, text, saves, layoutVars>>

\* handleSell: a quantity that is too large is an alert.
Sell ==
  /\ selling # "" /\ ~busy /\ typed = "fits"
  /\ sales' = sales \cup {selling} /\ busy' = TRUE
  /\ UNCHANGED <<listed, narrow, selling, typed, editing, text, saves, layoutVars>>

\* The sale answers: the text is emptied and the dialog closed, for whatever
\* holding it is open by then, and the list is read again.
SaleDone ==
  /\ \E h \in sales : sales' = sales \ {h}
  /\ typed' = "" /\ selling' = "" /\ busy' = FALSE
  /\ UNCHANGED <<listed, narrow, editing, text, saves, layoutVars>>

\* An alert.
SaleFails ==
  /\ \E h \in sales : sales' = sales \ {h}
  /\ busy' = FALSE
  /\ UNCHANGED <<listed, narrow, selling, typed, editing, text, saves, layoutVars>>

-----------------------------------------------------------------------------
(* Editing and removing *)

TextOf(h) == h

\* handleStartEdit, also while another row is edited or saved.
StartEdit(h) ==
  /\ Offers(h, "edit")
  /\ editing' = h /\ text' = TextOf(h)
  /\ UNCHANGED <<listed, narrow, selling, typed, sales, busy, saves, layoutVars>>

CancelEdit(h) ==
  /\ Offers(h, "cancel")
  /\ editing' = ""
  /\ UNCHANGED <<listed, narrow, selling, typed, sales, busy, text, saves, layoutVars>>

\* handleSaveEdit: editingAssetId gets editValues; the button does not wait.
SaveEdit(h) ==
  /\ Offers(h, "save")
  /\ saves' = saves \cup {<<editing, text>>}
  /\ UNCHANGED <<listed, narrow, selling, typed, sales, busy, editing, text, layoutVars>>

\* A success closes the editor, of whatever row; a failure is an alert.
SaveEnds ==
  /\ \E s \in saves : saves' = saves \ {s}
  /\ editing' \in {"", editing}
  /\ UNCHANGED <<listed, narrow, selling, typed, sales, busy, text, layoutVars>>

\* deleteAsset, after a confirmation; here with the read that follows it.
RemoveHolding(h) ==
  /\ Offers(h, "remove")
  /\ listed' = listed \ {h}
  /\ UNCHANGED <<narrow, selling, typed, sales, busy, editing, text, saves, layoutVars>>

-----------------------------------------------------------------------------
(* The order of the widgets *)

Swapped(o, i, j) == [o EXCEPT ![i] = o[j], ![j] = o[i]]

\* moveCanvasWidget and the save effect of the render that follows.
MoveWidget ==
  /\ loaded = <<>>
  /\ \E i, j \in DOMAIN order :
       /\ j \in {i - 1, i + 1}
       /\ order' = Swapped(order, i, j)
  /\ kept' = order' /\ arranged' = order'
  /\ UNCHANGED <<loaded, torn, tableVars>>

\* The page mounts: the load effect finds what is kept, the save effect writes
\* the default over it, both before the order that was found is shown.
LayoutMount ==
  /\ order' = Default
  /\ loaded' = IF kept = <<>> THEN Default ELSE kept
  /\ torn' = (torn \/ loaded # <<>>)
  /\ kept' = Default
  /\ UNCHANGED <<arranged, tableVars>>

\* The next render shows it and writes it again.
LayoutRender ==
  /\ loaded # <<>>
  /\ order' = loaded /\ kept' = loaded /\ loaded' = <<>>
  /\ UNCHANGED <<arranged, torn, tableVars>>

-----------------------------------------------------------------------------
(* Specification *)

TableNext ==
  \/ ListChanges \/ SaleTyped \/ SaleCloses \/ Sell \/ SaleDone \/ SaleFails
  \/ SaveEnds
  \/ \E h \in Holding :
       SaleOpens(h) \/ StartEdit(h) \/ CancelEdit(h) \/ SaveEdit(h) \/ RemoveHolding(h)

LayoutNext == MoveWidget \/ LayoutMount \/ LayoutRender

PageNext == TableNext \/ LayoutNext

\* Requests end.
PageFairness == WF_pageVars(SaleDone \/ SaleFails)

PageSpec == PageInit /\ [][PageNext]_pageVars /\ PageFairness

-----------------------------------------------------------------------------
(* Properties *)

\* However the dialog is closed and opened again, for the same or for another
\* holding, no second sale is sent before the first has answered.
OneSaleAtATime == Cardinality(sales) <= 1 /\ (sales # {} => busy)

\* The dialog's button waits for a sale.
PageWaits == <<busy>>

\* What is saved for a row was taken from that row, whichever rows were edited,
\* cancelled or saved before.
SavesTheRowsValues ==
  [][\A s \in saves' \ saves : s[1] = s[2]]_pageVars

\* An order the user arranged comes back after every reload, complete, unless
\* the tab was closed between the two renders of a mount.
LayoutComesBack ==
  /\ loaded = <<>> /\ ~torn => order = arranged
  /\ loaded = <<>> => kept = order

=============================================================================
