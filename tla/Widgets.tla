------------------------------ MODULE Widgets ------------------------------
(***************************************************************************)
(* The parts of the pages that ask for something and show it: how each of  *)
(* them starts a request, what it does with an answer, a failure and a     *)
(* request that has been overtaken, and what it keeps in the browser.      *)
(*                                                                         *)
(* A behaviour follows one of them, `widget.kind':                         *)
(*   snapshot  MarketSnapshot           carousel  PersonalizedNewsCarousel *)
(*   news      NewsSection              watch     WatchlistPreview         *)
(*   coins     useCoins                 coin      app/coin/[symbol]        *)
(*   teaser    InsightPreview           indices   the overview's market    *)
(*   insights  the overview's remarks   diary     trading-analysis         *)
(*   bell      PortfolioHeader          prices    ChartSidebar             *)
(*                                                                         *)
(* What is shown is 0 for nothing, 1 or 2 for data of that selection (a    *)
(* page of news, the keywords, the holdings, the token, the list of        *)
(* assets), 3 for a stand-in that is built into the code.                  *)
(***************************************************************************)
EXTENDS Integers, FiniteSets

CONSTANT MaxTurns   \* bound on selections and on leaving the page

ASSUME WidgetAssumption == MaxTurns \in Nat

VARIABLES
  widget,   \* the widget and what it keeps in the browser
  asks,     \* its requests: of which selection, and of which run of its effect
  turns,    \* bound
  lapse     \* history: since the last selection an answer failed or was overtaken

widgetVars == <<widget, asks, turns, lapse>>

Kinds  == {"snapshot", "carousel", "news", "watch", "coins", "coin", "teaser",
           "indices", "insights", "diary", "bell", "prices"}
Ask    == [of : 1 .. 2, run : {"now", "before", "gone"}]
Widget == [kind : Kinds, open : BOOLEAN, sel : 1 .. 2, has : 0 .. 3,
           spin : BOOLEAN, warn : BOOLEAN,
           held : BOOLEAN,                       \* cachedCoin of the coin page
           copy : {"none", "fresh", "old"},      \* the entry in the storage
           copied : 0 .. 1]                      \* 1: prices, 0: zeros

WidgetTypeOK ==
  /\ widget \in Widget /\ asks \subseteq Ask
  /\ turns \in 0 .. MaxTurns /\ lapse \in BOOLEAN
  /\ ~widget.open => \A a \in asks : a.run = "gone"

WidgetInit ==
  /\ \E k \in Kinds :
       widget = [kind |-> k, open |-> FALSE, sel |-> 1, has |-> 0, spin |-> FALSE,
                 warn |-> FALSE, held |-> FALSE, copy |-> "none", copied |-> 0]
  /\ asks = {} /\ turns = 0 /\ lapse = FALSE

\* Effects with a `cancelled' flag; the others take any answer that comes while
\* they are mounted.
Guarded == {"carousel", "insights", "indices"}

\* Requests that are not older than the page.
Own == {a \in asks : a.run # "gone"}

-----------------------------------------------------------------------------
(* Opening a page: what is shown at once, and whether anything is asked for *)

Opened(kind, has, spin, warn, ask) ==
  /\ widget.kind = kind /\ ~widget.open
  /\ widget' = [widget EXCEPT !.open = TRUE, !.has = has, !.spin = spin, !.warn = warn,
                              !.held = (has = 1)]
  /\ asks' = IF ask THEN asks \cup {[of |-> widget.sel, run |-> "now"]} ELSE asks
  /\ lapse' = FALSE /\ UNCHANGED turns

SnapshotOpens == Opened("snapshot", 0, TRUE, FALSE, TRUE)
CarouselOpens == Opened("carousel", 0, TRUE, FALSE, TRUE)
NewsOpens     == Opened("news", 0, TRUE, FALSE, TRUE)
TeaserOpens   == Opened("teaser", 0, TRUE, FALSE, TRUE)
IndicesOpens  == Opened("indices", 0, TRUE, FALSE, TRUE)
BellOpens     == Opened("bell", 0, FALSE, FALSE, TRUE)
PricesOpens   == Opened("prices", 0, FALSE, FALSE, TRUE)

\* With no holdings there is nothing to ask for.
InsightsOpens == \E some \in BOOLEAN : Opened("insights", 0, some, FALSE, some)

\* Without a token loadData does not run, and `loading' stays as it began.
DiaryOpens == \E hasToken \in BOOLEAN : Opened("diary", 0, TRUE, FALSE, hasToken)

\* loadFromCache: shown at once; after five minutes it is old, which is marked,
\* and asked for again.
WatchOpens ==
  \/ /\ widget.copy = "fresh"
     /\ Opened("watch", widget.copied, FALSE, FALSE, FALSE)
  \/ /\ widget.copy = "old"
     /\ Opened("watch", widget.copied, FALSE, TRUE, TRUE)
  \/ /\ widget.copy = "none"
     /\ Opened("watch", 0, TRUE, FALSE, TRUE)

\* loadCoinsCache, or else MOCK_COINS.
CoinsOpens == Opened("coins", IF widget.copy = "fresh" THEN 1 ELSE 3, TRUE, FALSE, TRUE)

\* loadCoinCache, or else the spinner.
CoinOpens ==
  Opened("coin", IF widget.copy = "fresh" THEN 1 ELSE 0, widget.copy # "fresh", FALSE, TRUE)

WidgetOpens ==
  \/ SnapshotOpens \/ CarouselOpens \/ NewsOpens \/ WatchOpens \/ CoinsOpens \/ CoinOpens
  \/ TeaserOpens \/ IndicesOpens \/ InsightsOpens \/ DiaryOpens \/ BellOpens \/ PricesOpens

Turned == turns < MaxTurns /\ turns' = turns + 1

\* The page is left: what it showed is gone, what it asked for is on its way.
WidgetLeft ==
  /\ widget.open /\ Turned
  /\ widget' = [widget EXCEPT !.open = FALSE, !.has = 0, !.spin = FALSE, !.warn = FALSE,
                              !.held = FALSE]
  /\ asks' = {[a EXCEPT !.run = "gone"] : a \in asks}
  /\ lapse' = FALSE

-----------------------------------------------------------------------------
(* Asking again *)

Before == {[a EXCEPT !.run = IF @ = "now" THEN "before" ELSE @] : a \in asks}

\* The effect runs again, for another selection or the same.
Reselected(kind, sel, has, spin, ask) ==
  /\ widget.kind = kind /\ widget.open /\ Turned
  /\ widget' = [widget EXCEPT !.sel = sel, !.has = has, !.spin = spin, !.warn = FALSE]
  /\ asks' = IF ask THEN Before \cup {[of |-> sel, run |-> "now"]} ELSE Before
  /\ lapse' = (kind \notin Guarded /\ Own # {})

Other == 3 - widget.sel

\* Pages of the pagination, other keywords, another token, other assets; what
\* was there is shown until the answer comes.
NewsPage        == Reselected("news", Other, widget.has, TRUE, TRUE)
KeywordsChange  == Reselected("carousel", Other, widget.has, TRUE, TRUE)
DiaryToken      == Reselected("diary", Other, widget.has, widget.spin, TRUE)
AssetsChange    == Reselected("prices", Other, widget.has, FALSE, TRUE)

\* Every read of the holdings makes a new list; an empty one empties the remarks.
HoldingsChange ==
  \/ Reselected("insights", Other, widget.has, TRUE, TRUE)
  \/ Reselected("insights", Other, 0, FALSE, FALSE)

\* The refresh buttons.  That of the snapshot does not show the spinner.
IndicesRefresh == Reselected("indices", widget.sel, widget.has, TRUE, TRUE)
SnapshotRetry  == ~widget.spin /\ Reselected("snapshot", widget.sel, widget.has, FALSE, TRUE)

\* Every 30 seconds; a coin page that began without a cached price shows its
\* spinner again.
PollDue ==
  /\ widget.open /\ widget.kind \in {"coins", "coin", "bell", "prices"}
  /\ asks' = asks \cup {[of |-> widget.sel, run |-> "now"]}
  /\ widget' = [widget EXCEPT !.spin = @ \/ (widget.kind = "coin" /\ ~widget.held),
                              !.warn = @ /\ widget.kind # "coin"]
  /\ <<widget', asks'>> # <<widget, asks>>
  /\ UNCHANGED <<turns, lapse>>

\* Five minutes; three for a coin.  The overview's entry has no age.
CopyAges ==
  /\ widget.copy = "fresh" /\ widget.kind \in {"watch", "coins", "coin"}
  /\ widget' = [widget EXCEPT !.copy = "old"]
  /\ UNCHANGED <<asks, turns, lapse>>

-----------------------------------------------------------------------------
(* The routes of the frontend's own server: rows, an empty list, or nothing *)

\* A failure upstream answers 500 with an empty list, which is JSON like any
\* other; `recommended' falls back to the latest before that.
NewsRoute == {"rows", "none", "lost"}

\* A failure upstream answers 200 with three indices without prices.
IndicesRoute == {"rows", "lost"}

\* What comes of a request.  The histories of the watchlist are caught one by
\* one: it sees rows, or only empty lists.
Outcome(kind) ==
  CASE kind \in {"news", "carousel"}     -> NewsRoute
    [] kind \in {"snapshot", "indices"}  -> IndicesRoute
    [] kind = "watch"                    -> {"rows", "none"}
    [] kind \in {"coins", "teaser"}      -> {"rows", "none", "lost"}
    [] OTHER                             -> {"rows", "lost"}

-----------------------------------------------------------------------------
(* Taking an answer: the widget after it *)

Kept(w) == [w EXCEPT !.copy = "fresh", !.copied = 1]

SnapshotTakes(w, r) ==
  IF r = "rows" THEN [w EXCEPT !.has = 1, !.spin = FALSE, !.warn = FALSE]
  ELSE [w EXCEPT !.has = 0, !.spin = FALSE, !.warn = TRUE]

\* Three requests one after the other; the first that brings rows ends it.
CarouselTakes(w, of, r) == [w EXCEPT !.has = IF r = "rows" THEN of ELSE 0, !.spin = FALSE]

NewsTakes(w, of, r) ==
  [w EXCEPT !.has = CASE r = "rows" -> of [] r = "none" -> 0 [] OTHER -> @, !.spin = FALSE]

\* `data' is that of the first render, null: no empty answer is kept out.
WatchTakes(w, r) ==
  LET shown == IF r = "rows" THEN 1 ELSE 0 IN
  [w EXCEPT !.has = shown, !.spin = FALSE, !.warn = FALSE, !.copy = "fresh", !.copied = shown]

CoinsTakes(w, r) ==
  CASE r = "rows" -> [Kept(w) EXCEPT !.has = 1, !.spin = FALSE, !.warn = FALSE]
    [] r = "none" -> [w EXCEPT !.spin = FALSE]
    [] OTHER      -> [w EXCEPT !.spin = FALSE, !.warn = TRUE]

\* cachedCoin is what was there when the page was opened.
CoinTakes(w, r) ==
  CASE r = "rows" -> [Kept(w) EXCEPT !.has = 1, !.spin = FALSE]
    [] r = "lost" /\ w.held  -> [w EXCEPT !.spin = FALSE]
    [] r = "lost" /\ ~w.held -> [w EXCEPT !.has = 3, !.spin = FALSE, !.warn = TRUE]

\* The skeletons are shown as long as there is nothing.
TeaserTakes(w, r) ==
  CASE r = "rows" -> [w EXCEPT !.has = 1, !.spin = FALSE]
    [] r = "none" -> w
    [] OTHER      -> [w EXCEPT !.has = 3, !.spin = FALSE]

\* What localStorage has, and the constants only without it.
IndicesTakes(w, r) ==
  IF r = "rows" THEN [Kept(w) EXCEPT !.has = 1, !.spin = FALSE]
  ELSE [w EXCEPT !.has = IF w.copy = "none" THEN 3 ELSE 1, !.spin = FALSE, !.warn = TRUE]

InsightsTakes(w, of, r) ==
  IF r = "rows" THEN [w EXCEPT !.has = of, !.spin = FALSE]
  ELSE [w EXCEPT !.has = 0, !.warn = TRUE, !.spin = FALSE]

DiaryTakes(w, of, r) == [w EXCEPT !.has = IF r = "rows" THEN of ELSE @, !.spin = FALSE]

BellTakes(w, r) == [w EXCEPT !.has = IF r = "rows" THEN 1 ELSE @]

\* The batches of one round, one after the other; without a price nothing is set.
PricesTakes(w, of, r) == [w EXCEPT !.has = IF r = "rows" THEN of ELSE @]

Takes(w, of, r) ==
  CASE w.kind = "snapshot" -> SnapshotTakes(w, r)
    [] w.kind = "carousel" -> CarouselTakes(w, of, r)
    [] w.kind = "news"     -> NewsTakes(w, of, r)
    [] w.kind = "watch"    -> WatchTakes(w, r)
    [] w.kind = "coins"    -> CoinsTakes(w, r)
    [] w.kind = "coin"     -> CoinTakes(w, r)
    [] w.kind = "teaser"   -> TeaserTakes(w, r)
    [] w.kind = "indices"  -> IndicesTakes(w, r)
    [] w.kind = "insights" -> InsightsTakes(w, of, r)
    [] w.kind = "diary"    -> DiaryTakes(w, of, r)
    [] w.kind = "bell"     -> BellTakes(w, r)
    [] w.kind = "prices"   -> PricesTakes(w, of, r)

\* Variant with a bug: the flag of the carousel is not looked at.
HeededCarousel(a) == a.run = "now" \/ (a.run = "before" /\ widget.kind \notin Guarded \ {"carousel"})

\* Whether an answer changes what is shown.
Heeded(a) == a.run = "now" \/ (a.run = "before" /\ widget.kind \notin Guarded)

\* The watchlist and the coin page write their entry even when they are gone.
StoredLate(r) ==
  CASE widget.kind = "watch" ->
         [widget EXCEPT !.copy = "fresh", !.copied = IF r = "rows" THEN 1 ELSE 0]
    [] widget.kind = "coin" /\ r = "rows" -> Kept(widget)
    [] OTHER -> widget

WidgetAnswer ==
  /\ \E a \in asks, r \in Outcome(widget.kind) :
       /\ asks' = asks \ {a}
       /\ widget' = IF Heeded(a) THEN Takes(widget, a.of, r) ELSE StoredLate(r)
       /\ lapse' = (lapse \/ (Heeded(a) /\ r # "rows"))
  /\ UNCHANGED turns

-----------------------------------------------------------------------------
(* Specification *)

WidgetNext ==
  \/ WidgetOpens \/ WidgetLeft
  \/ NewsPage \/ KeywordsChange \/ DiaryToken \/ AssetsChange \/ HoldingsChange
  \/ IndicesRefresh \/ SnapshotRetry \/ PollDue \/ CopyAges
  \/ WidgetAnswer

WidgetSpec == WidgetInit /\ [][WidgetNext]_widgetVars

-----------------------------------------------------------------------------
(* Properties *)

\* With nothing under way, what is shown is of what is selected, unless an
\* answer failed; where there is no `cancelled' flag, unless one was overtaken.
ShowsTheSelection ==
  widget.open /\ Own = {} /\ ~lapse => widget.has \in {0, 3, widget.sel}

\* A spinner turns for a request of this run; apart from the teaser that got a
\* list without entries and the diary without a token, which wait for ever.
SpinHasARequest ==
  widget.spin => \/ \E a \in asks : a.run = "now"
                 \/ widget.kind \in {"teaser", "diary"} /\ widget.has = 0

\* Prices once shown are never replaced by those built into the code, whatever
\* fails afterwards.
RealStaysReal ==
  [][widget.kind \in {"coins", "indices"} /\ widget.open /\ widget'.open /\ widget.has = 1
     => widget'.has = 1]_widgetVars

=============================================================================
