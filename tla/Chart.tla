------------------------------- MODULE Chart -------------------------------
(***************************************************************************)
(* The price chart (AdvancedChart) on the chart page and on a coin's page, *)
(* with the chart page's list of assets (ChartSidebar).                    *)
(*                                                                         *)
(* Two effects work on one canvas: one builds an empty chart whenever the  *)
(* theme, the time frame or the kind of chart changes, the other reads the *)
(* rows of the asset and draws them whenever the asset, the time frame or  *)
(* the kind changes.  An answer overtaken by a newer effect is thrown      *)
(* away.  The effect of the live prices does nothing: isIntraday is FALSE. *)
(***************************************************************************)
EXTENDS Integers

CONSTANTS
  Listed,       \* assets of the watchlist
  Held,         \* assets of the portfolio
  MaxRenders    \* bound on renders that nobody clicked for

ASSUME ChartAssumption == MaxRenders \in Nat

VARIABLES
  chart,     \* the page, what is selected, what is drawn and written over it
  history,   \* the history request that still counts: asset and time frame
  bare,      \* history: the theme changed since the rows were drawn
  renders    \* bound

chartVars == <<chart, history, bare, renders>>

NoRows == [rows |-> FALSE]
Series == [asset : Listed \cup Held, frame : 1 .. 2, own : BOOLEAN]
Wanted == [asset : Listed \cup Held, frame : 1 .. 2]

ChartTypeOK ==
  /\ chart \in [page : {"chart", "coin"}, ready : BOOLEAN, asset : Listed \cup Held,
                frame : 1 .. 2, candles : BOOLEAN,
                drawn : Series \cup {NoRows}, note : {"", "empty", "failed"},
                tab : {"market", "portfolio", "favorites"}, liked : SUBSET Listed]
  /\ history \in Wanted \cup {NoRows} /\ bare \in BOOLEAN /\ renders \in 0 .. MaxRenders
  /\ ~chart.ready => history = NoRows /\ chart.drawn = NoRows /\ chart.note = ""

\* The chart page waits for its watchlist; the coin page draws its coin at once.
ChartInit ==
  /\ \E p \in {"chart", "coin"}, a \in Listed :
       /\ chart = [page |-> p, ready |-> (p = "coin"), asset |-> a, frame |-> 1,
                   candles |-> FALSE, drawn |-> NoRows, note |-> "",
                   tab |-> "market", liked |-> {}]
       /\ history = IF p = "coin" THEN [asset |-> a, frame |-> 1] ELSE NoRows
  /\ bare = FALSE /\ renders = 0

-----------------------------------------------------------------------------
(* The effects *)

\* The history effect: the request before no longer counts, the note goes.
Rereads(c) ==
  /\ chart' = [c EXCEPT !.note = ""]
  /\ history' = [asset |-> c.asset, frame |-> c.frame]
  /\ bare' = FALSE

\* The effect that builds the chart: nothing is drawn on the new one.
Rebuilt(c) == [c EXCEPT !.drawn = NoRows]

-----------------------------------------------------------------------------
(* The chart page *)

\* The watchlist: what is selected stays if the list has it, else the first of
\* the list is; without an answer all stays.  The chart is mounted now.
WatchlistAnswers ==
  /\ chart.page = "chart" /\ ~chart.ready
  /\ \/ Rereads([chart EXCEPT !.ready = TRUE])
     \/ /\ chart.asset \notin Listed
        /\ \E a \in Listed : Rereads([chart EXCEPT !.ready = TRUE, !.asset = a])
  /\ UNCHANGED renders

\* displayedAssets: by the tab of the list.
SideOffers ==
  CASE chart.tab = "market"    -> Listed
    [] chart.tab = "portfolio" -> Held
    [] chart.tab = "favorites" -> Listed \cap chart.liked

\* A row of the list: another object, even for the asset that is shown.
PickAsset ==
  /\ chart.page = "chart"
  /\ \E a \in SideOffers :
       IF chart.ready
         THEN Rereads([chart EXCEPT !.asset = a])
         ELSE /\ chart' = [chart EXCEPT !.asset = a]
              /\ UNCHANGED <<history, bare>>
  /\ UNCHANGED renders

SideTab ==
  /\ chart.page = "chart"
  /\ \/ \E t \in {"market", "portfolio", "favorites"} : chart' = [chart EXCEPT !.tab = t]
     \/ \E a \in SideOffers \cap Listed :
          chart' = [chart EXCEPT !.liked = IF a \in @ THEN @ \ {a} ELSE @ \cup {a}]
  /\ UNCHANGED <<history, bare, renders>>

\* Every render of a coin's page makes the asset anew (each poll of the price).
CoinRenders ==
  /\ chart.page = "coin" /\ renders < MaxRenders
  /\ Rereads(chart) /\ renders' = renders + 1

-----------------------------------------------------------------------------
(* The chart's own buttons, and the theme of the page *)

ChartButtons ==
  /\ chart.ready
  /\ \/ \E f \in 1 .. 2 : f # chart.frame /\ Rereads(Rebuilt([chart EXCEPT !.frame = f]))
     \/ Rereads(Rebuilt([chart EXCEPT !.candles = ~@]))
  /\ UNCHANGED renders

\* Only the first effect depends on the theme.
ThemeChanges ==
  /\ chart.ready /\ renders < MaxRenders /\ renders' = renders + 1
  /\ chart' = Rebuilt(chart)
  /\ bare' = (history = NoRows)
  /\ UNCHANGED history

-----------------------------------------------------------------------------
(* The answer *)

\* resolveFxRate: how far a rate from the price to the last row is believed.
Believed(kind, ratio) ==
  IF kind \in {"crypto", "domestic"} THEN ratio = "equal" ELSE ratio = "won per dollar"

\* isLikelyBrokenHistory: without a price the rows are believed.
LikelyBroken(kind, rows, ratio) ==
  rows = "few" \/ (ratio # "no price" /\ ~Believed(kind, ratio))

\* The rows the asset brings along stand in for a history that looks broken.
RowsOf(kind, rows, ratio, own) ==
  IF LikelyBroken(kind, rows, ratio) /\ own THEN "own" ELSE rows

Draws(kind, rows, ratio, own) ==
  [asset |-> history.asset, frame |-> history.frame,
   own |-> RowsOf(kind, rows, ratio, own) = "own"]

HistoryAnswers ==
  /\ history # NoRows
  /\ \/ \E kind \in {"crypto", "domestic", "foreign"}, rows \in {"few", "many"},
           ratio \in {"no price", "equal", "won per dollar"}, own \in BOOLEAN :
          chart' = [chart EXCEPT !.drawn = Draws(kind, rows, ratio, own)]
     \/ chart' = [chart EXCEPT !.drawn = NoRows, !.note = "empty"]
  /\ history' = NoRows /\ UNCHANGED <<bare, renders>>

\* What was drawn before stays under the note.
HistoryFails ==
  /\ history # NoRows
  /\ chart' = [chart EXCEPT !.note = "failed"]
  /\ history' = NoRows /\ UNCHANGED <<bare, renders>>

-----------------------------------------------------------------------------
(* Specification *)

ChartNext ==
  \/ WatchlistAnswers \/ PickAsset \/ SideTab \/ CoinRenders
  \/ ChartButtons \/ ThemeChanges
  \/ HistoryAnswers \/ HistoryFails

ChartSpec == ChartInit /\ [][ChartNext]_chartVars

-----------------------------------------------------------------------------
(* Properties *)

\* With nothing under way, a chart without a note shows the rows of the asset and
\* the time frame that are selected, unless the theme has changed since.
ChartShowsTheAsset ==
  chart.ready /\ history = NoRows /\ chart.note = ""
    => \/ bare
       \/ /\ chart.drawn # NoRows
          /\ chart.drawn.asset = chart.asset /\ chart.drawn.frame = chart.frame

=============================================================================
