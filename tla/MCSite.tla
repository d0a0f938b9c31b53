------------------------------ MODULE MCSite -------------------------------
(***************************************************************************)
(* The contexts, pages and widgets of the frontend side by side.  They     *)
(* share no state that one of them writes and another reads at a step      *)
(* modelled here, so a behaviour follows one of them, its `part', while    *)
(* the others rest in their first state: one run for all of them, with the *)
(* sum of their states and not the product.                                *)
(***************************************************************************)
EXTENDS PriceStream, AssetView, AssetEntry, EntryForm, CsvUpload, AssetPage,
        AssetFigures, Widgets, Chart, ChatTab, QuickBar, MyPage, AdminPage,
        SignupPages

CONSTANT Parts   \* those that are followed

ASSUME SiteAssumption ==
  Parts \subseteq {"stream", "view", "entry", "fill", "search", "csv", "table", "layout",
                   "figures", "widgets", "chart", "chat", "bar", "favorites", "mypage",
                   "console", "disks", "signup"}

VARIABLE part   \* what is followed

\* The first states; of what is not followed, one.
SiteInit ==
  /\ part \in Parts
  /\ StreamInit  /\ (part # "stream" => client = "market")
  /\ ViewInit
  /\ EntryInit   /\ (part # "entry" => signed)
  /\ FormInit    /\ CsvInit
  /\ PageInit    /\ (part # "table" => ~narrow)
  /\ FiguresInit /\ (part # "figures" => ~ownList)
  /\ WidgetInit  /\ (part # "widgets" => widget.kind = "news")
  /\ ChartInit   /\ (part # "chart" => chart.page = "chart" /\ chart.asset = CHOOSE a \in Listed : TRUE)
  /\ ChatInit
  /\ BarInit     /\ (part # "bar" => barStore.visible = {})
  /\ FavInit
  /\ MyPageInit  /\ (part # "mypage" => account.pic)
  /\ ConsoleInit /\ (part # "console" => console.logNs = CHOOSE n \in LogSpaces : TRUE)
  /\ DisksInit   /\ SignupInit

\* Parts other than those named leave `vars' alone.
Still(parts, vars) == IF part \in parts THEN TRUE ELSE UNCHANGED vars

SiteNext ==
  /\ \/ part = "stream"    /\ StreamNext
     \/ part = "view"      /\ ViewNext
     \/ part = "entry"     /\ EntryNext
     \/ part = "fill"      /\ FillNext
     \/ part = "search"    /\ SearchNext
     \/ part = "csv"       /\ CsvNext
     \/ part = "table"     /\ TableNext
     \/ part = "layout"    /\ LayoutNext
     \/ part = "figures"   /\ FiguresNext
     \/ part = "widgets"   /\ WidgetNext
     \/ part = "chart"     /\ ChartNext
     \/ part = "chat"      /\ ChatNext
     \/ part = "bar"       /\ BarNext
     \/ part = "favorites" /\ FavNext
     \/ part = "mypage"    /\ MyPageNext
     \/ part = "console"   /\ ConsoleNext
     \/ part = "disks"     /\ DisksRead
     \/ part = "signup"    /\ SignupNext
  /\ Still({"stream"}, streamVars) /\ Still({"view"}, viewVars) /\ Still({"entry"}, entryVars)
  /\ Still({"fill", "search"}, formVars) /\ Still({"csv"}, csvVars)
  /\ Still({"table", "layout"}, pageVars) /\ Still({"figures"}, figureVars)
  /\ Still({"widgets"}, widgetVars) /\ Still({"chart"}, chartVars) /\ Still({"chat"}, chatVars)
  /\ Still({"bar"}, barVars) /\ Still({"favorites"}, favVars) /\ Still({"mypage"}, myVars)
  /\ Still({"console"}, consoleVars) /\ Still({"disks"}, disks)
  /\ Still({"signup"}, signupVars)
  /\ UNCHANGED part

siteVars == <<part, streamVars, viewVars, entryVars, formVars, csvVars, pageVars, figureVars,
              widgetVars, chartVars, chatVars, barVars, favVars, myVars, consoleVars, disks, signupVars>>

SiteSpec == SiteInit /\ [][SiteNext]_siteVars

\* A part that rests in its first state enables none of the fair actions.
FairSiteSpec ==
  /\ SiteSpec
  /\ StreamFairness /\ EntryFairness /\ FormFairness /\ PageFairness
  /\ ChatFairness /\ MyPageFairness /\ ConsoleFairness
  /\ SignupFairness

-----------------------------------------------------------------------------
(* Waiting *)

\* What the part that is followed shows as under way.
Waits ==
  CASE part = "entry"              -> EntryWaits
    [] part \in {"fill", "search"} -> FormWaits
    [] part = "table"              -> PageWaits
    [] part = "mypage"             -> MyPageWaits
    [] part = "console"            -> ConsoleWaits
    [] part = "signup"             -> SignupWaits
    [] OTHER                       -> <<>>

Waiting(k) == k \in DOMAIN Waits /\ Waits[k]

\* No button of a page stays disabled and no spinner turns for ever, whatever is
\* answered, fails or overlaps: requests end, and each way out of a handler
\* clears what the handler set.
NoWaitIsForever == \A k \in 1 .. 4 : Waiting(k) ~> ~Waiting(k)

-----------------------------------------------------------------------------
(* What the parts keep, by what it is about *)

\* Both asset pages: one sale at a time, and the same figures on each, which
\* follow from the same rows.
AssetPagesInv == PageTypeOK /\ OneSaleAtATime /\ RowsAddUp /\ PagesAgree

\* What is shown is of what is selected, for search results, widgets and chart:
\* an answer that was overtaken is not taken for the one that is waited for.
ShownIsSelected ==
  /\ FormTypeOK   /\ ResultsFitTheQuery
  /\ WidgetTypeOK /\ ShowsTheSelection /\ SpinHasARequest
  /\ ChartTypeOK  /\ ChartShowsTheAsset

\* What the browser stores comes back and agrees with what is shown: the layout,
\* the quick bar, the favourites and the conversation.
KeptInBrowser ==
  /\ LayoutComesBack
  /\ BarTypeOK  /\ ToolsStayUsable /\ FavoritesComeBack
  /\ ChatTypeOK /\ UsesAgree /\ NoAnswerAlone

\* The account page, the console and the sign-up pages say what is so, although
\* their requests overlap.
PagesAreTrue ==
  /\ MyPageTypeOK /\ PageIsTrue
  /\ AdminTypeOK  /\ LogsAreOfTheNamespace /\ EveryDiskIsShown
  /\ SignupTypeOK /\ WaitsForItsOwnMail /\ DoneWasUsed

\* What a step may never do: put a row into the list with a rate of another
\* currency, save one row with the values of another, darken a forecast although
\* prices only rose, replace prices by stand-ins, or lose the stored bar by
\* loading it.
StepsKeepData ==
  RowsHaveTheirRate /\ SavesTheRowsValues /\ RisingPricesBrighten /\ RealStaysReal /\ LoadingKeepsTheBar

\* Prices come back, answers end, and nothing that is waited for is waited for
\* for ever.
SiteComesToRest == PricesReturn /\ AnswersEnd /\ NoWaitIsForever

=============================================================================
