------------------------------ MODULE QuickBar ------------------------------
(***************************************************************************)
(* What the user arranges and the browser keeps: the tools of the quick    *)
(* bar, their order and its panels (QuickBar), and the favourites          *)
(* (FavoritesContext), whose list every open tab keeps a copy of.          *)
(*                                                                         *)
(* Both load in an effect of the first render and save in effects; those   *)
(* of the quick bar wait for `mounted', those of the favourites do not, so *)
(* that an empty list is stored for the time of a render.                  *)
(***************************************************************************)
EXTENDS Integers, Sequences, SequencesExt

CONSTANTS
  Panels, Links,   \* tools that open a panel, tools that lead to another page
  BarTabs,         \* tabs of the browser
  Favourites,      \* symbols of favourites
  MaxToggles       \* bound on changes of the favourites

ASSUME QuickBarAssumption ==
  /\ IsFiniteSet(Panels) /\ IsFiniteSet(Links) /\ Panels # {} /\ Panels \cap Links = {}
  /\ MaxToggles \in Nat

VARIABLES
  bar,        \* the quick bar of the page: its tools, their order, the panel
  barStore,   \* localStorage: the three entries of the quick bar
  favs,       \* per tab: its list of favourites, and whether it has rendered it
  favStore,   \* localStorage: the favourites
  wish,       \* history: the favourites the user has chosen
  apart,      \* history: two tabs were open, or one closed in its first render
  toggles     \* bound

barVars == <<bar, barStore>>
favVars == <<favs, favStore, wish, apart, toggles>>

Tools == Panels \cup Links
BarOrders == {s \in [1 .. Cardinality(Tools) -> Tools] : IsInjective(s)}
NoEntry == <<>>

BarTypeOK ==
  /\ bar \in [up : BOOLEAN, visible : SUBSET Tools, order : BarOrders, folded : BOOLEAN,
              panel : Panels \cup {"none", "edit", "chat"}, dragged : Tools \cup {"none"}]
  /\ barStore \in [visible : SUBSET Tools, order : BarOrders \cup {NoEntry},
                   folded : BOOLEAN]
  /\ DOMAIN favs = BarTabs
  /\ \A t \in BarTabs : favs[t] \in [at : {"closed", "loading", "open"}, list : SUBSET Favourites]
  /\ favStore \subseteq Favourites /\ wish \subseteq Favourites
  /\ apart \in BOOLEAN /\ toggles \in 0 .. MaxToggles

AnOrder == CHOOSE o \in BarOrders : TRUE
Fresh   == [up |-> FALSE, visible |-> Tools, order |-> AnOrder, folded |-> FALSE,
            panel |-> "none", dragged |-> "none"]

\* Nothing stored, or what the version without an order left.
BarInit ==
  /\ bar = Fresh
  /\ \E v \in SUBSET Tools :
       barStore = [visible |-> v, order |-> NoEntry, folded |-> FALSE]

FavInit ==
  /\ favs = [t \in BarTabs |-> [at |-> "closed", list |-> {}]]
  /\ favStore = {} /\ wish = {} /\ apart = FALSE /\ toggles = 0

-----------------------------------------------------------------------------
(* The quick bar: loading and saving *)

\* The order without an entry: the tools to be seen, then the others.
FirstVisible(visible) ==
  {o \in BarOrders : \A i, j \in DOMAIN o : o[i] \in visible /\ o[j] \notin visible => i < j}

\* The entries that can be read, or else what was there; an empty list of tools
\* counts as none.
LoadBar ==
  /\ ~bar.up
  /\ LET seen == IF barStore.visible = {} THEN Tools ELSE barStore.visible IN
     \E o \in IF barStore.order # NoEntry THEN {barStore.order} ELSE FirstVisible(seen) :
       bar' = [bar EXCEPT !.up = TRUE, !.visible = seen, !.order = o,
                          !.folded = barStore.folded]
  /\ UNCHANGED barStore

\* The effects that save, once `mounted'.
Saves ==
  IF bar.up THEN barStore' = [visible |-> bar.visible, order |-> bar.order, folded |-> bar.folded]
  ELSE UNCHANGED barStore

SaveBar ==
  /\ Saves /\ UNCHANGED bar
  /\ barStore' # barStore

\* A click is handled when the effects of the one before have run.
Saved == bar.up /\ barStore = [visible |-> bar.visible, order |-> bar.order, folded |-> bar.folded]

\* The page is left by a tool that is a link, or reloaded.
BarReload == Saved /\ bar' = Fresh /\ UNCHANGED barStore

-----------------------------------------------------------------------------
(* The quick bar: its buttons *)

\* toggleTool keeps at least one.
Toggled(t) ==
  IF t \notin bar.visible THEN bar.visible \cup {t}
  ELSE IF bar.visible = {t} THEN bar.visible ELSE bar.visible \ {t}

\* reorderTools: taken out, and put where the other tool was before that.
Reordered(tools, from, to) ==
  LET at(t) == CHOOSE i \in DOMAIN tools : tools[i] = t
  IN InsertAt(RemoveAt(tools, at(from)), at(to), from)

\* Which buttons there are: none of the bar while the chat is open.
BarShows(button) ==
  /\ Saved /\ bar.panel # "chat"
  /\ CASE button = "unfold" -> bar.folded
       [] OTHER             -> ~bar.folded

ToolClick ==
  \/ \E t \in bar.visible \cap Panels : BarShows(t) /\ bar' = [bar EXCEPT !.panel = t]
  \/ \E t \in bar.visible \cap Links  : BarShows(t) /\ bar' = Fresh
  \/ BarShows("chat") /\ bar' = [bar EXCEPT !.panel = "chat"]
  \/ BarShows("edit") /\ bar' = [bar EXCEPT !.panel = "edit"]
  \/ BarShows("fold") /\ bar' = [bar EXCEPT !.folded = TRUE]
  \/ BarShows("unfold") /\ bar' = [bar EXCEPT !.folded = FALSE]

\* The panels; sharing changes nothing but a message, which is left out.
PanelClick ==
  \/ Saved /\ bar.panel # "none" /\ bar' = [bar EXCEPT !.panel = "none"]
  \/ /\ Saved /\ bar.panel = "edit"
     /\ \/ \E t \in Tools : bar' = [bar EXCEPT !.visible = Toggled(t)]
        \/ bar.dragged = "none" /\ \E t \in Tools : bar' = [bar EXCEPT !.dragged = t]
        \/ /\ bar.dragged # "none"
           /\ \E t \in Tools :
                bar' = [bar EXCEPT !.dragged = "none",
                                   !.order = IF t = bar.dragged THEN @
                                             ELSE Reordered(@, bar.dragged, t)]

BarNext == LoadBar \/ SaveBar \/ BarReload \/ ((ToolClick \/ PanelClick) /\ UNCHANGED barStore)

-----------------------------------------------------------------------------
(* The favourites *)

\* The first render: the list is read, and the empty one of the state is stored.
FavOpens(t) ==
  /\ favs[t].at = "closed"
  /\ favs' = [favs EXCEPT ![t] = [at |-> "loading", list |-> favStore]]
  /\ favStore' = {}
  /\ apart' = (apart \/ \E u \in BarTabs : favs[u].at # "closed")
  /\ UNCHANGED <<wish, toggles>>

\* The second, with the list read; it is stored again.
FavRenders(t) ==
  /\ favs[t].at = "loading"
  /\ favs' = [favs EXCEPT ![t].at = "open"]
  /\ favStore' = favs[t].list
  /\ UNCHANGED <<wish, apart, toggles>>

Flipped(list, s) == IF s \in list THEN list \ {s} ELSE list \cup {s}

\* toggleFavorite: the whole list of this tab is stored.
ToggleFavorite(t) ==
  /\ favs[t].at = "open" /\ toggles < MaxToggles /\ toggles' = toggles + 1
  /\ \E s \in Favourites :
       /\ favs' = [favs EXCEPT ![t].list = Flipped(@, s)]
       /\ wish' = Flipped(wish, s)
  /\ favStore' = favs'[t].list
  /\ UNCHANGED apart

FavCloses(t) ==
  /\ favs[t].at # "closed"
  /\ favs' = [favs EXCEPT ![t] = [at |-> "closed", list |-> {}]]
  /\ apart' = (apart \/ favs[t].at = "loading")
  /\ UNCHANGED <<favStore, wish, toggles>>

FavNext == \E t \in BarTabs : FavOpens(t) \/ FavRenders(t) \/ ToggleFavorite(t) \/ FavCloses(t)

-----------------------------------------------------------------------------
(* Specification: the two do not meet *)

BarSpec == /\ BarInit /\ FavInit
           /\ [][(BarNext /\ UNCHANGED favVars) \/ (FavNext /\ UNCHANGED barVars)]_<<barVars, favVars>>

-----------------------------------------------------------------------------
(* Properties *)

\* Whatever was stored, toggled and dragged: every tool has one place in the
\* order, and the bar is never without a tool.
ToolsStayUsable ==
  /\ bar.visible # {}
  /\ \A t \in Tools : Cardinality({i \in DOMAIN bar.order : bar.order[i] = t}) = 1

\* A page that has not loaded its bar stores nothing, and what it loads is what
\* was arranged before the last page was left.
LoadingKeepsTheBar ==
  [][~bar.up => /\ barStore' = barStore
                /\ bar'.up /\ barStore.order # NoEntry
                     => /\ bar'.visible = barStore.visible /\ barStore.visible # {}
                        /\ bar'.order = barStore.order /\ bar'.folded = barStore.folded]_barVars

\* In one tab at a time that renders what it has read, the favourites are those
\* the user has chosen, and they come back with the next tab.
FavoritesComeBack ==
  ~apart => \A t \in BarTabs : favs[t].at = "open" => favs[t].list = wish /\ favStore = wish

=============================================================================
