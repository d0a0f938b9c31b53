------------------------------ MODULE Session ------------------------------
(***************************************************************************)
(* The session of one user in one browser: contexts/AuthContext.tsx in     *)
(* every open tab, the login and OAuth callback pages, middleware.ts and,  *)
(* behind them, login, refresh, logout and me of the auth service.         *)
(*                                                                         *)
(* The tabs share the cookie jar and localStorage; user, token and         *)
(* sessionStorage are a tab's own.  Every await is a point where another   *)
(* flow, of this tab or of the other, may run.  A flow that calls refresh  *)
(* or me is a record: where it stands, what its request carries, what it   *)
(* got.  A request may get no answer in time whatever the server does.     *)
(*                                                                         *)
(* Tokens are numbered in the order of issue; access, refresh and CSRF     *)
(* token of one answer share a number.  `Lapse' is two hours in which the  *)
(* machine slept: access tokens and their cookies end, refresh tokens (14  *)
(* days) do not.                                                           *)
(***************************************************************************)
EXTENDS Integers, FiniteSets

CONSTANTS
  Tabs,
  MaxIssue,  \* bound on the tokens issued
  MaxFlows,  \* bound on the flows under way when another starts, plus one
  Faults     \* a subset of {"net", "redis"}

ASSUME SessionAssumption ==
  /\ MaxIssue \in Nat /\ MaxFlows \in Nat
  /\ Faults \subseteq {"net", "redis"}

VARIABLES
  jar,     \* the browser's cookies: auth_token, refresh_token, csrf_token
  kept,    \* Redis: refresh:{uid}, 0 when it is absent
  issued,  \* the newest token
  lapsed,  \* access tokens up to this one have expired
  saved,   \* localStorage: session_expiry
  tab,     \* what a tab holds
  flow,    \* what a tab's flows wait for
  ghosts,  \* refreshes the server goes on with after the browser gave up
  forked,  \* history: an answer with cookies was lost, or refreshes overlapped
  left     \* history: the last sign-in or sign-out was a logout nothing overlapped

vars   == <<jar, kept, issued, lapsed, saved, tab, flow, ghosts,
            forked, left>>
server == <<kept, issued, ghosts>>

Kinds  == {"init", "warm", "sign", "logout"}
Tokens == 0 .. MaxIssue
Expiry == {"none", "ahead", "past"}
Jar    == [access : Tokens, refresh : Tokens, csrf : BOOLEAN]
Tab    == [user : BOOLEAN, expiry : Expiry, loading : BOOLEAN]
Flow   == [at : {"idle", "sent", "passed", "issued", "asked", "login", "gone", "cleared"},
           use : Tokens, ref : Tokens, got : Tokens,
           leg : {"", "known", "last"}, cut : BOOLEAN]

TypeOK ==
  /\ jar \in Jar
  /\ kept \in Tokens /\ issued \in Tokens /\ lapsed \in Tokens
  /\ saved \in Expiry
  /\ tab \in [Tabs -> Tab]
  /\ flow \in [Tabs -> [Kinds -> Flow]]
  /\ ghosts \in 0 .. 1
  /\ forked \in BOOLEAN /\ left \in BOOLEAN

Empty == [access |-> 0, refresh |-> 0, csrf |-> FALSE]
Idle  == [at |-> "idle", use |-> 0, ref |-> 0, got |-> 0, leg |-> "", cut |-> FALSE]

\* POST /refresh with the cookies of this moment.  The CSRF header is read from
\* its cookie: without it verify_csrf_token refuses, as without a refresh token.
Refreshing(got, leg, j) ==
  [Idle EXCEPT !.at = "sent", !.ref = IF j.csrf THEN j.refresh ELSE 0,
               !.got = got, !.leg = leg]

\* GET /me: the Authorization header goes before the cookie.
Asking(got, leg, j) ==
  [Idle EXCEPT !.at = "asked", !.got = got, !.leg = leg,
               !.use = IF got # 0 THEN got ELSE j.access]

\* AuthProvider mounts: initAuth restores the user and asks for /me.
Opening(j) == [k \in Kinds |-> IF k = "init" THEN Asking(0, "", j) ELSE Idle]
Mounted(user, expiry) ==
  [user |-> user, expiry |-> expiry, loading |-> TRUE]

Init ==
  /\ jar = Empty /\ kept = 0 /\ issued = 0
  /\ lapsed = 0 /\ saved = "none"
  /\ tab = [t \in Tabs |-> Mounted(FALSE, "none")]
  /\ flow = [t \in Tabs |-> Opening(Empty)]
  /\ ghosts = 0
  /\ forked = FALSE /\ left = FALSE

-----------------------------------------------------------------------------
(* What a flow does with an answer *)

\* initAuth, the interval, login and the callback after a refresh that returned
\* the token `tok', 0 for null: /me leaves at once.
AfterRefresh(f, k, tok, j) ==
  IF f.leg = "known" THEN Idle ELSE Asking(tok, "last", j)

\* Variant with a bug: initAuth returns before its `finally'.
TabAfterRefreshForgets(b, f) == b

TabAfterRefresh(b, f) == [b EXCEPT !.loading = @ /\ f.leg # "known"]

\* fetchMe found the user.  session_expiry of localStorage is kept while ahead.
Welcome(b) == [b EXCEPT !.user = TRUE, !.expiry = "ahead"]

\* fetchMe(.., false): a failure clears nothing by itself; initAuth clears.
AfterMe(f, k, ok) ==
  IF k = "init" /\ f.leg = ""
  THEN Refreshing(0, IF ok THEN "known" ELSE "last", jar)
  ELSE Idle
Signed(b, f, k, ok) ==
  LET c == IF ok THEN Welcome(b) ELSE b IN
  IF k = "init" /\ f.leg = "last"
  THEN [c EXCEPT !.loading = FALSE, !.user = ok]
  ELSE c

-----------------------------------------------------------------------------
(* Refreshing *)

UnderWay == {x \in Tabs \X Kinds : flow[x[1]][x[2]] # Idle}
Room(n)  == Cardinality(UnderWay) + n <= MaxFlows

Put(t, k, f) == flow' = [flow EXCEPT ![t][k] = f]
Busy(t, k, labels) == flow[t][k].at \in labels

\* Another answer with cookies is under way.
Overlapped(t, k) ==
  \/ ghosts > 0
  \/ \E u \in Tabs, j \in Kinds : <<u, j>> # <<t, k>> /\ Busy(u, j, {"passed", "issued"})

\* The flow goes on, without cookies of its own.
RefreshReturns(t, k, tok) ==
  /\ Put(t, k, AfterRefresh(flow[t][k], k, tok, jar'))
  /\ tab' = [tab EXCEPT ![t] = TabAfterRefresh(@, flow[t][k])]

\* The stored token is compared when there is one; a Redis that fails has none.
Accepted(ref) == ref # 0 /\ kept \in {0, ref}

RefreshCheck(t, k) ==
  /\ Busy(t, k, {"sent"})
  /\ UNCHANGED jar
  /\ \/ /\ Accepted(flow[t][k].ref) \/ (flow[t][k].ref # 0 /\ "redis" \in Faults)
        /\ Put(t, k, [flow[t][k] EXCEPT !.at = "passed"])
        /\ UNCHANGED tab
     \/ /\ ~Accepted(flow[t][k].ref)
        /\ RefreshReturns(t, k, 0)
  /\ UNCHANGED <<server, lapsed, saved, forked, left>>

\* A pair is issued and its refresh token stored; cache_set swallows failures.
Issue ==
  /\ issued < MaxIssue
  /\ issued' = issued + 1
  /\ kept' \in {issued'} \cup (IF "redis" \in Faults THEN {kept} ELSE {})

RefreshIssue(t, k) ==
  /\ Busy(t, k, {"passed"})
  /\ Issue
  /\ Put(t, k, [flow[t][k] EXCEPT !.at = "issued", !.use = issued',
                                  !.ref = issued'])
  /\ forked' = (forked \/ Overlapped(t, k) \/ kept' # issued')
  /\ UNCHANGED <<jar, ghosts, lapsed, saved, tab, left>>

\* _set_auth_cookies.
Cookies(access, refresh) == [access |-> access, refresh |-> refresh, csrf |-> TRUE]

\* The answer of refresh or login: the browser stores its cookies.
CookiesArrive(t, k) ==
  /\ Busy(t, k, {"issued"}) /\ ~flow[t][k].cut
  /\ jar' = Cookies(flow[t][k].use, flow[t][k].ref)
  /\ RefreshReturns(t, k, flow[t][k].use)
  /\ UNCHANGED <<server, lapsed, saved, forked, left>>

\* Timeout, abort or a dead connection.  The server may go on.
RefreshLost(t, k) ==
  /\ Busy(t, k, {"sent", "passed", "issued"})
  /\ "net" \in Faults \/ flow[t][k].cut \/ issued = MaxIssue
  /\ UNCHANGED jar
  /\ RefreshReturns(t, k, 0)
  /\ ghosts' = IF Busy(t, k, {"passed"}) THEN 1 ELSE ghosts
  /\ forked' = (forked \/ Busy(t, k, {"issued"}))
  /\ UNCHANGED <<kept, issued, lapsed, saved, left>>

GhostIssues ==
  /\ ghosts > 0
  /\ Issue
  /\ ghosts' = 0 /\ forked' = TRUE
  /\ UNCHANGED <<jar, lapsed, saved, tab, flow, left>>

-----------------------------------------------------------------------------
(* Who is signed in *)

\* logout aborts what AuthContext has under way and posts /logout.
LogoutBegins(fs) ==
  [k \in Kinds |->
     CASE k = "logout" -> [Idle EXCEPT !.at = "gone", !.use = jar.access]
       [] k # "logout" /\ fs[k].at \in {"sent", "passed", "issued", "asked", "login"} ->
            [fs[k] EXCEPT !.cut = TRUE]
       [] OTHER -> fs[k]]

Live(token) == token # 0 /\ token > lapsed

\* The interval logs out when /me is not a success.
EndsSession(k, ok) == k = "warm" /\ ~ok

\* The answer of /me, or none.
Answered(t, k) ==
  /\ Busy(t, k, {"asked"})
  /\ \E ok \in BOOLEAN :
       /\ ok => Live(flow[t][k].use) /\ ~flow[t][k].cut
       /\ ~ok => ~Live(flow[t][k].use) \/ flow[t][k].cut \/ "net" \in Faults
       /\ tab' = [tab EXCEPT ![t] = Signed(@, flow[t][k], k, ok)]
       /\ saved' = IF ok THEN "ahead" ELSE saved
       /\ LET done == [flow[t] EXCEPT ![k] = AfterMe(@, k, ok)] IN
          flow' = [flow EXCEPT ![t] =
                     IF EndsSession(k, ok) /\ done["logout"] = Idle
                     THEN LogoutBegins(done) ELSE done]
  /\ UNCHANGED <<jar, server, lapsed, forked, left>>

\* Every 15 minutes while a user is shown: refresh, then /me.
WarmTick(t) ==
  /\ tab[t].user
  /\ Room(1)
  /\ \A k \in {"init", "warm", "sign", "logout"} : flow[t][k] = Idle
  /\ Put(t, "warm", Refreshing(0, "", jar))
  /\ UNCHANGED <<jar, server, lapsed, saved, tab, forked, left>>

\* The button of Header, PortfolioHeader or mypage, or the check of the expiry.
LogoutStart(t) ==
  /\ tab[t].user
  /\ Room(1)
  /\ flow[t]["logout"] = Idle
  /\ flow' = [flow EXCEPT ![t] = LogoutBegins(@)]
  /\ UNCHANGED <<jar, server, lapsed, saved, tab, forked, left>>

ExpiryCheck(t) == tab[t].expiry = "past" /\ LogoutStart(t)

\* The user is read from the cookie's token: without one nothing is deleted.
LogoutHandled(t) ==
  /\ Busy(t, "logout", {"gone"})
  /\ \/ kept' = IF flow[t]["logout"].use # 0 THEN 0 ELSE kept
     \/ "redis" \in Faults /\ UNCHANGED kept
  /\ Put(t, "logout", [flow[t]["logout"] EXCEPT !.at = "cleared"])
  /\ UNCHANGED <<jar, issued, ghosts, lapsed, saved, tab, forked, left>>

\* The page goes away with all its flows and AuthProvider mounts again.
Remount(t, b) ==
  /\ tab' = [tab EXCEPT ![t] = b]
  /\ flow' = [flow EXCEPT ![t] = Opening(jar')]
  /\ ghosts' = IF \E k \in Kinds : Busy(t, k, {"passed"}) THEN 1 ELSE ghosts
  /\ forked' = (forked \/ \E k \in Kinds : Busy(t, k, {"issued"}))

\* Another tab waits for an answer that brings cookies.
Overtaken(t) == \E u \in Tabs \ {t}, k \in Kinds :
                  Busy(u, k, {"sent", "passed", "issued", "login"})

\* Variant with a bug: the refresh cookie survives.
AfterLogoutKeepsRefresh(heard) ==
  IF heard THEN [Empty EXCEPT !.refresh = jar.refresh, !.csrf = TRUE] ELSE jar

AfterLogout(heard) == IF heard THEN Empty ELSE [jar EXCEPT !.csrf = FALSE]

\* Whatever came of the request, the tab forgets its user and reloads at `/'.
LogoutEnds(t) ==
  /\ Busy(t, "logout", {"gone", "cleared"})
  /\ \E heard \in BOOLEAN :
       /\ heard => Busy(t, "logout", {"cleared"})
       /\ ~heard => "net" \in Faults
       /\ jar' = AfterLogout(heard)
       /\ left' = (heard /\ ~Overtaken(t))
  /\ saved' = "none"
  /\ Remount(t, Mounted(FALSE, "none"))
  /\ UNCHANGED <<kept, issued, lapsed>>

Reload(t) ==
  /\ ~tab[t].loading
  /\ Room(1)
  /\ UNCHANGED jar
  /\ Remount(t, Mounted(tab[t].user, saved))
  /\ UNCHANGED <<kept, issued, lapsed, saved, left>>

\* middleware.ts opens the login page only without the cookie.
Protected == jar.access # 0

\* The login form; initAuth may still be under way.
LoginSubmit(t) ==
  /\ Room(1)
  /\ ~Protected /\ flow[t]["sign"] = Idle
  /\ Put(t, "sign", [Idle EXCEPT !.at = "login"])
  /\ UNCHANGED <<jar, server, lapsed, saved, tab, forked, left>>

\* 401, 429, 403, no answer; or a new pair.
LoginAnswer(t) ==
  /\ Busy(t, "sign", {"login"})
  /\ \/ /\ Put(t, "sign", Idle)
        /\ UNCHANGED <<issued, kept, forked, left>>
     \/ /\ Issue
        /\ Put(t, "sign", [flow[t]["sign"] EXCEPT !.at = "issued", !.use = issued',
                                                  !.ref = issued'])
        /\ forked' = (forked \/ Overlapped(t, "sign") \/ kept' # issued')
        /\ left' = FALSE
  /\ UNCHANGED <<jar, ghosts, lapsed, saved, tab>>

\* Back from the provider, with cookies: the callback page calls refreshUser
\* while AuthProvider, mounted with it, runs initAuth.
OAuthReturn(t) ==
  /\ Room(2)
  /\ ~Protected /\ \A k \in Kinds : flow[t][k] = Idle
  /\ Issue
  /\ jar' = Cookies(issued', issued')
  /\ tab' = [tab EXCEPT ![t] = Mounted(tab[t].user, saved)]
  /\ flow' = [flow EXCEPT ![t] = [Opening(jar') EXCEPT !["sign"] = Refreshing(0, "last", jar')]]
  /\ forked' = (forked \/ Overlapped(t, "sign") \/ kept' # issued')
  /\ left' = FALSE
  /\ UNCHANGED <<ghosts, lapsed, saved>>

-----------------------------------------------------------------------------
(* Time *)

\* The machine sleeps for two hours, which no request survives.  A tab whose
\* user pressed `extend' (extendSession) still has its expiry ahead.
Lapse ==
  /\ lapsed = 0 /\ issued > 0
  /\ ghosts = 0 /\ \A t \in Tabs, k \in Kinds : flow[t][k] = Idle
  /\ \E extended \in SUBSET {u \in Tabs : tab[u].expiry # "none"} :
       /\ tab' = [t \in Tabs |->
                    [tab[t] EXCEPT !.expiry =
                       CASE t \in extended -> "ahead"
                         [] t \notin extended /\ tab[t].expiry = "ahead" -> "past"
                         [] OTHER -> @]]
       /\ saved' = CASE extended # {} -> "ahead"
                     [] extended = {} /\ saved = "ahead" -> "past"
                     [] OTHER -> saved
  /\ lapsed' = issued
  /\ jar' = [jar EXCEPT !.access = 0, !.csrf = FALSE]
  /\ UNCHANGED <<server, flow, forked, left>>

-----------------------------------------------------------------------------
(* Specification *)

Step(t, k) ==
  \/ RefreshCheck(t, k) \/ RefreshIssue(t, k) \/ CookiesArrive(t, k)
  \/ RefreshLost(t, k) \/ Answered(t, k)

Progress(t) == LogoutHandled(t) \/ LogoutEnds(t) \/ LoginAnswer(t)

Next ==
  \/ \E t \in Tabs :
       \/ \E k \in Kinds : Step(t, k)
       \/ Progress(t)
       \/ WarmTick(t) \/ LogoutStart(t) \/ ExpiryCheck(t) \/ Reload(t)
       \/ LoginSubmit(t) \/ OAuthReturn(t)
  \/ GhostIssues \/ Lapse

\* Requests end, at the latest by their timeout, and the browser's timers fire:
\* strong fairness, because MaxFlows may hold them up for a while.
Fairness ==
  \A t \in Tabs :
    /\ \A k \in Kinds : WF_vars(Step(t, k))
    /\ WF_vars(LogoutHandled(t) \/ LogoutEnds(t))
    /\ WF_vars(LoginAnswer(t))
    /\ SF_vars(WarmTick(t)) /\ SF_vars(ExpiryCheck(t))

Spec     == Init /\ [][Next]_vars
FairSpec == Spec /\ Fairness

-----------------------------------------------------------------------------
(* Properties *)

Quiet == ghosts = 0 /\ \A t \in Tabs, k \in Kinds : flow[t][k] = Idle

\* Rotation: as long as no two refreshes overlapped and no answer with cookies
\* was lost, the refresh token in the browser is one the service accepts.
NextRefreshIsAccepted == Quiet /\ ~forked /\ jar.refresh # 0 => Accepted(jar.refresh)

\* After a logout that no refresh of another tab overtook, only a new sign-in
\* brings cookies back, whatever the open tabs still try.
SignedOutStaysOut == left => jar.access = 0 /\ jar.refresh = 0

\* Once initAuth is over, a tab that shows a user has an expiry: the check that
\* logs it out is armed.
ShownUserExpires ==
  \A t \in Tabs : tab[t].user /\ ~tab[t].loading => tab[t].expiry # "none"

\* What the tabs of a browser, its cookies and the service may never disagree on.
SessionInv == TypeOK /\ NextRefreshIsAccepted /\ SignedOutStaysOut /\ ShownUserExpires

\* initAuth ends however its calls end, if no logout starts it over: no page
\* shows its spinner for ever.
LoadingEnds ==
  \A t \in Tabs : tab[t].loading ~> ~tab[t].loading \/ flow[t]["logout"] # Idle

\* When the cookies are gone for good, every tab notices, not only the one
\* where the user logged out.
EveryTabNotices == <>[](jar = Empty) => <>[](\A t \in Tabs : ~tab[t].user)

\* No tab waits for ever, neither for the end of initAuth nor to notice the end
\* of the session.
TabsComeToRest == LoadingEnds /\ EveryTabNotices

=============================================================================
