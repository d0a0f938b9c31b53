----------------------------- MODULE AssetView -----------------------------
(***************************************************************************)
(* The held assets in one tab: context/AssetContext.tsx, which reads them  *)
(* from the portfolio API and sends changes to it.                         *)
(*                                                                         *)
(* What the API holds is the number of changes it has carried out; what    *)
(* the tab shows is the number a read returned.  A flow is one call of a   *)
(* page with everything it awaits: a read of its own ("page"), or a change *)
(* with its refreshes of the token, its one repetition and the read that   *)
(* follows it.  Reads overlap and may answer in any order.                 *)
(***************************************************************************)
EXTENDS Integers, FiniteSets

CONSTANTS
  Changes,      \* changes that may be under way at one time
  MaxStored,    \* bound on the changes carried out
  MaxStale      \* bound on the times the access token ends

ASSUME ViewAssumption == MaxStored \in Nat /\ MaxStale \in Nat /\ "page" \notin Changes

VARIABLES
  user,     \* of AuthContext: "loading", "guest", "mock" or "member"
  token,    \* its access token: "none", "good" or "stale"
  inStore,  \* external: changes the portfolio API has carried out
  view,     \* what the tab shows
  call,     \* its flows
  stale,    \* bound
  behind,   \* history: an answer was lost, or a read was overtaken
  told      \* history: what the tab was told of a finished change

viewVars == <<user, token, inStore, view, call, stale, behind, told>>

Flows  == Changes \cup {"page"}
Sample == -1       \* mockHoldings
NoList == -2       \* the empty list
Shown  == {NoList, Sample} \cup 0 .. MaxStored
View   == [shows : Shown, failed : BOOLEAN, loading : BOOLEAN]
Call   == [at : {"idle", "refreshing", "sent", "again", "resent", "reading", "read"},
           use : {"none", "good", "stale"}, done : 0 .. 1,
           got : Shown]

ViewTypeOK ==
  /\ user \in {"loading", "guest", "mock", "member"}
  /\ token \in {"none", "good", "stale"}
  /\ inStore \in 0 .. MaxStored
  /\ view \in View
  /\ \A f \in Flows : call[f] \in Call /\ (call[f].at = "resent" => call[f].use = "good")
  /\ stale \in 0 .. MaxStale
  /\ behind \in BOOLEAN
  /\ told \in {"true", "false"}

NoCall == [at |-> "idle", use |-> "none", done |-> 0, got |-> 0]

ViewInit ==
  /\ user = "loading" /\ token = "none"
  /\ inStore = 0
  /\ view = [shows |-> NoList, failed |-> FALSE, loading |-> TRUE]
  /\ call = [f \in Flows |-> NoCall]
  /\ stale = 0 /\ behind = FALSE /\ told = "true"

UnderWay == {f \in Flows : call[f].at # "idle"}

-----------------------------------------------------------------------------
(* Reading *)

Reading == [NoCall EXCEPT !.at = "reading"]

\* A read starts: the guest and the mock user get the sample at once.  With
\* nothing else under way it brings the tab up to date.
Reads(f, who) ==
  /\ \/ /\ who = "member"
        /\ call' = [call EXCEPT ![f] = Reading]
        /\ view' = [view EXCEPT !.loading = TRUE, !.failed = FALSE]
     \/ /\ who \in {"guest", "mock"}
        /\ call' = [call EXCEPT ![f] = NoCall]
        /\ view' = [shows |-> Sample, failed |-> FALSE, loading |-> FALSE]
  /\ behind' = (behind /\ UnderWay \ {f} # {})

\* initAuth is over, or login: the effect on fetchHoldings runs.
UserKnown ==
  /\ user \in {"loading", "guest"} /\ call["page"] = NoCall
  /\ \E u \in {"guest", "mock", "member"} :
       /\ u # user
       /\ user' = u
       /\ token' \in IF u = "member" THEN {"good", "none"} ELSE {"none"}
       /\ Reads("page", u)
  /\ UNCHANGED <<inStore, stale, told>>

\* Another access token (the 15 minutes' refresh): the effect runs again.
TokenRenewed ==
  /\ user = "member" /\ token # "good" /\ call["page"] = NoCall
  /\ token' = "good"
  /\ Reads("page", user)
  /\ UNCHANGED <<user, inStore, stale, told>>

\* fetchHoldings called by the asset page when a sale is over.
Reread ==
  /\ user # "loading" /\ call["page"] = NoCall
  /\ Reads("page", user)
  /\ UNCHANGED <<user, token, inStore, stale, told>>

\* It ends on the server; nothing in the tab changes.
TokenEnds ==
  /\ token = "good" /\ stale < MaxStale
  /\ token' = "stale" /\ stale' = stale + 1
  /\ UNCHANGED <<user, inStore, view, call, behind, told>>

\* The API reads the rows.
ReadHandled(f) ==
  /\ call[f].at = "reading"
  /\ call' = [call EXCEPT ![f].at = "read", ![f].got = inStore]
  /\ UNCHANGED <<user, token, inStore, view, stale, behind, told>>

AfterRead(v, ok, n) ==
  [shows |-> IF ok THEN n ELSE NoList, failed |-> ~ok \/ v.failed, loading |-> FALSE]

\* The read answers, whatever was read or changed since, or it fails; a change
\* that waited for it is over in either case.
ReadAnswer(f) ==
  /\ call[f].at \in {"reading", "read"}
  /\ \E ok \in BOOLEAN :
       /\ ok => call[f].at = "read"
       /\ view' = AfterRead(view, ok, call[f].got)
       /\ behind' = (behind \/ (ok /\ call[f].got < view.shows))
  /\ call' = [call EXCEPT ![f] = NoCall]
  /\ UNCHANGED <<user, token, inStore, stale, told>>

-----------------------------------------------------------------------------
(* Changing *)

\* apiMutate: without a token it refreshes first.
Sending ==
  [NoCall EXCEPT !.at = IF token = "none" THEN "refreshing" ELSE "sent",
               !.use = token]

\* addHoldings, updateAsset, deleteAsset: no button waits for an earlier call.
ChangeStart(c) ==
  /\ user = "member" /\ c \in Changes /\ call[c] = NoCall
  /\ inStore + Cardinality(UnderWay \cap Changes) < MaxStored
  /\ call' = [call EXCEPT ![c] = Sending]
  /\ UNCHANGED <<user, token, inStore, view, stale, behind, told>>

\* For the mock user it is the tab's list that changes; a guest gets nothing.
MockChange ==
  /\ user = "mock" /\ view.shows < MaxStored
  /\ view' = [view EXCEPT !.shows = @ + 1]
  /\ UNCHANGED <<user, token, inStore, call, stale, behind, told>>

NextAfter(at, new) ==
  CASE at = "refreshing" -> "sent"
    [] at = "again" /\ new = "good" -> "resent"
    [] at = "again" /\ new = "none" -> "idle"

\* refreshAccessTokenForMutation: the token it gets is not kept.  Before the
\* first request a null goes on without one; after a refusal it ends the call.
Refreshed(c) ==
  /\ call[c].at \in {"refreshing", "again"}
  /\ \E new \in {"none", "good"} :
       call' = [call EXCEPT ![c].at = NextAfter(@, new), ![c].use = new]
  /\ UNCHANGED <<user, token, inStore, view, stale, behind, told>>

\* Only 401 and 403 of the first request, which the API answers before it does
\* anything.
Retried(f, verdict) == f.at = "sent" /\ verdict = "refused"

\* Variant with a bug: the tab is up to date without reading.
AfterChangeTrusts == NoCall

\* addHoldings, updateAsset and deleteAsset read again.
AfterChange == Reading

Succeeds(verdict) == verdict = "ok"

\* The API carries the change out or refuses, for the token (401, 403) or for
\* its content (400, 404), and the answer arrives or does not.
ChangeAnswer(c) ==
  /\ call[c].at \in {"sent", "resent"}
  /\ \E verdict \in {"ok", "refused", "invalid", "lost"}, applied \in {0, 1} :
       /\ verdict = "ok" => applied = 1 /\ call[c].use # "stale"
       /\ verdict \in {"refused", "invalid"} => applied = 0
       /\ call[c].use = "stale" => applied = 0
       /\ inStore + applied <= MaxStored
       /\ inStore' = inStore + applied
       /\ LET f == [call[c] EXCEPT !.done = @ + applied] IN
          /\ call' = [call EXCEPT ![c] =
                        CASE Retried(f, verdict) -> [f EXCEPT !.at = "again"]
                          [] ~Retried(f, verdict) /\ Succeeds(verdict) -> AfterChange
                          [] OTHER -> NoCall]
          /\ view' = IF ~Retried(f, verdict) /\ Succeeds(verdict)
                     THEN [view EXCEPT !.loading = AfterChange # NoCall, !.failed = FALSE]
                     ELSE view
          /\ told' = IF \/ f.done > 1
                        \/ Succeeds(verdict) /\ f.done = 0
                        \/ ~Succeeds(verdict) /\ verdict # "lost" /\ f.done > 0
                     THEN "false" ELSE told
       /\ behind' = \/ behind /\ (verdict # "ok" \/ UnderWay # {c})
                    \/ verdict = "lost" /\ applied = 1
  /\ UNCHANGED <<user, token, stale>>

-----------------------------------------------------------------------------
(* Specification *)

ViewNext ==
  \/ UserKnown \/ TokenRenewed \/ TokenEnds
  \/ \E f \in Flows : ReadHandled(f) \/ ReadAnswer(f)
  \/ \E c \in Changes : ChangeStart(c) \/ Refreshed(c) \/ ChangeAnswer(c)
  \/ MockChange \/ Reread

ViewSpec == ViewInit /\ [][ViewNext]_viewVars

-----------------------------------------------------------------------------
(* Properties *)

\* A change that is repeated is carried out at most once, the tab is told of a
\* success only when it was, and of a refusal only when it was not.
ToldTheTruth == told = "true"

\* With nothing under way, a member's tab shows what the API holds, unless a
\* read failed, an answer was lost, or reads answered out of order.
ShowsWhatIsStored ==
  user = "member" /\ UnderWay = {} /\ ~behind /\ ~view.failed => view.shows = inStore

\* The spinner turns only while a read or the sign-in is under way.
SpinnerHasACause ==
  view.loading => user = "loading" \/ \E f \in Flows : call[f].at \in {"reading", "read"}

\* The tab and the API, through repetitions, lost answers and reads that overlap.
ViewInv == ViewTypeOK /\ ToldTheTruth /\ ShowsWhatIsStored /\ SpinnerHasACause

=============================================================================
