------------------------------- MODULE MyPage -------------------------------
(***************************************************************************)
(* The account page: the profile, the picture, the password and leaving    *)
(* (app/portfolio/mypage).                                                 *)
(*                                                                         *)
(* The profile and the picture are changed by two flows that may overlap.  *)
(* Each sends its change, and when that is answered reads the user anew    *)
(* (refreshUser); an effect copies each user that is read into the input   *)
(* fields.                                                                 *)
(***************************************************************************)
EXTENDS Integers

CONSTANT MaxWorks   \* bound on changes the user asks for

ASSUME MyPageAssumption == MaxWorks \in Nat

VARIABLES
  account,   \* the server: the name, whether there is a picture, whether it exists
  me,        \* the page: the user as read, what is typed, what is busy
  flows,     \* the profile's and the picture's flow: how far, what was sent and read
  works,     \* bound
  doubtful   \* history: flows overlapped or an answer was lost, and none has read alone since

myVars == <<account, me, flows, works, doubtful>>

Names == 1 .. 2
User  == [name : Names, pic : BOOLEAN]
NoOne == [name |-> 0, pic |-> FALSE]
Flow  == [at : {"idle", "convert", "send", "read", "answer"}, ask : {"name", "pic", "no pic"},
          name : Names, alone : BOOLEAN, got : User \cup {NoOne}]

MyPageTypeOK ==
  /\ account \in [name : Names, pic : BOOLEAN, open : BOOLEAN]
  /\ me \in [user : User \cup {NoOne}, typed : 0 .. 2, saving : BOOLEAN, loading : BOOLEAN,
             pass : {"", "refused", "changing", "changed"},
             leaving : {"no", "asked", "sent", "left"}]
  /\ flows \in [{"profile", "picture"} -> Flow]
  /\ works \in 0 .. MaxWorks /\ doubtful \in BOOLEAN
  /\ me.saving = (flows["profile"].at # "idle") /\ me.loading = (flows["picture"].at # "idle")

NoFlow == [at |-> "idle", ask |-> "name", name |-> 1, alone |-> TRUE, got |-> NoOne]

MyPageInit ==
  /\ \E p \in BOOLEAN :
       /\ account = [name |-> 1, pic |-> p, open |-> TRUE]
       /\ me = [user |-> [name |-> 1, pic |-> p], typed |-> 1, saving |-> FALSE, loading |-> FALSE,
                pass |-> "", leaving |-> "no"]
  /\ flows = [f \in {"profile", "picture"} |-> NoFlow]
  /\ works = 0 /\ doubtful = FALSE

Busy(f) == flows[f].at # "idle"
TheOther(f) == IF f = "profile" THEN "picture" ELSE "profile"

-----------------------------------------------------------------------------
(* What the page offers *)

SignedIn == me.user # NoOne

\* The nickname's field, and the button that saves it.
ProfileOffers == SignedIn /\ ~me.saving

\* Both buttons of the picture wait for one another; without one there is none to
\* remove.
PictureOffers(ask) == SignedIn /\ ~me.loading /\ (ask = "no pic" => me.user.pic)

TypeName ==
  /\ SignedIn
  /\ \E n \in 0 .. 2 : me' = [me EXCEPT !.typed = n]
  /\ UNCHANGED <<account, flows, works, doubtful>>

Starts(f, flow, m) ==
  /\ works < MaxWorks /\ works' = works + 1
  /\ flows' = [flows EXCEPT ![f] = [flow EXCEPT !.alone = ~Busy(TheOther(f))],
                            ![TheOther(f)].alone = ~Busy(TheOther(f))]
  /\ me' = m /\ doubtful' = (doubtful \/ Busy(TheOther(f)))
  /\ UNCHANGED account

\* handleUpdateProfile: a blank name is not sent.
UpdateProfile ==
  /\ ProfileOffers /\ me.typed # 0
  /\ Starts("profile", [NoFlow EXCEPT !.at = "send", !.name = me.typed], [me EXCEPT !.saving = TRUE])

\* handleFileChange: the file is made a JPEG first; handleRemoveAvatar is not.
ChangePicture ==
  \/ /\ PictureOffers("pic")
     /\ Starts("picture", [NoFlow EXCEPT !.at = "convert", !.ask = "pic"], [me EXCEPT !.loading = TRUE])
  \/ /\ PictureOffers("no pic")
     /\ Starts("picture", [NoFlow EXCEPT !.at = "send", !.ask = "no pic"], [me EXCEPT !.loading = TRUE])

\* Variant with a bug: a file that cannot be read leaves the picture busy.
ConvertedBusy ==
  /\ flows["picture"].at = "convert"
  /\ \/ flows' = [flows EXCEPT !["picture"].at = "send"] /\ UNCHANGED me
     \/ flows' = [flows EXCEPT !["picture"] = NoFlow] /\ UNCHANGED me
  /\ UNCHANGED <<account, works, doubtful>>

\* normalizeAvatarFile: no picture, too large at any quality, not decodable.
Converted ==
  /\ flows["picture"].at = "convert"
  /\ \/ flows' = [flows EXCEPT !["picture"].at = "send"] /\ UNCHANGED me
     \/ flows' = [flows EXCEPT !["picture"] = NoFlow] /\ me' = [me EXCEPT !.loading = FALSE]
  /\ UNCHANGED <<account, works, doubtful>>

-----------------------------------------------------------------------------
(* The answers *)

\* `finally'.
Rests(m, f) ==
  IF f = "profile" THEN [m EXCEPT !.saving = FALSE] ELSE [m EXCEPT !.loading = FALSE]

Ends(f, m) == flows' = [flows EXCEPT ![f] = NoFlow] /\ me' = Rests(m, f)

Changed(flow) ==
  CASE flow.ask = "name"   -> [account EXCEPT !.name = flow.name]
    [] flow.ask = "pic"    -> [account EXCEPT !.pic = TRUE]
    [] flow.ask = "no pic" -> [account EXCEPT !.pic = FALSE]

\* Variant with a bug: the user is not read again after a change.
NotReadAgain(f) ==
  /\ flows[f].at = "send" /\ account.open
  /\ account' = Changed(flows[f])
  /\ Ends(f, me) /\ UNCHANGED <<works, doubtful>>

\* The server makes the change, and the page reads the user.
ChangeMade(f) ==
  /\ flows[f].at = "send" /\ account.open
  /\ account' = Changed(flows[f])
  /\ flows' = [flows EXCEPT ![f].at = "read"]
  /\ UNCHANGED <<me, works, doubtful>>

\* The change is refused, or there is no answer, in which case it may be made.
ChangeFails(f) ==
  /\ flows[f].at = "send"
  /\ Ends(f, me)
  /\ \/ UNCHANGED <<account, doubtful>>
     \/ /\ account.open
        /\ account' = Changed(flows[f]) /\ doubtful' = TRUE
  /\ UNCHANGED works

\* The server answers with the user as it is now.
UserServed(f) ==
  /\ flows[f].at = "read" /\ account.open
  /\ flows' = [flows EXCEPT ![f].at = "answer",
                            ![f].got = [name |-> account.name, pic |-> account.pic]]
  /\ UNCHANGED <<account, me, works, doubtful>>

\* setUser, and the effect that fills the fields.
Read(m, u) == [m EXCEPT !.user = u, !.typed = u.name]

UserRead(f) ==
  /\ flows[f].at = "answer"
  /\ Ends(f, Read(me, flows[f].got))
  /\ doubtful' = (doubtful /\ ~flows[f].alone)
  /\ UNCHANGED <<account, works>>

\* With clearOnFail = false nothing changes.
UserNotRead(f) ==
  /\ flows[f].at \in {"read", "answer"}
  /\ Ends(f, me) /\ doubtful' = TRUE
  /\ UNCHANGED <<account, works>>

-----------------------------------------------------------------------------
(* The password, and leaving *)

\* handleChangePassword: refused by the page (missing, unequal, short), or sent.
ChangePassword ==
  /\ SignedIn /\ me.pass # "changing" /\ works < MaxWorks /\ works' = works + 1
  /\ \E p \in {"refused", "changing"} : me' = [me EXCEPT !.pass = p]
  /\ UNCHANGED <<account, flows, doubtful>>

PasswordAnswered ==
  /\ me.pass = "changing"
  /\ \E p \in {"refused", "changed"} : me' = [me EXCEPT !.pass = p]
  /\ UNCHANGED <<account, flows, works, doubtful>>

\* The button asks first; `cancel' is not disabled by a request under way.
AskToLeave ==
  /\ SignedIn
  /\ \/ me.leaving = "no" /\ me' = [me EXCEPT !.leaving = "asked"]
     \/ me.leaving = "asked" /\ me' = [me EXCEPT !.leaving = "no"]
     \/ me.leaving = "asked" /\ me' = [me EXCEPT !.leaving = "sent"]
  /\ UNCHANGED <<account, flows, works, doubtful>>

\* handleDeleteAccount: with the answer, logout ends the session and the page is
\* left, whatever was under way; without it the account may be gone or not.
LeavingAnswered ==
  /\ me.leaving = "sent"
  /\ \/ /\ account' = [account EXCEPT !.open = FALSE]
        /\ me' = [me EXCEPT !.leaving = "left", !.user = NoOne, !.pass = "",
                            !.saving = FALSE, !.loading = FALSE]
        /\ flows' = [f \in {"profile", "picture"} |-> NoFlow]
        /\ UNCHANGED doubtful
     \/ /\ me' = [me EXCEPT !.leaving = "asked"]
        /\ UNCHANGED <<account, doubtful, flows>>
     \/ /\ account' = [account EXCEPT !.open = FALSE]
        /\ me' = [me EXCEPT !.leaving = "asked"] /\ doubtful' = TRUE
        /\ UNCHANGED flows
  /\ UNCHANGED works

-----------------------------------------------------------------------------
(* Specification *)

FlowAnswers(f) == ChangeMade(f) \/ ChangeFails(f) \/ UserServed(f) \/ UserRead(f) \/ UserNotRead(f)

MyPageNext ==
  \/ TypeName \/ UpdateProfile \/ ChangePicture \/ Converted
  \/ \E f \in {"profile", "picture"} : FlowAnswers(f)
  \/ ChangePassword \/ PasswordAnswered \/ AskToLeave \/ LeavingAnswered

\* Requests are answered or fail, and files are decoded or not.
MyPageFairness ==
  /\ \A f \in {"profile", "picture"} : WF_myVars(FlowAnswers(f))
  /\ WF_myVars(Converted) /\ WF_myVars(PasswordAnswered)

MyPageSpec == MyPageInit /\ [][MyPageNext]_myVars /\ MyPageFairness

-----------------------------------------------------------------------------
(* Properties *)

\* With nothing under way the page shows the account as the server has it, unless
\* two flows overlapped, whose reads may answer in either order, or an answer was
\* lost, and no flow has read the user alone since.
PageIsTrue ==
  SignedIn /\ account.open /\ ~doubtful /\ ~Busy("profile") /\ ~Busy("picture")
    => me.user = [name |-> account.name, pic |-> account.pic]

\* What disables a button: saving, a picture on its way, the password.
MyPageWaits == <<me.saving, me.loading, me.pass = "changing">>

==================================================
