---------------------------- MODULE SignupPages -----------------------------
(***************************************************************************)
(* The pages a new user meets: the registration form, which then waits for *)
(* the link to be clicked (app/register/page.tsx), and the page the link   *)
(* leads to (app/verify-email/page.tsx).  Of the auth service, which       *)
(* EmailVerification has in detail, they see its answers.                  *)
(*                                                                         *)
(* The service as it is: the class User has no column is_verified, so that *)
(* the question whether an address is verified ends in an error whatever   *)
(* happened to the link, and a mail is never sent again, since the page    *)
(* sends the address in a body and the handler expects it in the query.    *)
(***************************************************************************)
EXTENDS FiniteSets

CONSTANT Addresses

VARIABLES
  form,       \* the registration page
  polled,      \* its questions for the status that are not answered yet
  linkPage,   \* the page of the link
  service,    \* external: addresses registered, and those whose link was used
  made        \* history: the addresses this form got registered

signupVars == <<form, polled, linkPage, service, made>>

NoAddress == "none"

ASSUME SignupAssumption == NoAddress \notin Addresses

SignupTypeOK ==
  /\ form \in [step : {"input", "verifying", "success"}, at : {"rest", "checking", "registering"},
               typed : Addresses \cup {NoAddress}, email : Addresses \cup {NoAddress},
               polling : BOOLEAN, resending : BOOLEAN, error : {"none", "email", "global"}]
  /\ (form.at # "rest" => form.step = "input" /\ form.error = "none")
  /\ polled \subseteq Addresses
  /\ linkPage \in [state : {"closed", "verifying", "success", "error", "awaiting"},
                   via : {"none", "token", "email"}, of : Addresses \cup {NoAddress},
                   resending : BOOLEAN]
  /\ service.used \subseteq service.known /\ service.known \subseteq Addresses
  /\ made \subseteq Addresses

NewForm  == [step |-> "input", at |-> "rest", typed |-> NoAddress, email |-> NoAddress,
             polling |-> FALSE, resending |-> FALSE, error |-> "none"]
NoPage   == [state |-> "closed", via |-> "none", of |-> NoAddress, resending |-> FALSE]

SignupInit ==
  /\ form = NewForm /\ polled = {}
  /\ linkPage = NoPage
  /\ service = [known |-> {}, used |-> {}]
  /\ made = {}

-----------------------------------------------------------------------------
(* The registration form *)

\* The button is off while a submission is under way, and for what the schema
\* refuses.
Submit ==
  /\ form.step = "input" /\ form.at = "rest"
  /\ \E e \in Addresses : form' = [form EXCEPT !.at = "checking", !.typed = e, !.error = "none"]
  /\ UNCHANGED <<polled, linkPage, service, made>>

Refused(error) == [form EXCEPT !.at = "rest", !.error = error]

CheckAnswered ==
  /\ form.at = "checking"
  /\ \/ form.typed \notin service.known /\ form' = [form EXCEPT !.at = "registering"]
     \/ form.typed \in service.known    /\ form' = Refused("email")
     \/ form' = Refused("global")       \* no answer, or none that can be read
  /\ UNCHANGED <<polled, linkPage, service, made>>

\* The page goes on when the service says that it has registered the address.
AfterRegister ==
  IF form.typed \in made
  THEN [form EXCEPT !.at = "rest", !.email = form.typed, !.step = "verifying", !.polling = TRUE]
  ELSE Refused("global")

\* The service registers an address that is still free; its answer may get lost.
RegisterServed ==
  /\ form.at = "registering" /\ form.typed \notin service.known
  /\ service' = [service EXCEPT !.known = @ \cup {form.typed}]
  /\ made' = made \cup {form.typed}
  /\ UNCHANGED <<form, polled, linkPage>>

RegisterAnswered ==
  /\ form.at = "registering"
  /\ \/ form.typed \in service.known /\ form' = AfterRegister
     \/ form' = Refused("global")
  /\ UNCHANGED <<polled, linkPage, service, made>>

\* Somebody else registers an address.
OtherRegisters ==
  /\ \E e \in Addresses \ service.known : service' = [service EXCEPT !.known = @ \cup {e}]
  /\ UNCHANGED <<form, polled, linkPage, made>>

-----------------------------------------------------------------------------
(* Waiting for the link *)

\* Every three seconds, also behind the form the user went back to.
AskStatus ==
  /\ form.polling /\ form.email # NoAddress
  /\ form.email \notin polled
  /\ polled' = polled \cup {form.email}
  /\ UNCHANGED <<form, linkPage, service, made>>

\* Reading user.is_verified raises AttributeError; nobody is unknown here.
StatusOf(e) == IF e \in service.known THEN "500" ELSE "404"

\* An answer that is not ok, or none, changes nothing.
StatusAnswered ==
  /\ \E e \in polled :
       /\ polled' = polled \ {e}
       /\ form' = IF StatusOf(e) = "verified"
                  THEN [form EXCEPT !.step = "success", !.polling = FALSE] ELSE form
  /\ UNCHANGED <<linkPage, service, made>>

\* The finally of handleResend: no mail was sent.
NotSent(page) == [page EXCEPT !.resending = FALSE]

ResendFromForm ==
  /\ \/ form.step = "verifying" /\ ~form.resending /\ form' = [form EXCEPT !.resending = TRUE]
     \/ form.resending /\ form' = NotSent(form)
  /\ UNCHANGED <<polled, linkPage, service, made>>

EditAgain ==
  /\ form.step = "verifying"
  /\ form' = [form EXCEPT !.step = "input"]
  /\ UNCHANGED <<polled, linkPage, service, made>>

\* What a page that was left has asked for is answered to nobody.
FormLeft ==
  /\ form' = NewForm /\ polled' = {}
  /\ UNCHANGED <<linkPage, service, made>>

-----------------------------------------------------------------------------
(* The page of the link *)

\* With a token from a mail, with an address, or with neither.
LinkPageOpens ==
  /\ \/ \E e \in service.known :
          linkPage' = [NoPage EXCEPT !.state = "verifying", !.via = "token", !.of = e]
     \/ \E e \in Addresses :
          linkPage' = [NoPage EXCEPT !.state = "awaiting", !.via = "email", !.of = e]
     \/ linkPage' = [NoPage EXCEPT !.state = "error"]
  /\ UNCHANGED <<form, polled, service, made>>

\* A link works once; then, and when no answer can be read, the page says so.
Verified ==
  \/ /\ linkPage.of \notin service.used
     /\ service' = [service EXCEPT !.used = @ \cup {linkPage.of}]
     /\ linkPage' \in {[linkPage EXCEPT !.state = s] : s \in {"success", "error"}}
  \/ linkPage' = [linkPage EXCEPT !.state = "error"] /\ UNCHANGED service

TokenAnswered ==
  /\ linkPage.state = "verifying"
  /\ Verified
  /\ UNCHANGED <<form, polled, made>>

ResendFromLink ==
  /\ \/ linkPage.state = "awaiting" /\ ~linkPage.resending
        /\ linkPage' = [linkPage EXCEPT !.resending = TRUE]
     \/ linkPage.resending /\ linkPage' = NotSent(linkPage)
  /\ UNCHANGED <<form, polled, service, made>>

LinkPageLeft ==
  /\ linkPage' = NoPage
  /\ UNCHANGED <<form, polled, service, made>>

-----------------------------------------------------------------------------
(* Specification *)

SignupNext ==
  \/ Submit \/ CheckAnswered \/ RegisterServed \/ RegisterAnswered \/ OtherRegisters
  \/ AskStatus \/ StatusAnswered \/ ResendFromForm \/ EditAgain \/ FormLeft
  \/ LinkPageOpens \/ TokenAnswered \/ ResendFromLink \/ LinkPageLeft

\* Requests end, and the timer fires.
SignupFairness ==
  /\ WF_signupVars(CheckAnswered) /\ WF_signupVars(RegisterAnswered)
  /\ WF_signupVars(AskStatus) /\ WF_signupVars(StatusAnswered)
  /\ WF_signupVars(TokenAnswered)
  /\ WF_signupVars(form.resending /\ ResendFromForm)
  /\ WF_signupVars(linkPage.resending /\ ResendFromLink)

SignupSpec == SignupInit /\ [][SignupNext]_signupVars /\ SignupFairness

-----------------------------------------------------------------------------
(* Properties *)

\* The page says that a mail is on its way only to an address it got registered,
\* whoever was faster between its two calls.
WaitsForItsOwnMail ==
  /\ form.step = "verifying" => form.email \in made
  /\ polled \subseteq made

\* The page of the link says that it is done only when the service has used the
\* link up, whatever became of earlier clicks.
DoneWasUsed ==
  linkPage.state = "success" => linkPage.of \in service.used

\* What the buttons of the two pages wait for.
SignupWaits ==
  <<form.at # "rest", form.resending, linkPage.state = "verifying", linkPage.resending>>

\* "When you click the link in your mailbox, the next step follows by itself."
MovesOnByItself ==
  (form.step = "verifying" /\ form.email \in service.used) ~> (form.step # "verifying")

=============================================================================
