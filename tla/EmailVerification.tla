------------------------- MODULE EmailVerification -------------------------
(***************************************************************************)
(* Signing up: register, verify and withdraw of                            *)
(* auth/app/routers/auth.py, the SQS queue they feed (services/            *)
(* queue_service.py) and the worker that sends the mails                   *)
(* (backend/workers/email_worker.py).                                      *)
(*                                                                         *)
(* A registration makes one link: the document in MongoDB that holds the   *)
(* token's hash, the message in the queue and the mail carry the same      *)
(* token, named here by the registration.  Users are in MariaDB.  Each     *)
(* await, and each call of SQS or SES, is a step; a call that fails may    *)
(* have had its effect; a request whose pod dies takes no further step.    *)
(*                                                                         *)
(* The class User has no column is_verified.  update_user skips names the  *)
(* class lacks, so that verifying a link only touches the user's           *)
(* updated_at, and reading user.is_verified raises AttributeError: resend  *)
(* and the status poll of a registered user end there, before they change  *)
(* anything, and are left out.                                             *)
(*                                                                         *)
(* Rate limits, passwords and the message's four days of retention are     *)
(* left out.                                                               *)
(***************************************************************************)
EXTENDS Integers, FiniteSets

CONSTANTS
  Signups,     \* registrations, each with the link it makes
  Visits,      \* clicks on links and withdrawals
  Emails,      \* addresses
  MaxUsers,    \* bound on the users ever inserted
  MaxReceives, \* maxReceiveCount of the queue's redrive policy
  Faults,      \* a subset of FaultNames
  NoUser       \* no user, no address

Requests   == Signups \cup Visits
Users      == 1 .. MaxUsers        \* AUTO_INCREMENT: an id is never reused
FaultNames == {"crash", "mongo", "mariadb", "sqs", "ses", "sandbox"}

ASSUME VerificationAssumption ==
  /\ Signups \cap Visits = {}
  /\ MaxUsers \in Nat /\ MaxReceives \in Nat \ {0}
  /\ Faults \subseteq FaultNames
  /\ NoUser \notin Emails

VARIABLES
  users,   \* the table `users': id -> address or NoUser
  born,    \* ids handed out so far
  links,   \* email_verification_tokens: link -> state, user, expired
  queue,   \* SQS: link -> state of its message and how often it was received
  worker,  \* the mail worker (one replica): its step and the link in hand
  pc,      \* where each request stands
  job,     \* handler, address and link of the request
  answer,  \* the HTTP status sent
  sent,    \* history: the links whose mail SES accepted
  refused, \* history: the links whose mail the SES sandbox rejected
  touched  \* history: the links whose user was updated

vars  == <<users, born, links, queue, worker, pc, job, answer, sent, refused, touched>>
mails == <<queue, worker, sent, refused>>

Link    == [st : {"none", "unused", "used"}, user : 0 .. MaxUsers, expired : BOOLEAN]
Message == [st : {"none", "visible", "taken", "deleted", "dead"},
            receives : 0 .. MaxReceives]
Hand    == [at : {"poll", "send", "delete"}, link : Signups \cup {NoUser}]
Job     == [email : Emails \cup {NoUser}, link : Signups \cup {NoUser},
            user : 0 .. MaxUsers]
Labels  == {"new", "register.create", "register.token", "register.enqueue",
            "verify.load", "verify.save", "verify.mark", "done"}

Free == [at |-> "poll", link |-> NoUser]

TypeOK ==
  /\ users   \in [Users -> Emails \cup {NoUser}]
  /\ born    \in 0 .. MaxUsers
  /\ links   \in [Signups -> Link]
  /\ \A l \in Signups : links[l].st # "none" => links[l].user \in 1 .. born
  /\ queue   \in [Signups -> Message]
  /\ worker  \in Hand
  /\ pc      \in [Requests -> Labels]
  /\ job     \in [Requests -> Job]
  /\ answer  \in [Requests -> {"none", "200", "400", "500"}]
  /\ sent    \subseteq Signups
  /\ refused \subseteq Signups
  /\ touched \subseteq Signups

-----------------------------------------------------------------------------
(* Helpers *)

Alive(u)      == u \in Users /\ users[u] # NoUser
Registered(e) == \E u \in Users : users[u] = e

Init ==
  /\ users   = [u \in Users |-> NoUser]
  /\ born    = 0
  /\ links   = [l \in Signups |-> [st |-> "none", user |-> 0, expired |-> FALSE]]
  /\ queue   = [l \in Signups |-> [st |-> "none", receives |-> 0]]
  /\ worker  = Free
  /\ pc      = [r \in Requests |-> "new"]
  /\ job     = [r \in Requests |-> [email |-> NoUser, link |-> NoUser, user |-> 0]]
  /\ answer  = [r \in Requests |-> "none"]
  /\ sent    = {} /\ refused = {} /\ touched = {}

Goto(r, l) == pc' = [pc EXCEPT ![r] = l] /\ UNCHANGED answer
Reply(r, code) ==
  /\ pc' = [pc EXCEPT ![r] = "done"]
  /\ answer' = [answer EXCEPT ![r] = code]

Ask(r, e, l) ==
  /\ pc[r] = "new"
  /\ job' = [job EXCEPT ![r].email = e, ![r].link = l]

-----------------------------------------------------------------------------
(* register *)

RegisterCheck(r, e) ==
  /\ Ask(r, e, r)
  /\ \/ Registered(e)  /\ Reply(r, "400")
     \/ ~Registered(e) /\ Goto(r, "register.create")
  /\ UNCHANGED <<users, born, links, mails, touched>>

\* Variant with a bug: the column is not unique.
AddressNotUnique(e) == TRUE

\* The unique key on users.email; a violation is an IntegrityError.
AddressFree(e) == ~Registered(e)

RegisterCreate(r) ==
  /\ pc[r] = "register.create"
  /\ \/ /\ AddressFree(job[r].email)
        /\ born < MaxUsers
        /\ users' = [users EXCEPT ![born + 1] = job[r].email]
        /\ born'  = born + 1
        /\ \/ /\ job' = [job EXCEPT ![r].user = born + 1]
              /\ Goto(r, "register.token")
           \/ "mariadb" \in Faults /\ Reply(r, "500") /\ UNCHANGED job
     \/ /\ ~AddressFree(job[r].email) \/ "mariadb" \in Faults
        /\ Reply(r, "500")
        /\ UNCHANGED <<users, born, job>>
  /\ UNCHANGED <<links, mails, touched>>

Inserted(r) ==
  links' = [links EXCEPT ![r] = [st |-> "unused", user |-> job[r].user, expired |-> FALSE]]

\* insert_one: when it raises, the user stays without a mail.
RegisterToken(r) ==
  /\ pc[r] = "register.token"
  /\ \/ Inserted(r) /\ Goto(r, "register.enqueue")
     \/ "mongo" \in Faults /\ (UNCHANGED links \/ Inserted(r)) /\ Reply(r, "500")
  /\ UNCHANGED <<users, born, mails, job, touched>>

\* A failure to enqueue is only logged; the call may have arrived all the same.
RegisterEnqueue(r) ==
  /\ pc[r] = "register.enqueue"
  /\ \/ queue' = [queue EXCEPT ![r].st = "visible"]
     \/ "sqs" \in Faults /\ UNCHANGED queue
  /\ Reply(r, "200")
  /\ UNCHANGED <<users, born, links, worker, sent, refused, job, touched>>

-----------------------------------------------------------------------------
(* verify *)

\* Of an unknown, an expired or a used link nothing is written.  A used link
\* is meant to succeed again when its user is verified, but the test raises
\* and the exception is swallowed.
VerifyFind(r, l) ==
  /\ Ask(r, NoUser, l)
  /\ l \in sent        \* who clicks has the mail
  /\ \/ /\ links[l].st = "unused" /\ ~links[l].expired
        /\ Goto(r, "verify.load")
     \/ /\ links[l].st # "unused" \/ links[l].expired
        /\ Reply(r, "400")
  /\ UNCHANGED <<users, born, links, mails, touched>>

\* update_user: session.get, and nothing to do when the user is gone.
VerifyLoad(r) ==
  /\ pc[r] = "verify.load"
  /\ \/ Goto(r, IF Alive(links[job[r].link].user) THEN "verify.save" ELSE "verify.mark")
     \/ "mariadb" \in Faults /\ Reply(r, "500")
  /\ UNCHANGED <<users, born, links, mails, job, touched>>

\* update_user: the commit, which raises when the row has gone since, and the
\* refresh.
VerifySave(r) ==
  /\ pc[r] = "verify.save"
  /\ \/ /\ Alive(links[job[r].link].user)
        /\ touched' = touched \cup {job[r].link}
        /\ Goto(r, "verify.mark") \/ ("mariadb" \in Faults /\ Reply(r, "500"))
     \/ /\ ~Alive(links[job[r].link].user) \/ "mariadb" \in Faults
        /\ Reply(r, "500")
        /\ UNCHANGED touched
  /\ UNCHANGED <<users, born, links, mails, job>>

\* Variant with a bug: used_at is not written.
StaysUnused(l) == UNCHANGED links

MarkedUsed(l) == links' = [links EXCEPT ![l].st = "used"]

VerifyMark(r) ==
  /\ pc[r] = "verify.mark"
  /\ \/ MarkedUsed(job[r].link) /\ Reply(r, "200")
     \/ /\ "mongo" \in Faults
        /\ UNCHANGED links \/ MarkedUsed(job[r].link)
        /\ Reply(r, "500")
  /\ UNCHANGED <<users, born, mails, job, touched>>

-----------------------------------------------------------------------------
(* withdrawal, expiry *)

\* The row goes, the links stay.
Withdraw(r, u) ==
  /\ Alive(u)
  /\ Ask(r, NoUser, NoUser)
  /\ users' = [users EXCEPT ![u] = NoUser]
  /\ Reply(r, "200")
  /\ UNCHANGED <<born, links, mails, touched>>

LinkExpires(l) ==
  /\ links[l].st = "unused" /\ ~links[l].expired
  /\ links' = [links EXCEPT ![l].expired = TRUE]
  /\ UNCHANGED <<users, born, mails, pc, job, answer, touched>>

-----------------------------------------------------------------------------
(* The queue and the worker *)

requests == <<users, born, links, pc, job, answer, touched>>

\* Variant with a bug: the queue is created without a redrive policy.
NeverExhausted(l) == FALSE

\* The redrive policy: a message received MaxReceives times is not handed out.
Exhausted(l) == queue[l].receives = MaxReceives

\* receive_message; an exhausted one goes to the dead letter queue instead.
Receive(l) ==
  /\ worker.at = "poll"
  /\ queue[l].st = "visible"
  /\ \/ /\ ~Exhausted(l)
        /\ queue'  = [queue EXCEPT ![l] = [st |-> "taken",
                        receives |-> IF @.receives < MaxReceives THEN @.receives + 1
                                     ELSE MaxReceives]]
        /\ worker' = [at |-> "send", link |-> l]
     \/ /\ Exhausted(l)
        /\ queue'  = [queue EXCEPT ![l].st = "dead"]
        /\ UNCHANGED worker
  /\ UNCHANGED <<requests, sent, refused>>

\* Variant with a bug: the message counts as processed.
FailureDeletes == [worker EXCEPT !.at = "delete"]

\* process_message returned False: the message is left to come back.
FailureLeaves == Free

\* send_email: done; failed, before or after SES accepted it; or rejected
\* because the account is in the sandbox, which counts as processed.
Send ==
  /\ worker.at = "send"
  /\ \/ /\ sent' = sent \cup {worker.link}
        /\ worker' = [worker EXCEPT !.at = "delete"]
        /\ UNCHANGED refused
     \/ /\ "ses" \in Faults
        /\ sent' \in {sent, sent \cup {worker.link}}
        /\ worker' = FailureLeaves
        /\ UNCHANGED refused
     \/ /\ "sandbox" \in Faults
        /\ refused' = refused \cup {worker.link}
        /\ worker' = [worker EXCEPT !.at = "delete"]
        /\ UNCHANGED sent
  /\ UNCHANGED <<requests, queue>>

\* delete_message, also when the message has become visible again.
Delete ==
  /\ worker.at = "delete"
  /\ \/ queue' = [queue EXCEPT ![worker.link].st = "deleted"]
     \/ "sqs" \in Faults /\ UNCHANGED queue
  /\ worker' = Free
  /\ UNCHANGED <<requests, sent, refused>>

\* The worker is stopped; the next one starts polling.
WorkerCrash ==
  /\ "crash" \in Faults
  /\ worker.at # "poll"
  /\ worker' = Free
  /\ UNCHANGED <<requests, queue, sent, refused>>

\* The visibility timeout of five minutes, whatever the worker does.
VisibilityEnds(l) ==
  /\ queue[l].st = "taken"
  /\ queue' = [queue EXCEPT ![l].st = "visible"]
  /\ UNCHANGED <<requests, worker, sent, refused>>

-----------------------------------------------------------------------------
(* Specification *)

WorkerStep == (\E l \in Signups : Receive(l)) \/ Send \/ Delete

Serve(r) ==
  \/ RegisterCreate(r) \/ (r \in Signups /\ RegisterToken(r))
  \/ (r \in Signups /\ RegisterEnqueue(r))
  \/ VerifyLoad(r) \/ VerifySave(r) \/ VerifyMark(r)

Next ==
  \/ \E r \in Signups, e \in Emails : RegisterCheck(r, e)
  \/ \E r \in Visits, l \in Signups : VerifyFind(r, l)
  \/ \E r \in Visits, u \in Users : Withdraw(r, u)
  \/ \E r \in Requests : Serve(r)
  \/ WorkerStep \/ WorkerCrash
  \/ \E l \in Signups : LinkExpires(l) \/ VisibilityEnds(l)

\* The worker polls in a loop, and SQS gives back what was not deleted.  Nothing
\* obliges a request to go on: one that stops stands for the death of its pod.
Fairness ==
  /\ WF_vars(WorkerStep)
  /\ \A l \in Signups : WF_vars(VisibilityEnds(l))

Spec     == Init /\ [][Next]_vars
FairSpec == Spec /\ Fairness

-----------------------------------------------------------------------------
(* Properties *)

\* An address belongs to one user, also when two registrations that both found
\* it free go on at the same time.
OneUserPerAddress ==
  \A u, v \in Users : Alive(u) /\ users[u] = users[v] => u = v

\* A link that was queued, and so one that reaches a mailbox, is one the auth
\* service can look up, whatever failed on the way.
QueuedLinkIsStored ==
  \A l \in Signups : queue[l].st # "none" \/ l \in sent => links[l].st # "none"

\* A message is deleted only when SES took its mail or refused it for good: a
\* failure, a crash or a timeout loses no mail.
DeletedWasProcessed ==
  \A l \in Signups : queue[l].st = "deleted" => l \in sent \cup refused

\* From the registration to the mailbox no mail is lost: what is queued leads to
\* a stored link, and what is deleted was sent or refused for good.
NoMailIsLost == QueuedLinkIsStored /\ DeletedWasProcessed

\* A link that is used up did what it is for: its user was updated, unless the
\* user withdrew first.
UsedLinkDidItsWork ==
  \A l \in Signups : links[l].st = "used" => l \in touched \/ ~Alive(links[l].user)

\* Users and links, each in a store of its own, agree: an address has one user,
\* and a link that is used up has reached its user.
AccountsInv == TypeOK /\ OneUserPerAddress /\ UsedLinkDidItsWork

\* A link works once ("1회성", verify_email): whoever clicks after a success is
\* refused.
LinkWorksOnce ==
  [][\A r, p \in Visits :
       pc[r] = "new" /\ job'[r].link # NoUser
         /\ answer[p] = "200" /\ job[p].link = job'[r].link
       => answer'[r] = "400"]_vars

\* Every message leaves the queue, by its deletion or as a dead letter,
\* however often the worker or its calls fail.
InQueue(l) == queue[l].st \in {"visible", "taken"}
QueueDrains == \A l \in Signups : InQueue(l) ~> ~InQueue(l)

=============================================================================
