----------------------- MODULE EmailVerificationProofs -----------------------
(***************************************************************************)
(* Theorems of EmailVerification, for every number of registrations,       *)
(* clicks, withdrawals and addresses, and whichever faults happen: users   *)
(* and links agree, no mail is lost on its way, and a link works once.     *)
(*                                                                         *)
(* The three are no facts of one step: a handler looks at a link or a user *)
(* in one step and acts on it in a later one, and so does the worker with  *)
(* its message.  What was true when it looked and is true yet when it acts *)
(* is JobState, for requests, and HandState, for the worker.               *)
(***************************************************************************)
EXTENDS EmailVerification, TLAPS

\* A link whose user was updated, or is gone.
Reached(l) == l \in touched \/ ~Alive(links[l].user)

\* A registration has no link until it inserts one, and has a user by then; a
\* click has a link that is stored, and marks it only once its user is reached.
JobState(r) ==
  /\ pc[r] = "new" => job[r].link = NoUser
  /\ pc[r] # "done" => answer[r] = "none"
  /\ r \in Signups =>
       /\ pc[r] \in {"new", "register.create", "register.token"} => links[r].st = "none"
       /\ pc[r] = "register.token" => job[r].user \in 1 .. born
       /\ pc[r] = "register.enqueue" => links[r].st # "none"
  /\ pc[r] \in {"verify.load", "verify.save", "verify.mark"} =>
       job[r].link \in Signups /\ links[job[r].link].st # "none"
  /\ pc[r] = "verify.mark" => Reached(job[r].link)

\* A click that was answered with success has used up its link.
Answered(p) ==
  answer[p] = "200" /\ job[p].link # NoUser =>
    job[p].link \in Signups /\ links[job[p].link].st = "used"

\* What the worker has in hand is a stored link, whose mail is out when its
\* message is to be deleted.
HandState ==
  /\ worker.at # "poll" => worker.link \in Signups /\ links[worker.link].st # "none"
  /\ worker.at = "delete" => worker.link \in sent \cup refused

IInv ==
  /\ TypeOK
  /\ OneUserPerAddress
  /\ UsedLinkDidItsWork
  /\ QueuedLinkIsStored
  /\ DeletedWasProcessed
  /\ HandState
  /\ \A r \in Requests : JobState(r)
  /\ \A p \in Visits : Answered(p)

-----------------------------------------------------------------------------
(* Types, part by part *)

UserType    == users \in [Users -> Emails \cup {NoUser}] /\ born \in 0 .. MaxUsers
LinkType    == /\ links \in [Signups -> Link]
               /\ \A l \in Signups : links[l].st # "none" => links[l].user \in 1 .. born
QueueType   == queue \in [Signups -> Message]
WorkerType  == worker \in Hand /\ sent \subseteq Signups /\ refused \subseteq Signups
RequestType == /\ pc \in [Requests -> Labels]
               /\ answer \in [Requests -> {"none", "200", "400", "500"}]
JobType     == job \in [Requests -> Job] /\ touched \subseteq Signups

LEMMA TypeParts ==
  TypeOK <=> /\ UserType /\ LinkType /\ QueueType /\ WorkerType
             /\ RequestType /\ JobType
BY DEF TypeOK, UserType, LinkType, QueueType, WorkerType, RequestType, JobType

LEMMA TypePartsNext ==
  TypeOK' <=> /\ UserType' /\ LinkType' /\ QueueType' /\ WorkerType'
              /\ RequestType' /\ JobType'
BY DEF TypeOK, UserType, LinkType, QueueType, WorkerType, RequestType, JobType

LEMMA GotoType ==
  ASSUME RequestType, NEW r \in Requests, NEW l \in Labels, Goto(r, l)
  PROVE  /\ RequestType'
         /\ pc' = [pc EXCEPT ![r] = l] /\ pc'[r] = l /\ answer' = answer /\ answer'[r] = answer[r]
BY DEF RequestType, Goto

LEMMA ReplyType ==
  ASSUME RequestType, NEW r \in Requests, NEW code \in {"200", "400", "500"}, Reply(r, code)
  PROVE  /\ RequestType'
         /\ pc' = [pc EXCEPT ![r] = "done"] /\ pc'[r] = "done"
         /\ answer' = [answer EXCEPT ![r] = code] /\ answer'[r] = code
BY DEF RequestType, Reply, Labels

LEMMA AskType ==
  ASSUME JobType, NEW r \in Requests, NEW e \in Emails \cup {NoUser},
         NEW l \in Signups \cup {NoUser}, Ask(r, e, l)
  PROVE  /\ job' \in [Requests -> Job] /\ pc[r] = "new"
         /\ job'[r] = [email |-> e, link |-> l, user |-> job[r].user]
         /\ \A q \in Requests \ {r} : job'[q] = job[q]
<1>1. job[r] \in Job
  BY DEF JobType
<1>2. job[r] = [email |-> job[r].email, link |-> job[r].link, user |-> job[r].user]
  BY <1>1 DEF Job
<1>3. job'[r] = [email |-> e, link |-> l, user |-> job[r].user]
  BY <1>2 DEF Ask, JobType
<1>4. [email |-> e, link |-> l, user |-> job[r].user] \in Job
  BY <1>1 DEF Job
<1>5. \A q \in Requests \ {r} : job'[q] = job[q] /\ job'[q] \in Job
  BY DEF Ask, JobType
<1>6. job' = [q \in Requests |-> job'[q]] /\ pc[r] = "new"
  BY DEF Ask, JobType
<1>7. QED BY <1>3, <1>4, <1>5, <1>6

-----------------------------------------------------------------------------
(* What a step of the other side leaves true *)

\* Links and users only go on: a stored link stays stored, for the same user, and
\* a used one stays used; no user comes back, and no user loses a link's update.
Onward ==
  /\ \A l \in Signups : links[l].st # "none" =>
       /\ links'[l].st # "none" /\ links'[l].user = links[l].user
       /\ links[l].st = "used" => links'[l].st = "used"
  /\ \A u \in 1 .. born : Alive(u)' => Alive(u)
  /\ touched \subseteq touched'
  /\ born' \in Nat /\ born <= born'

\* The step is not one of request q, and does not insert the link of q.
NotOf(q) ==
  /\ pc'[q] = pc[q] /\ job'[q] = job[q] /\ answer'[q] = answer[q]
  /\ q \in Signups /\ links[q].st = "none" => links'[q].st = "none"

LEMMA ReachedStays ==
  ASSUME TypeOK, Onward, NEW l \in Signups, links[l].st # "none", Reached(l)
  PROVE  Reached(l)'
<1>1. links[l].user \in 1 .. born /\ links'[l].user = links[l].user
  BY DEF TypeOK, Onward
<1>2. QED BY <1>1 DEF Onward, Reached

LEMMA OthersKeepTheirState ==
  ASSUME IInv, Onward, NEW q \in Requests, NotOf(q)
  PROVE  JobState(q)' /\ (q \in Visits => Answered(q)')
<1>1. JobState(q) /\ TypeOK
  BY DEF IInv
<1>2. job[q].user \in 1 .. born => job'[q].user \in 1 .. born'
  BY <1>1 DEF Onward, NotOf, TypeOK
<1>3. pc'[q] = "verify.mark" => Reached(job[q].link)'
  BY <1>1, ReachedStays DEF NotOf, JobState
<1>4. JobState(q)'
  BY <1>1, <1>2, <1>3 DEF JobState, NotOf, Onward
<1>5. q \in Visits => Answered(q)'
  BY DEF IInv, Answered, NotOf, Onward
<1>6. QED BY <1>4, <1>5

\* The mails of a step that leaves queue and worker alone.
LEMMA MailsUntouched ==
  ASSUME IInv, Onward, UNCHANGED mails
  PROVE  QueueType' /\ WorkerType' /\ QueuedLinkIsStored' /\ DeletedWasProcessed' /\ HandState'
<1>1. QueueType' /\ WorkerType' /\ DeletedWasProcessed'
  BY TypeParts DEF IInv, mails, QueueType, WorkerType, DeletedWasProcessed
<1>2. QueuedLinkIsStored' /\ HandState'
  BY DEF IInv, mails, Onward, QueuedLinkIsStored, HandState
<1>3. QED BY <1>1, <1>2

\* The requests and accounts of a step of the queue or of its worker.
LEMMA RequestsUntouched ==
  ASSUME IInv, UNCHANGED requests
  PROVE  /\ UserType' /\ LinkType' /\ RequestType' /\ JobType'
         /\ OneUserPerAddress' /\ UsedLinkDidItsWork'
         /\ \A r \in Requests : JobState(r)'
         /\ \A p \in Visits : Answered(p)'
<1>1. UserType' /\ LinkType' /\ RequestType' /\ JobType'
  BY TypeParts DEF IInv, requests, UserType, LinkType, RequestType, JobType
<1>2. OneUserPerAddress' /\ UsedLinkDidItsWork'
  BY DEF IInv, requests, OneUserPerAddress, UsedLinkDidItsWork, Alive
<1>3. \A r \in Requests : JobState(r)'
  BY DEF IInv, requests, JobState, Reached, Alive
<1>4. \A p \in Visits : Answered(p)'
  BY DEF IInv, requests, Answered
<1>5. QED BY <1>1, <1>2, <1>3, <1>4

\* Steps that touch neither a user nor a link.
LEMMA StoresUntouched ==
  ASSUME IInv, UNCHANGED <<users, born, links>>, touched \subseteq touched'
  PROVE  UserType' /\ LinkType' /\ OneUserPerAddress' /\ UsedLinkDidItsWork' /\ Onward
<1>1. UserType' /\ LinkType' /\ born \in Nat
  BY TypeParts, VerificationAssumption DEF IInv, UserType, LinkType
<1>2. OneUserPerAddress' /\ UsedLinkDidItsWork' /\ Onward
  BY <1>1 DEF IInv, OneUserPerAddress, UsedLinkDidItsWork, Alive, Onward
<1>3. QED BY <1>1, <1>2

\* What is left to show of a step of request r, once the mails are settled.
LEMMA OwnStep ==
  ASSUME IInv, NEW r \in Requests, Onward,
         \A q \in Requests \ {r} : NotOf(q),
         UserType', LinkType', RequestType', JobType',
         OneUserPerAddress', UsedLinkDidItsWork',
         QueueType', WorkerType', QueuedLinkIsStored', DeletedWasProcessed', HandState',
         JobState(r)', r \in Visits => Answered(r)'
  PROVE  IInv'
<1>1. \A q \in Requests : JobState(q)' /\ (q \in Visits => Answered(q)')
  BY OthersKeepTheirState
<1>2. QED BY <1>1, TypePartsNext DEF IInv, Requests

-----------------------------------------------------------------------------
(* register *)

LEMMA RegisterCheckStep ==
  ASSUME IInv, NEW r \in Signups, NEW e \in Emails, RegisterCheck(r, e)
  PROVE  IInv'
<1> USE TypeParts DEF IInv
<1>0. r \in Requests /\ r \notin Visits
  BY VerificationAssumption DEF Requests
<1>1. /\ UserType' /\ LinkType' /\ OneUserPerAddress' /\ UsedLinkDidItsWork'
      /\ Onward
  BY StoresUntouched DEF RegisterCheck
<1>2. QueueType' /\ WorkerType' /\ QueuedLinkIsStored' /\ DeletedWasProcessed' /\ HandState'
  BY <1>1, MailsUntouched DEF RegisterCheck
<1>3. JobType' /\ pc[r] = "new" /\ \A q \in Requests \ {r} : job'[q] = job[q]
  BY <1>0, AskType DEF RegisterCheck, JobType
<1>4. /\ RequestType' /\ pc'[r] \in {"done", "register.create"}
      /\ pc'[r] # "done" => answer'[r] = "none"
  BY <1>0, <1>3, GotoType, ReplyType DEF RegisterCheck, Labels, JobState
<1>5. \A q \in Requests \ {r} : NotOf(q)
  BY <1>0, <1>3 DEF RegisterCheck, NotOf, Goto, Reply, RequestType
<1>6. JobState(r)'
  <2>1. links'[r] = links[r] /\ (pc'[r] # "done" => links[r].st = "none")
    BY <1>0, <1>3 DEF RegisterCheck, JobState
  <2>2. QED BY <2>1, <1>4 DEF JobState
<1>7. QED BY <1>0, <1>1, <1>2, <1>3, <1>4, <1>5, <1>6, OwnStep

LEMMA RegisterCreateStep ==
  ASSUME IInv, NEW r \in Requests, RegisterCreate(r)
  PROVE  IInv'
<1> USE TypeParts, VerificationAssumption DEF IInv
<1>1. /\ users' = users /\ born' = born
      \/ /\ born < MaxUsers /\ born' = born + 1
         /\ users' = [users EXCEPT ![born + 1] = job[r].email]
         /\ ~Registered(job[r].email)
  BY DEF RegisterCreate, AddressFree
<1>2. UserType' /\ born \in Nat /\ born' \in Nat /\ born <= born'
  <2>1. UserType /\ job[r].email \in Emails \cup {NoUser}
    BY DEF JobType, Job
  <2>2. QED BY <1>1, <2>1 DEF UserType, Users
<1>3. links' = links /\ touched' = touched
  BY DEF RegisterCreate
<1>4. \A u \in 1 .. born : Alive(u)' => Alive(u)
  BY <1>1, <1>2 DEF Alive, UserType, Users
<1>5. LinkType' /\ Onward
  BY <1>2, <1>3, <1>4 DEF LinkType, Onward
<1>6. OneUserPerAddress'
  BY <1>1 DEF OneUserPerAddress, Alive, Registered, UserType, Users
<1>7. UsedLinkDidItsWork'
  BY <1>3, <1>4 DEF UsedLinkDidItsWork, LinkType
<1>8. QueueType' /\ WorkerType' /\ QueuedLinkIsStored' /\ DeletedWasProcessed' /\ HandState'
  BY <1>5, MailsUntouched DEF RegisterCreate
<1>9. /\ job' = job \/ job' = [job EXCEPT ![r].user = born + 1]
      /\ pc'[r] = "register.token" => job'[r].user = born + 1 /\ born' = born + 1
      /\ pc'[r] \in {"register.token", "done"} /\ pc[r] = "register.create"
      /\ pc'[r] # "done" => answer'[r] = "none"
      /\ RequestType'
  <2>1. /\ RequestType' /\ pc'[r] \in {"register.token", "done"} /\ pc[r] = "register.create"
        /\ pc'[r] # "done" => answer'[r] = "none"
    BY GotoType, ReplyType DEF RegisterCreate, Labels, JobState
  <2>2. job' = job \/ job' = [job EXCEPT ![r].user = born + 1]
    BY DEF RegisterCreate
  <2>3. CASE pc'[r] = "register.token"
    <3>1. ~Reply(r, "500")
      BY <2>3, ReplyType
    <3>2. job' = [job EXCEPT ![r].user = born + 1] /\ born' = born + 1
      BY <3>1 DEF RegisterCreate
    <3>3. QED BY <2>1, <2>2, <3>2 DEF JobType, Job
  <2>4. QED BY <2>1, <2>2, <2>3
<1>10. /\ \A q \in Requests \ {r} : job'[q] = job[q]
       /\ job'[r].link = job[r].link /\ job'[r].email = job[r].email
       /\ \A q \in Requests : job'[q] \in Job
       /\ JobType'
  <2>1. born + 1 \in 0 .. MaxUsers \/ job' = job
    BY <1>1, <1>2, <1>9 DEF RegisterCreate
  <2>2. QED BY <1>3, <1>9, <2>1 DEF JobType, Job
<1>11. \A q \in Requests \ {r} : NotOf(q)
  BY <1>3, <1>10 DEF RegisterCreate, NotOf, Goto, Reply, RequestType
<1>12. JobState(r)'
  BY <1>2, <1>3, <1>9 DEF JobState
<1>13. r \in Visits => Answered(r)'
  BY <1>3, <1>9, <1>10 DEF Answered, RegisterCreate, Reply, Goto, RequestType
<1>14. QED BY <1>2, <1>5, <1>6, <1>7, <1>8, <1>9, <1>10, <1>11, <1>12, <1>13, OwnStep

LEMMA RegisterTokenStep ==
  ASSUME IInv, NEW r \in Signups, RegisterToken(r)
  PROVE  IInv'
<1> USE TypeParts, VerificationAssumption DEF IInv
<1>0. r \in Requests /\ r \notin Visits /\ pc[r] = "register.token"
  BY DEF Requests, RegisterToken
<1> DEFINE new == [st |-> "unused", user |-> job[r].user, expired |-> FALSE]
<1>1. /\ links[r].st = "none" /\ job[r].user \in 1 .. born
      /\ new \in Link /\ new.st = "unused" /\ new.user \in 1 .. born
  BY <1>0 DEF JobState, Link, UserType, JobType, Job
<1>2. links' = links \/ links' = [links EXCEPT ![r] = new]
  BY DEF RegisterToken, Inserted
<1>3. users' = users /\ born' = born /\ touched' = touched /\ job' = job
  BY DEF RegisterToken
<1> HIDE DEF new
<1>4. /\ links' \in [Signups -> Link] /\ links'[r] \in {links[r], new}
      /\ \A l \in Signups \ {r} : links'[l] = links[l]
  BY <1>1, <1>2 DEF LinkType
<1>5. UserType' /\ LinkType' /\ JobType' /\ OneUserPerAddress'
  BY <1>1, <1>3, <1>4 DEF UserType, LinkType, JobType, OneUserPerAddress, Alive
<1>6. Onward
  BY <1>1, <1>3, <1>4 DEF Onward, Alive, UserType
<1>7. UsedLinkDidItsWork'
  BY <1>1, <1>3, <1>4 DEF UsedLinkDidItsWork, Alive
<1>8. QueueType' /\ WorkerType' /\ QueuedLinkIsStored' /\ DeletedWasProcessed' /\ HandState'
  BY <1>6, MailsUntouched DEF RegisterToken
<1>9. /\ RequestType' /\ pc'[r] \in {"register.enqueue", "done"}
      /\ pc'[r] # "done" => answer'[r] = "none"
  BY <1>0, GotoType, ReplyType DEF RegisterToken, Labels, JobState
<1>10. \A q \in Requests \ {r} : NotOf(q)
  BY <1>0, <1>3, <1>4 DEF RegisterToken, NotOf, Goto, Reply, RequestType
<1>11. pc'[r] = "register.enqueue" => links'[r].st # "none"
  <2>1. ASSUME pc'[r] = "register.enqueue" PROVE links' = [links EXCEPT ![r] = new]
    <3>1. ~Reply(r, "500")
      BY <1>0, <2>1, ReplyType
    <3>2. QED BY <3>1 DEF RegisterToken, Inserted, new
  <2>2. QED BY <1>1, <2>1 DEF LinkType
<1>12. JobState(r)'
  BY <1>9, <1>11 DEF JobState
<1>13. QED BY <1>0, <1>5, <1>6, <1>7, <1>8, <1>9, <1>10, <1>12, OwnStep

LEMMA RegisterEnqueueStep ==
  ASSUME IInv, NEW r \in Signups, RegisterEnqueue(r)
  PROVE  IInv'
<1> USE TypeParts, VerificationAssumption DEF IInv
<1>0. r \in Requests /\ r \notin Visits /\ pc[r] = "register.enqueue"
  BY DEF Requests, RegisterEnqueue
<1>1. links[r].st # "none"
  BY <1>0 DEF JobState
<1>2. /\ UserType' /\ LinkType' /\ OneUserPerAddress' /\ UsedLinkDidItsWork' /\ Onward
      /\ JobType'
  BY StoresUntouched DEF RegisterEnqueue, JobType
<1>3. QueueType' /\ WorkerType'
  BY DEF RegisterEnqueue, QueueType, Message, WorkerType
<1>4. QueuedLinkIsStored' /\ DeletedWasProcessed' /\ HandState'
  BY <1>1 DEF RegisterEnqueue, QueueType, Message, QueuedLinkIsStored, DeletedWasProcessed,
              HandState
<1>5. RequestType' /\ pc'[r] = "done"
  BY <1>0, ReplyType DEF RegisterEnqueue
<1>6. \A q \in Requests \ {r} : NotOf(q)
  BY <1>0 DEF RegisterEnqueue, NotOf, Reply, RequestType
<1>7. JobState(r)'
  BY <1>5 DEF JobState
<1>8. QED BY <1>0, <1>2, <1>3, <1>4, <1>5, <1>6, <1>7, OwnStep

-----------------------------------------------------------------------------
(* verify *)

\* Who clicks has the mail, so that the link is stored.
LEMMA VerifyFindStep ==
  ASSUME IInv, NEW r \in Visits, NEW l \in Signups, VerifyFind(r, l)
  PROVE  IInv'
<1> USE TypeParts, VerificationAssumption DEF IInv
<1>0. r \in Requests /\ r \notin Signups /\ pc[r] = "new"
  BY DEF Requests, VerifyFind, Ask
<1>1. UserType' /\ LinkType' /\ OneUserPerAddress' /\ UsedLinkDidItsWork' /\ Onward
  BY StoresUntouched DEF VerifyFind
<1>2. QueueType' /\ WorkerType' /\ QueuedLinkIsStored' /\ DeletedWasProcessed' /\ HandState'
  BY <1>1, MailsUntouched DEF VerifyFind
<1>3. JobType' /\ job'[r].link = l /\ \A q \in Requests \ {r} : job'[q] = job[q]
  <2>1. Ask(r, NoUser, l) /\ touched' = touched
    BY DEF VerifyFind
  <2>2. NoUser \in Emails \cup {NoUser} /\ l \in Signups \cup {NoUser} /\ JobType
    OBVIOUS
  <2>3. /\ job' \in [Requests -> Job]
        /\ job'[r] = [email |-> NoUser, link |-> l, user |-> job[r].user]
        /\ \A q \in Requests \ {r} : job'[q] = job[q]
    BY ONLY <1>0, <2>1, <2>2, AskType
  <2>4. QED BY <2>1, <2>2, <2>3 DEF JobType
<1>4. /\ RequestType' /\ pc'[r] \in {"done", "verify.load"} /\ answer'[r] \in {"none", "400"}
      /\ pc'[r] # "done" => answer'[r] = "none"
  BY <1>0, GotoType, ReplyType DEF VerifyFind, Labels, JobState
<1>5. \A q \in Requests \ {r} : NotOf(q)
  BY <1>0, <1>3 DEF VerifyFind, NotOf, Goto, Reply, RequestType
<1>6. JobState(r)' /\ Answered(r)'
  <2>1. links'[l] = links[l] /\ links[l].st # "none"
    BY DEF VerifyFind, QueuedLinkIsStored
  <2>2. QED BY <1>0, <1>3, <1>4, <2>1 DEF JobState, Answered
<1>7. QED BY <1>0, <1>1, <1>2, <1>3, <1>4, <1>5, <1>6, OwnStep

LEMMA VerifyLoadStep ==
  ASSUME IInv, NEW r \in Requests, VerifyLoad(r)
  PROVE  IInv'
<1> USE TypeParts, VerificationAssumption DEF IInv
<1>0. /\ pc[r] = "verify.load" /\ job[r].link \in Signups /\ links[job[r].link].st # "none"
      /\ job' = job /\ links' = links /\ users' = users /\ touched' = touched
      /\ answer[r] = "none"
  BY DEF VerifyLoad, JobState
<1>1. /\ UserType' /\ LinkType' /\ OneUserPerAddress' /\ UsedLinkDidItsWork' /\ Onward
      /\ JobType'
  BY StoresUntouched DEF VerifyLoad, JobType
<1>2. QueueType' /\ WorkerType' /\ QueuedLinkIsStored' /\ DeletedWasProcessed' /\ HandState'
  BY <1>1, MailsUntouched DEF VerifyLoad
<1>3. /\ RequestType' /\ answer'[r] \in {"none", "500"}
      /\ pc'[r] # "done" => answer'[r] = "none"
      /\ pc'[r] \in {"verify.save", "verify.mark", "done"}
      /\ pc'[r] = "verify.mark" => ~Alive(links[job[r].link].user)
  <2>1. CASE Reply(r, "500")
    BY <1>0, <2>1, ReplyType
  <2>2. CASE Goto(r, IF Alive(links[job[r].link].user) THEN "verify.save" ELSE "verify.mark")
    BY <1>0, <2>2, GotoType DEF Labels
  <2>3. QED BY <2>1, <2>2 DEF VerifyLoad
<1>4. \A q \in Requests \ {r} : NotOf(q)
  BY <1>0 DEF VerifyLoad, NotOf, Goto, Reply, RequestType
<1>5. JobState(r)'
  <2>1. r \notin Signups \/ pc'[r] \notin {"new", "register.create", "register.token", "register.enqueue"}
    BY <1>3
  <2>2. pc'[r] = "verify.mark" => Reached(job[r].link)'
    BY <1>0, <1>3 DEF Reached, Alive
  <2>3. QED BY <1>0, <1>3, <2>1, <2>2 DEF JobState
<1>6. r \in Visits => Answered(r)'
  BY <1>3 DEF Answered
<1>7. QED BY <1>1, <1>2, <1>3, <1>4, <1>5, <1>6, OwnStep

LEMMA VerifySaveStep ==
  ASSUME IInv, NEW r \in Requests, VerifySave(r)
  PROVE  IInv'
<1> USE TypeParts, VerificationAssumption DEF IInv
<1>0. /\ pc[r] = "verify.save" /\ job[r].link \in Signups /\ links[job[r].link].st # "none"
      /\ job' = job /\ links' = links /\ answer[r] = "none"
      /\ touched' \in {touched, touched \cup {job[r].link}}
  BY DEF VerifySave, JobState
<1>1. /\ UserType' /\ LinkType' /\ OneUserPerAddress' /\ UsedLinkDidItsWork' /\ Onward
      /\ JobType'
  <2>1. UNCHANGED <<users, born, links>> /\ touched \subseteq touched'
    BY DEF VerifySave
  <2>2. QED BY <1>0, <2>1, StoresUntouched DEF JobType
<1>2. QueueType' /\ WorkerType' /\ QueuedLinkIsStored' /\ DeletedWasProcessed' /\ HandState'
  BY <1>1, MailsUntouched DEF VerifySave
<1>3. /\ RequestType' /\ answer'[r] \in {"none", "500"}
      /\ pc'[r] # "done" => answer'[r] = "none"
      /\ pc'[r] \in {"verify.mark", "done"}
      /\ pc'[r] = "verify.mark" => job[r].link \in touched'
  <2>1. CASE Reply(r, "500")
    BY <1>0, <2>1, ReplyType
  <2>2. CASE Goto(r, "verify.mark") /\ touched' = touched \cup {job[r].link}
    BY <1>0, <2>2, GotoType DEF Labels
  <2>3. QED BY <2>1, <2>2 DEF VerifySave
<1>4. \A q \in Requests \ {r} : NotOf(q)
  BY <1>0 DEF VerifySave, NotOf, Goto, Reply, RequestType
<1>5. JobState(r)'
  BY <1>0, <1>3 DEF JobState, Reached
<1>6. r \in Visits => Answered(r)'
  BY <1>3 DEF Answered
<1>7. QED BY <1>1, <1>2, <1>3, <1>4, <1>5, <1>6, OwnStep

LEMMA VerifyMarkStep ==
  ASSUME IInv, NEW r \in Requests, VerifyMark(r)
  PROVE  IInv'
<1> USE TypeParts, VerificationAssumption DEF IInv
<1> DEFINE l == job[r].link
<1>0. /\ pc[r] = "verify.mark" /\ l \in Signups /\ links[l].st # "none" /\ Reached(l)
      /\ users' = users /\ born' = born /\ job' = job /\ touched' = touched
      /\ answer[r] = "none"
  BY DEF VerifyMark, JobState
<1>1. links' = links \/ links' = [links EXCEPT ![l].st = "used"]
  BY DEF VerifyMark, MarkedUsed
<1> HIDE DEF l
<1>2. /\ links' \in [Signups -> Link]
      /\ links'[l].user = links[l].user /\ links'[l].st \in {links[l].st, "used"}
      /\ \A k \in Signups \ {l} : links'[k] = links[k]
  <2>1. links \in [Signups -> Link] /\ links[l] \in Link
    BY <1>0 DEF LinkType
  <2>2. [links[l] EXCEPT !.st = "used"] \in Link
    BY <2>1 DEF Link
  <2>3. QED BY <1>0, <1>1, <2>1, <2>2 DEF Link
<1>3. LinkType' /\ UserType' /\ JobType' /\ OneUserPerAddress'
  BY <1>0, <1>2 DEF LinkType, UserType, JobType, OneUserPerAddress, Alive
<1>4. Onward
  BY <1>0, <1>2 DEF Onward, Alive, UserType
<1>5. UsedLinkDidItsWork'
  BY <1>0, <1>2 DEF UsedLinkDidItsWork, Alive, Reached
<1>6. QueueType' /\ WorkerType' /\ QueuedLinkIsStored' /\ DeletedWasProcessed' /\ HandState'
  BY <1>4, MailsUntouched DEF VerifyMark
<1>7. RequestType' /\ pc'[r] = "done"
  BY ReplyType DEF VerifyMark
<1>8. \A q \in Requests \ {r} : NotOf(q)
  BY <1>0, <1>2 DEF VerifyMark, NotOf, Reply, RequestType
<1>9. JobState(r)'
  BY <1>7 DEF JobState
<1>10. Answered(r)'
  <2>1. CASE Reply(r, "200") /\ links' = [links EXCEPT ![l].st = "used"]
    <3>1. links'[l].st = "used"
      BY <1>0, <2>1 DEF LinkType, Link
    <3>2. QED BY <1>0, <3>1 DEF Answered, l
  <2>2. CASE Reply(r, "500")
    BY <2>2, ReplyType DEF Answered
  <2>3. QED BY <2>1, <2>2 DEF VerifyMark, MarkedUsed, l
<1>11. QED BY <1>3, <1>4, <1>5, <1>6, <1>7, <1>8, <1>9, <1>10, OwnStep

-----------------------------------------------------------------------------
(* withdrawal, expiry *)

\* The user of a link that is marked next may go: then there is none to update.
LEMMA WithdrawStep ==
  ASSUME IInv, NEW r \in Visits, NEW u \in Users, Withdraw(r, u)
  PROVE  IInv'
<1> USE TypeParts, VerificationAssumption DEF IInv
<1>0. /\ r \in Requests /\ r \notin Signups
      /\ users' = [users EXCEPT ![u] = NoUser] /\ links' = links /\ born' = born
      /\ touched' = touched
  BY DEF Requests, Withdraw
<1>1. /\ UserType' /\ LinkType'
      /\ \A v \in Users : users'[v] \in {users[v], NoUser}
      /\ \A v \in Users : Alive(v)' => Alive(v) /\ users'[v] = users[v]
  BY <1>0 DEF UserType, LinkType, Alive
<1>2. OneUserPerAddress' /\ UsedLinkDidItsWork' /\ Onward
  BY <1>0, <1>1 DEF OneUserPerAddress, UsedLinkDidItsWork, Onward, Alive, UserType
<1>3. QueueType' /\ WorkerType' /\ QueuedLinkIsStored' /\ DeletedWasProcessed' /\ HandState'
  BY <1>2, MailsUntouched DEF Withdraw
<1>4. JobType' /\ job'[r].link = NoUser /\ \A q \in Requests \ {r} : job'[q] = job[q]
  <2>1. Ask(r, NoUser, NoUser)
    BY DEF Withdraw
  <2>2. NoUser \in Emails \cup {NoUser} /\ NoUser \in Signups \cup {NoUser} /\ JobType
    OBVIOUS
  <2>3. /\ job' \in [Requests -> Job]
        /\ job'[r] = [email |-> NoUser, link |-> NoUser, user |-> job[r].user]
        /\ \A q \in Requests \ {r} : job'[q] = job[q]
    BY ONLY <1>0, <2>1, <2>2, AskType
  <2>4. QED BY <1>0, <2>2, <2>3 DEF JobType
<1>5. RequestType' /\ pc'[r] = "done"
  BY <1>0, ReplyType DEF Withdraw
<1>6. \A q \in Requests \ {r} : NotOf(q)
  BY <1>0, <1>4 DEF Withdraw, NotOf, Reply, RequestType
<1>7. JobState(r)' /\ Answered(r)'
  BY <1>4, <1>5 DEF JobState, Answered
<1>8. QED BY <1>0, <1>1, <1>2, <1>3, <1>4, <1>5, <1>6, <1>7, OwnStep

LEMMA LinkExpiresStep ==
  ASSUME IInv, NEW l \in Signups, LinkExpires(l)
  PROVE  IInv'
<1> USE TypeParts, VerificationAssumption DEF IInv
<1>1. /\ UNCHANGED <<users, born, mails, pc, job, answer, touched>>
      /\ links' = [links EXCEPT ![l].expired = TRUE]
  BY DEF LinkExpires
<1>2. /\ LinkType'
      /\ \A k \in Signups : links'[k].st = links[k].st /\ links'[k].user = links[k].user
  <2>1. [links[l] EXCEPT !.expired = TRUE] \in Link
    BY DEF LinkType, Link
  <2>2. QED BY <1>1, <2>1 DEF LinkType, Link
<1>3. UserType' /\ RequestType' /\ JobType' /\ OneUserPerAddress'
  BY <1>1 DEF UserType, RequestType, JobType, OneUserPerAddress, Alive
<1>4. Onward /\ UsedLinkDidItsWork' /\ \A q \in Requests : NotOf(q)
  BY <1>1, <1>2 DEF Onward, Alive, UsedLinkDidItsWork, NotOf, UserType
<1>5. QueueType' /\ WorkerType' /\ QueuedLinkIsStored' /\ DeletedWasProcessed' /\ HandState'
  BY <1>1, <1>4, MailsUntouched
<1>6. \A q \in Requests : JobState(q)' /\ (q \in Visits => Answered(q)')
  BY <1>4, OthersKeepTheirState
<1>7. QED BY <1>2, <1>3, <1>4, <1>5, <1>6, TypePartsNext DEF Requests

-----------------------------------------------------------------------------
(* The queue and the worker *)

\* What is left to show of a step that leaves the requests and their stores alone.
LEMMA MailStep ==
  ASSUME IInv, UNCHANGED requests,
         QueueType', WorkerType', QueuedLinkIsStored', DeletedWasProcessed', HandState'
  PROVE  IInv'
BY RequestsUntouched, TypePartsNext DEF IInv

LEMMA ReceiveStep ==
  ASSUME IInv, NEW l \in Signups, Receive(l)
  PROVE  IInv'
<1> USE TypeParts, VerificationAssumption DEF IInv
<1>1. /\ UNCHANGED <<requests, sent, refused>> /\ queue[l].st = "visible" /\ worker.at = "poll"
      /\ worker' = worker \/ worker' = [at |-> "send", link |-> l]
  BY DEF Receive
<1>2. PICK m \in Message : queue' = [queue EXCEPT ![l] = m] /\ m.st \in {"taken", "dead"}
  <2>1. queue[l] \in Message
    BY DEF QueueType
  <2>2. CASE ~Exhausted(l)
    BY <2>1, <2>2 DEF Receive, Exhausted, QueueType, Message
  <2>3. CASE Exhausted(l)
    <3>1. queue' = [queue EXCEPT ![l] = [queue[l] EXCEPT !.st = "dead"]]
      BY <2>3 DEF Receive, QueueType
    <3>2. [queue[l] EXCEPT !.st = "dead"] \in Message /\ [queue[l] EXCEPT !.st = "dead"].st = "dead"
      BY <2>1 DEF Message
    <3>3. QED BY <3>1, <3>2
  <2>4. QED BY <2>2, <2>3
<1>3. QueueType' /\ WorkerType'
  BY <1>1, <1>2 DEF QueueType, WorkerType, Hand
<1>4. QueuedLinkIsStored' /\ DeletedWasProcessed' /\ HandState'
  <2>1. links[l].st # "none" /\ links' = links
    BY <1>1 DEF QueuedLinkIsStored, requests
  <2>2. QED BY <1>1, <1>2, <2>1 DEF QueueType, QueuedLinkIsStored, DeletedWasProcessed, HandState
<1>5. QED BY <1>1, <1>3, <1>4, MailStep

LEMMA SendStep ==
  ASSUME IInv, Send
  PROVE  IInv'
<1> USE TypeParts, VerificationAssumption DEF IInv
<1>1. /\ UNCHANGED <<requests, queue>> /\ links' = links
      /\ worker.at = "send" /\ worker.link \in Signups /\ links[worker.link].st # "none"
  BY DEF Send, HandState, requests
<1>2. /\ sent \subseteq sent' /\ sent' \subseteq sent \cup {worker.link}
      /\ refused \subseteq refused' /\ refused' \subseteq refused \cup {worker.link}
  BY DEF Send
<1>3. \/ worker' = Free
      \/ /\ worker' = [worker EXCEPT !.at = "delete"]
         /\ worker.link \in sent' \cup refused'
  BY DEF Send, FailureLeaves
<1>4. worker' = Free \/ worker' = [at |-> "delete", link |-> worker.link]
  BY <1>3 DEF WorkerType, Hand
<1>5. QueueType' /\ WorkerType'
  BY <1>1, <1>2, <1>4 DEF QueueType, WorkerType, Hand, Free
<1>6. QueuedLinkIsStored' /\ DeletedWasProcessed'
  BY <1>1, <1>2 DEF QueuedLinkIsStored, DeletedWasProcessed
<1>7. HandState'
  <2>1. CASE worker' = Free
    BY <2>1 DEF HandState, Free
  <2>2. CASE /\ worker' = [at |-> "delete", link |-> worker.link]
             /\ worker.link \in sent' \cup refused'
    BY <1>1, <2>2 DEF HandState
  <2>3. QED BY <1>3, <1>4, <2>1, <2>2 DEF Free
<1>8. QED BY <1>1, <1>5, <1>6, <1>7, MailStep

\* The message deleted is the one in hand, whose mail is out.
LEMMA DeleteStep ==
  ASSUME IInv, Delete
  PROVE  IInv'
<1> USE TypeParts, VerificationAssumption DEF IInv
<1> DEFINE l == worker.link
<1>1. /\ UNCHANGED <<requests, sent, refused>> /\ links' = links /\ worker' = Free
      /\ l \in Signups /\ links[l].st # "none" /\ l \in sent \cup refused
      /\ queue' = queue \/ queue' = [queue EXCEPT ![l].st = "deleted"]
  BY DEF Delete, HandState, requests
<1> HIDE DEF l
<1>2. QueueType' /\ \A k \in Signups \ {l} : queue'[k] = queue[k]
  <2>1. [queue[l] EXCEPT !.st = "deleted"] \in Message
    BY <1>1 DEF QueueType, Message
  <2>2. QED BY <1>1, <2>1 DEF QueueType
<1>3. WorkerType' /\ HandState'
  BY <1>1 DEF WorkerType, Hand, Free, HandState
<1>4. QueuedLinkIsStored' /\ DeletedWasProcessed'
  BY <1>1, <1>2 DEF QueuedLinkIsStored, DeletedWasProcessed
<1>5. QED BY <1>1, <1>2, <1>3, <1>4, MailStep

LEMMA WorkerCrashStep ==
  ASSUME IInv, WorkerCrash
  PROVE  IInv'
<1> USE TypeParts DEF IInv
<1>1. UNCHANGED <<requests, queue, sent, refused>> /\ links' = links /\ worker' = Free
  BY DEF WorkerCrash, requests
<1>2. QueueType' /\ WorkerType' /\ HandState'
  BY <1>1 DEF QueueType, WorkerType, Hand, Free, HandState
<1>3. QueuedLinkIsStored' /\ DeletedWasProcessed'
  BY <1>1 DEF QueuedLinkIsStored, DeletedWasProcessed
<1>4. QED BY <1>1, <1>2, <1>3, MailStep

LEMMA VisibilityEndsStep ==
  ASSUME IInv, NEW l \in Signups, VisibilityEnds(l)
  PROVE  IInv'
<1> USE TypeParts DEF IInv
<1>1. /\ UNCHANGED <<requests, worker, sent, refused>> /\ links' = links
      /\ queue[l].st = "taken" /\ queue' = [queue EXCEPT ![l].st = "visible"]
  BY DEF VisibilityEnds, requests
<1>2. /\ QueueType' /\ queue'[l].st = "visible"
      /\ \A k \in Signups \ {l} : queue'[k] = queue[k]
  <2>1. /\ [queue[l] EXCEPT !.st = "visible"] \in Message
        /\ [queue[l] EXCEPT !.st = "visible"].st = "visible"
    BY DEF QueueType, Message
  <2>2. QED BY <1>1, <2>1 DEF QueueType
<1>3. WorkerType' /\ HandState'
  BY <1>1 DEF WorkerType, HandState
<1>4. QueuedLinkIsStored' /\ DeletedWasProcessed'
  BY <1>1, <1>2 DEF QueuedLinkIsStored, DeletedWasProcessed
<1>5. QED BY <1>1, <1>2, <1>3, <1>4, MailStep

-----------------------------------------------------------------------------
(* The theorems *)

LEMMA InitInv == ASSUME Init PROVE IInv
<1> USE VerificationAssumption DEF Init
<1>1. TypeOK
  BY DEF TypeOK, Users, Link, Message, Hand, Job, Labels, Free
<1>2. /\ OneUserPerAddress /\ UsedLinkDidItsWork /\ QueuedLinkIsStored
      /\ DeletedWasProcessed /\ HandState
  BY DEF OneUserPerAddress, UsedLinkDidItsWork, QueuedLinkIsStored, DeletedWasProcessed,
         HandState, Alive, Free
<1>3. /\ \A r \in Requests : JobState(r)
      /\ \A p \in Visits : Answered(p)
  BY DEF JobState, Answered, Requests
<1>4. QED BY <1>1, <1>2, <1>3 DEF IInv

LEMMA NextInv == ASSUME IInv, [Next]_vars PROVE IInv'
<1>1. ASSUME NEW r \in Requests, Serve(r) PROVE IInv'
  BY <1>1, RegisterCreateStep, RegisterTokenStep, RegisterEnqueueStep, VerifyLoadStep,
     VerifySaveStep, VerifyMarkStep DEF Serve
<1>2. ASSUME WorkerStep \/ WorkerCrash PROVE IInv'
  BY <1>2, ReceiveStep, SendStep, DeleteStep, WorkerCrashStep DEF WorkerStep
<1>3. CASE UNCHANGED vars
  <2>1. UNCHANGED requests /\ UNCHANGED mails
    BY <1>3 DEF vars, requests, mails
  <2>2. /\ QueueType' /\ WorkerType' /\ QueuedLinkIsStored' /\ DeletedWasProcessed' /\ HandState'
    BY <2>1, TypeParts DEF IInv, requests, mails, QueueType, WorkerType, QueuedLinkIsStored,
                           DeletedWasProcessed, HandState
  <2>3. QED BY <2>1, <2>2, MailStep
<1>4. QED
  BY <1>1, <1>2, <1>3, RegisterCheckStep, VerifyFindStep, WithdrawStep, LinkExpiresStep,
     VisibilityEndsStep DEF Next

\* The inductive invariant of the module: users, links, queue and worker agree,
\* and each request knows what it has found so far.
THEOREM VerificationInvariant == Spec => []IInv
BY InitInv, NextInv, PTL DEF Spec

\* An address has one user, also when registrations race to the insert, and a link
\* that is used up has reached its user (register, verify_email).
THEOREM AccountsAgree == Spec => []AccountsInv
<1>1. IInv => AccountsInv
  BY DEF IInv, AccountsInv
<1>2. QED BY <1>1, VerificationInvariant, PTL

\* What is queued leads to a stored link, and what is deleted from the queue was
\* sent or refused for good, whatever fails (queue_service, email_worker).
THEOREM MailsArrive == Spec => []NoMailIsLost
<1>1. IInv => NoMailIsLost
  BY DEF IInv, NoMailIsLost
<1>2. QED BY <1>1, VerificationInvariant, PTL

\* Whoever clicks after a success is refused: a link that some click used up is
\* marked, and stays marked until the other click looks (verify_email).
THEOREM LinksWorkOnce == Spec => LinkWorksOnce
<1>1. ASSUME IInv, [Next]_vars,
             NEW r \in Visits, NEW p \in Visits, pc[r] = "new", job'[r].link # NoUser,
             answer[p] = "200", job[p].link = job'[r].link
      PROVE  answer'[r] = "400"
  <2>1. /\ r \in Requests /\ r \notin Signups /\ job[r].link = NoUser
        /\ links[job'[r].link].st = "used"
    BY <1>1, VerificationAssumption DEF IInv, JobState, Answered, Requests
  <2>2. job'[r] # job[r]
    BY <1>1, <2>1
  <2>3. ASSUME NEW l \in Signups, VerifyFind(r, l) PROVE answer'[r] = "400"
    <3>1. job'[r].link = l
      <4>1. NoUser \in Emails \cup {NoUser} /\ l \in Signups \cup {NoUser} /\ JobType
        BY <1>1, TypeParts DEF IInv
      <4>2. Ask(r, NoUser, l)
        BY <2>3 DEF VerifyFind
      <4>3. job'[r] = [email |-> NoUser, link |-> l, user |-> job[r].user]
        BY ONLY <2>1, <4>1, <4>2, AskType
      <4>4. QED BY <4>3
    <3>2. Reply(r, "400")
      BY <2>1, <2>3, <3>1 DEF VerifyFind
    <3>3. QED BY <1>1, <2>1, <3>2, ReplyType, TypeParts DEF IInv
  <2>4. ASSUME NEW u \in Users, Withdraw(r, u) PROVE FALSE
    <3>1. NoUser \in Emails \cup {NoUser} /\ NoUser \in Signups \cup {NoUser} /\ JobType
      BY <1>1, TypeParts DEF IInv
    <3>2. Ask(r, NoUser, NoUser)
      BY <2>4 DEF Withdraw
    <3>3. job'[r] = [email |-> NoUser, link |-> NoUser, user |-> job[r].user]
      BY ONLY <2>1, <3>1, <3>2, AskType
    <3>4. QED BY <1>1, <3>3
  <2>5. ASSUME ~ \E l \in Signups : VerifyFind(r, l), ~ \E u \in Users : Withdraw(r, u)
        PROVE  job'[r] = job[r]
    <3> USE <1>1, <2>1, <2>5, TypeParts DEF IInv, JobType
    <3>1. ASSUME NEW q \in Requests, Serve(q) PROVE job'[r] = job[r]
      BY <3>1 DEF Serve, RegisterCreate, RegisterToken, RegisterEnqueue, VerifyLoad,
                  VerifySave, VerifyMark
    <3>2. ASSUME NEW q \in Signups, NEW e \in Emails, RegisterCheck(q, e)
          PROVE  job'[r] = job[r]
      BY <3>2 DEF RegisterCheck, Ask
    <3>3. ASSUME NEW q \in Visits, NEW l \in Signups, VerifyFind(q, l)
          PROVE  job'[r] = job[r]
      BY <3>3 DEF VerifyFind, Ask
    <3>4. ASSUME NEW q \in Visits, NEW u \in Users, Withdraw(q, u)
          PROVE  job'[r] = job[r]
      BY <3>4 DEF Withdraw, Ask
    <3>5. ASSUME \/ WorkerStep \/ WorkerCrash \/ UNCHANGED vars
                 \/ \E l \in Signups : LinkExpires(l) \/ VisibilityEnds(l)
          PROVE  job'[r] = job[r]
      BY <3>5 DEF WorkerStep, WorkerCrash, Receive, Send, Delete, LinkExpires,
                  VisibilityEnds, requests, vars
    <3>6. QED BY <3>1, <3>2, <3>3, <3>4, <3>5 DEF Next
  <2>6. QED BY <2>2, <2>3, <2>4, <2>5
<1>2. IInv /\ [Next]_vars =>
        [\A r, p \in Visits :
           pc[r] = "new" /\ job'[r].link # NoUser
             /\ answer[p] = "200" /\ job[p].link = job'[r].link
           => answer'[r] = "400"]_vars
  BY <1>1
<1>3. QED BY <1>2, VerificationInvariant, PTL DEF Spec, LinkWorksOnce

=============================================================================
