------------------------------ MODULE ChatTab ------------------------------
(***************************************************************************)
(* The conversation with the assistant in one browser tab (useChat).       *)
(*                                                                         *)
(* The hook is used by the floating panel, which is always mounted, and by *)
(* the chat page, which comes and goes.  Each use has the messages as      *)
(* state; sessionStorage holds a copy, and an event tells the other use to *)
(* read it.  The storing is done inside the state updater: React runs an   *)
(* updater at the call when it knows the component to be idle, and         *)
(* otherwise when it renders.                                              *)
(***************************************************************************)
EXTENDS Integers, Sequences, SequencesExt

CONSTANTS
  Visits,     \* bound on visits of the chat page
  MaxSends    \* bound on questions

ASSUME ChatAssumption == Visits \in Nat /\ MaxSends \in Nat

VARIABLES
  chatCopy,   \* sessionStorage: the messages
  uses,       \* the uses of the hook: 0 is the panel, the others visits
  streams,    \* the answers: who asked, and how far the stream is
  chatCrossed \* history: an updater ran late, behind the back of another use

chatVars == <<chatCopy, uses, streams, chatCrossed>>

Uses == 0 .. Visits

\* A question, or an answer with its text so far.
Message == [id : 1 .. MaxSends, asks : BOOLEAN, text : BOOLEAN, live : BOOLEAN]
Update  == [op : {"ask", "start", "delta", "end", "clear"}, id : 0 .. MaxSends]
           \cup [op : {"set"}, val : SUBSET Message]
Use     == [up : {"not yet", "mounted", "left"}, shown : SUBSET Message,
            queue : Seq(Update), busy : BOOLEAN]
Stream  == [by : Uses, at : {"open", "fed", "over"}]

ChatTypeOK ==
  /\ chatCopy \subseteq Message /\ chatCrossed \in BOOLEAN
  /\ DOMAIN uses = Uses /\ \A i \in Uses : uses[i] \in Use
  /\ streams \in Seq(Stream) /\ Len(streams) <= MaxSends
  /\ \A i \in Uses : \* sendMessage refuses while isLoading
       Cardinality({k \in DOMAIN streams : streams[k].by = i /\ streams[k].at # "over"}) <= 1

\* The panel is mounted with what the storage has: nothing, in a new tab.
ChatInit ==
  /\ chatCopy = {} /\ streams = <<>> /\ chatCrossed = FALSE
  /\ uses = [i \in Uses |-> [up |-> IF i = 0 THEN "mounted" ELSE "not yet",
                             shown |-> {}, queue |-> <<>>, busy |-> FALSE]]

-----------------------------------------------------------------------------
(* Updaters *)

\* A change of an answer maps over the messages there are.
OfAnswer(msgs, k, Change(_)) ==
  {IF m.id = k /\ ~m.asks THEN Change(m) ELSE m : m \in msgs}

\* Variant with a bug: an answer is put where it is missing.
AppliedPuts(msgs, u) ==
  CASE u.op = "ask"   -> msgs \cup {[id |-> u.id, asks |-> TRUE, text |-> TRUE, live |-> FALSE]}
    [] u.op \in {"start", "delta"} ->
         {m \in msgs : m.id # u.id \/ m.asks}
         \cup {[id |-> u.id, asks |-> FALSE, text |-> u.op = "delta", live |-> TRUE]}
    [] u.op = "end"   -> OfAnswer(msgs, u.id, LAMBDA m : [m EXCEPT !.live = FALSE])
    [] u.op = "clear" -> {}
    [] u.op = "set"   -> u.val

Applied(msgs, u) ==
  CASE u.op = "ask"   -> msgs \cup {[id |-> u.id, asks |-> TRUE, text |-> TRUE, live |-> FALSE]}
    [] u.op = "start" -> msgs \cup {[id |-> u.id, asks |-> FALSE, text |-> FALSE, live |-> TRUE]}
    [] u.op = "delta" -> OfAnswer(msgs, u.id, LAMBDA m : [m EXCEPT !.text = TRUE])
    [] u.op = "end"   -> OfAnswer(msgs, u.id, LAMBDA m : [m EXCEPT !.live = FALSE])
    [] u.op = "clear" -> {}
    [] u.op = "set"   -> u.val

Set(msgs) == [op |-> "set", val |-> msgs]

\* A value put behind a value makes that one pointless.
Queued(q, u) ==
  IF u.op = "set" /\ q # <<>> /\ Last(q).op = "set" THEN Front(q) \o <<u>> ELSE Append(q, u)

\* handleSync: the other uses that are mounted read the storage.
Told(us, i, msgs) ==
  [j \in Uses |-> IF j # i /\ us[j].up = "mounted"
                    THEN [us[j] EXCEPT !.queue = Queued(@, Set(msgs))] ELSE us[j]]

\* Whether the storing by `i' gets behind an updater that has not run.
Behind(us, i) ==
  \E j \in Uses \ {i} : us[j].up = "mounted" /\ \E k \in DOMAIN us[j].queue : us[j].queue[k].op # "set"

\* setMessagesAndPersist with the updaters `ups', in one go.  The first may run
\* at once if nothing is queued; the others wait.  Of a use that has left, the
\* first may still run, on what it showed last, and nothing is rendered.
Updates(i, ups, waits) ==
  LET use   == uses[i]
      now   == Applied(use.shown, ups[1])
      queue(q) == IF use.up = "left" /\ use.queue # <<>> THEN use.queue ELSE q
  IN \/ /\ use.queue = <<>>
        /\ chatCopy' = now
        /\ uses' = Told([uses EXCEPT ![i].queue = <<Set(now)>> \o Tail(ups), ![i].busy = waits],
                        i, now)
        /\ chatCrossed' = (chatCrossed \/ Behind(uses, i) \/ use.up = "left")
     \/ /\ uses' = [uses EXCEPT ![i].queue = queue(@ \o ups), ![i].busy = waits]
        /\ UNCHANGED <<chatCopy, chatCrossed>>

-----------------------------------------------------------------------------
(* Rendering: the queue is worked off; the last updater run is what is stored *)

Step(acc, u) ==
  LET msgs == Applied(acc.msgs, u) IN
  [msgs |-> msgs, wrote |-> IF u.op = "set" THEN acc.wrote ELSE <<msgs>>]

Renders(i) ==
  /\ uses[i].up = "mounted" /\ uses[i].queue # <<>>
  /\ LET after == FoldLeft(Step, [msgs |-> uses[i].shown, wrote |-> <<>>], uses[i].queue)
         done  == [uses EXCEPT ![i].shown = after.msgs, ![i].queue = <<>>]
     IN IF after.wrote = <<>>
          THEN uses' = done /\ UNCHANGED <<chatCopy, chatCrossed>>
          ELSE /\ chatCopy' = after.wrote[1]
               /\ uses' = Told(done, i, after.wrote[1])
               /\ chatCrossed' = (chatCrossed \/ Behind(uses, i))
  /\ UNCHANGED streams

-----------------------------------------------------------------------------
(* The conversation *)

\* What a click finds on the page has been rendered.
Clickable(i) == uses[i].up = "mounted" /\ uses[i].queue = <<>>

\* sendMessage: the question and the empty answer, by two updaters.
Send(i) ==
  /\ Clickable(i) /\ ~uses[i].busy /\ Len(streams) < MaxSends
  /\ LET id == Len(streams) + 1 IN
       Updates(i, <<[op |-> "ask", id |-> id], [op |-> "start", id |-> id]>>, TRUE)
  /\ streams' = Append(streams, [by |-> i, at |-> "open"])

\* A `delta' of the stream, or its sources.
Delta(k) ==
  /\ streams[k].at = "open"
  /\ Updates(streams[k].by, <<[op |-> "delta", id |-> k]>>, uses[streams[k].by].busy)
  /\ streams' = [streams EXCEPT ![k].at = "fed"]

\* `done', `error', the end of the stream, or no answer: each ends the answer,
\* and `finally' the loading.
StreamEnds(k) ==
  /\ streams[k].at # "over"
  /\ Updates(streams[k].by, <<[op |-> "end", id |-> k]>>, FALSE)
  /\ streams' = [streams EXCEPT ![k].at = "over"]

\* clearMessages: the button is there when there are messages.
Clear(i) ==
  /\ Clickable(i) /\ uses[i].shown # {}
  /\ Updates(i, <<[op |-> "clear", id |-> 0]>>, uses[i].busy)
  /\ UNCHANGED streams

\* The chat page is opened (a use of its own each time), and left.
PageOpens(i) ==
  /\ uses[i].up = "not yet" /\ \A j \in 1 .. i - 1 : uses[j].up = "left"
  /\ uses' = [uses EXCEPT ![i] = [up |-> "mounted", shown |-> {}, queue |-> <<Set(chatCopy)>>,
                                  busy |-> FALSE]]
  /\ UNCHANGED <<chatCopy, streams, chatCrossed>>

\* What is queued is never run.
PageIsLeft(i) ==
  /\ i # 0 /\ uses[i].up = "mounted"
  /\ uses' = [uses EXCEPT ![i].up = "left"]
  /\ UNCHANGED <<chatCopy, streams, chatCrossed>>

-----------------------------------------------------------------------------
(* Specification *)

\* Nothing is claimed of a conversation that was crossed; it is not followed.
ChatNext ==
  /\ ~chatCrossed
  /\ \/ \E i \in Uses : Send(i) \/ Clear(i) \/ Renders(i) \/ PageOpens(i) \/ PageIsLeft(i)
     \/ \E k \in DOMAIN streams : Delta(k) \/ StreamEnds(k)

ChatInitNext == ChatInit /\ [][ChatNext]_chatVars

\* A stream ends, and React renders what is queued.  Sending is left to the user.
ChatFairness ==
  /\ \A i \in Uses : WF_chatVars(~chatCrossed /\ Renders(i))
  /\ \A k \in 1 .. MaxSends :
       WF_chatVars(~chatCrossed /\ k \in DOMAIN streams /\ StreamEnds(k))

ChatSpec == ChatInitNext /\ ChatFairness

-----------------------------------------------------------------------------
(* Properties *)

\* With nothing queued both uses show what is stored, unless an updater ran behind
\* the back of another use or of a page that was left.
UsesAgree ==
  ~chatCrossed => \A i \in Uses :
    uses[i].up = "mounted" /\ uses[i].queue = <<>> => uses[i].shown = chatCopy

\* An answer is never there without its question: a conversation that was cleared
\* stays cleared when the rest of an answer comes.
NoAnswerAlone ==
  ~chatCrossed => \A m \in chatCopy : ~m.asks => \E n \in chatCopy : n.asks /\ n.id = m.id

\* An answer does not stream for ever, as long as who asked stays on the page.
AnswersEnd ==
  \A k \in 1 .. MaxSends :
    (\E m \in chatCopy : m.id = k /\ m.live)
      ~> \/ chatCrossed
         \/ k \in DOMAIN streams /\ uses[streams[k].by].up = "left"
         \/ \A m \in chatCopy : m.id = k => ~m.live

=============================================================================
