---------------------------- MODULE NewsPipeline ----------------------------
(***************************************************************************)
(* The way of a news article: the producer crawls what it has not seen,    *)
(* sends it to Kafka and writes down what it has seen; two consumers, one  *)
(* per sink (MongoDB, Elasticsearch), upsert what they read.               *)
(*                                                                         *)
(* One turn of the producer (run_once) is sequential, but it may die, or   *)
(* raise, between any two of its steps; the Kafka client delivers in the   *)
(* background and its failures are not looked at.  The file of the seen    *)
(* links lives in the container and is cut to SeenKeep links.              *)
(***************************************************************************)
EXTENDS Integers, Sequences, FiniteSets, SequencesExt

CONSTANTS
  Articles,   \* links of articles
  SeenKeep,   \* max_keep of save_seen
  Sinks,      \* the consumer groups
  MaxTopic,   \* bound on events in the topic
  NewsFaults  \* those of {"delivery", "crash", "upsert"} that happen

ASSUME NewsAssumption ==
  /\ IsFiniteSet(Articles) /\ SeenKeep \in Nat \ {0} /\ MaxTopic \in Nat
  /\ NewsFaults \subseteq {"delivery", "crash", "upsert"}

VARIABLES
  seenFile,   \* SEEN_FILE
  turn,       \* run_once: where it is, seen_links and pending_events
  topic,      \* the events delivered
  sink,       \* per consumer: next event, committed offset, links stored
  undelivered, forgotten, unstored  \* history: dropped by the Kafka client,
                                    \* fallen out of the file, upserts that failed

newsVars == <<seenFile, turn, topic, sink, undelivered, forgotten, unstored>>

NoTurn == [at |-> "asleep", seen |-> {}, pending |-> {}]

Delivered == ToSet(topic)

NewsTypeOK ==
  /\ seenFile \subseteq Articles /\ Cardinality(seenFile) <= SeenKeep
  /\ turn \in [at : {"asleep", "send", "flush", "save"}, seen : SUBSET Articles,
               pending : SUBSET Articles]
  /\ turn.pending \subseteq turn.seen
  /\ topic \in Seq(Articles) /\ Len(topic) <= MaxTopic
  /\ \A s \in Sinks : /\ sink[s].commit <= sink[s].next /\ sink[s].next <= Len(topic)
                      /\ sink[s].stored \subseteq Delivered
  /\ undelivered \subseteq Articles /\ forgotten \subseteq Articles

NewsInit ==
  /\ seenFile = {} /\ turn = NoTurn /\ topic = <<>>
  /\ sink = [s \in Sinks |-> [next |-> 0, commit |-> 0, stored |-> {}]]
  /\ undelivered = {} /\ forgotten = {} /\ unstored = [s \in Sinks |-> {}]

-----------------------------------------------------------------------------
(* The producer *)

\* if link in seen_links: continue
Fresh(seen) == Articles \ seen

\* load_seen and the loops over the sources: some of the links are on the front
\* pages, are not over a source's limit, and can be fetched.
Collects ==
  /\ turn.at = "asleep"
  /\ \E got \in SUBSET Fresh(seenFile) :
       /\ Len(topic) + Cardinality(got) <= MaxTopic
       /\ turn' = [at |-> "send", seen |-> seenFile \cup got, pending |-> got]
  /\ UNCHANGED <<seenFile, topic, sink, undelivered, forgotten, unstored>>

\* Variant with a bug: the links are written down before they are flushed.
SendsAndSaves ==
  /\ turn.at = "send"
  /\ turn' = [turn EXCEPT !.at = "flush"]
  /\ \E kept \in SUBSET turn.seen : Cardinality(kept) <= SeenKeep /\ seenFile' = kept
  /\ UNCHANGED <<topic, sink, undelivered, forgotten, unstored>>

\* producer.send of every event: into the client's buffer.
Sends ==
  /\ turn.at = "send"
  /\ turn' = [turn EXCEPT !.at = "flush"]
  /\ UNCHANGED <<seenFile, topic, sink, undelivered, forgotten, unstored>>

\* What the client has buffered is delivered, some of it not.
Deliver(got) == topic' = topic \o SetToSeq(got)

\* producer.flush() waits until each event is delivered or given up (no retry is
\* configured); what became of it is not asked.
Flushes ==
  /\ turn.at = "flush"
  /\ \E lost \in SUBSET turn.pending :
       /\ lost # {} => "delivery" \in NewsFaults
       /\ Deliver(turn.pending \ lost)
       /\ undelivered' = undelivered \cup lost
  /\ turn' = [turn EXCEPT !.at = "save"]
  /\ UNCHANGED <<seenFile, sink, forgotten, unstored>>

KeptCount(n) == IF n > SeenKeep THEN SeenKeep ELSE n

\* save_seen keeps any max_keep of the links: list(set) has no order to cut by.
\* A failed write is ignored, and may leave a file that load_seen takes as empty.
Saves_(file) ==
  /\ turn.at = "save"
  /\ seenFile' = file
  /\ forgotten' = forgotten \cup (turn.seen \ file)
  /\ turn' = NoTurn
  /\ UNCHANGED <<topic, sink, undelivered, unstored>>

SavesSeen ==
  \/ \E kept \in SUBSET turn.seen :
       /\ Cardinality(kept) = KeptCount(Cardinality(turn.seen))
       /\ Saves_(kept)
  \/ "crash" \in NewsFaults /\ (Saves_(seenFile) \/ Saves_({}))

\* The turn raises or the process dies: what is buffered may be delivered yet,
\* nothing is written down.  With the container the file goes, too.
ProducerDies ==
  /\ "crash" \in NewsFaults /\ (turn.at # "asleep" \/ seenFile # {})
  /\ \E got \in SUBSET turn.pending, file \in {seenFile, {}} :
       /\ got # {} => turn.at = "flush"
       /\ Deliver(got)
       /\ seenFile' = file
       /\ forgotten' = forgotten \cup got \cup (seenFile \ file)
                         \cup (IF turn.at = "save" THEN turn.pending ELSE {})
  /\ turn' = NoTurn
  /\ UNCHANGED <<sink, undelivered, unstored>>

-----------------------------------------------------------------------------
(* The consumers *)

\* update_one with upsert, or _update with doc_as_upsert: one document per link.
\* An upsert that fails is printed and the loop goes on.
Consumes(s) ==
  /\ sink[s].next < Len(topic)
  /\ LET link == topic[sink[s].next + 1] IN
     \/ /\ sink' = [sink EXCEPT ![s].next = @ + 1, ![s].stored = @ \cup {link}]
        /\ UNCHANGED unstored
     \/ /\ "upsert" \in NewsFaults
        /\ sink' = [sink EXCEPT ![s].next = @ + 1]
        /\ unstored' = [unstored EXCEPT ![s] = @ \cup {link}]
  /\ UNCHANGED <<seenFile, turn, topic, undelivered, forgotten>>

\* enable_auto_commit: from time to time, up to the event that is read next.
Commits(s) ==
  /\ sink[s].commit < sink[s].next
  /\ sink' = [sink EXCEPT ![s].commit = sink[s].next]
  /\ UNCHANGED <<seenFile, turn, topic, undelivered, forgotten, unstored>>

\* auto_offset_reset="earliest"
StartsAt(s) == sink[s].commit

\* The consumer dies and starts again, or its partition goes to another one.
ConsumerRestarts(s) ==
  /\ "crash" \in NewsFaults
  /\ sink' = [sink EXCEPT ![s].next = StartsAt(s)]
  /\ UNCHANGED <<seenFile, turn, topic, undelivered, forgotten, unstored>>

-----------------------------------------------------------------------------
NewsNext ==
  \/ Collects \/ Sends \/ Flushes \/ SavesSeen \/ ProducerDies
  \/ \E s \in Sinks : Consumes(s) \/ Commits(s) \/ ConsumerRestarts(s)

NewsSpec == NewsInit /\ [][NewsNext]_newsVars

-----------------------------------------------------------------------------
(* Properties *)

\* The producer may die anywhere: a link it will not crawl again has been
\* delivered, unless Kafka refused the event.
WrittenDownWasDelivered == seenFile \subseteq Delivered \cup undelivered

\* An article is produced twice only if its link fell out of the file.
ProducedOnceUnlessForgotten ==
  \A i, j \in 1 .. Len(topic) : i # j /\ topic[i] = topic[j] => topic[i] \in forgotten

\* With the topic read to its end, a sink has every article of it, whatever
\* restarts there were, except those whose upsert failed.
ReadMeansStored ==
  \A s \in Sinks : sink[s].next = Len(topic) => Delivered \subseteq sink[s].stored \cup unstored[s]

\* From crawl to store: nothing written down is missing in the topic, nothing is
\* produced twice unforgotten, nothing read is missing in a sink.
NewsInv ==
  NewsTypeOK /\ WrittenDownWasDelivered /\ ProducedOnceUnlessForgotten /\ ReadMeansStored

=============================================================================
