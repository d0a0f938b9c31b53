---------------------------- MODULE CandleEngine ----------------------------
(***************************************************************************)
(* The one-minute candles of a symbol: backend/workers/                    *)
(* candle_aggregator.py, which folds the ticks of a Kafka topic into a     *)
(* candle in memory and writes each finished one to a Redis list and to    *)
(* MongoDB; replay_candles_to_redis.py, which refills Redis from MongoDB;  *)
(* and the reader of backend/app/routers/market.py.                        *)
(*                                                                         *)
(* A tick is its offset in the log, and log[o] is the minute of its        *)
(* timestamp.  A candle is the offsets folded into it, how often volume    *)
(* was added, and the offsets its open and close prices were taken from:   *)
(* high and low are functions of these.  Each await of the three programs  *)
(* is a step.  The TTLs of the keys (two hours, two weeks) are longer than *)
(* the spans modelled.                                                     *)
(***************************************************************************)
EXTENDS Integers, Sequences, FiniteSets

CONSTANTS
  MaxMinute,  \* the clock runs through the minutes 1 .. MaxMinute
  MaxTicks,   \* bound on the ticks produced
  MaxAge,     \* MAX_TICK_AGE, in minutes
  Keep,       \* CANDLE_KEEP: how many rows ltrim leaves
  Readers,    \* TRUE: a chart is read; FALSE: the reader is left out
  Replays,    \* TRUE: the replay script may be run once
  Faults,     \* a subset of FaultNames
  NoCandle    \* no candle

FaultNames == {"crash", "rebalance", "redis", "mongo", "loss"}

Minutes == 1 .. MaxMinute
Offsets == 1 .. MaxTicks
Candle  == [min : Minutes, body : SUBSET Offsets, vol : Nat, open : Offsets,
            close : Offsets]

ASSUME CandleAssumption ==
  /\ MaxMinute \in Nat \ {0} /\ MaxTicks \in Nat /\ MaxAge \in Nat
  /\ Keep \in Nat \ {0}
  /\ Readers \in BOOLEAN /\ Replays \in BOOLEAN
  /\ Faults \subseteq FaultNames
  /\ NoCandle \notin Candle

VARIABLES
  now,       \* the current minute
  log,       \* the topic price_tick
  pos,       \* how many ticks the consumer was handed
  committed, \* the offset the group has committed
  linked,    \* the worker got its MongoDB collection when it connected
  pc,        \* where the worker stands
  state,     \* self.states[symbol]
  hist,      \* Redis list candles:{symbol}:1m
  cur,       \* Redis key candles:{symbol}:1m:current
  stored,    \* MongoDB candles_1m, unique by minute
  replay,    \* the replay script: step, rows found, undisturbed so far
  view,      \* the chart: step, rows read, current row, undisturbed so far
  fresh,     \* history: offsets that were not too old when processed
  struck     \* crash, rebalance and loss, each of which may happen once

vars   == <<now, log, pos, committed, linked, pc, state, hist, cur, stored,
            replay, view, fresh, struck>>
topic  == <<now, log>>
worker == <<pos, committed, linked, pc, state, fresh>>
redis  == <<hist, cur>>

TypeOK ==
  /\ now \in Minutes
  /\ log \in Seq(Minutes) /\ Len(log) <= MaxTicks
  /\ pos \in 0 .. Len(log) /\ committed \in 0 .. Len(log)
  /\ linked \in BOOLEAN
  /\ pc \in {"wait", "push", "trim", "store", "current"}
  /\ state \in Candle \cup {NoCandle}
  /\ hist \in Seq(Candle)
  /\ cur \in Candle \cup {NoCandle}
  /\ stored \in [Minutes -> Candle \cup {NoCandle}]
  /\ \A m \in Minutes : stored[m] # NoCandle => stored[m].min = m
  /\ replay.at \in {"off", "find", "push", "trim", "current", "done"}
  /\ replay.rows \in Seq(Candle)
  /\ view.at \in {"off", "current", "shown"}
  /\ view.rows \in Seq(Candle) /\ view.last \in Candle \cup {NoCandle}
  /\ fresh \subseteq Offsets
  /\ struck \subseteq {"crash", "rebalance", "loss"}
  /\ pc # "wait" => state # NoCandle

-----------------------------------------------------------------------------
(* Helpers *)

Newest(S)   == CHOOSE o \in S : \A p \in S : p <= o
LastRows(s) == SubSeq(s, IF Len(s) > Keep THEN Len(s) - Keep + 1 ELSE 1, Len(s))

\* Variant with a bug: the list is cut from the wrong end.
FirstRows(s) == SubSeq(s, 1, IF Len(s) > Keep THEN Keep ELSE Len(s))

\* ltrim(key, -CANDLE_KEEP, -1)
Kept(s) == LastRows(s)

Late(m) == state # NoCandle /\ m < state.min

\* The rows of MongoDB by minute: find(...).sort("bucket_start", 1).
StoredMinutes == {m \in Minutes : stored[m] # NoCandle}
StoredRows ==
  [k \in 1 .. Cardinality(StoredMinutes) |->
     stored[CHOOSE m \in StoredMinutes :
              Cardinality({x \in StoredMinutes : x <= m}) = k]]

\* A write to a store comes in between what a chart, or a replay too, reads.
DisturbView == view' = [view EXCEPT !.quiet = FALSE]
Disturb     == DisturbView /\ replay' = [replay EXCEPT !.quiet = FALSE]

\* The faults that happen at most once.
Strikes(kind) == kind \in Faults \ struck /\ struck' = struck \cup {kind}

Init ==
  /\ now = 1
  /\ log = <<>>
  /\ pos = 0 /\ committed = 0
  /\ linked \in {TRUE} \cup {b \in {FALSE} : "mongo" \in Faults}
  /\ pc = "wait"
  /\ state = NoCandle
  /\ hist = <<>> /\ cur = NoCandle
  /\ stored = [m \in Minutes |-> NoCandle]
  /\ replay = [at |-> "off", reset |-> FALSE, rows |-> <<>>, quiet |-> TRUE]
  /\ view = [at |-> "off", rows |-> <<>>, last |-> NoCandle, quiet |-> TRUE]
  /\ fresh = {}
  /\ struck = {}

-----------------------------------------------------------------------------
(* The topic *)

Tick(m) ==
  /\ Len(log) < MaxTicks
  /\ m <= now
  /\ log' = Append(log, m)
  /\ UNCHANGED <<now, worker, redis, stored, replay, view, struck>>

ClockTick ==
  /\ now < MaxMinute
  /\ now' = now + 1
  /\ UNCHANGED <<log, worker, redis, stored, replay, view, struck>>

-----------------------------------------------------------------------------
(* CandleAggregator.process_tick *)

Started(o) == [min |-> log[o], body |-> {o}, vol |-> 1, open |-> o, close |-> o]

Extended(c, o) == [c EXCEPT !.body = @ \cup {o}, !.vol = @ + 1, !.close = o]

\* Variant with a bug: the open price is the first tick's.
FollowingOwnOpen(c, o) == Started(o)

\* The next candle opens at the close of the one before.
Following(c, o) == [Started(o) EXCEPT !.open = c.close]

\* The next message, up to the first await.  (A message without a symbol or a
\* price is skipped like one that is too old.)
Take ==
  /\ pc = "wait"
  /\ pos < Len(log)
  /\ pos' = pos + 1
  /\ LET o == pos + 1
         m == log[o]
     IN  \/ /\ now - m > MaxAge
            /\ UNCHANGED <<pc, state, fresh>>
         \/ /\ now - m <= MaxAge
            /\ fresh' = fresh \cup {o}
            /\ \/ /\ state = NoCandle
                  /\ state' = Started(o)
                  /\ pc' = "current"
               \/ /\ Late(m)
                  /\ UNCHANGED <<pc, state>>
               \/ /\ state # NoCandle /\ m = state.min
                  /\ state' = Extended(state, o)
                  /\ pc' = "current"
               \/ /\ state # NoCandle /\ m > state.min
                  /\ pc' = "push"
                  /\ UNCHANGED state
  /\ UNCHANGED <<topic, committed, linked, redis, stored, replay, view, struck>>

\* _persist_finalized: rpush; ltrim and expire; update_one with upsert.
Push ==
  /\ pc = "push"
  /\ hist' = Append(hist, state)
  /\ pc' = "trim"
  /\ Disturb
  /\ UNCHANGED <<topic, pos, committed, linked, state, cur, stored, fresh, struck>>

Trim ==
  /\ pc = "trim"
  /\ hist' = Kept(hist)
  /\ pc' = "store"
  /\ Disturb
  /\ UNCHANGED <<topic, pos, committed, linked, state, cur, stored, fresh, struck>>

\* update_one({symbol, bucket_start}, {$set: payload}, upsert=True)
Upserted(c) == [stored EXCEPT ![c.min] = IF linked THEN c ELSE @]

\* The candle is stored, and the tick that ended it starts the next.
Store ==
  /\ pc = "store"
  /\ stored' = Upserted(state)
  /\ state'  = Following(state, pos)
  /\ pc' = "current"
  /\ Disturb
  /\ UNCHANGED <<topic, pos, committed, linked, redis, fresh, struck>>

\* _persist_current
Current ==
  /\ pc = "current"
  /\ cur' = state
  /\ pc'  = "wait"
  /\ Disturb
  /\ UNCHANGED <<topic, pos, committed, linked, state, hist, stored, fresh, struck>>

\* Variant with a bug: the candle is forgotten with the tick.
StepFailsForgetting ==
  /\ \/ "redis" \in Faults /\ pc \in {"push", "trim", "current"}
     \/ "mongo" \in Faults /\ pc = "store" /\ linked
  /\ pc' = "wait"
  /\ state' = NoCandle
  /\ UNCHANGED <<topic, pos, committed, linked, redis, stored, replay, view,
                 fresh, struck>>

\* A call raises: run() logs it and goes on with the next message.  The tick
\* in hand is dropped, and the candle stays the current one.
StepFails ==
  /\ \/ "redis" \in Faults /\ pc \in {"push", "trim", "current"}
     \/ "mongo" \in Faults /\ pc = "store" /\ linked
  /\ pc' = "wait"
  /\ UNCHANGED <<topic, pos, committed, linked, state, redis, stored, replay, view,
                 fresh, struck>>

\* enable_auto_commit: the position, the message in hand included.
AutoCommit ==
  /\ committed # pos
  /\ committed' = pos
  /\ UNCHANGED <<topic, pos, linked, pc, state, redis, stored, replay, view, fresh, struck>>

\* Variant with a bug: the candle in memory survives the restart.
RestartWithMemory ==
  /\ Strikes("crash")
  /\ pos' = committed
  /\ pc' = "wait"
  /\ UNCHANGED <<topic, committed, linked, state, redis, stored, replay, view, fresh>>

\* The worker dies and another starts at the committed offset, without the
\* candle that was in memory, and with MongoDB if it can be reached then.
Restart ==
  /\ Strikes("crash")
  /\ pos' = committed
  /\ linked' \in {TRUE} \cup {b \in {FALSE} : "mongo" \in Faults}
  /\ state' = NoCandle
  /\ pc' = "wait"
  /\ UNCHANGED <<topic, committed, redis, stored, replay, view, fresh>>

\* The consumer loses its partition and gets it back, which the loop meets
\* between two messages: it resumes at the committed offset with the candle
\* it has in memory.
Rebalance ==
  /\ Strikes("rebalance")
  /\ pc = "wait"
  /\ pos' = committed
  /\ UNCHANGED <<topic, committed, linked, pc, state, redis, stored, replay, view, fresh>>

\* Redis comes back empty.
RedisLoss ==
  /\ Strikes("loss")
  /\ hist' = <<>> /\ cur' = NoCandle
  /\ Disturb
  /\ UNCHANGED <<topic, worker, stored>>

-----------------------------------------------------------------------------
(* replay_symbol; the keys are deleted first unless --no-reset is given *)

ReplayStart(reset) ==
  /\ Replays /\ replay.at = "off"
  /\ replay' = [replay EXCEPT !.at = "find", !.reset = reset, !.quiet = TRUE]
  /\ \/ reset  /\ hist' = <<>> /\ cur' = NoCandle
     \/ ~reset /\ UNCHANGED redis
  /\ DisturbView
  /\ UNCHANGED <<topic, worker, stored, struck>>

ReplayFind ==
  /\ replay.at = "find"
  /\ replay' = [replay EXCEPT !.at = IF StoredRows = <<>> THEN "done" ELSE "push",
                              !.rows = StoredRows]
  /\ UNCHANGED <<topic, worker, redis, stored, view, struck>>

ReplayPush ==
  /\ replay.at = "push"
  /\ hist' = hist \o replay.rows
  /\ replay' = [replay EXCEPT !.at = "trim"]
  /\ DisturbView
  /\ UNCHANGED <<topic, worker, cur, stored, struck>>

ReplayTrim ==
  /\ replay.at = "trim"
  /\ hist' = Kept(hist)
  /\ replay' = [replay EXCEPT !.at = "current"]
  /\ DisturbView
  /\ UNCHANGED <<topic, worker, cur, stored, struck>>

ReplayCurrent ==
  /\ replay.at = "current"
  /\ cur' = replay.rows[Len(replay.rows)]
  /\ replay' = [replay EXCEPT !.at = "done"]
  /\ DisturbView
  /\ UNCHANGED <<topic, worker, hist, stored, struck>>

-----------------------------------------------------------------------------
(* _get_cached_intraday_history: the list, then the current candle *)

ReadList ==
  /\ Readers /\ view.at = "off"
  /\ view' = [view EXCEPT !.at = "current", !.rows = hist, !.quiet = TRUE]
  /\ UNCHANGED <<topic, worker, redis, stored, replay, struck>>

ReadCurrent ==
  /\ view.at = "current"
  /\ view' = [view EXCEPT !.at = "shown", !.last = cur]
  /\ UNCHANGED <<topic, worker, redis, stored, replay, struck>>

RowsRead == IF view.last = NoCandle THEN view.rows ELSE Append(view.rows, view.last)

\* dedup[bucket_start] = row: the last row read of a minute is shown.
ShownOf(S) == CHOOSE i \in S : \A j \in S : j <= i

\* The chart: by minute, the row shown.
Shown ==
  [m \in {RowsRead[i].min : i \in 1 .. Len(RowsRead)} |->
     RowsRead[ShownOf({i \in 1 .. Len(RowsRead) : RowsRead[i].min = m})]]

-----------------------------------------------------------------------------
(* Specification *)

Done == Len(log) = MaxTicks /\ pos = Len(log) /\ pc = "wait" /\ UNCHANGED vars

Next ==
  \/ \E m \in Minutes : Tick(m)
  \/ ClockTick
  \/ Take \/ Push \/ Trim \/ Store \/ Current
  \/ StepFails \/ AutoCommit \/ Restart \/ Rebalance \/ RedisLoss
  \/ \E reset \in BOOLEAN : ReplayStart(reset)
  \/ ReplayFind \/ ReplayPush \/ ReplayTrim \/ ReplayCurrent
  \/ ReadList \/ ReadCurrent
  \/ Done

Spec == Init /\ [][Next]_vars

-----------------------------------------------------------------------------
(* Properties of a run without faults *)

\* The reference: a minute's candle is made of its ticks that were not too old
\* and that no tick of a later minute preceded.
Expected(m) ==
  {o \in fresh : log[o] = m /\ \A p \in fresh : p < o => log[p] <= m}

\* A stored candle is the whole of its minute, counts each tick once, and
\* closes at the last of them.
WholeCandles ==
  \A m \in StoredMinutes :
    /\ stored[m].body  = Expected(m)
    /\ stored[m].vol   = Cardinality(Expected(m))
    /\ stored[m].close = Newest(Expected(m))

\* A candle opens at the last tick of the stored minute before it.
OpensAtPreviousClose ==
  \A m, n \in StoredMinutes :
    m < n /\ (\A x \in StoredMinutes : x <= m \/ x >= n)
      => stored[n].open = Newest(stored[m].body)

\* What MongoDB holds are the candles of the reference, however late and out of
\* order the ticks came.
CandlesAreRight == TypeOK /\ WholeCandles /\ OpensAtPreviousClose

\* Nobody has replayed, and Redis has lost nothing.
Original == replay.at = "off" /\ "loss" \notin struck

\* Between two ticks the list is the end of what MongoDB holds, in order.
ListIsTailOfStore == pc = "wait" /\ Original => hist = LastRows(StoredRows)

\* A chart that skips a stored minute was read while a minute ended: the list
\* before, the current candle after.
ChartGapNeedsRollover ==
  view.at = "shown" /\ view.quiet /\ Original =>
    \A m \in StoredMinutes, x, y \in DOMAIN Shown :
      x < m /\ m < y => m \in DOMAIN Shown

\* What is read from Redis agrees with MongoDB: the list is its end, and a chart
\* has no gap but the one a rollover explains.
ReadersSeeTheCandles == ListIsTailOfStore /\ ChartGapNeedsRollover

-----------------------------------------------------------------------------
(* Properties under failing stores *)

\* A candle pushed again after a failure holds at least what it held before,
\* so that the last row of a minute, the one a chart shows, is the fullest.
RowsOnlyGrow ==
  "crash" \notin struck =>
    \A i, j \in 1 .. Len(hist) :
      i < j /\ hist[i].min = hist[j].min => hist[i].body \subseteq hist[j].body

\* The list is ahead of MongoDB: a stored candle still in the list is there
\* with at least the ticks MongoDB has, as long as the worker lives.
ListAheadOfStore ==
  "crash" \notin struck => \A m \in StoredMinutes :
    (\E i \in 1 .. Len(hist) : hist[i].min = m)
      => \E i \in 1 .. Len(hist) : hist[i].min = m /\ stored[m].body \subseteq hist[i].body

\* "Long-term storage, the basis of recovery": as long as the worker lives, a
\* candle once stored is never replaced by one with less in it, whatever calls
\* fail and whatever is delivered again.  (A restarted worker does that.)
StoredGrowsWhileUp ==
  [][\A m \in Minutes : stored[m] # NoCandle /\ "crash" \notin struck
       => stored'[m] # NoCandle /\ stored[m].body \subseteq stored'[m].body]_vars

\* After a restart ticks are delivered again, and still no candle counts the
\* volume of a tick twice: what was in memory is gone.  (After a rebalance it
\* is not, and a tick delivered again counts twice.)
CountedOnce ==
  "rebalance" \notin struck =>
    /\ \A m \in StoredMinutes : stored[m].vol = Cardinality(stored[m].body)
    /\ \A i \in 1 .. Len(hist) : hist[i].vol = Cardinality(hist[i].body)

\* What failing calls, a rebalance and a restart may not do to the candles.
FaultsInv == RowsOnlyGrow /\ ListAheadOfStore /\ CountedOnce

-----------------------------------------------------------------------------
(* Properties of the replay *)

\* A replay with a reset that the worker did not overlap leaves the end of what MongoDB
\* holds in the list, and its last candle as the current one.
QuietReplayRestores ==
  replay.at = "done" /\ replay.reset /\ replay.quiet /\ StoredRows # <<>> =>
    /\ hist = LastRows(StoredRows)
    /\ cur  = StoredRows[Len(StoredRows)]

=============================================================================
