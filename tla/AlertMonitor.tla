---------------------------- MODULE AlertMonitor ----------------------------
(***************************************************************************)
(* The market monitor of each replica of the backend: a loop that looks at *)
(* the prices, raises an alert unless one of its kind is on cooldown, and  *)
(* writes the alerts and the cooldowns to Redis by two calls.  The         *)
(* replicas have lists of their own and share the two keys.                *)
(*                                                                         *)
(* Prices are left out: a check wants an alert or does not.  One kind of   *)
(* alert, as kinds do not touch each other except in the length of the     *)
(* list.  That alerts were read is left out: it stays in the memory of the *)
(* replica that was told.  Time counts half cooldowns (five minutes).      *)
(***************************************************************************)
EXTENDS Integers, Sequences, FiniteSets, SequencesExt

CONSTANTS
  Replicas,
  MaxAlerts,   \* the list is cut to so many (100 in the code)
  MaxClock,    \* bound on time
  MonitorFaults  \* those of {"redis", "crash"} that happen

ASSUME MonitorAssumption ==
  MaxAlerts \in Nat \ {0} /\ MaxClock \in Nat /\ MonitorFaults \subseteq {"redis", "crash"}

VARIABLES
  clock,
  monitor,  \* per replica: its step, the times of its alerts, the cooldown, dirty
  shared,   \* Redis: the two keys
  torn,     \* history: per replica, the lists it started with did not fit
  wrote     \* history: whose writes were the last, if both came through

alertVars == <<clock, monitor, shared, torn, wrote>>

Cooldown == 2
Never    == -Cooldown   \* no cooldown: as long ago as makes no difference

MonitorTypeOK ==
  /\ clock \in 0 .. MaxClock
  /\ shared.notes \in Seq(0 .. MaxClock) /\ shared.cool \in {Never} \cup 0 .. MaxClock
  /\ torn \in [Replicas -> BOOLEAN] /\ wrote \in SUBSET Replicas /\ Cardinality(wrote) <= 1
  /\ \A r \in Replicas :
       /\ monitor[r].at \in {"down", "load cool", "sleep", "save notes", "save cool"}
       /\ monitor[r].notes \in Seq(0 .. MaxClock) /\ Len(monitor[r].notes) <= MaxAlerts
       /\ monitor[r].cool \in {Never} \cup 0 .. MaxClock
       /\ monitor[r].dirty \in BOOLEAN

Started == [at |-> "down", notes |-> <<>>, cool |-> Never, dirty |-> FALSE]

MonitorInit ==
  /\ clock = 0
  /\ monitor = [r \in Replicas |-> Started]
  /\ shared = [notes |-> <<>>, cool |-> Never]
  /\ torn = [r \in Replicas |-> FALSE] /\ wrote = {}

-----------------------------------------------------------------------------
(* start_monitoring: _load_state, and then the loop *)

LoadsNotes(r) ==
  /\ monitor[r].at = "down"
  /\ \E notes \in {shared.notes} \cup (IF "redis" \in MonitorFaults THEN {<<>>} ELSE {}) :
       monitor' = [monitor EXCEPT ![r].at = "load cool", ![r].notes = notes]
  /\ UNCHANGED <<clock, shared, torn, wrote>>

\* Alerts a cooldown apart, and the cooldown of the newest.
Fits(notes, cool) ==
  /\ \A i \in DOMAIN notes : clock - notes[i] < Cooldown => cool >= notes[i]
  /\ \A i \in 1 .. Len(notes) - 1 : notes[i] - notes[i + 1] >= Cooldown

\* Variant with a bug: the cooldowns are not restored.
LoadedCoolNot(cool) == Never

LoadedCool(cool) == cool

LoadsCool(r) ==
  /\ monitor[r].at = "load cool"
  /\ \E cool \in {shared.cool} \cup (IF "redis" \in MonitorFaults THEN {Never} ELSE {}) :
       /\ monitor' = [monitor EXCEPT ![r].at = "sleep", ![r].cool = LoadedCool(cool)]
       /\ torn' = [torn EXCEPT ![r] = ~Fits(monitor[r].notes, cool)]
  /\ UNCHANGED <<clock, shared, wrote>>

Cut(notes) == SubSeq(notes, 1, IF Len(notes) > MaxAlerts THEN MaxAlerts ELSE Len(notes))

\* _create_notification: newest first, the oldest dropped.
AfterNote(m) ==
  [m EXCEPT !.notes = Cut(<<clock>> \o @), !.cool = clock, !.dirty = TRUE]

\* _check_price_drops wants an alert, and none was raised less than a cooldown
\* ago; what is dirty is written in the same turn.
Checks(r) ==
  /\ monitor[r].at = "sleep"
  /\ clock - monitor[r].cool >= Cooldown
  /\ monitor' = [monitor EXCEPT ![r] = [AfterNote(@) EXCEPT
                   !.at = IF AfterNote(monitor[r]).dirty THEN "save notes" ELSE "sleep"]]
  /\ UNCHANGED <<clock, shared, torn, wrote>>

\* cache_set swallows a failure, and the second call follows whatever became of
\* the first; then the state counts as written.
SavesNotes(r) ==
  /\ monitor[r].at = "save notes"
  /\ \/ shared' = [shared EXCEPT !.notes = monitor[r].notes] /\ wrote' = {r}
     \/ "redis" \in MonitorFaults /\ UNCHANGED shared /\ wrote' = {}
  /\ monitor' = [monitor EXCEPT ![r].at = "save cool"]
  /\ UNCHANGED <<clock, torn>>

SavesCool(r) ==
  /\ monitor[r].at = "save cool"
  /\ \/ shared' = [shared EXCEPT !.cool = monitor[r].cool] /\ wrote' = wrote \cap {r}
     \/ "redis" \in MonitorFaults /\ UNCHANGED shared /\ wrote' = {}
  /\ monitor' = [monitor EXCEPT ![r].at = "sleep", ![r].dirty = FALSE]
  /\ UNCHANGED <<clock, torn>>

MonitorDies(r) ==
  /\ "crash" \in MonitorFaults /\ monitor[r].at # "down"
  /\ monitor' = [monitor EXCEPT ![r] = Started]
  /\ torn' = [torn EXCEPT ![r] = FALSE] /\ wrote' = wrote \ {r}
  /\ UNCHANGED <<clock, shared>>

TimeGoesOn ==
  /\ clock < MaxClock /\ clock' = clock + 1
  /\ UNCHANGED <<monitor, shared, torn, wrote>>

AlertNext ==
  \/ TimeGoesOn
  \/ \E r \in Replicas :
       \/ LoadsNotes(r) \/ LoadsCool(r) \/ Checks(r) \/ SavesNotes(r) \/ SavesCool(r)
       \/ MonitorDies(r)

AlertSpec == MonitorInit /\ [][AlertNext]_alertVars

-----------------------------------------------------------------------------
(* Properties *)

\* A replica shows no two alerts of a kind within a cooldown, restarts included,
\* as long as what it started with did so: a replica that dies between its two
\* writes, a write that fails, and two replicas that write at once break that.
AlertsAreApart ==
  \A r \in Replicas : monitor[r].at \notin {"down", "load cool"} /\ ~torn[r]
                        => Fits(monitor[r].notes, monitor[r].cool)

\* A replica that was the last to write, and whose writes both came through, has
\* in Redis all it shows: a restart loses none of it.
RaisedIsWritten ==
  \A r \in wrote : monitor[r].at = "sleep" =>
    shared.notes = monitor[r].notes /\ shared.cool = monitor[r].cool

\* Replicas that share two keys and die between writing them: what each shows
\* keeps the cooldown, and what the last wrote is all there.
MonitorInv == MonitorTypeOK /\ AlertsAreApart /\ RaisedIsWritten

=============================================================================
