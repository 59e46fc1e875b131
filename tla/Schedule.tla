------------------------------ MODULE Schedule ------------------------------
(***************************************************************************)
(* The scheduler of lib/schedule.js: the minute tick with its catch-up     *)
(* cursor and Nth counter, startup and activity triggers, trigger plugins  *)
(* and the launch queue, with the parts of lib/engine.js that keep the     *)
(* state the cursors live in, and the calls of lib/api/events.js that      *)
(* change the events.                                                      *)
(*                                                                         *)
(* One conductor leads; it stops, crashes and starts again.  Time is in    *)
(* minutes of SecondsPerMinute seconds; minute 0 stands for no cursor, as  *)
(* it does in JavaScript.  The calendar fields of a schedule trigger are   *)
(* the set of minutes they match.  The triggers of an event stay what they *)
(* are, but for catch-up; a cursor set by a user is a whole minute.        *)
(***************************************************************************)
EXTENDS Integers, Sequences, SequencesExt, FiniteSetsExt

CONSTANTS
  Events,
  Setup,             \* of each event: its triggers, apart from catch-up
  Editable,          \* the events users edit, delete and create again
  Cursors, Counters, \* what users set a cursor and an Nth counter to
  SecondsPerMinute,
  MaxMinute,         \* bound: the last minute
  MaxEdits,          \* bound: changes by users
  MaxFaults          \* bound: crashes and clean stops

Minutes == 1..MaxMinute
Activities == {"event_create", "event_update", "event_delete", "state_update"}
Trigger == [type : {"schedule"}, minutes : SUBSET Minutes]
     \cup [type : {"single"}, at : Minutes]
     \cup [type : {"interval"}, start : Nat, duration : Nat \ {0}]   \* seconds

ASSUME ScheduleAssumption ==
  /\ Editable \subseteq Events
  /\ Cursors \subseteq 0..MaxMinute /\ Counters \subseteq Nat
  /\ SecondsPerMinute \in Nat \ {0}
  /\ MaxMinute \in Nat \ {0} /\ {MaxEdits, MaxFaults} \subseteq Nat
  /\ IsFiniteSet(Events)
  /\ \A e \in Events :
       /\ Setup[e].triggers \in Seq(Trigger)
       /\ Setup[e].every \in Nat           \* 0: no Nth trigger
       /\ Setup[e].ranges \subseteq Minutes \X Minutes
       /\ Setup[e].blackouts \subseteq Minutes \X Minutes
       /\ Setup[e].precision \subseteq 0..(SecondsPerMinute - 1)
       /\ Setup[e].plugin \in BOOLEAN /\ Setup[e].startup \in BOOLEAN
       /\ Setup[e].activities \subseteq Activities

VARIABLES
  now,
  conductor,  \* "down", "up", or "shut": stopping
  startup,    \* is the check of the startup triggers still to come?
  listed, enabled, catchup,  \* the events there are; which are enabled, which catch up
  state,      \* the global state: scheduler/enabled and events/*
  saved,      \* what the storage holds of it
  queue,      \* launchQueue
  deferred,   \* what the trigger plugins are thinking about
  scheduled,  \* ghost: the minutes each event was scheduled for, up to where a user set its cursor
  replay,     \* ghost: those of them that may be scheduled once more
  kept,       \* ghost: has the cursor been in use since it was last set?
  since,      \* ghost: where it was set to; when, if to nothing
  unsaved,    \* ghost: the events whose cursor was set and not yet saved
  edits, faults

events == <<listed, enabled, catchup>>
ghosts == <<scheduled, replay, kept, since, unsaved>>
vars == <<now, conductor, startup, events, state, saved, queue, deferred, ghosts, edits, faults>>

\* base and skip are ghosts: the minute before the first the cursor stands for,
\* and the due minutes that the Nth counter lets pass before the first it picks.
State == [enabled : BOOLEAN, cursor : [Events -> 0..MaxMinute], nth : [Events -> Nat],
          base : [Events -> 0..MaxMinute], skip : [Events -> Nat]]
Job == [event : Events, trigger : Nat, minute : 0..MaxMinute,
        second : 0..(SecondsPerMinute - 1), source : {"scheduler", "plugin", "startup", "activity"}]

Master == conductor = "up"
JobsOf(wanted, source) ==
  LET es == SetToSeq(wanted)   \* in some order
  IN [i \in DOMAIN es |-> [event |-> es[i], trigger |-> 0, minute |-> now, second |-> 0,
                           source |-> source]]

-----------------------------------------------------------------------------
(* Which jobs one event gets in one minute. *)

CeilDiv(a, b) == (a + b - 1) \div b
FirstHit_After(t, epoch) == t.start + ((epoch - t.start) \div t.duration + 1) * t.duration
FirstHit(t, epoch) == t.start + CeilDiv(epoch - t.start, t.duration) * t.duration

IntervalHitsPerMinute(t, m) ==
  LET epoch == m * SecondsPerMinute
      first == FirstHit(t, epoch)
  IN IF t.start > epoch THEN {}
     ELSE {s \in 0..(SecondsPerMinute - 1) :
             epoch + s >= first /\ (epoch + s - first) % t.duration = 0}

Hit(t, m) == \/ t.type = "single" /\ t.at = m
             \/ t.type = "interval" /\ IntervalHitsPerMinute(t, m) # {}
             \/ t.type = "schedule" /\ m \in t.minutes
Chosen(e, m) == {i \in DOMAIN Setup[e].triggers : Hit(Setup[e].triggers[i], m)}

InRange(e, m) == \E r \in Setup[e].ranges : r[1] <= m /\ m <= r[2]
BlackedOut(e, m) == \E r \in Setup[e].blackouts : r[1] <= m /\ m <= r[2]
Due(e, m) == /\ Chosen(e, m) # {}
             /\ Setup[e].ranges = {} \/ InRange(e, m)
             /\ ~BlackedOut(e, m)

Cursor_Again(e) == IF e \in catchup /\ state.cursor[e] # 0 THEN state.cursor[e] - 1 ELSE now
Cursor(e) == IF e \in catchup /\ state.cursor[e] # 0 THEN state.cursor[e] ELSE now

(* The Nth counter as the cursor passes the minutes. *)
Counter_EveryMinute(e) ==
  LET c[m \in Nat] == IF m <= Cursor(e) THEN state.nth[e]
                      ELSE IF c[m - 1] <= 1 THEN Setup[e].every ELSE c[m - 1] - 1
  IN c
Counter(e) ==
  LET c[m \in Nat] == IF m <= Cursor(e) THEN state.nth[e]
                      ELSE IF ~Due(e, m) THEN c[m - 1]
                      ELSE IF c[m - 1] <= 1 THEN Setup[e].every ELSE c[m - 1] - 1
  IN c
Picked(e) == {m \in (Cursor(e) + 1)..(now + 1) :
                Due(e, m) /\ (Setup[e].every = 0 \/ Counter(e)[m - 1] <= 1)}

(* The offsets in the minute: those of the precision trigger, until the hits *)
(* of an interval take their place for the rest of the tick.               *)
Intervals(e, m) == {i \in DOMAIN Setup[e].triggers :
                      /\ Setup[e].triggers[i].type = "interval"
                      /\ IntervalHitsPerMinute(Setup[e].triggers[i], m) # {}}
Seconds(e) ==
  LET s[m \in Nat] == IF m <= Cursor(e) THEN Setup[e].precision
                      ELSE IF Intervals(e, m) = {} THEN s[m - 1]
                      ELSE IntervalHitsPerMinute(Setup[e].triggers[Max(Intervals(e, m))], m)
  IN s

Offsets(e, m) == IF Setup[e].plugin \/ Seconds(e)[m] = {} THEN {0} ELSE Seconds(e)[m]

(* For each minute the cursor passes, each trigger and each second, in this order. *)
JobAt(e, m, i, s) == [event |-> e, trigger |-> i, minute |-> m, second |-> s,
                      source |-> IF Setup[e].plugin THEN "plugin" ELSE "scheduler"]
JobsOfTrigger(e, m, i) ==
  FlattenSeq([k \in 1..SecondsPerMinute |->
                IF k - 1 \in Offsets(e, m) THEN <<JobAt(e, m, i, k - 1)>> ELSE <<>>])
JobsAt(e, m) ==
  FlattenSeq([i \in DOMAIN Setup[e].triggers |->
                IF i \in Chosen(e, m) THEN JobsOfTrigger(e, m, i) ELSE <<>>])
JobsOfEvent(e) ==
  FlattenSeq([m \in 1..(now + 1) |-> IF m \in Picked(e) THEN JobsAt(e, m) ELSE <<>>])
JobsOfEvents(wanted) ==
  LET es == SetToSeq(wanted)   \* in some order
  IN FlattenSeq([i \in DOMAIN es |-> JobsOfEvent(es[i])])

-----------------------------------------------------------------------------
(* The ticks. *)

Runs(e) == e \in listed /\ e \in enabled

(* schedulerMinuteTick as minute now + 1 begins: every cursor comes up to it. *)
Ticked(e) ==
  LET catching == Runs(e) /\ e \in catchup
  IN [cursor |-> IF catching /\ Cursor(e) <= now THEN now + 1 ELSE state.cursor[e],
      nth    |-> IF Runs(e) /\ Setup[e].every # 0 THEN Counter(e)[now + 1] ELSE state.nth[e],
      base   |-> IF catching /\ state.cursor[e] = 0 THEN now ELSE state.base[e]]
LeftBehind(e, m) == e \notin catchup /\ state.cursor[e] # 0 /\ m > state.cursor[e]
SchedulerMinuteTick ==
  LET running == {e \in Events : Runs(e)}
      asked == JobsOfEvents({e \in running : Setup[e].plugin})
      picked == [e \in Events |-> IF Runs(e) THEN Picked(e) ELSE {}]
  IN /\ state' = [state EXCEPT !.cursor = [e \in Events |-> Ticked(e).cursor],
                               !.nth    = [e \in Events |-> Ticked(e).nth],
                               !.base   = [e \in Events |-> Ticked(e).base]]
     /\ queue' = queue \o JobsOfEvents({e \in running : ~Setup[e].plugin})
     /\ deferred' = IF asked = <<>> THEN deferred ELSE deferred \cup {asked}
     /\ scheduled' = [e \in Events |-> scheduled[e] \cup picked[e]]
     /\ replay' = [e \in Events |->
                     (replay[e] \ picked[e]) \cup {m \in picked[e] : LeftBehind(e, m)}]

Minute ==
  /\ now < MaxMinute
  /\ now' = now + 1
  /\ IF Master /\ state.enabled THEN SchedulerMinuteTick
     ELSE UNCHANGED <<state, queue, deferred, scheduled, replay>>
  /\ UNCHANGED <<conductor, startup, events, saved, kept, since, unsaved, edits, faults>>

(* checkStartupTriggers, a moment after the conductor has begun to lead. *)
StartupCheck ==
  LET wanted == {e \in Events : Runs(e) /\ Setup[e].startup}
  IN /\ Master /\ startup
     /\ startup' = FALSE
     /\ queue' = IF state.enabled THEN queue \o JobsOf(wanted, "startup") ELSE queue
     /\ UNCHANGED <<now, conductor, events, state, saved, deferred, ghosts, edits, faults>>

(* execSchedulerPlugin: a plugin answers for each job of its batch, or fails. *)
PluginReturns ==
  /\ Master
  /\ \E batch \in deferred : \E yes \in SUBSET Range(batch) :
       /\ deferred' = deferred \ {batch}
       /\ queue' = queue \o FlattenSeq([i \in DOMAIN batch |->
                                  IF batch[i] \in yes /\ batch[i].event \in listed
                                  THEN <<batch[i]>> ELSE <<>>])
  /\ UNCHANGED <<now, conductor, startup, events, state, saved, ghosts, edits, faults>>

(* dequeueLaunch, one job at a time. *)
DequeueLaunch_Hangs ==
  /\ Master /\ queue # <<>> /\ Head(queue).event \in listed
  /\ queue' = Tail(queue)
  /\ UNCHANGED <<now, conductor, startup, events, state, saved, deferred, ghosts, edits, faults>>
DequeueLaunch ==
  /\ Master /\ queue # <<>>
  /\ queue' = Tail(queue)
  /\ UNCHANGED <<now, conductor, startup, events, state, saved, deferred, ghosts, edits, faults>>

(* The tick of every second writes the state if it is dirty. *)
SaveState ==
  /\ conductor # "down" /\ saved # state
  /\ saved' = state /\ unsaved' = {}
  /\ UNCHANGED <<now, conductor, startup, events, state, queue, deferred,
                 scheduled, replay, kept, since, edits, faults>>

-----------------------------------------------------------------------------
(* What users change.  Each call writes the storage before the memory; a   *)
(* crash in between is one after the call, a tick in between one before.   *)

Change == Master /\ edits < MaxEdits /\ edits' = edits + 1

(* checkActivityTriggers, of the events as the memory has them before the call. *)
CheckActivityTriggers(activity, on) ==
  LET wanted == {e \in Events : Runs(e) /\ activity \in Setup[e].activities}
  IN queue' = IF on THEN queue \o JobsOf(wanted, "activity") ELSE queue

(* putState, deleteState of the cursor and the counter of an event, which    *)
(* begin anew; unset is 0.                                                  *)
SetState(e, cursor, nth) ==
  LET past(minutes) == {m \in minutes : cursor = 0 \/ m <= cursor}
  IN /\ state' = [state EXCEPT !.cursor[e] = cursor, !.nth[e] = nth, !.base[e] = cursor,
                               !.skip[e] = IF nth <= 1 THEN 0 ELSE nth - 1]
     /\ scheduled' = [scheduled EXCEPT ![e] = past(@)]
     /\ replay' = [replay EXCEPT ![e] = past(@)]
     /\ kept' = [kept EXCEPT ![e] = e \in catchup']
     /\ since' = [since EXCEPT ![e] = IF cursor = 0 THEN now ELSE cursor]
     /\ unsaved' = unsaved \cup {e}
SetSome(e) ==
  \/ \E c \in Cursors : SetState(e, c, state.nth[e])
  \/ \E n \in Counters : SetState(e, state.cursor[e], n)

CreateEvent(e) ==
  /\ Change /\ e \notin listed
  /\ \E on \in BOOLEAN : catchup' = IF on THEN catchup \cup {e} ELSE catchup \ {e}
  /\ listed' = listed \cup {e} /\ enabled' = enabled \cup {e}
  /\ \E c \in Cursors \cup {0}, n \in Counters \cup {0} : SetState(e, c, n)
  /\ CheckActivityTriggers("event_create", state.enabled)
  /\ UNCHANGED <<now, conductor, startup, saved, deferred, faults>>

UpdateEvent(e) ==
  /\ Change /\ e \in listed
  /\ \/ enabled' = SymDiff(enabled, {e}) /\ UNCHANGED <<catchup, state, ghosts>>
     \/ /\ catchup' = SymDiff(catchup, {e}) /\ kept' = [kept EXCEPT ![e] = FALSE]
        /\ UNCHANGED <<enabled, state, scheduled, replay, since, unsaved>>
     \/ UNCHANGED <<enabled, catchup>> /\ SetSome(e)
  /\ CheckActivityTriggers("event_update", state.enabled)
  /\ UNCHANGED <<now, conductor, startup, listed, saved, deferred, faults>>

DeleteEvent(e) ==
  /\ Change /\ e \in listed
  /\ listed' = listed \ {e} /\ UNCHANGED <<enabled, catchup>>
  /\ SetState(e, 0, 0)
  /\ CheckActivityTriggers("event_delete", state.enabled)
  /\ UNCHANGED <<now, conductor, startup, saved, deferred, faults>>

(* api_update_global_state: the master switch of the scheduler, or the state *)
(* of any event, listed or not.                                            *)
UpdateGlobalState ==
  /\ Change
  /\ UNCHANGED events
  /\ \/ state' = [state EXCEPT !.enabled = ~@] /\ UNCHANGED ghosts
     \/ \E e \in Editable : SetSome(e)
  /\ CheckActivityTriggers("state_update", state'.enabled)
  /\ UNCHANGED <<now, conductor, startup, saved, deferred, faults>>

-----------------------------------------------------------------------------
(* Stopping and starting. *)

Fault == faults < MaxFaults /\ faults' = faults + 1

(* shutdown: the launch queue is dropped, the state is written at the end.  *)
Shutdown ==
  /\ Fault /\ Master
  /\ conductor' = "shut" /\ startup' = FALSE
  /\ queue' = <<>> /\ deferred' = {}
  /\ UNCHANGED <<now, events, state, saved, ghosts, edits>>

Exit ==
  /\ conductor = "shut"
  /\ conductor' = "down" /\ saved' = state /\ unsaved' = {}
  /\ UNCHANGED <<now, startup, events, state, queue, deferred,
                 scheduled, replay, kept, since, edits, faults>>

Crash ==
  /\ Fault /\ conductor # "down"
  /\ conductor' = "down" /\ startup' = FALSE
  /\ queue' = <<>> /\ deferred' = {} /\ state' = saved
  /\ replay' = [e \in Events |->
                  IF saved.cursor[e] = 0 THEN replay[e]
                  ELSE replay[e] \cup {m \in scheduled[e] : m > saved.cursor[e]}]
  /\ kept' = [e \in Events |-> kept[e] /\ e \notin unsaved]
  /\ UNCHANGED <<now, events, saved, scheduled, since, unsaved, edits>>

(* becomeMaster; the startup triggers are skipped if the process is not new *)
(* or was started again by a user.                                         *)
BecomeMaster ==
  /\ conductor = "down"
  /\ conductor' = "up" /\ startup' \in BOOLEAN
  /\ state' = saved
  /\ UNCHANGED <<now, events, saved, queue, deferred, ghosts, edits, faults>>

-----------------------------------------------------------------------------
Init ==
  /\ now = 1 /\ conductor = "up" /\ startup = TRUE
  /\ listed = Events /\ enabled = Events /\ catchup = Events
  /\ state = [enabled |-> TRUE, cursor |-> [e \in Events |-> 0], nth |-> [e \in Events |-> 0],
              base |-> [e \in Events |-> 0], skip |-> [e \in Events |-> 0]]
  /\ saved = state
  /\ queue = <<>> /\ deferred = {}
  /\ scheduled = [e \in Events |-> {}] /\ replay = [e \in Events |-> {}]
  /\ kept = [e \in Events |-> TRUE] /\ since = [e \in Events |-> 1] /\ unsaved = {}
  /\ edits = 0 /\ faults = 0

Next ==
  \/ Minute \/ StartupCheck \/ PluginReturns \/ DequeueLaunch \/ SaveState
  \/ UpdateGlobalState \/ Shutdown \/ Exit \/ Crash \/ BecomeMaster
  \/ \E e \in Editable : CreateEvent(e) \/ UpdateEvent(e) \/ DeleteEvent(e)

(* The queue works as long as there is work, a plugin is killed when its   *)
(* time is out, and a stopped conductor is started again.                  *)
Spec == Init /\ [][Next]_vars
FairSpec ==
  /\ Spec
  /\ WF_vars(DequeueLaunch) /\ WF_vars(PluginReturns) /\ WF_vars(Exit) /\ WF_vars(BecomeMaster)

-----------------------------------------------------------------------------
TypeOK ==
  /\ now \in Minutes /\ conductor \in {"down", "up", "shut"} /\ startup \in BOOLEAN
  /\ listed \subseteq Events /\ enabled \subseteq Events /\ catchup \subseteq Events
  /\ state \in State /\ saved \in State
  /\ queue \in Seq(Job) /\ \A b \in deferred : b \in Seq(Job)
  /\ scheduled \in [Events -> SUBSET Minutes] /\ replay \in [Events -> SUBSET Minutes]
  /\ \A e \in Events : replay[e] \subseteq scheduled[e]
  /\ kept \in [Events -> BOOLEAN] /\ since \in [Events -> Minutes] /\ unsaved \subseteq Events
  /\ edits \in 0..MaxEdits /\ faults \in 0..MaxFaults

(* Catch-up leaves nothing out and adds nothing, over stops, crashes, pauses *)
(* of the scheduler and of the event: from where a user last set it, or from *)
(* the first tick on, up to the cursor an event was scheduled for every Nth  *)
(* of the minutes it was due in, as its counter stood; what a crash has taken *)
(* back from the cursor is of the same minutes.  An event created under the  *)
(* name of a deleted one has a cursor of its own.  Excepted until the cursor *)
(* is set again: catch-up was switched, a crash came before the cursor that  *)
(* a user set was saved.  (Scheduled is not launched: a stop loses the queue.) *)
NthDue(e, from, skip) ==
  LET due == {m \in (from + 1)..MaxMinute : Due(e, m)}
      before(m) == Cardinality({k \in due : k < m})
  IN {m \in due : \/ Setup[e].every = 0
                  \/ before(m) >= skip /\ (before(m) - skip) % Setup[e].every = 0}
CatchUpExact ==
  \A e \in Events : kept[e] /\ state.cursor[e] # 0 =>
    LET base == state.base[e]
        due == NthDue(e, base, state.skip[e])
    IN /\ base >= since[e]
       /\ {m \in scheduled[e] : m > base} \subseteq due
       /\ {m \in due : m <= state.cursor[e]} \subseteq scheduled[e]

(* A minute is scheduled twice only if the crash of a conductor or a user   *)
(* took the cursor back to before it, or the cursor was left behind it while *)
(* catch-up was off.                                                       *)
NewJobs == {queue'[i] : i \in (Len(queue) + 1)..Len(queue')} \cup UNION {Range(b) : b \in deferred' \ deferred}
OncePerMinute ==
  [][now' # now =>
       \A j \in NewJobs : j.minute \in scheduled[j.event] => j.minute \in replay[j.event]]_vars

(* An interval hits every multiple of its duration from its start on: a tick *)
(* schedules an event with nothing else for exactly these seconds of each  *)
(* minute the cursor passes, the minutes it catches up too.  The hits of   *)
(* the minute in which the interval starts are left out, unless it starts  *)
(* with that minute (docs/triggers.md:144 promises all of them).           *)
OnlyInterval(e) ==
  /\ Len(Setup[e].triggers) = 1 /\ Setup[e].triggers[1].type = "interval"
  /\ Setup[e].every = 0 /\ Setup[e].ranges = {} /\ Setup[e].blackouts = {} /\ ~Setup[e].plugin
Beats(t, m) == {s \in 0..(SecondsPerMinute - 1) :
                  \E n \in 0..((m + 1) * SecondsPerMinute) :
                    t.start + n * t.duration = m * SecondsPerMinute + s}
SecondsOf(e, m) == {j.second : j \in {k \in NewJobs : k.event = e /\ k.minute = m}}
OnTheBeat ==
  [][now' # now /\ Master /\ state.enabled =>
       \A e \in {x \in Events : OnlyInterval(x) /\ Runs(x)} :
         LET t == Setup[e].triggers[1]
         IN \A m \in (Cursor(e) + 1)..now' :
              SecondsOf(e, m) = IF t.start > m * SecondsPerMinute THEN {} ELSE Beats(t, m)]_vars

(* Every job that is due is launched in the end, or dropped by a stop. *)
Drains == []<>(queue = <<>> /\ deferred = {})
=============================================================================
