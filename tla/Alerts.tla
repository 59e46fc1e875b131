------------------------------- MODULE Alerts -------------------------------
(***************************************************************************)
(* One alert on one server: the warm-up counter, the catalogue of active   *)
(* alerts and the invocations in the database, from lib/monitor.js and     *)
(* lib/api/alerts.js, over crashes and restarts of the conductor.          *)
(*                                                                         *)
(* Alerts are kept per alert and server, and no two meet but in the two    *)
(* calls that disable and delete an alert, which do the same to each.      *)
(* Ages are in minutes, up to 3: stale_alert_timeout (90 seconds) is past  *)
(* by then, and at 2 it may be.                                            *)
(***************************************************************************)
EXTENDS Integers, FiniteSets

CONSTANTS
  Invocations,  \* ids of invocations; an id is used again when nothing refers to it
  None,
  MaxSamples,   \* the most samples a user gives the alert
  MaxClears,    \* bound: clears of one invocation that wait at once
  MaxFaults     \* bound: crashes and restarts of the conductor

ASSUME AlertsAssumption ==
  /\ IsFiniteSet(Invocations) /\ None \notin Invocations
  /\ MaxSamples \in Nat \ {0} /\ MaxClears \in Nat /\ MaxFaults \in Nat

VARIABLES
  def,       \* the definition: "enabled", "disabled" or "deleted"
  samples,   \* of the alert
  member,    \* is the server in the alert's groups?
  online,    \* is the server connected?
  sent,      \* has it sent data in this minute? (last_time_code)
  warm,      \* warmAlerts: the counter
  active,    \* activeAlerts: the invocation, or None
  age,       \* minutes since its "modified"
  db,        \* the invocations the database holds as active
  writing,   \* the database action of the data being handled
  updates,   \* invocations other calls are setting inactive
  clearing,  \* per invocation: calls of clearActiveAlert that wait for the server's data
  purge,     \* is the deletion of all invocations under way?
  streak,    \* ghost: equal results in a row, positive or negative, of the evaluations
  cool,      \* ghost: negative results since the alert fired
  mixed,     \* ghost: were the samples changed since the counter began?
  erased,    \* ghost: the tracked invocation, if a user has deleted its record, or None
  astray,    \* ghost: invocations a restart brought back, that were set inactive before
             \* their insertion, or forgotten as another was cleared
  faults

definition == <<def, samples, member>>
tracked == <<warm, active, age>>
database == <<db, writing, updates, purge>>
counts == <<streak, cool, mixed>>
ghosts == <<counts, erased, astray>>
vars == <<definition, online, sent, tracked, database, clearing, ghosts, faults>>

Ages == 0..3
Warm == [count : 0..MaxSamples, notified : BOOLEAN, id : Invocations, age : Ages]
NoWarm == [count |-> 0, notified |-> FALSE, id |-> None, age |-> 0]
NoWrite == [op |-> "none", id |-> None]
Write == [op : {"insert", "update"}, id : Invocations]

Lesser(a, b) == IF a < b THEN a ELSE b
Greater(a, b) == IF a > b THEN a ELSE b
Waiting == {i \in Invocations : clearing[i] > 0}
Referred == {warm.id, active, writing.id} \cup Waiting \cup db \cup updates \cup astray
Free == Invocations \ Referred

-----------------------------------------------------------------------------
(* The data of a minute. *)

Applies == def = "enabled" /\ member

Counted_Drops(hit) ==
  IF hit /\ warm = NoWarm
  THEN {[count |-> 1, notified |-> FALSE, id |-> i, age |-> 0] : i \in Free}
  ELSE {[warm EXCEPT !.count = IF hit THEN Lesser(@ + 1, samples) ELSE 0]}
Counted_Uncapped(hit) ==
  IF hit /\ warm = NoWarm
  THEN {[count |-> 1, notified |-> FALSE, id |-> i, age |-> 0] : i \in Free}
  ELSE {[warm EXCEPT !.count = IF hit THEN Lesser(@ + 1, samples + 1) ELSE Greater(@ - 1, 0)]}
(* A first positive result makes a counter, a negative one without it nothing. *)
Counted(hit) ==
  IF hit /\ warm = NoWarm
  THEN {[count |-> 1, notified |-> FALSE, id |-> i, age |-> 0] : i \in Free}
  ELSE {[warm EXCEPT !.count = IF hit THEN Lesser(@ + 1, samples) ELSE Greater(@ - 1, 0)]}

Fires(w) ==
  /\ w.count = samples /\ ~w.notified
  /\ warm' = [w EXCEPT !.notified = TRUE, !.age = 0]
  /\ active' = w.id /\ age' = 0
  /\ writing' = [op |-> "insert", id |-> w.id]

Continues(w) ==
  /\ w.count > 0 /\ (w.count # samples \/ w.notified)
  /\ warm' = [w EXCEPT !.age = 0]
  /\ age' = 0
  /\ UNCHANGED <<active, writing>>

Closing_Silent(w) == NoWrite
Closing(w) == IF w.notified /\ active # None THEN [op |-> "update", id |-> active] ELSE NoWrite
Ends(w) ==
  /\ w.count = 0
  /\ warm' = NoWarm /\ active' = None /\ age' = 0
  /\ writing' = Closing(w)

StateChange(w) ==
  IF w = NoWarm \/ def = "deleted" THEN UNCHANGED <<tracked, writing>>
  ELSE Fires(w) \/ Continues(w) \/ Ends(w)

(* handleMonitoringData, under the lock of the server's record: the next    *)
(* data wait until the database has taken what these ask of it.            *)
Longer(hit) == IF hit THEN Lesser(Greater(streak, 0) + 1, samples)
               ELSE Greater(Lesser(streak, 0) - 1, -samples)
Negatives(hit) == IF active = None \/ active' \notin {active, None} THEN 0
                  ELSE IF hit THEN cool ELSE Lesser(cool + 1, MaxSamples)
HandleMonitoringData ==
  /\ online /\ ~sent /\ writing = NoWrite
  /\ sent' = TRUE
  /\ \/ /\ Applies
        /\ \E hit \in BOOLEAN :
             /\ \E w \in Counted(hit) : StateChange(w)
             /\ streak' = Longer(hit) /\ cool' = Negatives(hit)
     \/ /\ ~Applies
        /\ StateChange(warm)
        /\ UNCHANGED <<streak, cool>>
  /\ mixed' = (mixed /\ warm # NoWarm /\ warm' # NoWarm)
  /\ erased' = IF active' = active THEN erased ELSE None
  /\ UNCHANGED <<definition, online, db, updates, purge, clearing, astray, faults>>

-----------------------------------------------------------------------------
(* The database. *)

(* An update of a record that is not there does nothing. *)
WriteDone ==
  /\ writing # NoWrite
  /\ db' = IF writing.op = "insert" THEN db \cup {writing.id} ELSE db \ {writing.id}
  /\ writing' = NoWrite
  /\ UNCHANGED <<definition, online, sent, tracked, updates, purge, clearing, ghosts, faults>>

UpdateDone ==
  /\ \E i \in updates :
       /\ db' = db \ {i} /\ updates' = updates \ {i}
       /\ astray' = IF writing = [op |-> "insert", id |-> i] THEN astray \cup {i} ELSE astray
  /\ UNCHANGED <<definition, online, sent, tracked, writing, purge, clearing, counts, erased, faults>>

PurgeDone ==
  /\ purge /\ purge' = FALSE
  /\ db' = {}
  /\ UNCHANGED <<definition, online, sent, tracked, writing, updates, clearing, ghosts, faults>>

-----------------------------------------------------------------------------
(* cleanupGlobalAlerts, every minute: what no data kept fresh goes. *)

Older(a) == Lesser(a + 1, 3)
Stale_Never(a, late) == FALSE
Stale(a, late) == Older(a) = 3 \/ (Older(a) = 2 /\ late)

Untrack == active' = None /\ age' = 0 /\ cool' = 0 /\ erased' = None
Restarted == warm' = NoWarm /\ streak' = 0 /\ mixed' = FALSE
Minute ==
  /\ sent' = FALSE
  /\ \E late \in BOOLEAN :
       /\ IF active # None /\ Stale(age, late)
          THEN Untrack /\ updates' = updates \cup {active}
          ELSE /\ age' = IF active = None THEN 0 ELSE Older(age)
               /\ UNCHANGED <<active, updates, cool, erased>>
       /\ IF warm # NoWarm /\ Stale(warm.age, late) THEN Restarted
          ELSE /\ warm' = IF warm = NoWarm THEN NoWarm ELSE [warm EXCEPT !.age = Older(@)]
               /\ UNCHANGED <<streak, mixed>>
  /\ UNCHANGED <<definition, online, db, writing, purge, clearing, astray, faults>>

(* clearActiveAlert, for a job or as the alert is disabled: it needs the    *)
(* definition and the server, then waits for the server's record; others   *)
(* may come meanwhile, for the same invocation or for a later one.         *)
Clearable == active # None /\ def # "deleted" /\ online
Clear == /\ clearing[active] < MaxClears
         /\ clearing' = [clearing EXCEPT ![active] = @ + 1]
ClearActiveAlert ==
  /\ Clearable /\ Clear
  /\ UNCHANGED <<definition, online, sent, tracked, database, ghosts, faults>>

(* What is tracked when the record comes is forgotten, whatever it is.      *)
Forget == Untrack /\ Restarted
Cleared ==
  /\ \E i \in Waiting :
       /\ clearing' = [clearing EXCEPT ![i] = @ - 1]
       /\ updates' = updates \cup {i}
       /\ astray' = IF active \in {None, i} THEN astray ELSE astray \cup {active}
  /\ Forget
  /\ UNCHANGED <<definition, online, sent, db, writing, purge, faults>>

(* The record of the server cannot be read: nothing is cleared.             *)
ClearFailed ==
  /\ \E i \in Waiting : clearing' = [clearing EXCEPT ![i] = @ - 1]
  /\ UNCHANGED <<definition, online, sent, tracked, database, ghosts, faults>>

-----------------------------------------------------------------------------
(* What users change. *)

(* api_update_alert.  Of a disabled alert it clears what is active and     *)
(* leaves the counter as it is; new samples leave the counter alone too.   *)
UpdateAlert ==
  /\ def # "deleted" /\ def' \in {"enabled", "disabled"}
  /\ samples' \in 1..MaxSamples
  /\ IF samples' = samples THEN UNCHANGED <<streak, mixed>>
     ELSE streak' = 0 /\ mixed' = (warm # NoWarm)
  /\ IF def' = "disabled" /\ active # None /\ online THEN Clear ELSE UNCHANGED clearing
  /\ UNCHANGED <<member, online, sent, tracked, database, cool, erased, astray, faults>>

(* The entries in memory are looked up by another key, and stay. *)
DeleteAlert ==
  /\ def # "deleted" /\ def' = "deleted" /\ purge' = TRUE
  /\ UNCHANGED <<samples, member, online, sent, tracked, db, writing, updates, clearing, ghosts,
                 faults>>

(* A user deletes one invocation from the database: memory keeps it.        *)
DeleteInvocation ==
  /\ \E i \in db : /\ db' = db \ {i}
                  /\ erased' = IF i = active THEN i ELSE erased
  /\ UNCHANGED <<definition, online, sent, tracked, writing, updates, purge, clearing, counts,
                 astray, faults>>

(* The groups of the alert, or of the server.                               *)

ChangeGroups ==
  /\ member' = ~member
  /\ UNCHANGED <<def, samples, online, sent, tracked, database, clearing, ghosts, faults>>

-----------------------------------------------------------------------------
(* The server and the conductor. *)

Connect ==
  /\ ~online /\ online' = TRUE /\ sent' = FALSE
  /\ UNCHANGED <<definition, tracked, database, clearing, ghosts, faults>>
Disconnect ==
  /\ online /\ online' = FALSE
  /\ UNCHANGED <<definition, sent, tracked, database, clearing, ghosts, faults>>

Fault == faults < MaxFaults /\ faults' = faults + 1

(* setupMonitoring: the database's active invocations are tracked again, with *)
(* the date of their insertion; of several the last one counts.            *)
Resume(file, d) ==
  /\ db' = d
  /\ IF d = {} THEN active' = file ELSE active' \in d
  /\ age' \in IF active' = None THEN {0} ELSE age..3
  /\ astray' = astray \cup d \cup ({active', IF warm'.notified THEN warm'.id ELSE None} \ {None})
  /\ sent' = FALSE /\ clearing' = [i \in Invocations |-> 0] /\ streak' = 0
  /\ UNCHANGED <<definition, online, cool, mixed, erased>>

(* What the database was still to do is lost. *)
Crash ==
  /\ Fault
  /\ warm' = NoWarm /\ writing' = NoWrite /\ updates' = {} /\ purge' = FALSE
  /\ Resume(None, db)

(* A clean stop waits for the database; the recovery file has both tables. *)
Restart ==
  /\ Fault
  /\ writing = NoWrite /\ updates = {} /\ ~purge
  /\ \E a \in warm.age..3 : warm' = IF warm = NoWarm THEN NoWarm ELSE [warm EXCEPT !.age = a]
  /\ \E done \in SUBSET Waiting : Resume(active, db \ done)
  /\ UNCHANGED <<writing, updates, purge>>

-----------------------------------------------------------------------------
Init ==
  /\ def = "enabled" /\ samples \in 1..MaxSamples /\ member = TRUE /\ online = TRUE /\ sent = FALSE
  /\ warm = NoWarm /\ active = None /\ age = 0
  /\ db = {} /\ writing = NoWrite /\ updates = {} /\ purge = FALSE
  /\ clearing = [i \in Invocations |-> 0]
  /\ streak = 0 /\ cool = 0 /\ mixed = FALSE /\ erased = None /\ astray = {} /\ faults = 0

Next ==
  \/ HandleMonitoringData \/ WriteDone \/ UpdateDone \/ PurgeDone
  \/ Minute \/ ClearActiveAlert \/ Cleared \/ ClearFailed
  \/ UpdateAlert \/ DeleteAlert \/ DeleteInvocation \/ ChangeGroups
  \/ Connect \/ Disconnect \/ Crash \/ Restart

Spec == Init /\ [][Next]_vars

(* Time goes on, the database and the storage answer. *)
Fairness == /\ WF_vars(Minute) /\ WF_vars(Cleared \/ ClearFailed)
            /\ WF_vars(WriteDone) /\ WF_vars(UpdateDone) /\ WF_vars(PurgeDone)
FairSpec == Spec /\ Fairness

-----------------------------------------------------------------------------
TypeOK ==
  /\ def \in {"enabled", "disabled", "deleted"} /\ samples \in 1..MaxSamples
  /\ member \in BOOLEAN /\ online \in BOOLEAN /\ sent \in BOOLEAN /\ purge \in BOOLEAN
  /\ warm \in Warm \cup {NoWarm} /\ age \in Ages
  /\ active \in Invocations \cup {None} /\ clearing \in [Invocations -> Nat]
  /\ db \subseteq Invocations /\ updates \subseteq Invocations /\ astray \subseteq Invocations
  /\ writing \in Write \cup {NoWrite}
  /\ streak \in -samples..samples /\ cool \in 0..MaxSamples /\ mixed \in BOOLEAN
  /\ erased \in Invocations \cup {None} /\ faults \in 0..MaxFaults

(* Every invocation that the database holds as active is the one tracked in *)
(* memory, or is being set inactive; and the tracked one is in the database, *)
(* until the alert, or the record by itself, is deleted.  Those astray are *)
(* excepted.                                                               *)
MemoryAndDatabase ==
  /\ db \subseteq {active, writing.id} \cup updates \cup astray
  /\ active # None /\ def # "deleted" =>
       \/ active \in db \cup astray \cup {erased}
       \/ writing = [op |-> "insert", id |-> active]

(* As many equal results in a row as there are samples decide: the alert is *)
(* active after so many positive ones, and not after so many negative ones, *)
(* whatever came before; but for what a restart has brought back, and, for *)
(* the negative ones, for a counter that began under other samples.  (Fewer *)
(* in a row may decide too: a miss takes one from the counter and does not  *)
(* reset it, although docs/alerts.md:105 says "Consecutive minutes".)       *)
SamplesDecide ==
  /\ streak = samples =>
       /\ warm.notified
       /\ active = warm.id \/ warm.id \in astray
  /\ streak = -samples /\ ~mixed =>
       /\ warm = NoWarm
       /\ active = None \/ active \in astray

(* Data do not clear an alert before they were negative as often as there   *)
(* are samples since it fired, though perhaps not in a row, unless the     *)
(* samples were changed meanwhile: it does not flap.                       *)
CooledDown ==
  [][sent' # sent /\ sent' /\ active # None /\ active' # active
       => cool' >= samples \/ mixed \/ active \in astray]_vars

(* The alert of a server that is gone is closed, in memory and in the      *)
(* database, whatever was under way.                                       *)
GoneCleared ==
  <>[](~online) => <>[](active = None /\ warm = NoWarm /\ db \subseteq astray)

(* monitor.js: a restart shall "recover / resume tracking all active alerts". *)
Resumed == streak = samples => active # None
=============================================================================
