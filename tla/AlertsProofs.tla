---------------------------- MODULE AlertsProofs ----------------------------
(* Theorems about Alerts, for every value of its constants. *)
EXTENDS Alerts, TLAPS

(* The counter decides, and knows what data have come. *)
CounterOK ==
  /\ warm.count = 0 => warm = NoWarm
  /\ ~mixed => warm.count <= samples /\ (warm.count = samples => warm.notified)
  /\ streak > 0 => warm.count \in streak..samples /\ (warm.count = samples => warm.notified)
  /\ streak < 0 /\ ~mixed => warm.count <= samples + streak

(* A tracked alert has the counter it fired with, of the same age, unless a *)
(* restart brought it back.                                                 *)
ActiveOK ==
  /\ active # None =>
       \/ active \in astray
       \/ /\ warm.notified /\ warm.id = active /\ warm.age = age
          /\ mixed \/ warm.count + cool >= samples
  /\ active \in updates => active \in astray

(* The counter of an alert that has fired names what is tracked, any other  *)
(* an id that nothing refers to.                                            *)
CounterIdOK ==
  /\ warm.notified => active = warm.id \/ warm.id \in astray
  /\ warm # NoWarm /\ ~warm.notified =>
       warm.id \notin db \cup updates \cup astray \cup Waiting \cup {active, writing.id}

(* What the data ask of the database fits what is tracked meanwhile. *)
WritingOK ==
  /\ writing.op = "insert" => writing.id \in {active} \cup updates \cup astray
  /\ writing.op = "update" => active = None
  /\ purge => def = "deleted"

Inv == TypeOK /\ CounterOK /\ ActiveOK /\ CounterIdOK /\ WritingOK /\ MemoryAndDatabase

(* The fields of a counter, and of none. *)
LEMMA WarmFields ==
  ASSUME NEW w \in Warm
  PROVE  /\ w # NoWarm /\ w.count \in 0..MaxSamples /\ w.notified \in BOOLEAN
         /\ w.id \in Invocations /\ w.id # None /\ w.age \in Ages
<1>1. w.count \in 0..MaxSamples /\ w.notified \in BOOLEAN /\ w.id \in Invocations /\ w.age \in Ages
    BY DEF Warm
<1>2. w.id # None BY <1>1, AlertsAssumption
<1>3. w # NoWarm BY <1>2 DEF NoWarm
<1>. QED BY <1>1, <1>2, <1>3

LEMMA NoWarmFields ==
  NoWarm.count = 0 /\ NoWarm.notified = FALSE /\ NoWarm.id = None /\ NoWarm.age = 0
BY DEF NoWarm

(* The runs of equal results an alert with n samples counts.                *)
LEMMA Streaks ==
  ASSUME NEW n \in Nat
  PROVE  0 \in -n..n /\ \A k \in -n..n : k \in Int /\ 0 <= n + k
OBVIOUS

LEMMA InitInv == Init => Inv
<1>. SUFFICES ASSUME Init PROVE Inv OBVIOUS
<1>. USE AlertsAssumption DEF Init
<1>1. TypeOK
  <2>1. streak \in -samples..samples /\ cool \in 0..MaxSamples /\ faults \in 0..MaxFaults OBVIOUS
  <2>2. def \in {"enabled", "disabled", "deleted"} /\ age \in Ages BY DEF Ages
  <2>3. /\ member \in BOOLEAN /\ online \in BOOLEAN /\ sent \in BOOLEAN /\ purge \in BOOLEAN
        /\ warm \in Warm \cup {NoWarm} /\ writing \in Write \cup {NoWrite}
        /\ active \in Invocations \cup {None} /\ erased \in Invocations \cup {None}
        /\ db \subseteq Invocations /\ updates \subseteq Invocations /\ astray \subseteq Invocations
        /\ samples \in 1..MaxSamples /\ mixed \in BOOLEAN /\ clearing \in [Invocations -> Nat]
    OBVIOUS
  <2>. QED BY <2>1, <2>2, <2>3 DEF TypeOK
<1>2. CounterOK
  <2>1. 0 # samples /\ 0 <= samples OBVIOUS
  <2>. QED BY <2>1 DEF CounterOK, NoWarm
<1>3. ActiveOK /\ WritingOK BY DEF ActiveOK, WritingOK, NoWrite
<1>4. CounterIdOK BY DEF CounterIdOK, NoWarm
<1>5. MemoryAndDatabase BY DEF MemoryAndDatabase
<1>. QED BY <1>1, <1>2, <1>3, <1>4, <1>5 DEF Inv

-----------------------------------------------------------------------------
(* What the result of one minute makes of the counter. *)
Successor(w) ==
  /\ w \in Warm \cup {NoWarm} /\ w.notified = warm.notified
  /\ warm # NoWarm => w.id = warm.id /\ w.age = warm.age
  /\ warm = NoWarm => w = NoWarm \/ w.id \in Free

LEMMA CountedIsSuccessor ==
  ASSUME TypeOK, NEW hit \in BOOLEAN, NEW w \in Counted(hit)
  PROVE  /\ Successor(w)
         /\ w.count = IF hit THEN Lesser(warm.count + 1, samples)
                      ELSE Greater(warm.count - 1, 0)
<1>. USE AlertsAssumption
<1>1. CASE hit /\ warm = NoWarm
  <2>1. PICK i \in Free : w = [count |-> 1, notified |-> FALSE, id |-> i, age |-> 0]
    BY <1>1 DEF Counted
  <2>2. i \in Invocations BY DEF Free
  <2>. QED BY <1>1, <2>1, <2>2 DEF TypeOK, Successor, Warm, NoWarm, Lesser, Ages
<1>2. CASE ~(hit /\ warm = NoWarm)
  <2>. DEFINE n == IF hit THEN Lesser(warm.count + 1, samples) ELSE Greater(warm.count - 1, 0)
  <2>1. w = [warm EXCEPT !.count = n] BY <1>2 DEF Counted
  <2>2. CASE warm = NoWarm
    <3>1. n = 0 BY <1>2, <2>2 DEF NoWarm, Greater
    <3>. QED BY <2>1, <2>2, <3>1 DEF Successor, NoWarm
  <2>3. CASE warm # NoWarm
    <3>1. warm \in Warm BY <2>3 DEF TypeOK
    <3>2. n \in 0..MaxSamples BY <3>1 DEF TypeOK, Warm, Lesser, Greater
    <3>. HIDE DEF n
    <3>3. w \in Warm /\ w.notified = warm.notified /\ w.id = warm.id /\ w.age = warm.age
          /\ w.count = n
      BY <2>1, <3>1, <3>2 DEF Warm
    <3>. QED BY <2>3, <3>3 DEF Successor, n
  <2>. QED BY <2>2, <2>3
<1>. QED BY <1>1, <1>2

(* handleMonitoringData changes what is tracked as the counter says. *)
LEMMA ChangeTypes ==
  ASSUME TypeOK, NEW w, Successor(w), StateChange(w), writing = NoWrite
  PROVE  /\ warm' \in Warm \cup {NoWarm} /\ age' \in Ages
         /\ active' \in Invocations \cup {None} /\ writing' \in Write \cup {NoWrite}
<1>. USE AlertsAssumption DEF TypeOK, Successor
<1>1. CASE UNCHANGED <<tracked, writing>> BY <1>1 DEF tracked
<1>2. CASE w # NoWarm /\ Fires(w)
  <2>1. w \in Warm /\ w.id \in Invocations BY <1>2, WarmFields
  <2>2. warm' = [w EXCEPT !.notified = TRUE, !.age = 0] BY <1>2 DEF Fires
  <2>3. 0 \in Ages BY DEF Ages
  <2>4. warm' \in Warm
    <3>. HIDE DEF TypeOK, Successor
    <3>. QED BY <2>1, <2>2, <2>3 DEF Warm
  <2>5. active' \in Invocations /\ age' \in Ages BY <1>2, <2>1, <2>3 DEF Fires
  <2>6. writing' \in Write BY <1>2, <2>1 DEF Fires, Write
  <2>. QED BY <2>4, <2>5, <2>6
<1>3. CASE w # NoWarm /\ Continues(w)
  <2>1. w \in Warm BY <1>3
  <2>2. warm' \in Warm BY <1>3, <2>1 DEF Continues, Warm, Ages
  <2>. QED BY <1>3, <2>2 DEF Continues, Ages
<1>4. CASE w # NoWarm /\ Ends(w)
  BY <1>4 DEF Ends, Closing, Write, Ages
<1>. QED BY <1>1, <1>2, <1>3, <1>4 DEF StateChange

LEMMA ChangeKeeps ==
  ASSUME Inv, NEW w, Successor(w), StateChange(w), writing = NoWrite, cool' \in 0..MaxSamples,
         UNCHANGED <<def, samples, db, updates, purge, clearing, astray>>,
         def = "deleted" => w = warm,
         active # None => active \in astray \/ mixed \/ w.count + cool' >= samples,
         mixed' = (mixed /\ warm # NoWarm /\ warm' # NoWarm),
         erased' = IF active' = active THEN erased ELSE None
  PROVE  ActiveOK' /\ CounterIdOK' /\ WritingOK' /\ MemoryAndDatabase'
<1>. USE AlertsAssumption DEF NoWrite
<1>1. /\ warm \in Warm \cup {NoWarm} /\ w \in Warm \cup {NoWarm} /\ w.notified = warm.notified
      /\ db \subseteq Invocations /\ updates \subseteq Invocations
  BY DEF Inv, TypeOK, Successor
<1>2. warm # NoWarm => w.id = warm.id /\ w.id \in Invocations
  BY <1>1 DEF Successor, Warm
<1>3. warm = NoWarm => w = NoWarm \/ (w.id \in Free /\ ~w.notified)
  BY <1>1 DEF Successor, NoWarm
<1>4. w # NoWarm => w \in Warm /\ w.id \in Invocations /\ w.id # None
  BY <1>1 DEF Warm
<1>5. w # NoWarm /\ ~w.notified =>
        w.id \notin db \cup updates \cup astray \cup Waiting \cup {active, writing.id}
  BY <1>1, <1>2, <1>3, <1>4 DEF Inv, CounterIdOK, Free, Referred
<1>6. active = None \/ active \in astray \/ (warm.notified /\ w.id = active)
  <2>1. warm.notified => warm # NoWarm BY DEF NoWarm
  <2>. QED BY <1>2, <2>1 DEF Inv, ActiveOK
<1>11. Waiting' = Waiting BY DEF Waiting
<1>7. CASE UNCHANGED <<tracked, writing>> /\ (w = NoWarm \/ def = "deleted")
  <2>1. w = warm
    <3>1. warm # NoWarm => w # NoWarm BY <1>2, <1>1, NoWarmFields, WarmFields
    <3>. QED BY <1>7, <3>1
  <2>2. /\ UNCHANGED <<warm, active, age, writing>> /\ erased' = erased
    BY <1>7 DEF tracked
  <2>3. active # None => active \in astray \/ (warm.notified /\ warm # NoWarm)
    BY NoWarmFields DEF Inv, ActiveOK
  <2>4. ActiveOK' BY <2>1, <2>2, <2>3 DEF Inv, ActiveOK
  <2>5. CounterIdOK' BY <1>11, <2>2 DEF Inv, CounterIdOK
  <2>6. WritingOK' BY <2>2 DEF Inv, WritingOK
  <2>7. MemoryAndDatabase' BY <2>2 DEF Inv, MemoryAndDatabase
  <2>. QED BY <2>4, <2>5, <2>6, <2>7
<1>8. CASE w # NoWarm /\ Fires(w)
  <2>1. /\ warm'.notified /\ warm'.id = w.id /\ warm'.age = 0 /\ warm'.count = samples
        /\ active' = w.id /\ age' = 0 /\ writing' = [op |-> "insert", id |-> w.id]
        /\ ~w.notified
    BY <1>4, <1>8 DEF Fires, Warm
  <2>2. active = None \/ active \in astray BY <1>1, <1>6, <2>1
  <2>3. ActiveOK'
    <3>1. active' \notin updates BY <1>5, <2>1, <1>8
    <3>2. samples \in Nat /\ cool' \in Nat BY DEF Inv, TypeOK
    <3>3. \A m, n \in Nat : m + n >= m OBVIOUS
    <3>4. warm'.count + cool' >= samples BY <2>1, <3>2, <3>3
    <3>. QED BY <2>1, <3>1, <3>4 DEF ActiveOK
  <2>4. CounterIdOK' /\ WritingOK' BY <2>1 DEF Inv, CounterIdOK, WritingOK
  <2>5. MemoryAndDatabase'
    <3>1. db \subseteq {active} \cup updates \cup astray \/ db \subseteq {active, None} \cup updates \cup astray
      BY DEF Inv, MemoryAndDatabase
    <3>. QED BY <1>1, <2>1, <2>2, <3>1 DEF MemoryAndDatabase
  <2>. QED BY <2>3, <2>4, <2>5
<1>9. CASE w # NoWarm /\ Continues(w)
  <2>1. /\ warm'.notified = w.notified /\ warm'.id = w.id /\ warm'.age = 0
        /\ warm'.count = w.count /\ age' = 0 /\ UNCHANGED <<active, writing>>
    BY <1>4, <1>9 DEF Continues, Warm
  <2>3. w.notified => warm # NoWarm BY <1>1, NoWarmFields
  <2>6. warm' # NoWarm
    <3>1. w \in Warm BY <1>4, <1>9
    <3>2. warm'.id # None BY <2>1, <3>1, WarmFields
    <3>. QED BY <3>2, NoWarmFields
  <2>2. ActiveOK' BY <1>1, <1>6, <2>1, <2>3, <2>6 DEF Inv, ActiveOK
  <2>4. CounterIdOK' BY <1>1, <1>2, <1>5, <1>11, <2>1, <2>3, <1>9 DEF Inv, CounterIdOK
  <2>5. WritingOK' /\ MemoryAndDatabase' BY <2>1 DEF Inv, WritingOK, MemoryAndDatabase
  <2>. QED BY <2>2, <2>4, <2>5
<1>10. CASE w # NoWarm /\ Ends(w)
  <2>1. warm' = NoWarm /\ active' = None /\ writing' = Closing(w) BY <1>10 DEF Ends
  <2>2. ActiveOK' BY <1>1, <2>1 DEF ActiveOK
  <2>3. CounterIdOK' BY <2>1 DEF CounterIdOK, NoWarm
  <2>4. WritingOK' BY <2>1 DEF Inv, WritingOK, Closing
  <2>5. active # None => active \in astray \/ writing'.id = active
    BY <1>1, <1>6, <2>1 DEF Closing
  <2>6. MemoryAndDatabase'
    <3>1. db \subseteq {active, None} \cup updates \cup astray BY DEF Inv, MemoryAndDatabase
    <3>. QED BY <1>1, <2>1, <2>5, <3>1 DEF MemoryAndDatabase
  <2>. QED BY <2>2, <2>3, <2>4, <2>6
<1>. QED BY <1>7, <1>8, <1>9, <1>10 DEF StateChange

(* The counter after the data of a minute, for a new result or none. *)
LEMMA ChangeCounter ==
  ASSUME TypeOK, CounterOK, NEW w, Successor(w), StateChange(w),
         def = "deleted" => w = warm /\ streak' = streak,
         UNCHANGED samples, mixed' = (mixed /\ warm # NoWarm /\ warm' # NoWarm),
         streak' \in -samples..samples,
         ~mixed \/ warm = NoWarm => w.count <= samples,
         streak' > 0 => w.count \in streak'..samples,
         streak' < 0 /\ (~mixed \/ warm = NoWarm) => w.count <= samples + streak'
  PROVE  CounterOK'
<1>. USE AlertsAssumption
<1>1. /\ warm \in Warm \cup {NoWarm} /\ w \in Warm \cup {NoWarm}
      /\ samples \in Nat /\ samples > 0 /\ mixed \in BOOLEAN /\ streak \in Int /\ streak' \in Int
  BY DEF TypeOK, Successor
<1>5. streak' < 0 => 0 <= samples + streak'
  <2>1. samples \in Nat /\ streak' \in -samples..samples BY <1>1
  <2>. QED BY <2>1, Streaks
<1>2. CASE UNCHANGED <<tracked, writing>> /\ (w = NoWarm \/ def = "deleted")
  <2>1. w = warm
    <3>1. warm # NoWarm => w # NoWarm BY <1>1 DEF Successor, Warm, NoWarm
    <3>. QED BY <1>2, <3>1
  <2>2. UNCHANGED warm BY <1>2 DEF tracked
  <2>3. CASE warm = NoWarm
    <3>1. warm'.count = 0 BY <2>2, <2>3, NoWarmFields
    <3>2. streak' > 0 => FALSE BY <1>1, <2>1, <2>3, NoWarmFields
    <3>. QED BY <1>1, <1>5, <2>2, <2>3, <3>1, <3>2 DEF CounterOK
  <2>4. CASE warm # NoWarm
    <3>1. streak' = streak /\ mixed' = mixed BY <1>1, <1>2, <2>1, <2>2, <2>4
    <3>. QED BY <2>2, <3>1 DEF CounterOK
  <2>. QED BY <2>3, <2>4
<1>3. CASE w # NoWarm /\ (Fires(w) \/ Continues(w))
  <2>1. w \in Warm /\ w.count \in 0..MaxSamples BY <1>1, <1>3, WarmFields
  <2>2. warm'.count = w.count /\ (w.count = samples => warm'.notified) /\ w.count > 0
    <3>1. CASE Fires(w) BY <1>1, <2>1, <3>1 DEF Fires, Warm
    <3>2. CASE Continues(w) BY <1>1, <2>1, <3>2 DEF Continues, Warm
    <3>. QED BY <1>3, <3>1, <3>2
  <2>3. ~mixed' => ~mixed \/ warm = NoWarm
    <3>1. warm' # NoWarm BY <2>1, <2>2, NoWarmFields
    <3>. QED BY <3>1
  <2>. QED BY <1>1, <2>1, <2>2, <2>3 DEF CounterOK
<1>4. CASE w # NoWarm /\ Ends(w)
  <2>1. warm' = NoWarm /\ warm'.count = 0 /\ w.count = 0 BY <1>4, NoWarmFields DEF Ends
  <2>2. ~(streak' > 0) BY <1>1, <2>1
  <2>3. samples' \in Nat /\ samples' > 0 /\ samples' = samples BY <1>1
  <2>4. 0 <= samples' /\ 0 # samples' BY <2>3
  <2>5. streak' < 0 => 0 <= samples' + streak' BY <1>5, <2>3
  <2>. QED BY <2>1, <2>2, <2>4, <2>5 DEF CounterOK
<1>. QED BY <1>2, <1>3, <1>4 DEF StateChange

-----------------------------------------------------------------------------
(* Every action preserves the invariant. *)

LEMMA HandleMonitoringDataInv == Inv /\ HandleMonitoringData => Inv'
<1>. SUFFICES ASSUME Inv, HandleMonitoringData PROVE Inv' OBVIOUS
<1>. USE AlertsAssumption
<1>1. /\ TypeOK /\ CounterOK /\ ActiveOK /\ writing = NoWrite /\ sent' = TRUE
      /\ mixed' = (mixed /\ warm # NoWarm /\ warm' # NoWarm)
      /\ erased' = IF active' = active THEN erased ELSE None
      /\ UNCHANGED <<def, samples, member, online, db, updates, purge, clearing, astray, faults>>
  BY DEF Inv, HandleMonitoringData, definition
<1>2. /\ warm \in Warm \cup {NoWarm} /\ streak \in -samples..samples /\ cool \in 0..MaxSamples
      /\ samples \in Nat /\ samples > 0 /\ samples <= MaxSamples /\ mixed \in BOOLEAN
  BY <1>1 DEF TypeOK
<1>3. warm.count \in 0..MaxSamples /\ warm.notified \in BOOLEAN
  <2>1. CASE warm \in Warm BY <2>1, WarmFields
  <2>2. CASE warm = NoWarm
    <3>1. 0 \in 0..MaxSamples BY <1>2
    <3>. QED BY <2>2, <3>1, NoWarmFields
  <2>. QED BY <1>2, <2>1, <2>2
<1>4. active # None => active \in astray \/ mixed \/ warm.count + cool >= samples
  BY <1>1 DEF ActiveOK
<1>5. /\ streak > 0 => warm.count \in streak..samples
      /\ ~mixed => warm.count <= samples
      /\ streak < 0 /\ ~mixed => warm.count <= samples + streak
      /\ warm = NoWarm => warm.count = 0
  BY <1>1, NoWarmFields DEF CounterOK
<1>6. ASSUME NEW w, Successor(w), StateChange(w), cool' \in 0..MaxSamples,
             streak' \in -samples..samples,
             def = "deleted" => w = warm /\ streak' = streak,
             active # None => active \in astray \/ mixed \/ w.count + cool' >= samples,
             ~mixed \/ warm = NoWarm => w.count <= samples,
             streak' > 0 => w.count \in streak'..samples,
             streak' < 0 /\ (~mixed \/ warm = NoWarm) => w.count <= samples + streak'
      PROVE  Inv'
  <2>1. /\ warm' \in Warm \cup {NoWarm} /\ age' \in Ages
        /\ active' \in Invocations \cup {None} /\ writing' \in Write \cup {NoWrite}
    BY <1>1, <1>6, ChangeTypes
  <2>2. TypeOK'
    <3>1. mixed' \in BOOLEAN /\ erased' \in Invocations \cup {None} BY <1>1 DEF TypeOK
    <3>. QED BY <1>1, <1>6, <2>1, <3>1 DEF TypeOK
  <2>3. ActiveOK' /\ CounterIdOK' /\ WritingOK' /\ MemoryAndDatabase'
    <3>. HIDE DEF ActiveOK, CounterIdOK, WritingOK, MemoryAndDatabase
    <3>. QED BY <1>1, <1>6, ChangeKeeps
  <2>4. CounterOK' BY <1>1, <1>6, ChangeCounter
  <2>. QED BY <2>2, <2>3, <2>4 DEF Inv
<1>7. CASE Applies
  <2>1. PICK hit \in BOOLEAN : \E w \in Counted(hit) :
          StateChange(w) /\ streak' = Longer(hit) /\ cool' = Negatives(hit)
    BY <1>7 DEF HandleMonitoringData
  <2>2. PICK w \in Counted(hit) : StateChange(w) BY <2>1
  <2>3. streak' = Longer(hit) /\ cool' = Negatives(hit) BY <2>1
  <2>4. /\ Successor(w)
        /\ w.count = IF hit THEN Lesser(warm.count + 1, samples) ELSE Greater(warm.count - 1, 0)
    BY <1>1, CountedIsSuccessor
  <2>5. cool' \in 0..MaxSamples BY <1>2, <2>3 DEF Negatives, Lesser
  <2>6. streak' \in -samples..samples BY <1>2, <2>3 DEF Longer, Lesser, Greater
  <2>7. def # "deleted" BY <1>7 DEF Applies
  <2>8. streak' > 0 => w.count \in streak'..samples
    BY <1>2, <1>3, <1>5, <2>3, <2>4 DEF Longer, Lesser, Greater
  <2>9. streak' < 0 /\ (~mixed \/ warm = NoWarm) => w.count <= samples + streak'
    BY <1>2, <1>3, <1>5, <2>3, <2>4 DEF Longer, Lesser, Greater
  <2>11. ~mixed \/ warm = NoWarm => w.count <= samples
    BY <1>2, <1>3, <1>5, <2>4 DEF Lesser, Greater
  <2>10. active # None => active \in astray \/ mixed \/ w.count + cool' >= samples
    <3>1. CASE active' \in {active, None} /\ active # None
      BY <1>2, <1>3, <1>4, <1>5, <2>3, <2>4, <3>1 DEF Negatives, Lesser, Greater
    <3>3. CASE active' \notin {active, None} /\ active # None /\ active \notin astray
      <4>1. warm.notified /\ warm.id = active BY <1>1, <3>3 DEF ActiveOK
      <4>2. w.notified BY <1>2, <2>4, <4>1 DEF Successor
      <4>4. active' \in {active, None}
        BY <2>2, <4>2 DEF StateChange, Fires, Ends, Continues, tracked
      <4>. QED BY <3>3, <4>4
    <3>. QED BY <3>1, <3>3
  <2>. QED BY <1>6, <2>2, <2>4, <2>5, <2>6, <2>7, <2>8, <2>9, <2>10, <2>11
<1>8. CASE ~Applies
  <2>1. StateChange(warm) /\ streak' = streak /\ cool' = cool
    BY <1>8 DEF HandleMonitoringData
  <2>2. Successor(warm) BY <1>2 DEF Successor
  <2>3. streak < 0 /\ (~mixed \/ warm = NoWarm) => warm.count <= samples + streak BY <1>2, <1>5
  <2>4. ~mixed \/ warm = NoWarm => warm.count <= samples BY <1>2, <1>5
  <2>. QED BY <1>2, <1>4, <1>5, <1>6, <2>1, <2>2, <2>3, <2>4
<1>. QED BY <1>7, <1>8

LEMMA WriteDoneInv == Inv /\ WriteDone => Inv'
<1>. SUFFICES ASSUME Inv, WriteDone PROVE Inv' OBVIOUS
<1>. USE AlertsAssumption DEF Inv, WriteDone, definition, tracked, ghosts, counts
<1>1. writing \in Write /\ writing.id \in Invocations /\ writing.op \in {"insert", "update"}
  BY DEF TypeOK, Write
<1>2. writing' = NoWrite /\ writing'.id = None /\ writing'.op = "none" BY DEF NoWrite
<1>3. db' \subseteq db \cup {writing.id} /\ db' \subseteq Invocations BY <1>1 DEF TypeOK
<1>4. TypeOK' BY <1>2, <1>3 DEF TypeOK
<1>5. CounterOK' /\ ActiveOK' BY DEF CounterOK, ActiveOK
<1>6. CounterIdOK'
  <2>1. warm # NoWarm => warm.id # None BY WarmFields DEF TypeOK
  <2>. QED BY <1>2, <1>3, <2>1 DEF CounterIdOK, Waiting
<1>7. WritingOK' BY <1>2 DEF WritingOK
<1>8. MemoryAndDatabase'
  <2>1. CASE writing.op = "insert" BY <1>1, <1>2, <2>1 DEF MemoryAndDatabase, WritingOK
  <2>2. CASE writing.op = "update" BY <1>1, <1>2, <2>2 DEF MemoryAndDatabase, WritingOK
  <2>. QED BY <1>1, <2>1, <2>2
<1>. QED BY <1>4, <1>5, <1>6, <1>7, <1>8

LEMMA UpdateDoneInv == Inv /\ UpdateDone => Inv'
<1>. SUFFICES ASSUME Inv, UpdateDone PROVE Inv' OBVIOUS
<1>. USE AlertsAssumption DEF Inv, definition, tracked
<1>1. PICK i \in updates :
        /\ db' = db \ {i} /\ updates' = updates \ {i}
        /\ astray' = IF writing = [op |-> "insert", id |-> i] THEN astray \cup {i} ELSE astray
  BY DEF UpdateDone
<1>2. UNCHANGED <<def, samples, member, online, sent, warm, active, age, writing, purge, clearing,
                  streak, cool, mixed, erased, faults>>
  BY DEF UpdateDone, counts
<1>3. astray \subseteq astray' /\ astray' \subseteq astray \cup {writing.id} BY <1>1
<1>4. TypeOK' BY <1>1, <1>2 DEF TypeOK
<1>5. CounterOK' /\ ActiveOK' BY <1>1, <1>2, <1>3 DEF CounterOK, ActiveOK
<1>6. CounterIdOK' BY <1>1, <1>2, <1>3 DEF CounterIdOK, Waiting
<1>7. WritingOK'
  <2>1. writing.op = "insert" /\ writing.id = i => i \in astray'
    <3>. SUFFICES ASSUME writing.op = "insert", writing.id = i PROVE i \in astray' OBVIOUS
    <3>1. writing \in Write BY DEF TypeOK, NoWrite
    <3>2. writing = [op |-> "insert", id |-> i] BY <3>1 DEF Write
    <3>. QED BY <1>1, <3>2
  <2>. QED BY <1>1, <1>2, <1>3, <2>1 DEF WritingOK
<1>8. MemoryAndDatabase' BY <1>1, <1>2, <1>3 DEF MemoryAndDatabase, ActiveOK
<1>. QED BY <1>4, <1>5, <1>6, <1>7, <1>8

LEMMA PurgeDoneInv == Inv /\ PurgeDone => Inv'
<1>. SUFFICES ASSUME Inv, PurgeDone PROVE Inv' OBVIOUS
<1>. USE AlertsAssumption DEF Inv, PurgeDone, definition, tracked, ghosts, counts
<1>1. TypeOK' BY DEF TypeOK
<1>2. CounterOK' /\ ActiveOK' /\ CounterIdOK' BY DEF CounterOK, ActiveOK, CounterIdOK, Waiting
<1>3. WritingOK' /\ MemoryAndDatabase' BY DEF WritingOK, MemoryAndDatabase
<1>. QED BY <1>1, <1>2, <1>3

LEMMA MinuteInv == Inv /\ Minute => Inv'
<1>. SUFFICES ASSUME Inv, Minute PROVE Inv' OBVIOUS
<1>. USE AlertsAssumption
<1>1. PICK late \in BOOLEAN :
        /\ IF active # None /\ Stale(age, late)
           THEN Untrack /\ updates' = updates \cup {active}
           ELSE /\ age' = IF active = None THEN 0 ELSE Older(age)
                /\ UNCHANGED <<active, updates, cool, erased>>
        /\ IF warm # NoWarm /\ Stale(warm.age, late) THEN Restarted
           ELSE /\ warm' = IF warm = NoWarm THEN NoWarm ELSE [warm EXCEPT !.age = Older(@)]
                /\ UNCHANGED <<streak, mixed>>
  BY DEF Minute
<1>2. /\ sent' = FALSE
      /\ UNCHANGED <<def, samples, member, online, db, writing, purge, clearing, astray, faults>>
  BY DEF Minute, definition
<1>3. /\ TypeOK /\ CounterOK /\ ActiveOK /\ CounterIdOK /\ WritingOK /\ MemoryAndDatabase
      /\ warm \in Warm \cup {NoWarm} /\ age \in Ages /\ active \in Invocations \cup {None}
      /\ updates \subseteq Invocations /\ db \subseteq Invocations
      /\ samples \in Nat /\ samples > 0 /\ samples <= MaxSamples
  BY DEF Inv, TypeOK
<1>4. \A a \in Ages : Older(a) \in Ages BY DEF Ages, Older, Lesser
<1>5. /\ warm' = NoWarm \/ warm' \in Warm
      /\ warm' # NoWarm => /\ warm # NoWarm /\ warm \in Warm
                           /\ warm'.count = warm.count /\ warm'.notified = warm.notified
                           /\ warm'.id = warm.id /\ warm'.age = Older(warm.age)
                           /\ UNCHANGED <<streak, mixed>> /\ ~Stale(warm.age, late)
      /\ warm' = NoWarm => \/ streak' = 0 /\ mixed' = FALSE
                           \/ warm = NoWarm /\ UNCHANGED <<streak, mixed>>
  <2>1. CASE warm = NoWarm BY <1>1, <2>1
  <2>2. CASE warm # NoWarm /\ Stale(warm.age, late) BY <1>1, <2>2 DEF Restarted
  <2>3. CASE warm # NoWarm /\ ~Stale(warm.age, late)
    <3>1. warm \in Warm BY <1>3, <2>3
    <3>2. warm' = [warm EXCEPT !.age = Older(warm.age)] /\ UNCHANGED <<streak, mixed>>
      BY <1>1, <2>3
    <3>3. Older(warm.age) \in Ages BY <1>4, <3>1, WarmFields
    <3>4. /\ warm' \in Warm /\ warm'.count = warm.count /\ warm'.notified = warm.notified
          /\ warm'.id = warm.id /\ warm'.age = Older(warm.age)
      BY <3>1, <3>2, <3>3 DEF Warm
    <3>5. warm' # NoWarm BY <3>4, WarmFields
    <3>. QED BY <2>3, <3>1, <3>2, <3>4, <3>5
  <2>. QED BY <2>1, <2>2, <2>3
<1>6. \/ active' = active /\ updates' = updates /\ cool' = cool /\ erased' = erased
      \/ /\ active # None /\ active' = None /\ updates' = updates \cup {active}
         /\ cool' = 0 /\ erased' = None
  BY <1>1 DEF Untrack
<1>7. TypeOK'
  <2>1. age' \in Ages BY <1>1, <1>3, <1>4 DEF Ages, Untrack
  <2>2. streak' \in -samples..samples /\ mixed' \in BOOLEAN
    <3>1. 0 \in -samples..samples BY <1>3
    <3>. QED BY <1>1, <1>3, <3>1 DEF TypeOK, Restarted
  <2>3. cool' \in 0..MaxSamples /\ erased' \in Invocations \cup {None} BY <1>6, <1>3 DEF TypeOK
  <2>4. warm' \in Warm \cup {NoWarm} BY <1>5
  <2>5. active' \in Invocations \cup {None} /\ updates' \subseteq Invocations BY <1>3, <1>6
  <2>6. purge \in BOOLEAN /\ member \in BOOLEAN /\ online \in BOOLEAN BY <1>3 DEF TypeOK
  <2>. QED BY <1>2, <1>3, <2>1, <2>2, <2>3, <2>4, <2>5, <2>6 DEF TypeOK
<1>8. CounterOK'
  <2>1. CASE warm' = NoWarm
    <3>1. warm'.count = 0 BY <2>1, NoWarmFields
    <3>2. CASE streak' = 0 /\ mixed' = FALSE
      BY <1>2, <1>3, <2>1, <3>1, <3>2 DEF CounterOK
    <3>3. CASE warm = NoWarm /\ UNCHANGED <<streak, mixed>>
      BY <1>2, <1>3, <2>1, <3>3 DEF CounterOK
    <3>. QED BY <1>5, <2>1, <3>2, <3>3
  <2>2. CASE warm' # NoWarm
    <3>1. warm.count # 0 BY <1>3, <1>5, <2>2 DEF CounterOK
    <3>. QED BY <1>2, <1>3, <1>5, <2>2, <3>1 DEF CounterOK
  <2>. QED BY <2>1, <2>2
<1>9. active' # None => active' = active /\ ~Stale(age, late) /\ age' = Older(age)
                        /\ updates' = updates /\ cool' = cool
  BY <1>1 DEF Untrack
<1>10. active # None => active \in astray \/
         (warm.notified /\ warm.id = active /\ warm.age = age /\ warm # NoWarm
          /\ (mixed \/ warm.count + cool >= samples))
  <2>1. warm.notified => warm # NoWarm BY NoWarmFields
  <2>. QED BY <1>3, <2>1 DEF ActiveOK
<1>11. ActiveOK'
  <2>1. active' # None => active' \in astray' \/
          (warm'.notified /\ warm'.id = active' /\ warm'.age = age'
           /\ (mixed' \/ warm'.count + cool' >= samples'))
    <3>1. SUFFICES ASSUME active' # None, active \notin astray
                   PROVE  warm'.notified /\ warm'.id = active' /\ warm'.age = age'
                          /\ (mixed' \/ warm'.count + cool' >= samples')
      BY <1>2, <1>9
    <3>2. warm # NoWarm /\ ~Stale(warm.age, late) BY <1>9, <1>10, <3>1
    <3>3. warm' # NoWarm
      <4>1. warm \in Warm BY <1>3, <3>2
      <4>2. warm' = [warm EXCEPT !.age = Older(warm.age)] BY <1>1, <3>2
      <4>3. warm'.id = warm.id BY <4>1, <4>2 DEF Warm
      <4>. QED BY <4>1, <4>3, WarmFields, NoWarmFields
    <3>. QED BY <1>2, <1>5, <1>9, <1>10, <3>1, <3>3
  <2>2. active' \in updates' => active' \in astray'
    BY <1>2, <1>3, <1>6 DEF ActiveOK
  <2>. QED BY <2>1, <2>2 DEF ActiveOK
<1>12. CounterIdOK'
  <2>1. warm'.notified => warm' # NoWarm BY NoWarmFields
  <2>2. warm'.notified => active' = warm'.id \/ warm'.id \in astray'
    <3>1. SUFFICES ASSUME warm'.notified, warm.id \notin astray PROVE active' = warm.id
      BY <1>2, <1>5, <2>1
    <3>2. active = warm.id /\ warm \in Warm /\ active # None
      BY <1>3, <1>5, <2>1, <3>1, WarmFields DEF CounterIdOK
    <3>3. ~Stale(age, late) BY <1>5, <1>10, <2>1, <3>1, <3>2
    <3>. QED BY <1>1, <3>2, <3>3
  <2>3. warm' # NoWarm /\ ~warm'.notified =>
          warm'.id \notin db' \cup updates' \cup astray' \cup Waiting' \cup {active', writing'.id}
    <3>1. warm' # NoWarm => warm'.id # None BY <1>5, WarmFields
    <3>. QED BY <1>2, <1>3, <1>5, <1>6, <3>1 DEF CounterIdOK, Waiting
  <2>. QED BY <2>2, <2>3 DEF CounterIdOK
<1>13. WritingOK' BY <1>2, <1>3, <1>6 DEF WritingOK
<1>14. MemoryAndDatabase' BY <1>2, <1>3, <1>6 DEF MemoryAndDatabase, WritingOK
<1>. QED BY <1>7, <1>8, <1>11, <1>12, <1>13, <1>14 DEF Inv

(* One more call, or one fewer, waits for what is tracked.                  *)
LEMMA ClearTypes ==
  ASSUME TypeOK, active # None, Clear
  PROVE  clearing' \in [Invocations -> Nat] /\ Waiting' \subseteq Waiting \cup {active}
<1>1. clearing \in [Invocations -> Nat] BY DEF TypeOK
<1>2. \A n \in Nat : n + 1 \in Nat OBVIOUS
<1>3. clearing' = [clearing EXCEPT ![active] = @ + 1] BY DEF Clear
<1>4. clearing' \in [Invocations -> Nat] BY <1>1, <1>2, <1>3
<1>5. \A i \in Invocations : i # active => clearing'[i] = clearing[i] BY <1>1, <1>3
<1>. QED BY <1>4, <1>5 DEF Waiting

LEMMA AnswerTypes ==
  ASSUME TypeOK, NEW i \in Waiting, clearing' = [clearing EXCEPT ![i] = @ - 1]
  PROVE  clearing' \in [Invocations -> Nat] /\ Waiting' \subseteq Waiting
<1>1. clearing \in [Invocations -> Nat] /\ i \in Invocations /\ clearing[i] > 0
  BY DEF TypeOK, Waiting
<1>2. clearing[i] - 1 \in Nat BY <1>1
<1>3. clearing' \in [Invocations -> Nat] BY <1>1, <1>2
<1>4. \A k \in Invocations : k # i => clearing'[k] = clearing[k] BY <1>1
<1>. QED BY <1>1, <1>3, <1>4 DEF Waiting

(* What only lets calls of clearActiveAlert wait for the active alert.      *)
LEMMA WaitingKeeps ==
  ASSUME Inv, NEW S, Waiting' \subseteq Waiting \cup S,
         S \subseteq {active} \ {None},
         UNCHANGED <<warm, active, db, updates, astray, writing>>
  PROVE  CounterIdOK'
BY DEF Inv, CounterIdOK

LEMMA ClearActiveAlertInv == Inv /\ ClearActiveAlert => Inv'
<1>. SUFFICES ASSUME Inv, ClearActiveAlert PROVE Inv' OBVIOUS
<1>1. /\ active # None /\ Clear
      /\ UNCHANGED <<def, samples, member, online, sent, warm, active, age, db, writing, updates,
                     purge, streak, cool, mixed, erased, astray, faults>>
  BY DEF ClearActiveAlert, Clearable, definition, tracked, database, ghosts, counts
<1>2. clearing' \in [Invocations -> Nat] /\ Waiting' \subseteq Waiting \cup ({active} \ {None})
  BY <1>1, ClearTypes DEF Inv
<1>3. TypeOK' BY <1>1, <1>2 DEF Inv, TypeOK
<1>4. CounterOK' /\ ActiveOK' BY <1>1 DEF Inv, CounterOK, ActiveOK
<1>5. CounterIdOK' BY <1>1, <1>2, WaitingKeeps
<1>6. WritingOK' /\ MemoryAndDatabase' BY <1>1 DEF Inv, WritingOK, MemoryAndDatabase
<1>. QED BY <1>3, <1>4, <1>5, <1>6 DEF Inv

LEMMA ClearFailedInv == Inv /\ ClearFailed => Inv'
<1>. SUFFICES ASSUME Inv, ClearFailed PROVE Inv' OBVIOUS
<1>1. /\ \E i \in Waiting : clearing' = [clearing EXCEPT ![i] = @ - 1]
      /\ UNCHANGED <<def, samples, member, online, sent, warm, active, age, db, writing, updates,
                     purge, streak, cool, mixed, erased, astray, faults>>
  BY DEF ClearFailed, definition, tracked, database, ghosts, counts
<1>2. clearing' \in [Invocations -> Nat] /\ Waiting' \subseteq Waiting
  BY <1>1, AnswerTypes DEF Inv
<1>3. TypeOK' BY <1>1, <1>2 DEF Inv, TypeOK
<1>4. CounterOK' /\ ActiveOK' BY <1>1 DEF Inv, CounterOK, ActiveOK
<1>5. CounterIdOK' BY <1>1, <1>2 DEF Inv, CounterIdOK
<1>6. WritingOK' /\ MemoryAndDatabase' BY <1>1 DEF Inv, WritingOK, MemoryAndDatabase
<1>. QED BY <1>3, <1>4, <1>5, <1>6 DEF Inv

LEMMA ClearedInv == Inv /\ Cleared => Inv'
<1>. SUFFICES ASSUME Inv, Cleared PROVE Inv' OBVIOUS
<1>. USE AlertsAssumption
<1>1. PICK i \in Waiting :
        /\ clearing' = [clearing EXCEPT ![i] = @ - 1]
        /\ updates' = updates \cup {i}
        /\ astray' = IF active \in {None, i} THEN astray ELSE astray \cup {active}
  BY DEF Cleared
<1>2. /\ active' = None /\ age' = 0 /\ cool' = 0 /\ erased' = None
      /\ warm' = NoWarm /\ streak' = 0 /\ mixed' = FALSE
      /\ UNCHANGED <<def, samples, member, online, sent, db, writing, purge, faults>>
  BY DEF Cleared, Forget, Untrack, Restarted, definition
<1>3. clearing' \in [Invocations -> Nat] /\ i \in Invocations
  BY <1>1, AnswerTypes DEF Inv, Waiting
<1>4. samples \in Nat /\ samples > 0 BY DEF Inv, TypeOK
<1>5. TypeOK'
  <2>1. 0 \in -samples..samples /\ 0 \in Ages /\ 0 \in 0..MaxSamples BY <1>4 DEF Ages
  <2>2. updates' \subseteq Invocations /\ astray' \subseteq Invocations
    BY <1>1, <1>3 DEF Inv, TypeOK
  <2>. QED BY <1>2, <1>3, <2>1, <2>2 DEF Inv, TypeOK
<1>6. CounterOK' BY <1>2, <1>4, NoWarmFields DEF CounterOK
<1>7. None \notin updates' BY <1>1, <1>3 DEF Inv, TypeOK
<1>8. ActiveOK' BY <1>2, <1>7 DEF ActiveOK
<1>9. CounterIdOK' BY <1>2, NoWarmFields DEF CounterIdOK
<1>10. active = None \/ active \in updates' \cup astray' BY <1>1
<1>11. updates \subseteq updates' /\ astray \subseteq astray' BY <1>1
<1>12. WritingOK'
  <2>1. writing \in Write \cup {NoWrite} BY DEF Inv, TypeOK
  <2>2. writing.op = "insert" => writing.id # None BY <2>1 DEF Write, NoWrite
  <2>. QED BY <1>2, <1>10, <1>11, <2>2 DEF Inv, WritingOK
<1>13. MemoryAndDatabase'
  <2>1. None \notin db BY DEF Inv, TypeOK
  <2>. QED BY <1>2, <1>10, <1>11, <2>1 DEF Inv, MemoryAndDatabase
<1>. QED BY <1>5, <1>6, <1>8, <1>9, <1>12, <1>13 DEF Inv

LEMMA UpdateAlertInv == Inv /\ UpdateAlert => Inv'
<1>. SUFFICES ASSUME Inv, UpdateAlert PROVE Inv' OBVIOUS
<1>. USE AlertsAssumption
<1>1. /\ def # "deleted" /\ def' \in {"enabled", "disabled"} /\ samples' \in 1..MaxSamples
      /\ \/ samples' = samples /\ UNCHANGED <<streak, mixed>>
         \/ streak' = 0 /\ mixed' = (warm # NoWarm)
      /\ (active # None /\ Clear) \/ UNCHANGED clearing
      /\ UNCHANGED <<member, online, sent, warm, active, age, db, writing, updates, purge, cool,
                     erased, astray, faults>>
  BY DEF UpdateAlert, tracked, database
<1>2. clearing' \in [Invocations -> Nat] /\ Waiting' \subseteq Waiting \cup ({active} \ {None})
  <2>1. CASE active # None /\ Clear BY <2>1, ClearTypes DEF Inv
  <2>2. CASE UNCHANGED clearing BY <2>2 DEF Inv, TypeOK, Waiting
  <2>. QED BY <1>1, <2>1, <2>2
<1>3. TypeOK'
  <2>3. samples' \in Nat BY <1>1
  <2>1. 0 \in -samples'..samples' BY <2>3, Streaks
  <2>2. streak' \in -samples'..samples' /\ mixed' \in BOOLEAN BY <1>1, <2>1 DEF Inv, TypeOK
  <2>. QED BY <1>1, <1>2, <2>2 DEF Inv, TypeOK
<1>4. CounterOK'
  <2>1. CASE samples' = samples /\ UNCHANGED <<streak, mixed>>
    BY <1>1, <2>1 DEF Inv, CounterOK
  <2>2. CASE streak' = 0 /\ mixed' = (warm # NoWarm)
    <3>1. samples' \in Nat /\ samples' > 0 /\ UNCHANGED warm BY <1>1
    <3>2. warm.count = 0 => warm = NoWarm BY DEF Inv, CounterOK
    <3>3. mixed' = FALSE => warm'.count = 0 /\ warm' = NoWarm BY <2>2, <3>1, NoWarmFields
    <3>4. ~(streak' > 0) /\ ~(streak' < 0) BY <2>2
    <3>5. 0 <= samples' /\ 0 # samples' BY <3>1
    <3>6. mixed' \in BOOLEAN BY <2>2
    <3>. QED BY <3>1, <3>2, <3>3, <3>4, <3>5, <3>6 DEF CounterOK
  <2>. QED BY <1>1, <2>1, <2>2
<1>5. ActiveOK'
  <2>1. warm.notified => warm # NoWarm BY NoWarmFields
  <2>2. CASE samples' = samples /\ UNCHANGED <<streak, mixed>>
    BY <1>1, <2>2 DEF Inv, ActiveOK
  <2>3. CASE streak' = 0 /\ mixed' = (warm # NoWarm)
    BY <1>1, <2>1, <2>3 DEF Inv, ActiveOK
  <2>. QED BY <1>1, <2>2, <2>3
<1>6. CounterIdOK' BY <1>1, <1>2, WaitingKeeps
<1>7. WritingOK' BY <1>1 DEF Inv, WritingOK
<1>8. MemoryAndDatabase' BY <1>1 DEF Inv, MemoryAndDatabase
<1>. QED BY <1>3, <1>4, <1>5, <1>6, <1>7, <1>8 DEF Inv

LEMMA DeleteAlertInv == Inv /\ DeleteAlert => Inv'
<1>. SUFFICES ASSUME Inv, DeleteAlert PROVE Inv' OBVIOUS
<1>. USE DEF Inv, DeleteAlert, tracked, ghosts, counts
<1>1. TypeOK' BY DEF TypeOK
<1>2. CounterOK' /\ ActiveOK' /\ CounterIdOK' BY DEF CounterOK, ActiveOK, CounterIdOK, Waiting
<1>3. WritingOK' /\ MemoryAndDatabase' BY DEF WritingOK, MemoryAndDatabase
<1>. QED BY <1>1, <1>2, <1>3

LEMMA DeleteInvocationInv == Inv /\ DeleteInvocation => Inv'
<1>. SUFFICES ASSUME Inv, DeleteInvocation PROVE Inv' OBVIOUS
<1>1. PICK i \in db : db' = db \ {i} /\ erased' = IF i = active THEN i ELSE erased
  BY DEF DeleteInvocation
<1>2. UNCHANGED <<def, samples, member, online, sent, warm, active, age, writing, updates, purge,
                  clearing, streak, cool, mixed, astray, faults>>
  BY DEF DeleteInvocation, definition, tracked, counts
<1>. USE <1>1, <1>2 DEF Inv
<1>3. TypeOK' BY DEF TypeOK
<1>4. CounterOK' /\ ActiveOK' BY DEF CounterOK, ActiveOK
<1>5. CounterIdOK' BY DEF CounterIdOK, Waiting
<1>6. WritingOK' /\ MemoryAndDatabase' BY DEF WritingOK, MemoryAndDatabase
<1>. QED BY <1>3, <1>4, <1>5, <1>6

(* What only changes the groups or the connection. *)
LEMMA OthersInv ==
  ASSUME Inv, ChangeGroups \/ Connect \/ Disconnect PROVE Inv'
<1>. USE DEF Inv, ChangeGroups, Connect, Disconnect,
         definition, tracked, database, ghosts, counts
<1>1. TypeOK' BY DEF TypeOK
<1>2. CounterOK' /\ ActiveOK' /\ CounterIdOK' BY DEF CounterOK, ActiveOK, CounterIdOK, Waiting
<1>3. WritingOK' BY DEF WritingOK
<1>4. MemoryAndDatabase' BY DEF MemoryAndDatabase
<1>. QED BY <1>1, <1>2, <1>3, <1>4

(* What a restart resumes is set aside, and fits the database. *)
LEMMA ResumeKeeps ==
  ASSUME Inv, NEW file \in Invocations \cup {None}, NEW d \in SUBSET db, Resume(file, d),
         UNCHANGED faults \/ Fault,
         writing' = NoWrite, updates' = {}, purge' = FALSE,
         warm' \in Warm \cup {NoWarm},
         warm' # NoWarm => warm # NoWarm /\ warm'.count = warm.count
                           /\ warm'.notified = warm.notified /\ warm'.id = warm.id,
         file # None => file = active
  PROVE  Inv'
<1>. USE AlertsAssumption DEF Resume, definition
<1>10. clearing' = [i \in Invocations |-> 0] OBVIOUS
<1>11. clearing' \in [Invocations -> Nat] /\ Waiting' = {} BY <1>10 DEF Waiting
<1>1. /\ TypeOK /\ db \subseteq Invocations /\ samples \in 1..MaxSamples
      /\ UNCHANGED <<def, samples, member, online, cool, mixed, erased>>
      /\ clearing' \in [Invocations -> Nat] /\ Waiting' = {}
      /\ warm'.notified \in BOOLEAN
      /\ warm'.notified => warm'.id \in Invocations
      /\ warm' # NoWarm => warm'.id \in Invocations /\ warm'.id # None
  BY <1>11, WarmFields, NoWarmFields DEF Inv, TypeOK
<1>2. active' \in Invocations \cup {None} /\ (active' # None => active' = active \/ active' \in d)
  BY <1>1
<1>3. /\ active' # None => active' \in astray'
      /\ warm'.notified => warm'.id \in astray'
      /\ astray' \subseteq astray \cup d \cup {active', warm'.id}
      /\ ~warm'.notified => astray' \subseteq astray \cup d \cup {active'}
      /\ d \subseteq astray' /\ db' = d
  BY <1>1
<1>4. TypeOK'
  <2>1. age' \in Ages BY <1>1 DEF TypeOK, Ages
  <2>2. astray' \subseteq Invocations BY <1>1, <1>2 DEF TypeOK
  <2>3. faults' \in 0..MaxFaults BY <1>1 DEF TypeOK, Fault
  <2>4. streak' \in -samples'..samples' BY <1>1
  <2>. QED BY <1>1, <1>2, <2>1, <2>2, <2>3, <2>4 DEF TypeOK
<1>5. CounterOK'
  <2>1. CASE warm' = NoWarm
    <3>1. samples' > 0 /\ 0 <= samples' BY <1>1
    <3>. QED BY <1>1, <2>1, <3>1, NoWarmFields DEF CounterOK
  <2>2. CASE warm' # NoWarm BY <1>1, <2>2 DEF Inv, CounterOK
  <2>. QED BY <2>1, <2>2
<1>6. ActiveOK' BY <1>3 DEF ActiveOK
<1>7. CounterIdOK'
  <2>1. warm' # NoWarm /\ ~warm'.notified =>
          warm'.id \notin db \cup astray \cup {active}
    BY DEF Inv, CounterIdOK
  <2>2. NoWrite.id = None BY DEF NoWrite
  <2>. QED BY <1>1, <1>2, <1>3, <2>1, <2>2 DEF CounterIdOK
<1>8. WritingOK' BY DEF WritingOK, NoWrite
<1>9. MemoryAndDatabase' BY <1>3 DEF MemoryAndDatabase
<1>. QED BY <1>4, <1>5, <1>6, <1>7, <1>8, <1>9 DEF Inv

LEMMA CrashInv == Inv /\ Crash => Inv'
<1>. SUFFICES ASSUME Inv, Crash PROVE Inv' OBVIOUS
<1>1. /\ Resume(None, db) /\ Fault /\ warm' = NoWarm
      /\ writing' = NoWrite /\ updates' = {} /\ purge' = FALSE
  BY DEF Crash
<1>. QED BY <1>1, ResumeKeeps

LEMMA RestartInv == Inv /\ Restart => Inv'
<1>. SUFFICES ASSUME Inv, Restart PROVE Inv' OBVIOUS
<1>1. PICK done \in SUBSET Waiting : Resume(active, db \ done) BY DEF Restart
<1>2. PICK a \in warm.age..3 : warm' = IF warm = NoWarm THEN NoWarm ELSE [warm EXCEPT !.age = a]
  BY DEF Restart
<1>3. Fault /\ writing' = NoWrite /\ updates' = {} /\ purge' = FALSE
  <2>1. purge \in BOOLEAN BY DEF Inv, TypeOK
  <2>. QED BY <2>1 DEF Restart
<1>4. /\ warm' \in Warm \cup {NoWarm}
      /\ warm' # NoWarm => warm # NoWarm /\ warm'.count = warm.count
                           /\ warm'.notified = warm.notified /\ warm'.id = warm.id
  <2>1. CASE warm = NoWarm BY <1>2, <2>1
  <2>2. CASE warm # NoWarm
    <3>1. warm \in Warm /\ warm.age \in Ages BY <2>2, WarmFields DEF Inv, TypeOK
    <3>2. a \in Ages BY <3>1 DEF Ages
    <3>. QED BY <1>2, <2>2, <3>1, <3>2 DEF Warm
  <2>. QED BY <2>1, <2>2
<1>5. active \in Invocations \cup {None} /\ db \ done \in SUBSET db BY DEF Inv, TypeOK
<1>. QED BY <1>1, <1>3, <1>4, <1>5, ResumeKeeps

LEMMA StepInv == Inv /\ [Next]_vars => Inv'
<1>. SUFFICES ASSUME Inv, [Next]_vars PROVE Inv' OBVIOUS
<1>1. CASE UNCHANGED vars
  <2>. USE <1>1 DEF Inv, vars, definition, tracked, database, ghosts, counts
  <2>1. TypeOK' BY DEF TypeOK
  <2>2. CounterOK' /\ ActiveOK' /\ CounterIdOK' BY DEF CounterOK, ActiveOK, CounterIdOK, Waiting
  <2>3. WritingOK' /\ MemoryAndDatabase' BY DEF WritingOK, MemoryAndDatabase
  <2>. QED BY <2>1, <2>2, <2>3
<1>2. CASE Next
  BY <1>2, HandleMonitoringDataInv, WriteDoneInv, UpdateDoneInv, PurgeDoneInv, MinuteInv,
     ClearActiveAlertInv, ClearedInv, ClearFailedInv, UpdateAlertInv, DeleteAlertInv,
     DeleteInvocationInv, OthersInv, CrashInv, RestartInv
     DEF Next
<1>. QED BY <1>1, <1>2

(* The invariant holds in every reachable state, for any number of samples  *)
(* and whatever users, the server, the database and faults do.             *)
THEOREM AlertsInv == Spec => []Inv
<1>. QED BY InitInv, StepInv, PTL DEF Spec

-----------------------------------------------------------------------------
(* The variables have their types: no counter leaves 0..MaxSamples, and no  *)
(* record is closed under an id that is none (handleMonitoringData).        *)
THEOREM AlertsTypeCorrect == Spec => []TypeOK
<1>1. Inv => TypeOK BY DEF Inv
<1>. QED BY <1>1, AlertsInv, PTL

(* What the database holds as active is tracked or being set inactive, and  *)
(* what is tracked is in the database, in every interleaving of the data,   *)
(* the clean-up, any number of clears, the edits and deletions of users and *)
(* a restart: but for what a restart brought back, what was forgotten as    *)
(* another was cleared, and a tracked invocation whose record a user        *)
(* deleted (handleMonitoringData, clearActiveAlert, cleanupGlobalAlerts,    *)
(* api_delete_alert_invocation).                                            *)
THEOREM AlertsMemoryAndDatabase == Spec => []MemoryAndDatabase
<1>1. Inv => MemoryAndDatabase BY DEF Inv
<1>. QED BY <1>1, AlertsInv, PTL

(* As many equal results in a row as the alert has samples decide whether   *)
(* it is active, whatever the counter was before (handleMonitoringData).    *)
THEOREM AlertsSamplesDecide == Spec => []SamplesDecide
<1>1. Inv => SamplesDecide
  <2>. SUFFICES ASSUME Inv PROVE SamplesDecide OBVIOUS
  <2>1. samples \in Nat /\ samples > 0 /\ warm \in Warm \cup {NoWarm}
    BY AlertsAssumption DEF Inv, TypeOK
  <2>2. warm.count \in 0..MaxSamples
    <3>1. CASE warm \in Warm BY <3>1, WarmFields
    <3>2. CASE warm = NoWarm
      <4>1. 0 \in 0..MaxSamples BY AlertsAssumption
      <4>. QED BY <3>2, <4>1, NoWarmFields
    <3>. QED BY <2>1, <3>1, <3>2
  <2>3. ASSUME streak = samples
        PROVE  warm.notified /\ (active = warm.id \/ warm.id \in astray)
    <3>2. streak > 0 /\ warm.count \in samples..samples BY <2>1, <2>3 DEF Inv, CounterOK
    <3>3. warm.count = samples BY <2>1, <2>2, <3>2
    <3>4. warm.notified BY <3>2, <3>3 DEF Inv, CounterOK
    <3>. QED BY <3>4 DEF Inv, CounterIdOK
  <2>4. ASSUME streak = -samples, ~mixed
        PROVE  warm = NoWarm /\ (active = None \/ active \in astray)
    <3>1. warm.count = 0 BY <2>1, <2>2, <2>4 DEF Inv, CounterOK
    <3>2. warm = NoWarm BY <3>1 DEF Inv, CounterOK
    <3>. QED BY <3>2, NoWarmFields DEF Inv, ActiveOK
  <2>. QED BY <2>3, <2>4 DEF SamplesDecide
<1>. QED BY <1>1, AlertsInv, PTL

-----------------------------------------------------------------------------
(* The result of data that end a tracked alert. *)
LEMMA EndsCooled ==
  ASSUME Inv, HandleMonitoringData, active # None, active' # active, active \notin astray, ~mixed
  PROVE  cool' >= samples
<1>. USE AlertsAssumption
<1>1. /\ warm.notified /\ warm.id = active /\ warm.count + cool >= samples
      /\ warm \in Warm /\ warm.count \in 0..MaxSamples /\ warm.count # 0
      /\ cool \in 0..MaxSamples /\ samples \in 1..MaxSamples
  <2>1. warm.notified /\ warm.id = active /\ warm.count + cool >= samples
    BY DEF Inv, ActiveOK
  <2>2. warm \in Warm /\ warm # NoWarm BY <2>1, NoWarmFields DEF Inv, TypeOK
  <2>. QED BY <2>1, <2>2, WarmFields DEF Inv, TypeOK, CounterOK
<1>2. CASE Applies
  <2>1. PICK hit \in BOOLEAN : \E w \in Counted(hit) : StateChange(w) /\ cool' = Negatives(hit)
    BY <1>2 DEF HandleMonitoringData
  <2>2. PICK w \in Counted(hit) : StateChange(w) /\ cool' = Negatives(hit) BY <2>1
  <2>3. /\ w.notified = warm.notified
        /\ w.count = IF hit THEN Lesser(warm.count + 1, samples) ELSE Greater(warm.count - 1, 0)
    BY <2>2, CountedIsSuccessor DEF Inv, Successor
  <2>4. Ends(w)
    BY <1>1, <2>2, <2>3 DEF StateChange, Fires, Continues, tracked
  <2>5. ~hit /\ warm.count = 1 /\ active' = None
    BY <1>1, <2>3, <2>4 DEF Ends, Lesser, Greater
  <2>. QED BY <1>1, <2>2, <2>5 DEF Negatives, Lesser
<1>3. CASE ~Applies
  <2>1. StateChange(warm) BY <1>3 DEF HandleMonitoringData
  <2>2. UNCHANGED active
    BY <1>1, <2>1 DEF StateChange, Fires, Continues, Ends, tracked
  <2>. QED BY <2>2
<1>. QED BY <1>2, <1>3

(* An alert does not flap: data end it only after as many negative results  *)
(* as it has samples since it fired (handleMonitoringData, Math.max of the  *)
(* counter and zero), unless its samples were changed under the counter.    *)
THEOREM AlertsCooledDown == Spec => CooledDown
<1>1. Inv /\ [Next]_vars =>
        [sent' # sent /\ sent' /\ active # None /\ active' # active
           => cool' >= samples \/ mixed \/ active \in astray]_vars
  <2>. SUFFICES ASSUME Inv, Next, sent' # sent, sent', active # None, active' # active
                PROVE  cool' >= samples \/ mixed \/ active \in astray
    OBVIOUS
  <2>1. HandleMonitoringData
    BY DEF Next, WriteDone, UpdateDone, PurgeDone, Minute, ClearActiveAlert, Cleared, ClearFailed,
           UpdateAlert, DeleteAlert, DeleteInvocation, ChangeGroups, Connect, Disconnect,
           Crash, Restart, Resume
  <2>. QED BY <2>1, EndsCooled
<1>. QED BY <1>1, AlertsInv, PTL DEF Spec, CooledDown
=============================================================================
