--------------------------- MODULE FailoverProofs ---------------------------
(* Theorems about Failover, for every value of its constants. *)
EXTENDS Failover, SequenceTheorems, TLAPS

(* One conductor at a time leads or starts up; callbacks and sockets to     *)
(* backups live while one leads; syncs lie before backups only.             *)
RolesOK ==
  /\ \A c, d \in Conductors :
       role[c] \in {"startup", "primary"} /\ role[d] \in {"startup", "primary"} => c = d
  /\ (\A c \in Conductors : ~Leads(c)) => starting = NoCalls /\ log = NoCalls /\ actions = NoCalls
  /\ \A b \in Conductors :
       /\ peer[b] # "none" => Backup(b) /\ \E c \in Conductors : Leads(c)
       /\ inbox[b] # <<>> => Backup(b)

(* A recovery file is alone until its owner hears of a primary. *)
FileOK ==
  \A c \in Conductors : file[c] # Empty =>
    /\ role[c] \in {"down", "backup"} /\ Listed(table[c]) = {}
    /\ peer[c] = "none" /\ inbox[c] = <<>>

(* A backup that has said hello has dropped the jobs of an earlier time. *)
HelloOK ==
  \A b \in Conductors : peer[b] = "hello" => Listed(table[b]) = {} /\ inbox[b] = <<>>

(* Somewhere job j is recorded in state s with code x. *)
Is(r, s, x) == r.state = s /\ r.code = x
Recorded(j, s, x) ==
  \E c \in Conductors :
    \/ Is(table[c][j], s, x) \/ Is(file[c][j], s, x)
    \/ \E i \in DOMAIN inbox[c] : In(c, i, j) /\ Is(inbox[c][i][j], s, x)

(* Nothing knows of a job that was not launched. *)
UsedAt(j) ==
  /\ \A s \in States, x \in Codes : ~Recorded(j, s, x)
  /\ runs[j] = 0 /\ starting[j] = 0 /\ log[j] = 0 /\ actions[j] = 0
  /\ db[j] = "none" /\ ~sat[j]
UsedOK == \A j \in Jobs : origin[j] = j => UsedAt(j)

(* Every launch is paid for: a job that is ready at the primary has one      *)
(* left, a start under way has taken it.                                     *)
LaunchesAt(j) ==
  /\ runs[j] + starting[j] <= 1 + cut[j]
  /\ \A c \in Conductors :
       Leads(c) /\ table[c][j].state = "ready" => runs[j] + starting[j] <= cut[j]
LaunchesOK == \A j \in Jobs : LaunchesAt(j)

(* Everything that has finished a job which no takeover reopened agrees on  *)
(* the result, and nothing is left that could change it.                    *)
Pending(c, j) == log[j] > 0 \/ actions[j] > 0 \/ (starting[j] > 0 /\ table[c][j].state = "none")
Final(j, x) ==
  \/ Recorded(j, "complete", x)
  \/ \E c \in Conductors : Leads(c) /\ table[c][j].code = x /\ Pending(c, j)
  \/ db[j] \in {"ok", "error"} /\ db[j] = x

Settled(j) == \A c \in Conductors : Leads(c) => table[c][j].state \in {"none", "complete"}
ResultAt(j) ==
  open[j] = 0 =>
    /\ cut[j] = 0
    /\ \A x, y \in Codes : Final(j, x) /\ Final(j, y) => x = y
    /\ \A x \in Codes : Final(j, x) => Settled(j) /\ (x \in {"ok", "error"} => ~sat[j])
    /\ db[j] # "none" => Settled(j)
    /\ db[j] = "warning" => ~sat[j]
ResultsOK == \A j \in Jobs : ResultAt(j)

Inv == /\ TypeOK /\ RolesOK /\ FileOK /\ HelloOK
       /\ UsedOK /\ LaunchesOK /\ ResultsOK /\ BackupExact

-----------------------------------------------------------------------------
(* Types. *)

Tables == [Conductors -> [Jobs -> Record]]

LEMMA RecordFields ==
  ASSUME NEW r \in Record
  PROVE  r.state \in States \cup {"none"} /\ r.code \in Codes
BY DEF Record

(* What the actions make of a record. *)
LEMMA RecordMade ==
  ASSUME NEW r \in Record
  PROVE  /\ \A s \in States \cup {"none"} :
              [r EXCEPT !.state = s] \in Record /\ Is([r EXCEPT !.state = s], s, r.code)
         /\ [r EXCEPT !.remote = FALSE] \in Record /\ Is([r EXCEPT !.remote = FALSE], r.state, r.code)
         /\ [r EXCEPT !.retried = TRUE] \in Record /\ Is([r EXCEPT !.retried = TRUE], r.state, r.code)
         /\ Running(r) \in Record /\ Is(Running(r), "active", r.code)
         /\ \A x \in Codes :
              /\ Finished(r, x) \in Record
              /\ Is(Finished(r, x), IF r.state = "none" THEN "none" ELSE "complete", x)
<1>1. ASSUME NEW s \in States \cup {"none"}
      PROVE  [r EXCEPT !.state = s] \in Record /\ Is([r EXCEPT !.state = s], s, r.code)
  BY DEF Record, Is
<1>2. [r EXCEPT !.remote = FALSE] \in Record /\ Is([r EXCEPT !.remote = FALSE], r.state, r.code)
  BY DEF Record, Is
<1>3. [r EXCEPT !.retried = TRUE] \in Record /\ Is([r EXCEPT !.retried = TRUE], r.state, r.code)
  BY DEF Record, Is
<1>4. Running(r) \in Record /\ Is(Running(r), "active", r.code)
  BY DEF Running, Record, Is, States
<1>5. ASSUME NEW x \in Codes
      PROVE  /\ Finished(r, x) \in Record
             /\ Is(Finished(r, x), IF r.state = "none" THEN "none" ELSE "complete", x)
  BY DEF Finished, Record, Is, States
<1>. QED BY <1>1, <1>2, <1>3, <1>4, <1>5

LEMMA NoRecordType ==
  /\ NoRecord \in Record /\ NoRecord.state = "none" /\ NoRecord.code = "none"
  /\ New \in Record /\ New.state = "ready" /\ New.code = "none"
  /\ Empty \in [Jobs -> Record] /\ \A j \in Jobs : Empty[j] = NoRecord
<1>1. NoRecord \in Record /\ NoRecord.state = "none" /\ NoRecord.code = "none"
  BY DEF NoRecord, Record, Codes
<1>2. New \in Record /\ New.state = "ready" /\ New.code = "none"
  BY DEF New, NoRecord, Record, Codes, States
<1>. QED BY <1>1, <1>2 DEF Empty

LEMMA PutFacts ==
  ASSUME TypeOK, NEW c \in Conductors, NEW j \in Jobs, NEW r \in Record, Put(c, j, r)
  PROVE  /\ table' \in Tables /\ table'[c][j] = r
         /\ \A k \in Jobs : k # j => table'[c][k] = table[c][k]
         /\ \A d \in Conductors : d # c => table'[d] = table[d]
BY DEF TypeOK, Tables, Put

Calls == [Jobs -> 0..MaxCalls]

LEMMA AddCall ==
  ASSUME NEW f \in Calls, NEW j \in Jobs, f[j] < MaxCalls
  PROVE  /\ Add(f, j) \in Calls /\ Add(f, j)[j] = f[j] + 1
         /\ \A k \in Jobs : k # j => Add(f, j)[k] = f[k]
BY FailoverAssumption DEF Add, Calls

LEMMA SubCall ==
  ASSUME NEW f \in Calls, NEW j \in Jobs, f[j] > 0
  PROVE  /\ Sub(f, j) \in Calls /\ Sub(f, j)[j] = f[j] - 1
         /\ \A k \in Jobs : k # j => Sub(f, j)[k] = f[k]
BY FailoverAssumption DEF Sub, Calls

LEMMA AddNat ==
  ASSUME NEW f \in [Jobs -> Nat], NEW j \in Jobs
  PROVE  /\ Add(f, j) \in [Jobs -> Nat] /\ Add(f, j)[j] = f[j] + 1
         /\ \A k \in Jobs : k # j => Add(f, j)[k] = f[k]
BY DEF Add

LEMMA InboxFields ==
  ASSUME TypeOK, NEW b \in Conductors, NEW i \in DOMAIN inbox[b]
  PROVE  /\ inbox[b] \in Seq(Message) /\ inbox[b][i] \in Message
         /\ \A j : In(b, i, j) => j \in Jobs /\ inbox[b][i][j] \in Record
<1>1. inbox[b] \in Seq(Message) BY DEF TypeOK
<1>2. inbox[b][i] \in Message BY <1>1, ElementOfSeq
<1>. QED BY <1>1, <1>2 DEF Message, In

(* The calls of the primary are few. *)
LEMMA CallTypes ==
  ASSUME TypeOK
  PROVE  /\ starting \in [Jobs -> 0..MaxCalls] /\ log \in [Jobs -> 0..MaxCalls]
         /\ actions \in [Jobs -> 0..MaxCalls]
         /\ starting \in [Jobs -> Nat] /\ log \in [Jobs -> Nat] /\ actions \in [Jobs -> Nat]
         /\ runs \in [Jobs -> Nat] /\ cut \in [Jobs -> Nat] /\ open \in [Jobs -> Nat]
         /\ NoCalls \in [Jobs -> 0..MaxCalls] /\ NoCalls \in [Jobs -> Nat]
         /\ \A j \in Jobs : NoCalls[j] = 0
BY FailoverAssumption DEF TypeOK, NoCalls

LEMMA InitInv == Init => Inv
<1>. SUFFICES ASSUME Init PROVE Inv OBVIOUS
<1>. USE FailoverAssumption DEF Init
<1>1. TypeOK
  <2>1. NoCalls \in [Jobs -> 0..MaxCalls] /\ NoCalls \in [Jobs -> Nat] BY DEF NoCalls
  <2>2. table \in Tables /\ file \in Tables BY NoRecordType DEF Tables
  <2>3. inbox \in [Conductors -> Seq(Message)] BY EmptySeq
  <2>4. origin \in [Jobs -> Jobs \cup {NoJob}] /\ sat \in [Jobs -> BOOLEAN] OBVIOUS
  <2>5. /\ role \in [Conductors -> {"down", "backup", "startup", "primary"}]
        /\ peer \in [Conductors -> {"none", "hello", "auth"}]
        /\ sent \in [Conductors -> [Jobs -> States \cup {"none"}]]
        /\ db \in [Jobs -> {"none", "ok", "error", "abort", "warning"}]
    OBVIOUS
  <2>6. /\ {starting, log, actions} \subseteq [Jobs -> 0..MaxCalls]
        /\ {runs, cut, open} \subseteq [Jobs -> Nat]
    <3>. HIDE DEF NoCalls
    <3>. QED BY <2>1
  <2>7. faults \in 0..MaxFaults
    <3>1. faults = 0 /\ MaxFaults \in Nat OBVIOUS
    <3>. HIDE DEF Init
    <3>. QED BY <3>1
  <2>8. online \in BOOLEAN OBVIOUS
  <2>. HIDE DEF Init
  <2>. QED BY <2>2, <2>3, <2>4, <2>5, <2>6, <2>7, <2>8 DEF TypeOK, Tables
<1>2. \A c \in Conductors, j \in Jobs : table[c][j].state = "none" /\ file[c][j].state = "none"
  BY NoRecordType
<1>3. RolesOK BY DEF RolesOK, Leads
<1>4. FileOK /\ HelloOK BY DEF FileOK, HelloOK
<1>5. \A j \in Jobs, s \in States, x \in Codes : ~Recorded(j, s, x)
  BY <1>2 DEF Recorded, Is, States
<1>6. UsedOK BY <1>5 DEF UsedOK, UsedAt, NoCalls
<1>7. LaunchesOK BY DEF LaunchesOK, LaunchesAt, NoCalls, Leads
<1>8. ResultsOK
  <2>1. \A j \in Jobs, x \in Codes : ~Final(j, x)
    BY <1>5 DEF Final, Leads, States
  <2>. QED BY <2>1 DEF ResultsOK, ResultAt, NoCalls
<1>9. BackupExact BY DEF BackupExact
<1>. QED BY <1>1, <1>3, <1>4, <1>6, <1>7, <1>8, <1>9 DEF Inv

-----------------------------------------------------------------------------
(* What holds whenever a conductor leads. *)
LEMMA Primary ==
  ASSUME Inv, NEW c \in Conductors, Leads(c)
  PROVE  /\ \A d \in Conductors : Leads(d) => d = c
         /\ file[c] = Empty /\ peer[c] = "none" /\ inbox[c] = <<>>
BY DEF Inv, RolesOK, FileOK, Leads, Backup

(* A step of the primary that leaves the backups alone. *)
LEMMA PrimaryFrame ==
  ASSUME Inv, NEW c \in Conductors, Leads(c), UNCHANGED <<role, file, sync>>,
         table' \in Tables, \A d \in Conductors : d # c => table'[d] = table[d]
  PROVE  RolesOK' /\ FileOK' /\ HelloOK' /\ BackupExact'
<1>. USE DEF sync
<1>1. file[c] = Empty /\ peer[c] = "none" /\ inbox[c] = <<>> BY Primary
<1>2. RolesOK' BY DEF Inv, RolesOK, Leads, Backup
<1>3. FileOK' /\ HelloOK' BY <1>1 DEF Inv, FileOK, HelloOK, Listed
<1>4. BackupExact'
  <2>1. \A b \in Conductors : peer[b] = "auth" => table'[b] = table[b] BY <1>1
  <2>. QED BY <2>1 DEF Inv, BackupExact, In
<1>. QED BY <1>2, <1>3, <1>4

LEMMA PrimaryRecords ==
  ASSUME Inv, NEW c \in Conductors, NEW j \in Jobs, UNCHANGED <<file, inbox>>,
         \A d \in Conductors : d # c => table'[d] = table[d],
         NEW s \in States, NEW x \in Codes, Recorded(j, s, x)'
  PROVE  Recorded(j, s, x) \/ Is(table'[c][j], s, x)
BY DEF Recorded, Is, In

(* The jobs such a step is not about. *)
LEMMA OtherJob ==
  ASSUME Inv, NEW c \in Conductors, Leads(c), UNCHANGED <<role, file, inbox>>,
         \A d \in Conductors : d # c => table'[d] = table[d],
         NEW k \in Jobs, Is(table'[c][k], table[c][k].state, table[c][k].code),
         origin'[k] = k => origin[k] = k,
         UNCHANGED <<starting[k], log[k], actions[k], sat[k], runs[k], db[k], cut[k], open[k]>>
  PROVE  (origin'[k] = k => UsedAt(k)') /\ LaunchesAt(k)' /\ ResultAt(k)'
<1>. USE DEF Is, Leads
<1>1. ASSUME NEW s \in States, NEW x \in Codes, Recorded(k, s, x)' PROVE Recorded(k, s, x)
  <2>1. CASE Is(table'[c][k], s, x) BY <2>1 DEF Recorded
  <2>. QED BY <1>1, <2>1, PrimaryRecords
<1>2. \A d \in Conductors : /\ Leads(d)' => Leads(d)
                            /\ Leads(d) => table'[d][k].state = table[d][k].state
                                           /\ table'[d][k].code = table[d][k].code
  OBVIOUS
<1>3. origin'[k] = k => UsedAt(k)' BY <1>1 DEF Inv, UsedOK, UsedAt
<1>4. LaunchesAt(k)' BY <1>2 DEF Inv, LaunchesOK, LaunchesAt
<1>5. \A x \in Codes : Final(k, x)' => Final(k, x)
  BY <1>1, <1>2 DEF Final, Pending, States
<1>6. Settled(k) => Settled(k)' BY <1>2 DEF Settled
<1>7. ResultAt(k)' BY <1>5, <1>6 DEF Inv, ResultsOK, ResultAt
<1>. QED BY <1>3, <1>4, <1>7

(* All jobs, after a step of the primary about some of them. *)
LEMMA OtherJobs ==
  ASSUME Inv, NEW c \in Conductors, Leads(c), NEW S \in SUBSET Jobs,
         UNCHANGED <<role, file, inbox, cut, open>>,
         \A d \in Conductors : d # c => table'[d] = table[d],
         \A k \in Jobs \ S :
           /\ table'[c][k] = table[c][k] /\ origin'[k] = origin[k]
           /\ UNCHANGED <<starting[k], log[k], actions[k], sat[k], runs[k], db[k]>>,
         \A j \in S : (origin'[j] = j => UsedAt(j)') /\ LaunchesAt(j)' /\ ResultAt(j)'
  PROVE  UsedOK' /\ LaunchesOK' /\ ResultsOK'
<1>1. ASSUME NEW k \in Jobs \ S
      PROVE  (origin'[k] = k => UsedAt(k)') /\ LaunchesAt(k)' /\ ResultAt(k)'
  <2>1. Is(table'[c][k], table[c][k].state, table[c][k].code) BY <1>1 DEF Is
  <2>2. origin'[k] = k => origin[k] = k BY <1>1
  <2>3. UNCHANGED <<starting[k], log[k], actions[k], sat[k], runs[k], db[k], cut[k], open[k]>>
    BY <1>1
  <2>. QED BY <2>1, <2>2, <2>3, OtherJob
<1>. QED BY <1>1 DEF UsedOK, LaunchesOK, ResultsOK

(* A job that is neither unknown to the primary nor complete has no result. *)
LEMMA Unfinished ==
  ASSUME Inv, NEW c \in Conductors, Leads(c), NEW j \in Jobs, open[j] = 0,
         table[c][j].state \notin {"none", "complete"}
  PROVE  /\ \A x \in Codes : ~Final(j, x)
         /\ db[j] = "none" /\ cut[j] = 0 /\ ~(log[j] > 0) /\ ~(actions[j] > 0)
<1>1. ~Settled(j) BY DEF Settled
<1>2. (\A x \in Codes : ~Final(j, x)) /\ db[j] = "none" /\ cut[j] = 0
  BY <1>1 DEF Inv, ResultsOK, ResultAt
<1>3. table[c][j].code \in Codes BY RecordFields DEF Inv, TypeOK
<1>. QED BY <1>2, <1>3 DEF Final, Pending

(* Such a job goes on, or gets its result. *)
LEMMA Progress ==
  ASSUME Inv, NEW c \in Conductors, Leads(c), NEW j \in Jobs,
         table[c][j].state \notin {"none", "complete"},
         UNCHANGED <<role, file, inbox, cut, open, db[j], actions[j]>>,
         \A d \in Conductors : d # c => table'[d] = table[d],
         table'[c][j].state \in States,
         log'[j] > 0 => log[j] > 0 \/ table'[c][j].state = "complete",
         table'[c][j].state = "complete" /\ table'[c][j].code \in {"ok", "error"} => ~sat'[j]
  PROVE  ResultAt(j)'
<1>. SUFFICES ASSUME open[j] = 0 PROVE ResultAt(j)' BY DEF ResultAt
<1>1. (\A x \in Codes : ~Final(j, x)) /\ db[j] = "none" /\ cut[j] = 0
      /\ ~(log[j] > 0) /\ ~(actions[j] > 0)
  BY Unfinished
<1>2. \A d \in Conductors : Leads(d)' => d = c BY Primary DEF Leads
<1>3. ASSUME NEW x \in Codes, Final(j, x)'
      PROVE  x = table'[c][j].code /\ table'[c][j].state = "complete"
  <2>1. CASE Recorded(j, "complete", x)'
    <3>1. "complete" \in States BY DEF States
    <3>2. ~Recorded(j, "complete", x) BY <1>1 DEF Final
    <3>. QED BY <2>1, <3>1, <3>2, PrimaryRecords DEF Is
  <2>2. CASE \E d \in Conductors : (Leads(d) /\ table[d][j].code = x /\ Pending(d, j))'
    BY <1>1, <1>2, <2>2 DEF Pending, States
  <2>3. CASE db'[j] \in {"ok", "error"} BY <1>1, <2>3
  <2>. QED BY <1>3, <2>1, <2>2, <2>3 DEF Final
<1>4. (\E x \in Codes : Final(j, x)') => Settled(j)' BY <1>2, <1>3 DEF Settled
<1>. QED BY <1>1, <1>3, <1>4 DEF ResultAt

(* A job that is unknown to the primary or complete keeps its result. *)
LEMMA Keeps ==
  ASSUME Inv, NEW c \in Conductors, Leads(c), NEW j \in Jobs,
         table[c][j].state \in {"none", "complete"},
         UNCHANGED <<role, file, inbox, cut, open>>,
         \A d \in Conductors : d # c => table'[d] = table[d],
         table'[c][j].state \in {"none", table[c][j].state},
         table'[c][j].code = table[c][j].code,
         Pending(c, j)' => Pending(c, j) \/ table[c][j].state = "complete",
         sat'[j] => sat[j],
         open[j] = 0 =>
           \/ db'[j] = db[j]
           \/ db'[j] = Stored(table[c][j].code) /\ Pending(c, j)
           \/ db'[j] = "warning" /\ ~sat'[j]
  PROVE  ResultAt(j)'
<1>. SUFFICES ASSUME open[j] = 0 PROVE ResultAt(j)' BY DEF ResultAt
<1>1. \A d \in Conductors : Leads(d)' => d = c BY Primary DEF Leads
<1>2. Settled(j)' BY <1>1 DEF Settled
<1>3. table[c][j].code \in Codes BY RecordFields DEF Inv, TypeOK
<1>4. ASSUME NEW x \in Codes, Final(j, x)' PROVE Final(j, x)
  <2>1. CASE Recorded(j, "complete", x)'
    <3>1. "complete" \in States BY DEF States
    <3>2. Is(table'[c][j], "complete", x) => Recorded(j, "complete", x) BY DEF Is, Recorded
    <3>. QED BY <2>1, <3>1, <3>2, PrimaryRecords DEF Final
  <2>2. CASE \E d \in Conductors : (Leads(d) /\ table[d][j].code = x /\ Pending(d, j))'
    <3>1. Pending(c, j)' /\ table[c][j].code = x BY <1>1, <2>2
    <3>2. CASE Pending(c, j) BY <3>1, <3>2 DEF Final
    <3>3. CASE table[c][j].state = "complete" BY <3>1, <3>3 DEF Final, Recorded, Is
    <3>. QED BY <3>1, <3>2, <3>3
  <2>3. CASE db'[j] \in {"ok", "error"} /\ db'[j] = x
    <3>1. CASE db'[j] = db[j] BY <2>3, <3>1 DEF Final
    <3>2. CASE db'[j] = Stored(table[c][j].code) /\ Pending(c, j)
      BY <2>3, <3>2 DEF Final, Stored
    <3>. QED BY <2>3, <3>1, <3>2
  <2>. QED BY <1>4, <2>1, <2>2, <2>3 DEF Final
<1>5. db'[j] = "warning" => ~sat'[j]
  <2>1. Stored(table[c][j].code) # "warning" BY <1>3 DEF Stored, Codes
  <2>. QED BY <2>1 DEF Inv, ResultsOK, ResultAt
<1>. QED BY <1>2, <1>4, <1>5 DEF Inv, ResultsOK, ResultAt

-----------------------------------------------------------------------------
(* The steps of the primary preserve the invariant. *)

Results == {"none", "ok", "error", "abort", "warning"}
LEMMA StepTypes ==
  ASSUME TypeOK, UNCHANGED <<role, file, sync, online, ghosts, faults>>, table' \in Tables,
         starting' \in Calls, log' \in Calls, actions' \in Calls,
         origin' \in [Jobs -> Jobs \cup {NoJob}], sat' \in [Jobs -> BOOLEAN],
         runs' \in [Jobs -> Nat], db' \in [Jobs -> Results]
  PROVE  TypeOK'
<1>1. {starting', log', actions'} \subseteq Calls OBVIOUS
<1>2. {runs', cut', open'} \subseteq [Jobs -> Nat] BY CallTypes DEF ghosts
<1>. QED BY <1>1, <1>2 DEF TypeOK, Tables, Calls, Results, sync, ghosts

LEMMA Typed ==
  ASSUME Inv
  PROVE  /\ TypeOK /\ table \in Tables /\ file \in Tables
         /\ starting \in Calls /\ log \in Calls /\ actions \in Calls
         /\ origin \in [Jobs -> Jobs \cup {NoJob}] /\ sat \in [Jobs -> BOOLEAN]
         /\ runs \in [Jobs -> Nat] /\ db \in [Jobs -> Results] /\ cut \in [Jobs -> Nat]
         /\ open \in [Jobs -> Nat]
BY CallTypes DEF Inv, TypeOK, Tables, Calls, Results

(* A job that is recorded, or has a call under way, was launched. *)
LEMMA Known ==
  ASSUME Inv, NEW c \in Conductors, NEW j \in Jobs,
         table[c][j].state # "none" \/ starting[j] > 0 \/ log[j] > 0 \/ actions[j] > 0
  PROVE  origin[j] # j
<1>1. table[c][j].state \in States \cup {"none"} /\ table[c][j].code \in Codes
  BY Typed, RecordFields DEF Tables
<1>2. table[c][j].state # "none" => Recorded(j, table[c][j].state, table[c][j].code)
  BY DEF Recorded, Is
<1>. QED BY <1>1, <1>2 DEF Inv, UsedOK, UsedAt

(* A new job has nothing behind it. *)
LEMMA Launched ==
  ASSUME Inv, NEW c \in Conductors, Leads(c), NEW n \in Jobs, origin[n] = n,
         UNCHANGED <<role, file, inbox, cut, open, runs[n], starting[n], log[n], actions[n],
                     db[n], sat[n]>>,
         \A d \in Conductors : d # c => table'[d] = table[d], table'[c][n] = New
  PROVE  LaunchesAt(n)' /\ ResultAt(n)'
<1>1. UsedAt(n) BY DEF Inv, UsedOK
<1>2. \A d \in Conductors : Leads(d)' => d = c BY Primary DEF Leads
<1>3. cut[n] \in Nat BY Typed
<1>4. LaunchesAt(n)' BY <1>1, <1>2, <1>3 DEF LaunchesAt, UsedAt
<1>5. ASSUME NEW x \in Codes PROVE ~Final(n, x)'
  <2>1. "complete" \in States BY DEF States
  <2>2. ~Recorded(n, "complete", x)' BY <1>1, <2>1, PrimaryRecords, NoRecordType DEF UsedAt, Is
  <2>3. ~\E d \in Conductors : (Leads(d) /\ table[d][n].code = x /\ Pending(d, n))'
    BY <1>1 DEF UsedAt, Pending
  <2>4. db'[n] = "none" BY <1>1 DEF UsedAt
  <2>. QED BY <2>2, <2>3, <2>4 DEF Final
<1>6. ResultAt(n)'
  <2>1. db'[n] = "none" BY <1>1 DEF UsedAt
  <2>2. open[n] = 0 => cut[n] = 0 BY DEF Inv, ResultsOK, ResultAt
  <2>. QED BY <1>5, <2>1, <2>2 DEF ResultAt
<1>. QED BY <1>4, <1>6

LEMMA LaunchJobInv == ASSUME Inv, NEW c \in Conductors, LaunchJob(c) PROVE Inv'
<1>1. /\ Leads(c)
      /\ UNCHANGED <<role, file, sync, calls, satellite, db, ghosts, faults>>
  BY DEF LaunchJob
<1>2. PICK n \in Jobs : NewJob(n) /\ origin' = [origin EXCEPT ![n] = NoJob] /\ Put(c, n, New)
  BY DEF LaunchJob
<1>. USE <1>1 DEF calls, satellite, ghosts, sync
<1>3. /\ table' \in Tables /\ table'[c][n] = New
      /\ \A k \in Jobs : k # n => table'[c][k] = table[c][k]
      /\ \A d \in Conductors : d # c => table'[d] = table[d]
  BY <1>2, Typed, PutFacts, NoRecordType
<1>4. /\ origin' \in [Jobs -> Jobs \cup {NoJob}] /\ origin'[n] # n /\ origin[n] = n
      /\ \A k \in Jobs : k # n => origin'[k] = origin[k]
  BY <1>2, Typed, FailoverAssumption DEF NewJob, Unused
<1>5. TypeOK' BY <1>3, <1>4, Typed, StepTypes
<1>6. RolesOK' /\ FileOK' /\ HelloOK' /\ BackupExact' BY <1>3, PrimaryFrame
<1>7. LaunchesAt(n)' /\ ResultAt(n)' BY <1>3, <1>4, Launched
<1>8. UsedOK' /\ LaunchesOK' /\ ResultsOK'
  <2>. DEFINE S == {n}
  <2>1. \A j \in S : (origin'[j] = j => UsedAt(j)') /\ LaunchesAt(j)' /\ ResultAt(j)'
    BY <1>4, <1>7
  <2>2. \A k \in Jobs \ S :
           /\ table'[c][k] = table[c][k] /\ origin'[k] = origin[k]
           /\ UNCHANGED <<starting[k], log[k], actions[k], sat[k], runs[k], db[k]>>
    BY <1>3, <1>4
  <2>3. S \in SUBSET Jobs OBVIOUS
  <2>. HIDE DEF S
  <2>. QED BY <1>3, <2>1, <2>2, <2>3, OtherJobs
<1>. QED BY <1>5, <1>6, <1>8 DEF Inv

(* What the actions about one job j that is known have in common. *)
LEMMA OneJob ==
  ASSUME Inv, NEW c \in Conductors, Leads(c), NEW j \in Jobs, NEW r \in Record,
         UNCHANGED <<role, file, sync, online, origin, ghosts, faults>>,
         table' \in Tables, table'[c][j] = r,
         \A k \in Jobs : k # j => table'[c][k] = table[c][k],
         \A d \in Conductors : d # c => table'[d] = table[d],
         starting' \in Calls, log' \in Calls, actions' \in Calls, sat' \in [Jobs -> BOOLEAN],
         runs' \in [Jobs -> Nat], db' \in [Jobs -> Results],
         \A k \in Jobs : k # j =>
           UNCHANGED <<starting[k], log[k], actions[k], sat[k], runs[k], db[k]>>,
         origin[j] = j => UsedAt(j)', LaunchesAt(j)', ResultAt(j)'
  PROVE  Inv'
<1>1. TypeOK' BY Typed, StepTypes
<1>2. RolesOK' /\ FileOK' /\ HelloOK' /\ BackupExact' BY PrimaryFrame
<1>3. UsedOK' /\ LaunchesOK' /\ ResultsOK'
  <2>. DEFINE S == {j}
  <2>1. \A k \in S : (origin'[k] = k => UsedAt(k)') /\ LaunchesAt(k)' /\ ResultAt(k)'
    OBVIOUS
  <2>2. \A k \in Jobs \ S :
           /\ table'[c][k] = table[c][k] /\ origin'[k] = origin[k]
           /\ UNCHANGED <<starting[k], log[k], actions[k], sat[k], runs[k], db[k]>>
    OBVIOUS
  <2>3. S \in SUBSET Jobs /\ UNCHANGED <<inbox, cut, open>> BY DEF sync, ghosts
  <2>. HIDE DEF S
  <2>. QED BY <2>1, <2>2, <2>3, OtherJobs
<1>. QED BY <1>1, <1>2, <1>3 DEF Inv

(* No launch is added by a step that does not make the job ready. *)
LEMMA LaunchesKept ==
  ASSUME Inv, NEW c \in Conductors, Leads(c), NEW j \in Jobs, UNCHANGED <<role, cut>>,
         runs'[j] \in Nat, starting'[j] \in Nat,
         runs'[j] + starting'[j] <= runs[j] + starting[j],
         table'[c][j].state = "ready" => table[c][j].state = "ready"
  PROVE  LaunchesAt(j)'
<1>1. \A d \in Conductors : Leads(d)' => d = c BY Primary DEF Leads
<1>2. /\ LaunchesAt(j)
      /\ runs[j] \in Nat /\ starting[j] \in Nat /\ cut[j] \in Nat
  BY CallTypes DEF Inv, LaunchesOK
<1>3. runs'[j] + starting'[j] <= 1 + cut[j] BY <1>2 DEF LaunchesAt
<1>4. table'[c][j].state = "ready" => runs'[j] + starting'[j] <= cut[j]
  <2>1. table[c][j].state = "ready" => runs[j] + starting[j] <= cut[j] BY <1>2 DEF LaunchesAt
  <2>. QED BY <1>2, <2>1
<1>. QED BY <1>1, <1>3, <1>4 DEF LaunchesAt

LEMMA StartJobInv == ASSUME Inv, NEW c \in Conductors, NEW j \in Jobs, StartJob(c, j) PROVE Inv'
<1>. DEFINE r == [table[c][j] EXCEPT !.state = "starting"]
<1>1. /\ Leads(c) /\ table[c][j].state = "ready" /\ starting[j] < MaxCalls
      /\ Put(c, j, r) /\ starting' = Add(starting, j)
      /\ UNCHANGED <<role, file, sync, log, actions, origin, sat, online, runs, db, ghosts, faults>>
  BY DEF StartJob, satellite
<1>2. r \in Record /\ r.state = "starting"
  <2>1. table[c][j] \in Record BY Typed DEF Tables
  <2>. QED BY <2>1 DEF Record, States
<1>. HIDE DEF r
<1>3. /\ table' \in Tables /\ table'[c][j] = r
      /\ \A k \in Jobs : k # j => table'[c][k] = table[c][k]
      /\ \A d \in Conductors : d # c => table'[d] = table[d]
  BY <1>1, <1>2, Typed, PutFacts
<1>4. /\ starting' \in Calls /\ starting'[j] = starting[j] + 1
      /\ \A k \in Jobs : k # j => starting'[k] = starting[k]
  BY <1>1, Typed, AddCall
<1>5. origin[j] # j BY <1>1, Known
<1>6. LaunchesAt(j)'
  <2>1. \A d \in Conductors : Leads(d)' => d = c BY <1>1, Primary DEF Leads
  <2>2. runs[j] + starting[j] <= cut[j] BY <1>1 DEF Inv, LaunchesOK, LaunchesAt
  <2>3. runs[j] \in Nat /\ starting[j] \in Nat /\ cut[j] \in Nat BY CallTypes, Typed
  <2>4. UNCHANGED <<runs, cut>> BY <1>1 DEF ghosts
  <2>5. runs'[j] + starting'[j] <= 1 + cut'[j] BY <1>4, <2>2, <2>3, <2>4
  <2>. QED BY <1>2, <1>3, <2>1, <2>5 DEF LaunchesAt
<1>7. ResultAt(j)'
  <2>1. UNCHANGED <<inbox, cut, open>> BY <1>1 DEF sync, ghosts
  <2>2. "starting" \in States BY DEF States
  <2>. QED BY <1>1, <1>2, <1>3, <2>1, <2>2, Progress
<1>. QED BY <1>1, <1>2, <1>3, <1>4, <1>5, <1>6, <1>7, Typed, OneJob

LEMMA DeadJobInv == ASSUME Inv, NEW c \in Conductors, NEW j \in Jobs, DeadJob(c, j) PROVE Inv'
<1>. DEFINE r == Finished(table[c][j], "dead")
<1>1. /\ Leads(c) /\ table[c][j].state = "active" /\ log[j] < MaxCalls
      /\ Put(c, j, r) /\ log' = Add(log, j)
      /\ UNCHANGED <<role, file, sync, starting, actions, origin, sat, online, runs, db,
                     ghosts, faults>>
  BY DEF DeadJob, FinishJob, satellite
<1>2. r \in Record /\ r.state = "complete" /\ r.code = "dead"
  <2>1. table[c][j] \in Record /\ "dead" \in Codes BY Typed DEF Tables, Codes
  <2>. QED BY <1>1, <2>1, RecordMade DEF Is
<1>. HIDE DEF r
<1>3. /\ table' \in Tables /\ table'[c][j] = r
      /\ \A k \in Jobs : k # j => table'[c][k] = table[c][k]
      /\ \A d \in Conductors : d # c => table'[d] = table[d]
  BY <1>1, <1>2, Typed, PutFacts
<1>4. log' \in Calls /\ \A k \in Jobs : k # j => log'[k] = log[k]
  BY <1>1, Typed, AddCall
<1>5. origin[j] # j BY <1>1, Known
<1>6. UNCHANGED <<inbox, cut, open>> BY <1>1 DEF sync, ghosts
<1>7. LaunchesAt(j)' BY <1>1, <1>2, <1>3, <1>6, CallTypes, Typed, LaunchesKept
<1>8. ResultAt(j)'
  <2>2. "complete" \in States BY DEF States
  <2>. QED BY <1>1, <1>2, <1>3, <1>6, <2>2, Progress
<1>. QED BY <1>1, <1>2, <1>3, <1>4, <1>5, <1>7, <1>8, Typed, OneJob

LEMMA UpdateInv == ASSUME Inv, NEW c \in Conductors, NEW j \in Jobs, Update(c, j) PROVE Inv'
<1>. DEFINE r == Running(table[c][j])
<1>1. /\ Leads(c) /\ table[c][j].state \notin {"none", "complete"} /\ Put(c, j, r)
      /\ UNCHANGED <<role, file, sync, starting, log, actions, origin, sat, online, runs, db,
                     ghosts, faults>>
  BY DEF Update, calls, satellite
<1>2. r \in Record /\ r.state = "active"
  <2>1. table[c][j] \in Record BY Typed DEF Tables
  <2>. QED BY <2>1, RecordMade DEF Is
<1>. HIDE DEF r
<1>3. /\ table' \in Tables /\ table'[c][j] = r
      /\ \A k \in Jobs : k # j => table'[c][k] = table[c][k]
      /\ \A d \in Conductors : d # c => table'[d] = table[d]
  BY <1>1, <1>2, Typed, PutFacts
<1>4. origin[j] # j BY <1>1, Known
<1>5. UNCHANGED <<inbox, cut, open>> BY <1>1 DEF sync, ghosts
<1>6. LaunchesAt(j)' BY <1>1, <1>2, <1>3, <1>5, CallTypes, Typed, LaunchesKept
<1>7. ResultAt(j)'
  <2>2. "active" \in States BY DEF States
  <2>. QED BY <1>1, <1>2, <1>3, <1>5, <2>2, Progress
<1>. QED BY <1>1, <1>2, <1>3, <1>4, <1>6, <1>7, Typed, OneJob

LEMMA StartedInv == ASSUME Inv, NEW c \in Conductors, NEW j \in Jobs, Started(c, j) PROVE Inv'
<1>1. /\ Leads(c) /\ starting[j] > 0 /\ log[j] < MaxCalls /\ starting' = Sub(starting, j)
      /\ UNCHANGED <<role, file, sync, actions, origin, online, db, ghosts, faults>>
  BY DEF Started, Outstanding
<1>2. /\ starting' \in Calls /\ starting'[j] = starting[j] - 1
      /\ \A k \in Jobs : k # j => starting'[k] = starting[k]
  BY <1>1, Typed, SubCall
<1>3. origin[j] # j BY <1>1, Known
<1>4. UNCHANGED <<inbox, cut, open>> BY <1>1 DEF sync, ghosts
<1>5. table[c][j] \in Record /\ table[c][j].code \in Codes BY Typed, RecordFields DEF Tables
<1>6. starting[j] \in Nat /\ runs[j] \in Nat /\ starting'[j] \in Nat BY <1>1, <1>2, CallTypes, Typed
<1>7. ASSUME NEW code \in Codes, FinishJob(c, j, code), UNCHANGED <<sat, runs>>,
             \/ table[c][j].state \in {"complete", "none"} /\ code = table[c][j].code
             \/ table[c][j].state \notin {"complete", "none"} /\ code = "abort"
      PROVE  Inv'
  <2>. DEFINE r == Finished(table[c][j], code)
  <2>1. /\ r \in Record /\ r.code = code
        /\ r.state = IF table[c][j].state = "none" THEN "none" ELSE "complete"
    BY <1>5, RecordMade DEF Is
  <2>2. Put(c, j, r) /\ log' = Add(log, j) BY <1>7 DEF FinishJob
  <2>. HIDE DEF r
  <2>3. /\ table' \in Tables /\ table'[c][j] = r
        /\ \A k \in Jobs : k # j => table'[c][k] = table[c][k]
        /\ \A d \in Conductors : d # c => table'[d] = table[d]
    BY <2>1, <2>2, Typed, PutFacts
  <2>4. log' \in Calls /\ \A k \in Jobs : k # j => log'[k] = log[k]
    BY <1>1, <2>2, Typed, AddCall
  <2>5. LaunchesAt(j)'
    <3>1. runs'[j] \in Nat /\ runs'[j] + starting'[j] <= runs[j] + starting[j]
      BY <1>2, <1>6, <1>7
    <3>2. UNCHANGED <<role, cut>> BY <1>1, <1>4
    <3>3. table'[c][j].state # "ready" BY <2>1, <2>3
    <3>. QED BY <1>1, <1>6, <3>1, <3>2, <3>3, LaunchesKept
  <2>6. ResultAt(j)'
    <3>1. CASE table[c][j].state \in {"complete", "none"}
      <4>1. Pending(c, j)' => Pending(c, j) \/ table[c][j].state = "complete"
        BY <1>1, <3>1 DEF Pending
      <4>2. UNCHANGED <<role, file, inbox, cut, open>> /\ db'[j] = db[j] BY <1>1, <1>4
      <4>3. /\ table'[c][j].state \in {"none", table[c][j].state}
            /\ table'[c][j].code = table[c][j].code
        BY <1>7, <2>1, <2>3, <3>1
      <4>4. sat'[j] => sat[j] BY <1>7
      <4>. QED BY <1>1, <2>3, <3>1, <4>1, <4>2, <4>3, <4>4, Keeps
    <3>2. CASE table[c][j].state \notin {"complete", "none"}
      <4>1. table'[c][j].state = "complete" /\ table'[c][j].code = "abort"
        BY <1>7, <2>1, <2>3, <3>2
      <4>2. "complete" \in States BY DEF States
      <4>3. UNCHANGED <<role, file, inbox, cut, open, db[j], actions[j]>> BY <1>1, <1>4
      <4>. QED BY <1>1, <2>3, <3>2, <4>1, <4>2, <4>3, Progress
    <3>. QED BY <3>1, <3>2
  <2>7. actions' \in Calls /\ sat' \in [Jobs -> BOOLEAN] /\ runs' \in [Jobs -> Nat]
        /\ db' \in [Jobs -> Results]
    BY <1>1, <1>7, Typed
  <2>8. \A k \in Jobs : k # j =>
           UNCHANGED <<starting[k], log[k], actions[k], sat[k], runs[k], db[k]>>
    BY <1>1, <1>2, <1>7, <2>4
  <2>. QED BY <1>1, <1>2, <1>3, <2>1, <2>3, <2>4, <2>5, <2>6, <2>7, <2>8, OneJob
<1>8. CASE table[c][j].state \in {"complete", "none"}
  BY <1>5, <1>7, <1>8 DEF Started
<1>9. CASE table[c][j].state \notin {"complete", "none"} /\ ~online
  <2>1. "abort" \in Codes BY DEF Codes
  <2>. QED BY <1>7, <1>9, <2>1 DEF Started
<1>10. CASE table[c][j].state \notin {"complete", "none"} /\ online
  <2>. DEFINE r == Running(table[c][j])
  <2>1. /\ Put(c, j, r) /\ sat' = [sat EXCEPT ![j] = TRUE] /\ runs' = Add(runs, j) /\ UNCHANGED log
    BY <1>10 DEF Started
  <2>2. r \in Record /\ r.state = "active" BY <1>5, RecordMade DEF Is
  <2>. HIDE DEF r
  <2>3. /\ table' \in Tables /\ table'[c][j] = r
        /\ \A k \in Jobs : k # j => table'[c][k] = table[c][k]
        /\ \A d \in Conductors : d # c => table'[d] = table[d]
    BY <2>1, <2>2, Typed, PutFacts
  <2>4. /\ runs' \in [Jobs -> Nat] /\ runs'[j] = runs[j] + 1
        /\ \A k \in Jobs : k # j => runs'[k] = runs[k]
    BY <2>1, Typed, AddNat
  <2>5. sat' \in [Jobs -> BOOLEAN] /\ \A k \in Jobs : k # j => sat'[k] = sat[k]
    BY <2>1, Typed
  <2>6. LaunchesAt(j)'
    <3>1. runs'[j] \in Nat /\ runs'[j] + starting'[j] <= runs[j] + starting[j]
      BY <1>2, <1>6, <2>4
    <3>2. UNCHANGED <<role, cut>> BY <1>1, <1>4
    <3>3. table'[c][j].state # "ready" BY <2>2, <2>3
    <3>. QED BY <1>1, <1>6, <3>1, <3>2, <3>3, LaunchesKept
  <2>7. ResultAt(j)'
    <3>1. "active" \in States BY DEF States
    <3>2. UNCHANGED <<role, file, inbox, cut, open, db[j], actions[j]>> BY <1>1, <1>4
    <3>. QED BY <1>1, <1>10, <2>1, <2>2, <2>3, <3>1, <3>2, Progress
  <2>8. log' \in Calls /\ actions' \in Calls /\ db' \in [Jobs -> Results] BY <1>1, <2>1, Typed
  <2>9. \A k \in Jobs : k # j =>
           UNCHANGED <<starting[k], log[k], actions[k], sat[k], runs[k], db[k]>>
    BY <1>1, <1>2, <2>1, <2>4, <2>5
  <2>. QED BY <1>1, <1>2, <1>3, <2>2, <2>3, <2>4, <2>5, <2>6, <2>7, <2>8, <2>9, OneJob
<1>. QED BY <1>8, <1>9, <1>10

LEMMA ReportInv == ASSUME Inv, NEW c \in Conductors, NEW j \in Jobs, Report(c, j) PROVE Inv'
<1>1. /\ Leads(c) /\ sat[j] /\ log[j] < MaxCalls /\ sat' = [sat EXCEPT ![j] = FALSE]
      /\ UNCHANGED <<role, file, sync, starting, actions, origin, online, runs, ghosts, faults>>
  BY DEF Report
<1>2. sat' \in [Jobs -> BOOLEAN] /\ ~sat'[j] /\ \A k \in Jobs : k # j => sat'[k] = sat[k]
  BY <1>1, Typed
<1>3. origin[j] # j BY <1>1 DEF Inv, UsedOK, UsedAt
<1>4. UNCHANGED <<inbox, cut, open>> BY <1>1 DEF sync, ghosts
<1>5. table[c][j] \in Record BY Typed DEF Tables
<1>6. runs[j] \in Nat /\ starting[j] \in Nat BY CallTypes, Typed
<1>7. PICK code \in {"ok", "error"} :
       \/ /\ table[c][j].state = "none"
          /\ db' = [db EXCEPT ![j] = LateResult(j, code)] /\ UNCHANGED <<table, log>>
       \/ /\ table[c][j].state = "complete" /\ UNCHANGED <<table, log, db>>
       \/ /\ table[c][j].state \notin {"none", "complete"}
          /\ FinishJob(c, j, code) /\ UNCHANGED db
  BY DEF Report
<1>8. CASE table[c][j].state \in {"none", "complete"}
  <2>1. UNCHANGED <<table, log>> BY <1>7, <1>8
  <2>2. /\ db' \in [Jobs -> Results] /\ \A k \in Jobs : k # j => db'[k] = db[k]
        /\ db'[j] = db[j] \/ (table[c][j].state = "none" /\ db'[j] = LateResult(j, code))
    BY <1>7, <1>8, Typed DEF LateResult, Results
  <2>3. open[j] = 0 => db'[j] = db[j] \/ (db'[j] = "warning" /\ ~sat'[j])
    <3>. SUFFICES ASSUME open[j] = 0, db'[j] = LateResult(j, code)
                  PROVE  db'[j] = db[j] \/ db'[j] = "warning"
      BY <1>2, <2>2
    <3>1. db[j] # "warning" BY <1>1 DEF Inv, ResultsOK, ResultAt
    <3>2. db[j] \notin {"ok", "error"}
      <4>1. \A x \in {"ok", "error"} : x \in Codes BY DEF Codes
      <4>. QED BY <1>1, <4>1 DEF Inv, ResultsOK, ResultAt, Final
    <3>3. db[j] \in Results BY Typed
    <3>. QED BY <3>1, <3>2, <3>3 DEF LateResult, Results
  <2>4. LaunchesAt(j)'
    <3>1. runs'[j] = runs[j] /\ starting'[j] = starting[j] BY <1>1
    <3>. QED BY <1>1, <1>4, <1>6, <2>1, <3>1, LaunchesKept
  <2>5. ResultAt(j)'
    <3>1. Pending(c, j)' => Pending(c, j) BY <1>1, <2>1 DEF Pending
    <3>. QED BY <1>1, <1>2, <1>4, <1>8, <2>1, <2>3, <3>1, Keeps
  <2>6. /\ table' \in Tables /\ table'[c][j] = table[c][j] /\ log' \in Calls
        /\ starting' \in Calls /\ actions' \in Calls /\ runs' \in [Jobs -> Nat]
    BY <1>1, <2>1, Typed
  <2>7. \A k \in Jobs : k # j =>
           UNCHANGED <<starting[k], log[k], actions[k], sat[k], runs[k], db[k]>>
    BY <1>1, <1>2, <2>1, <2>2
  <2>. QED BY <1>1, <1>2, <1>3, <1>5, <2>1, <2>2, <2>4, <2>5, <2>6, <2>7, OneJob
<1>9. CASE table[c][j].state \notin {"none", "complete"}
  <2>. DEFINE r == Finished(table[c][j], code)
  <2>1. r \in Record /\ r.state = "complete" /\ r.code = code
    <3>1. code \in Codes BY DEF Codes
    <3>. QED BY <1>5, <1>9, <3>1, RecordMade DEF Is
  <2>2. Put(c, j, r) /\ log' = Add(log, j) /\ UNCHANGED db BY <1>7, <1>9 DEF FinishJob
  <2>. HIDE DEF r
  <2>3. /\ table' \in Tables /\ table'[c][j] = r
        /\ \A k \in Jobs : k # j => table'[c][k] = table[c][k]
        /\ \A d \in Conductors : d # c => table'[d] = table[d]
    BY <2>1, <2>2, Typed, PutFacts
  <2>4. log' \in Calls /\ \A k \in Jobs : k # j => log'[k] = log[k]
    BY <1>1, <2>2, Typed, AddCall
  <2>5. LaunchesAt(j)'
    <3>1. runs'[j] = runs[j] /\ starting'[j] = starting[j] BY <1>1
    <3>2. table'[c][j].state # "ready" BY <2>1, <2>3
    <3>. QED BY <1>1, <1>4, <1>6, <3>1, <3>2, LaunchesKept
  <2>6. ResultAt(j)'
    <3>1. "complete" \in States BY DEF States
    <3>2. UNCHANGED <<role, file, inbox, cut, open, db[j], actions[j]>> BY <1>1, <1>4, <2>2
    <3>. QED BY <1>1, <1>2, <1>9, <2>1, <2>3, <3>1, <3>2, Progress
  <2>7. /\ starting' \in Calls /\ actions' \in Calls /\ runs' \in [Jobs -> Nat]
        /\ db' \in [Jobs -> Results]
    BY <1>1, <2>2, Typed
  <2>8. \A k \in Jobs : k # j =>
           UNCHANGED <<starting[k], log[k], actions[k], sat[k], runs[k], db[k]>>
    BY <1>1, <1>2, <2>2, <2>4
  <2>. QED BY <1>1, <1>2, <1>3, <2>1, <2>3, <2>4, <2>5, <2>6, <2>7, <2>8, OneJob
<1>. QED BY <1>8, <1>9

LEMMA IndexedInv == ASSUME Inv, NEW c \in Conductors, NEW j \in Jobs, Indexed(c, j) PROVE Inv'
<1>. DEFINE r == [table[c][j] EXCEPT !.state = "none"]
<1>1. /\ Leads(c) /\ actions[j] > 0 /\ actions' = Sub(actions, j)
      /\ db' = [db EXCEPT ![j] = Stored(table[c][j].code)] /\ Put(c, j, r)
      /\ UNCHANGED <<role, file, sync, starting, log, origin, sat, online, runs, ghosts, faults>>
  BY DEF Indexed, satellite
<1>2. table[c][j] \in Record /\ table[c][j].code \in Codes
      /\ table[c][j].state \in States \cup {"none"}
  BY Typed, RecordFields DEF Tables
<1>3. r \in Record /\ r.state = "none" /\ r.code = table[c][j].code
  BY <1>2 DEF Record
<1>. HIDE DEF r
<1>4. /\ table' \in Tables /\ table'[c][j] = r
      /\ \A k \in Jobs : k # j => table'[c][k] = table[c][k]
      /\ \A d \in Conductors : d # c => table'[d] = table[d]
  BY <1>1, <1>3, Typed, PutFacts
<1>5. actions' \in Calls /\ \A k \in Jobs : k # j => actions'[k] = actions[k]
  BY <1>1, Typed, SubCall
<1>6. /\ db' \in [Jobs -> Results] /\ db'[j] = Stored(table[c][j].code)
      /\ \A k \in Jobs : k # j => db'[k] = db[k]
  BY <1>1, <1>2, Typed DEF Results, Stored, Codes
<1>7. origin[j] # j BY <1>1, Known
<1>8. UNCHANGED <<inbox, cut, open>> BY <1>1 DEF sync, ghosts
<1>9. LaunchesAt(j)'
  <2>1. runs'[j] = runs[j] /\ starting'[j] = starting[j] BY <1>1
  <2>2. runs[j] \in Nat /\ starting[j] \in Nat BY CallTypes, Typed
  <2>3. table'[c][j].state # "ready" BY <1>3, <1>4
  <2>. QED BY <1>1, <1>8, <2>1, <2>2, <2>3, LaunchesKept
<1>10. ResultAt(j)'
  <2>1. Pending(c, j) BY <1>1 DEF Pending
  <2>2. CASE open[j] = 0
    <3>1. Final(j, table[c][j].code) BY <1>1, <2>1 DEF Final
    <3>2. table[c][j].state \in {"none", "complete"}
      BY <1>1, <1>2, <2>2, <3>1 DEF Inv, ResultsOK, ResultAt, Settled
    <3>3. /\ table'[c][j].state \in {"none", table[c][j].state}
          /\ table'[c][j].code = table[c][j].code
      BY <1>3, <1>4
    <3>. QED BY <1>1, <1>4, <1>6, <1>8, <2>1, <3>2, <3>3, Keeps
  <2>3. CASE open[j] # 0 BY <1>8, <2>3 DEF ResultAt
  <2>. QED BY <2>2, <2>3
<1>11. starting' \in Calls /\ log' \in Calls /\ sat' \in [Jobs -> BOOLEAN]
       /\ runs' \in [Jobs -> Nat]
  BY <1>1, Typed
<1>12. \A k \in Jobs : k # j =>
         UNCHANGED <<starting[k], log[k], actions[k], sat[k], runs[k], db[k]>>
  BY <1>1, <1>5, <1>6
<1>. QED BY <1>1, <1>3, <1>4, <1>5, <1>6, <1>7, <1>9, <1>10, <1>11, <1>12, OneJob

LEMMA LogReadyInv == ASSUME Inv, NEW c \in Conductors, NEW j \in Jobs, LogReady(c, j) PROVE Inv'
<1>1. /\ Leads(c) /\ log[j] > 0 /\ actions[j] < MaxCalls
      /\ log' = Sub(log, j) /\ actions' = Add(actions, j)
      /\ UNCHANGED <<role, file, sync, starting, sat, online, runs, db, ghosts, faults>>
  BY DEF LogReady, satellite
<1>2. /\ log' \in Calls /\ actions' \in Calls
      /\ \A k \in Jobs : k # j => log'[k] = log[k] /\ actions'[k] = actions[k]
  BY <1>1, Typed, AddCall, SubCall
<1>3. UNCHANGED <<inbox, cut, open>> BY <1>1 DEF sync, ghosts
<1>4. origin[j] # j BY <1>1, Known
<1>5. table[c][j] \in Record /\ table[c][j].code \in Codes
      /\ table[c][j].state \in States \cup {"none"}
  BY Typed, RecordFields DEF Tables
<1>6. ASSUME \A d \in Conductors : d # c => table'[d] = table[d],
             Is(table'[c][j], table[c][j].state, table[c][j].code)
      PROVE  LaunchesAt(j)' /\ ResultAt(j)'
  <2>1. /\ table'[c][j].state = table[c][j].state
        /\ table'[c][j].code = table[c][j].code
    BY <1>6 DEF Is
  <2>2. LaunchesAt(j)'
    <3>1. runs'[j] = runs[j] /\ starting'[j] = starting[j] BY <1>1
    <3>2. runs[j] \in Nat /\ starting[j] \in Nat BY CallTypes, Typed
    <3>. QED BY <1>1, <1>3, <2>1, <3>1, <3>2, LaunchesKept
  <2>3. Pending(c, j) BY <1>1 DEF Pending
  <2>4. ResultAt(j)'
    <3>1. CASE open[j] = 0
      <4>1. Final(j, table[c][j].code) BY <1>1, <2>3 DEF Final
      <4>2. table[c][j].state \in {"none", "complete"}
        BY <1>1, <1>5, <3>1, <4>1 DEF Inv, ResultsOK, ResultAt, Settled
      <4>3. sat'[j] = sat[j] /\ db'[j] = db[j] BY <1>1
      <4>. QED BY <1>1, <1>3, <1>6, <2>1, <2>3, <4>2, <4>3, Keeps
    <3>2. CASE open[j] # 0 BY <1>3, <3>2 DEF ResultAt
    <3>. QED BY <3>1, <3>2
  <2>. QED BY <2>2, <2>4
<1>7. CASE UNCHANGED <<origin, table>>
  <2>1. LaunchesAt(j)' /\ ResultAt(j)' BY <1>6, <1>7 DEF Is
  <2>2. /\ table' \in Tables /\ table'[c][j] = table[c][j]
        /\ starting' \in Calls /\ sat' \in [Jobs -> BOOLEAN]
        /\ runs' \in [Jobs -> Nat] /\ db' \in [Jobs -> Results]
    BY <1>1, <1>7, Typed
  <2>3. \A k \in Jobs : k # j =>
           UNCHANGED <<starting[k], log[k], actions[k], sat[k], runs[k], db[k]>>
    BY <1>1, <1>2
  <2>. QED BY <1>1, <1>2, <1>4, <1>5, <1>7, <2>1, <2>2, <2>3, OneJob
<1>8. CASE origin[j] = NoJob /\ \E n \in Jobs :
             /\ NewJob(n)
             /\ origin' = [origin EXCEPT ![n] = j]
             /\ table' = [table EXCEPT ![c] =
                  [table[c] EXCEPT ![n] = New, ![j] = [table[c][j] EXCEPT !.retried = TRUE]]]
  <2>1. PICK n \in Jobs :
             /\ NewJob(n)
             /\ origin' = [origin EXCEPT ![n] = j]
             /\ table' = [table EXCEPT ![c] =
                  [table[c] EXCEPT ![n] = New, ![j] = [table[c][j] EXCEPT !.retried = TRUE]]]
    BY <1>8
  <2>2. origin[n] = n /\ n # j BY <1>4, <2>1 DEF NewJob, Unused
  <2>3. /\ origin' \in [Jobs -> Jobs \cup {NoJob}] /\ origin'[n] = j
        /\ \A k \in Jobs : k # n => origin'[k] = origin[k]
    BY <2>1, Typed
  <2>. DEFINE r == [table[c][j] EXCEPT !.retried = TRUE]
  <2>4. r \in Record /\ Is(r, table[c][j].state, table[c][j].code) BY <1>5, RecordMade
  <2>5. table' = [table EXCEPT ![c] = [table[c] EXCEPT ![n] = New, ![j] = r]] BY <2>1
  <2>. HIDE DEF r
  <2>6. /\ table' \in Tables /\ table'[c][j] = r /\ table'[c][n] = New
        /\ \A k \in Jobs : k # j /\ k # n => table'[c][k] = table[c][k]
        /\ \A d \in Conductors : d # c => table'[d] = table[d]
    BY <2>2, <2>4, <2>5, Typed, NoRecordType DEF Tables
  <2>7. LaunchesAt(j)' /\ ResultAt(j)' BY <1>6, <2>4, <2>6
  <2>8. LaunchesAt(n)' /\ ResultAt(n)'
    <3>1. UNCHANGED <<role, file, inbox, cut, open, runs[n], starting[n], log[n], actions[n],
                      db[n], sat[n]>>
      BY <1>1, <1>2, <1>3, <2>2
    <3>. QED BY <1>1, <2>2, <2>6, <3>1, Launched
  <2>9. TypeOK'
    <3>1. starting' \in Calls /\ sat' \in [Jobs -> BOOLEAN] /\ runs' \in [Jobs -> Nat]
          /\ db' \in [Jobs -> Results]
      BY <1>1, Typed
    <3>. QED BY <1>1, <1>2, <2>3, <2>6, <3>1, Typed, StepTypes
  <2>10. RolesOK' /\ FileOK' /\ HelloOK' /\ BackupExact' BY <1>1, <2>6, PrimaryFrame
  <2>11. UsedOK' /\ LaunchesOK' /\ ResultsOK'
    <3>. DEFINE S == {j, n}
    <3>1. \A k \in S : (origin'[k] = k => UsedAt(k)') /\ LaunchesAt(k)' /\ ResultAt(k)'
      BY <1>4, <2>2, <2>3, <2>7, <2>8
    <3>2. \A k \in Jobs \ S :
             /\ table'[c][k] = table[c][k] /\ origin'[k] = origin[k]
             /\ UNCHANGED <<starting[k], log[k], actions[k], sat[k], runs[k], db[k]>>
      BY <1>1, <1>2, <2>3, <2>6
    <3>3. S \in SUBSET Jobs OBVIOUS
    <3>. HIDE DEF S
    <3>. QED BY <1>1, <1>3, <2>6, <3>1, <3>2, <3>3, OtherJobs
  <2>. QED BY <2>9, <2>10, <2>11 DEF Inv
<1>. QED BY <1>7, <1>8 DEF LogReady

-----------------------------------------------------------------------------
(* The steps of the others: they tell nothing new about a job. *)

LEMMA Elsewhere ==
  ASSUME Inv, UNCHANGED <<origin, runs, db, ghosts>>,
         \A j \in Jobs : sat'[j] => sat[j],
         UNCHANGED calls \/ (starting' = NoCalls /\ log' = NoCalls /\ actions' = NoCalls),
         \A j \in Jobs, s \in States, x \in Codes : Recorded(j, s, x)' => Recorded(j, s, x),
         \A c \in Conductors : Leads(c)' =>
           Leads(c) /\ \A j \in Jobs : Is(table'[c][j], table[c][j].state, table[c][j].code)
  PROVE  UsedOK' /\ LaunchesOK' /\ ResultsOK'
<1>. USE DEF ghosts, calls
<1>1. \A j \in Jobs : /\ NoCalls[j] = 0 /\ starting[j] \in Nat /\ runs[j] \in Nat
                      /\ cut[j] \in Nat
  BY CallTypes, Typed
<1>2. \A j \in Jobs : /\ starting'[j] = starting[j] \/ starting'[j] = 0
                      /\ log'[j] = log[j] \/ log'[j] = 0
                      /\ actions'[j] = actions[j] \/ actions'[j] = 0
  BY <1>1
<1>3. UsedOK' BY <1>2 DEF Inv, UsedOK, UsedAt
<1>4. ASSUME NEW j \in Jobs PROVE LaunchesAt(j)'
  <2>1. LaunchesAt(j) BY DEF Inv, LaunchesOK
  <2>2. runs'[j] + starting'[j] <= runs[j] + starting[j] /\ runs'[j] + starting'[j] \in Nat
    BY <1>1, <1>2
  <2>3. runs'[j] + starting'[j] <= 1 + cut'[j] BY <1>1, <2>1, <2>2 DEF LaunchesAt
  <2>4. ASSUME NEW c \in Conductors, Leads(c)', table'[c][j].state = "ready"
        PROVE  runs'[j] + starting'[j] <= cut'[j]
    <3>1. Leads(c) /\ table[c][j].state = "ready" BY <2>4 DEF Is
    <3>. QED BY <1>1, <2>1, <2>2, <3>1 DEF LaunchesAt
  <2>. QED BY <2>3, <2>4 DEF LaunchesAt
<1>5. ASSUME NEW j \in Jobs PROVE ResultAt(j)'
  <2>1. ASSUME NEW x \in Codes, Final(j, x)' PROVE Final(j, x)
    <3>1. CASE Recorded(j, "complete", x)' BY <3>1 DEF Final, States
    <3>2. CASE \E d \in Conductors : (Leads(d) /\ table[d][j].code = x /\ Pending(d, j))'
      <4>1. PICK d \in Conductors : Leads(d)' /\ table'[d][j].code = x /\ Pending(d, j)' BY <3>2
      <4>2. /\ Leads(d) /\ table[d][j].code = x /\ table'[d][j].state = table[d][j].state
        BY <4>1 DEF Is
      <4>3. Pending(d, j) BY <1>2, <4>1, <4>2 DEF Pending
      <4>. QED BY <4>2, <4>3 DEF Final
    <3>3. CASE db[j] \in {"ok", "error"} /\ db[j] = x BY <3>3 DEF Final
    <3>. QED BY <2>1, <3>1, <3>2, <3>3 DEF Final
  <2>2. Settled(j) => Settled(j)' BY DEF Settled, Is
  <2>. QED BY <2>1, <2>2 DEF Inv, ResultsOK, ResultAt
<1>. QED BY <1>3, <1>4, <1>5 DEF LaunchesOK, ResultsOK

(* Nothing is recorded where nothing changes, and where a table is emptied. *)
LEMMA SameRecords ==
  ASSUME UNCHANGED <<table, file, inbox>>
  PROVE  \A j \in Jobs, s \in States, x \in Codes : Recorded(j, s, x)' => Recorded(j, s, x)
BY DEF Recorded, In

LEMMA FewerRecords ==
  ASSUME \A c \in Conductors :
           /\ table'[c] = table[c] \/ table'[c] = Empty
           /\ file'[c] = file[c] \/ file'[c] = Empty
           /\ inbox'[c] = inbox[c] \/ inbox'[c] = <<>>
  PROVE  \A j \in Jobs, s \in States, x \in Codes : Recorded(j, s, x)' => Recorded(j, s, x)
BY NoRecordType DEF Recorded, In, Is, States

(* A backup that goes on as it was knows what it knew. *)
LEMMA BackupKept ==
  ASSUME Inv,
         \A b \in Conductors : peer'[b] = "auth" =>
           /\ peer[b] = "auth" /\ inbox'[b] = inbox[b] /\ table'[b] = table[b]
           /\ sent'[b] = sent[b]
  PROVE  BackupExact'
<1>. SUFFICES ASSUME NEW b \in Conductors, NEW j \in Jobs, peer'[b] = "auth"
     PROVE  /\ (\A i \in DOMAIN inbox'[b] : j \notin DOMAIN inbox'[b][i]) =>
                 table'[b][j].state = sent'[b][j]
            /\ \A i \in DOMAIN inbox'[b] :
                 /\ j \in DOMAIN inbox'[b][i]
                 /\ \A k \in DOMAIN inbox'[b] : k > i => j \notin DOMAIN inbox'[b][k]
                 => inbox'[b][i][j].state = sent'[b][j]
  BY DEF BackupExact, In
<1>. QED BY DEF Inv, BackupExact, In

(* Bookkeeping of the connections. *)
LEMMA SyncTypes ==
  ASSUME TypeOK, UNCHANGED <<origin, runs, db, ghosts>>,
         role' \in [Conductors -> {"down", "backup", "startup", "primary"}],
         table' \in Tables, file' \in Tables,
         peer' \in [Conductors -> {"none", "hello", "auth"}],
         sent' \in [Conductors -> [Jobs -> States \cup {"none"}]],
         inbox' \in [Conductors -> Seq(Message)],
         UNCHANGED calls \/ (starting' = NoCalls /\ log' = NoCalls /\ actions' = NoCalls),
         sat' \in [Jobs -> BOOLEAN], online' \in BOOLEAN, faults' \in 0..MaxFaults
  PROVE  TypeOK'
<1>1. {starting', log', actions'} \subseteq [Jobs -> 0..MaxCalls] BY CallTypes DEF calls
<1>. QED BY <1>1 DEF TypeOK, Tables, ghosts

LEMMA SatConnectInv == Inv /\ SatConnect => Inv'
<1>. SUFFICES ASSUME Inv, SatConnect PROVE Inv' OBVIOUS
<1>. USE DEF SatConnect, conductors, sync
<1>1. TypeOK' BY Typed, CallTypes DEF TypeOK, calls, ghosts
<1>2. RolesOK' /\ FileOK' /\ HelloOK' BY DEF Inv, RolesOK, FileOK, HelloOK, Leads, Backup, calls, Listed
<1>3. BackupExact' BY DEF Inv, BackupExact, In
<1>4. UsedOK' /\ LaunchesOK' /\ ResultsOK' BY SameRecords, Elsewhere DEF Leads, Is
<1>. QED BY <1>1, <1>2, <1>3, <1>4 DEF Inv

LEMMA SatDropInv == Inv /\ SatDrop => Inv'
<1>. SUFFICES ASSUME Inv, SatDrop PROVE Inv' OBVIOUS
<1>1. /\ online' = FALSE /\ faults' = faults + 1 /\ faults < MaxFaults
      /\ table' = [c \in Conductors |-> IF Leads(c) THEN Unremote(table[c]) ELSE table[c]]
      /\ sat' \in {sat, [j \in Jobs |-> FALSE]}
      /\ UNCHANGED <<role, file, sync, calls, origin, runs, db, ghosts>>
  BY DEF SatDrop
<1>. USE <1>1 DEF sync
<1>2. \A c \in Conductors, j \in Jobs :
        /\ Leads(c) => table'[c][j] = [table[c][j] EXCEPT !.remote = FALSE]
        /\ ~Leads(c) => table'[c] = table[c]
  BY DEF Unremote
<1>3. ASSUME NEW c \in Conductors, NEW j \in Jobs
      PROVE  table'[c][j] \in Record /\ Is(table'[c][j], table[c][j].state, table[c][j].code)
  <2>1. table[c][j] \in Record BY Typed DEF Tables
  <2>2. /\ [table[c][j] EXCEPT !.remote = FALSE] \in Record
        /\ Is([table[c][j] EXCEPT !.remote = FALSE], table[c][j].state, table[c][j].code)
    BY <2>1, RecordMade
  <2>3. table'[c][j] = [table[c][j] EXCEPT !.remote = FALSE] \/ table'[c][j] = table[c][j]
    BY <1>2
  <2>. QED BY <2>1, <2>2, <2>3 DEF Is
<1>4. table' \in Tables
  <2>1. \A c \in Conductors : Leads(c) => Unremote(table[c]) \in [Jobs -> Record]
    <3>1. ASSUME NEW c \in Conductors, NEW j \in Jobs
          PROVE  [table[c][j] EXCEPT !.remote = FALSE] \in Record
      <4>1. table[c][j] \in Record BY Typed DEF Tables
      <4>. QED BY <4>1, RecordMade
    <3>. QED BY <3>1 DEF Unremote
  <2>. QED BY <2>1, Typed DEF Tables
<1>5. TypeOK'
  <2>1. sat' \in [Jobs -> BOOLEAN] BY Typed
  <2>2. faults' \in 0..MaxFaults BY Typed, FailoverAssumption DEF TypeOK
  <2>3. /\ role' = role /\ file' = file /\ peer' = peer /\ inbox' = inbox /\ sent' = sent
        /\ online' \in BOOLEAN
    OBVIOUS
  <2>. HIDE <1>1
  <2>4. /\ UNCHANGED <<origin, runs, db, ghosts>> /\ UNCHANGED calls BY <1>1
  <2>. QED BY <1>4, <2>1, <2>2, <2>3, <2>4, Typed, SyncTypes DEF TypeOK, Tables
<1>6. RolesOK' BY DEF Inv, RolesOK, Leads, Backup, calls
<1>7. \A c \in Conductors : Backup(c) \/ peer[c] # "none" => table'[c] = table[c]
  BY <1>2 DEF Inv, RolesOK, Leads, Backup
<1>8. FileOK' /\ HelloOK'
  <2>1. \A c \in Conductors : Listed(table[c]) = {} => Listed(table'[c]) = {}
    BY <1>3 DEF Listed, Is
  <2>. QED BY <1>7, <2>1 DEF Inv, FileOK, HelloOK
<1>9. BackupExact' BY <1>7 DEF Inv, BackupExact, In
<1>10. UsedOK' /\ LaunchesOK' /\ ResultsOK'
  <2>1. \A j \in Jobs, s \in States, x \in Codes : Recorded(j, s, x)' => Recorded(j, s, x)
    BY <1>3 DEF Recorded, In, Is
  <2>2. \A c \in Conductors : Leads(c)' =>
           Leads(c) /\ \A j \in Jobs : Is(table'[c][j], table[c][j].state, table[c][j].code)
    BY <1>3 DEF Leads
  <2>3. \A j \in Jobs : sat'[j] => sat[j] OBVIOUS
  <2>4. UNCHANGED <<origin, runs, db, ghosts>> /\ UNCHANGED calls OBVIOUS
  <2>. HIDE <1>1
  <2>. QED BY <2>1, <2>2, <2>3, <2>4, Elsewhere
<1>. QED BY <1>5, <1>6, <1>8, <1>9, <1>10 DEF Inv

LEMMA ReceiveNewMasterInv ==
  ASSUME Inv, NEW c \in Conductors, NEW b \in Conductors, ReceiveNewMaster(c, b) PROVE Inv'
<1>1. /\ Leads(c) /\ Backup(b) /\ peer[b] = "none" /\ inbox[b] = <<>>
      /\ peer' = [peer EXCEPT ![b] = "hello"]
      /\ table' = [table EXCEPT ![b] = Empty] /\ file' = [file EXCEPT ![b] = Empty]
      /\ UNCHANGED <<role, sent, inbox, calls, origin, sat, online, runs, db, ghosts, faults>>
  BY DEF ReceiveNewMaster, ClearJobs, ClearFile, satellite
<1>2. /\ table' \in Tables /\ table'[b] = Empty /\ file' \in Tables /\ file'[b] = Empty
      /\ \A d \in Conductors : d # b => table'[d] = table[d] /\ file'[d] = file[d]
  BY <1>1, Typed, NoRecordType DEF Tables
<1>3. /\ peer' \in [Conductors -> {"none", "hello", "auth"}] /\ peer'[b] = "hello"
      /\ \A d \in Conductors : d # b => peer'[d] = peer[d]
  BY <1>1, Typed DEF TypeOK
<1>4. TypeOK'
  <2>1. /\ role' \in [Conductors -> {"down", "backup", "startup", "primary"}]
        /\ sent' \in [Conductors -> [Jobs -> States \cup {"none"}]]
        /\ inbox' \in [Conductors -> Seq(Message)]
        /\ sat' \in [Jobs -> BOOLEAN] /\ online' \in BOOLEAN /\ faults' \in 0..MaxFaults
    BY <1>1, Typed DEF TypeOK
  <2>. QED BY <1>1, <1>2, <1>3, <2>1, Typed, SyncTypes
<1>5. RolesOK' BY <1>1, <1>3 DEF Inv, RolesOK, Leads, Backup, calls
<1>6. Listed(table'[b]) = {} BY <1>2, NoRecordType DEF Listed
<1>7. FileOK' /\ HelloOK' BY <1>1, <1>2, <1>3, <1>6 DEF Inv, FileOK, HelloOK
<1>8. BackupExact' BY <1>1, <1>2, <1>3 DEF Inv, BackupExact, In
<1>9. UsedOK' /\ LaunchesOK' /\ ResultsOK'
  <2>1. \A j \in Jobs, s \in States, x \in Codes : Recorded(j, s, x)' => Recorded(j, s, x)
    BY <1>1, <1>2, FewerRecords
  <2>2. \A d \in Conductors : Leads(d)' =>
           Leads(d) /\ \A j \in Jobs : Is(table'[d][j], table[d][j].state, table[d][j].code)
    BY <1>1, <1>2 DEF Leads, Backup, Is
  <2>. QED BY <1>1, <2>1, <2>2, Elsewhere
<1>. QED BY <1>4, <1>5, <1>7, <1>8, <1>9 DEF Inv

LEMMA StandbyInv == ASSUME Inv, NEW b \in Conductors, Standby(b) PROVE Inv'
<1>1. /\ peer[b] = "hello" /\ peer' = [peer EXCEPT ![b] = "auth"]
      /\ sent' = [sent EXCEPT ![b] = [j \in Jobs |-> "none"]]
      /\ UNCHANGED <<role, table, file, inbox, calls, origin, sat, online, runs, db, ghosts, faults>>
  BY DEF Standby, conductors, satellite
<1>2. /\ peer' \in [Conductors -> {"none", "hello", "auth"}] /\ peer'[b] = "auth"
      /\ \A d \in Conductors : d # b => peer'[d] = peer[d]
      /\ sent' \in [Conductors -> [Jobs -> States \cup {"none"}]]
      /\ \A j \in Jobs : sent'[b][j] = "none"
      /\ \A d \in Conductors : d # b => sent'[d] = sent[d]
  BY <1>1, Typed DEF TypeOK
<1>3. TypeOK'
  <2>1. /\ role' \in [Conductors -> {"down", "backup", "startup", "primary"}]
        /\ table' \in Tables /\ file' \in Tables /\ inbox' \in [Conductors -> Seq(Message)]
        /\ sat' \in [Jobs -> BOOLEAN] /\ online' \in BOOLEAN /\ faults' \in 0..MaxFaults
    BY <1>1, Typed DEF TypeOK
  <2>. QED BY <1>1, <1>2, <2>1, Typed, SyncTypes
<1>4. RolesOK' BY <1>1, <1>2 DEF Inv, RolesOK, Leads, Backup, calls
<1>5. FileOK' /\ HelloOK' BY <1>1, <1>2 DEF Inv, FileOK, HelloOK, Listed
<1>6. BackupExact'
  <2>1. inbox[b] = <<>> /\ \A j \in Jobs : table[b][j].state = "none"
    BY <1>1 DEF Inv, HelloOK, Listed
  <2>. QED BY <1>1, <1>2, <2>1 DEF Inv, BackupExact, In
<1>7. UsedOK' /\ LaunchesOK' /\ ResultsOK' BY <1>1, SameRecords, Elsewhere DEF Leads, Is
<1>. QED BY <1>3, <1>4, <1>5, <1>6, <1>7 DEF Inv

LEMMA DropInv == ASSUME Inv, NEW b \in Conductors, Drop(b) PROVE Inv'
<1>1. /\ faults < MaxFaults /\ faults' = faults + 1
      /\ peer' = [peer EXCEPT ![b] = "none"] /\ sent' = [sent EXCEPT ![b] = [j \in Jobs |-> "none"]]
      /\ inbox' \in {inbox, [inbox EXCEPT ![b] = <<>>]}
      /\ UNCHANGED <<role, table, file, calls, origin, sat, online, runs, db, ghosts>>
  BY DEF Drop, Reset, conductors, satellite
<1>2. /\ peer' \in [Conductors -> {"none", "hello", "auth"}] /\ peer'[b] = "none"
      /\ \A d \in Conductors : d # b => peer'[d] = peer[d]
      /\ sent' \in [Conductors -> [Jobs -> States \cup {"none"}]]
      /\ \A d \in Conductors : d # b => sent'[d] = sent[d]
  BY <1>1, Typed DEF TypeOK
<1>3. /\ inbox' \in [Conductors -> Seq(Message)] /\ (inbox'[b] = inbox[b] \/ inbox'[b] = <<>>)
      /\ \A d \in Conductors : d # b => inbox'[d] = inbox[d]
  <2>1. inbox \in [Conductors -> Seq(Message)] /\ <<>> \in Seq(Message)
    BY Typed, EmptySeq DEF TypeOK
  <2>2. CASE inbox' = inbox BY <2>1, <2>2
  <2>3. CASE inbox' = [inbox EXCEPT ![b] = <<>>] BY <2>1, <2>3
  <2>. QED BY <1>1, <2>2, <2>3
<1>4. TypeOK'
  <2>1. /\ role' \in [Conductors -> {"down", "backup", "startup", "primary"}]
        /\ table' \in Tables /\ file' \in Tables
        /\ sat' \in [Jobs -> BOOLEAN] /\ online' \in BOOLEAN
    BY <1>1, Typed DEF TypeOK
  <2>2. faults' \in 0..MaxFaults BY <1>1, Typed, FailoverAssumption DEF TypeOK
  <2>. QED BY <1>1, <1>2, <1>3, <2>1, <2>2, Typed, SyncTypes
<1>5. RolesOK' BY <1>1, <1>2, <1>3 DEF Inv, RolesOK, Leads, Backup, calls
<1>6. FileOK' /\ HelloOK' BY <1>1, <1>2, <1>3 DEF Inv, FileOK, HelloOK, Listed
<1>7. BackupExact' BY <1>1, <1>2, <1>3, BackupKept
<1>8. UsedOK' /\ LaunchesOK' /\ ResultsOK'
  <2>1. \A j \in Jobs, s \in States, x \in Codes : Recorded(j, s, x)' => Recorded(j, s, x)
    BY <1>1, <1>3, FewerRecords
  <2>. QED BY <1>1, <2>1, Elsewhere DEF Leads, Is
<1>. QED BY <1>4, <1>5, <1>6, <1>7, <1>8 DEF Inv

LEMMA RestartInv == ASSUME Inv, NEW c \in Conductors, Restart(c) PROVE Inv'
<1>1. /\ role[c] = "down" /\ role' = [role EXCEPT ![c] = "backup"]
      /\ UNCHANGED <<table, file, peer, sent, inbox, calls, origin, sat, online, runs, db,
                     ghosts, faults>>
  BY DEF Restart, sync, satellite
<1>2. /\ role' \in [Conductors -> {"down", "backup", "startup", "primary"}]
      /\ role'[c] = "backup" /\ \A d \in Conductors : d # c => role'[d] = role[d]
  BY <1>1, Typed DEF TypeOK
<1>3. TypeOK'
  <2>1. /\ table' \in Tables /\ file' \in Tables
        /\ peer' \in [Conductors -> {"none", "hello", "auth"}]
        /\ sent' \in [Conductors -> [Jobs -> States \cup {"none"}]]
        /\ inbox' \in [Conductors -> Seq(Message)]
        /\ sat' \in [Jobs -> BOOLEAN] /\ online' \in BOOLEAN /\ faults' \in 0..MaxFaults
    BY <1>1, Typed DEF TypeOK
  <2>. QED BY <1>1, <1>2, <2>1, Typed, SyncTypes
<1>4. \A d \in Conductors : Leads(d)' <=> Leads(d) BY <1>1, <1>2 DEF Leads
<1>5. RolesOK' BY <1>1, <1>2, <1>4 DEF Inv, RolesOK, Leads, Backup, calls
<1>6. FileOK' /\ HelloOK' BY <1>1, <1>2 DEF Inv, FileOK, HelloOK, Listed
<1>7. BackupExact' BY <1>1 DEF Inv, BackupExact, In
<1>8. UsedOK' /\ LaunchesOK' /\ ResultsOK' BY <1>1, <1>4, SameRecords, Elsewhere DEF Is
<1>. QED BY <1>3, <1>5, <1>6, <1>7, <1>8 DEF Inv

LEMMA MasterSyncInv ==
  ASSUME Inv, NEW c \in Conductors, NEW b \in Conductors, MasterSync(c, b) PROVE Inv'
<1>. DEFINE D == Changed(c, b) \cup Removed(c, b)
            Item(j) == IF j \in Changed(c, b) THEN table[c][j] ELSE NoRecord
            m == [j \in D |-> Item(j)]
<1>1. /\ Leads(c) /\ peer[b] = "auth"
      /\ inbox' = [inbox EXCEPT ![b] = Append(inbox[b], m)]
      /\ sent' = [sent EXCEPT ![b] = [j \in Jobs |-> IF j \in D THEN Item(j).state ELSE sent[b][j]]]
      /\ UNCHANGED <<role, table, file, peer, calls, origin, sat, online, runs, db, ghosts, faults>>
  BY DEF MasterSync, conductors, satellite
<1>2. D \subseteq Jobs BY DEF Changed, Removed, Listed
<1>3. \A j \in D : /\ Item(j) \in Record
                   /\ Item(j).state \in States \cup {"none"}
                   /\ Item(j).state = "none" \/ Item(j) = table[c][j]
  <2>1. ASSUME NEW j \in D PROVE Item(j) \in Record
    BY <1>2, Typed, NoRecordType DEF Tables
  <2>. QED BY <2>1, RecordFields, NoRecordType
<1>4. /\ m \in Message /\ DOMAIN m = D /\ \A j \in D : m[j] = Item(j)
  <2>1. m \in [D -> Record] BY <1>3
  <2>. QED BY <1>2, <2>1 DEF Message
<1>5. /\ sent' \in [Conductors -> [Jobs -> States \cup {"none"}]]
      /\ \A j \in Jobs : sent'[b][j] = IF j \in D THEN m[j].state ELSE sent[b][j]
      /\ \A d \in Conductors : d # b => sent'[d] = sent[d]
  <2>1. sent \in [Conductors -> [Jobs -> States \cup {"none"}]] BY Typed DEF TypeOK
  <2>2. ASSUME NEW j \in Jobs
        PROVE  (IF j \in D THEN Item(j).state ELSE sent[b][j]) \in States \cup {"none"}
    BY <1>3, <2>1
  <2>. HIDE DEF D, Item
  <2>. QED BY <1>1, <1>2, <1>4, <2>1, <2>2
<1>. HIDE DEF D, Item, m
<1>6. inbox \in [Conductors -> Seq(Message)] /\ inbox[b] \in Seq(Message) /\ Len(inbox[b]) \in Nat
      /\ DOMAIN inbox[b] = 1..Len(inbox[b])
  BY Typed, LenProperties DEF TypeOK
<1>7. /\ inbox' \in [Conductors -> Seq(Message)] /\ inbox'[b] = Append(inbox[b], m)
      /\ \A d \in Conductors : d # b => inbox'[d] = inbox[d]
  BY <1>1, <1>4, <1>6, AppendProperties
<1>8. /\ DOMAIN inbox'[b] = 1..(Len(inbox[b]) + 1)
      /\ inbox'[b][Len(inbox[b]) + 1] = m
      /\ \A i \in 1..Len(inbox[b]) : inbox'[b][i] = inbox[b][i]
  <2>1. /\ Append(inbox[b], m) \in Seq(Message) /\ Len(Append(inbox[b], m)) = Len(inbox[b]) + 1
        /\ \A i \in 1..Len(inbox[b]) : Append(inbox[b], m)[i] = inbox[b][i]
        /\ Append(inbox[b], m)[Len(inbox[b]) + 1] = m
    BY <1>4, <1>6, AppendProperties
  <2>. QED BY <1>7, <2>1, LenProperties
<1>9. TypeOK'
  <2>1. /\ role' \in [Conductors -> {"down", "backup", "startup", "primary"}]
        /\ table' \in Tables /\ file' \in Tables
        /\ peer' \in [Conductors -> {"none", "hello", "auth"}]
        /\ sat' \in [Jobs -> BOOLEAN] /\ online' \in BOOLEAN /\ faults' \in 0..MaxFaults
    BY <1>1, Typed DEF TypeOK
  <2>. QED BY <1>1, <1>5, <1>7, <2>1, Typed, SyncTypes
<1>10. Backup(b) /\ file[b] = Empty BY <1>1 DEF Inv, RolesOK, FileOK
<1>11. RolesOK'
  <2>1. \A d \in Conductors : inbox'[d] # <<>> => Backup(d)
    BY <1>7, <1>10 DEF Inv, RolesOK
  <2>2. (\A d \in Conductors : ~Leads(d)') => starting' = NoCalls /\ log' = NoCalls /\ actions' = NoCalls
    BY <1>1 DEF Leads
  <2>. QED BY <1>1, <2>1, <2>2 DEF Inv, RolesOK, Leads, Backup
<1>12. FileOK' /\ HelloOK'
  <2>1. peer[b] # "hello" BY <1>1
  <2>. QED BY <1>1, <1>7, <1>10, <2>1 DEF Inv, FileOK, HelloOK, Listed
<1>13. BackupExact'
  <2>1. ASSUME NEW d \in Conductors, NEW j \in Jobs, peer[d] = "auth", d # b
        PROVE  /\ (\A i \in DOMAIN inbox'[d] : j \notin DOMAIN inbox'[d][i]) =>
                    table'[d][j].state = sent'[d][j]
               /\ \A i \in DOMAIN inbox'[d] :
                    /\ j \in DOMAIN inbox'[d][i]
                    /\ \A k \in DOMAIN inbox'[d] : k > i => j \notin DOMAIN inbox'[d][k]
                    => inbox'[d][i][j].state = sent'[d][j]
    <3>1. inbox'[d] = inbox[d] /\ table'[d] = table[d] /\ sent'[d] = sent[d] BY <1>1, <1>5, <1>7, <2>1
    <3>. QED BY <2>1, <3>1 DEF Inv, BackupExact, In
  <2>. DEFINE n == Len(inbox[b])
  <2>2. n \in Nat /\ DOMAIN inbox[b] = 1..n /\ DOMAIN inbox'[b] = 1..(n + 1)
        /\ inbox'[b][n + 1] = m /\ \A i \in 1..n : inbox'[b][i] = inbox[b][i]
    BY <1>6, <1>8
  <2>. HIDE DEF n
  <2>3. ASSUME NEW j \in Jobs
        PROVE  /\ (\A i \in DOMAIN inbox'[b] : j \notin DOMAIN inbox'[b][i]) =>
                    table'[b][j].state = sent'[b][j]
               /\ \A i \in DOMAIN inbox'[b] :
                    /\ j \in DOMAIN inbox'[b][i]
                    /\ \A k \in DOMAIN inbox'[b] : k > i => j \notin DOMAIN inbox'[b][k]
                    => inbox'[b][i][j].state = sent'[b][j]
    <3>1. CASE j \in D
      <4>1. n + 1 \in DOMAIN inbox'[b] /\ j \in DOMAIN inbox'[b][n + 1] BY <1>4, <2>2, <3>1
      <4>2. ASSUME NEW i \in DOMAIN inbox'[b],
                   \A k \in DOMAIN inbox'[b] : k > i => j \notin DOMAIN inbox'[b][k]
            PROVE  i = n + 1
        <5>1. ~(n + 1 > i) BY <4>1, <4>2
        <5>. QED BY <2>2, <5>1
      <4>3. inbox'[b][n + 1][j].state = sent'[b][j] BY <1>5, <2>2, <3>1
      <4>. QED BY <4>1, <4>2, <4>3
    <3>2. CASE j \notin D
      <4>1. j \notin DOMAIN inbox'[b][n + 1] BY <1>4, <2>2, <3>2
      <4>2. sent'[b][j] = sent[b][j] /\ table'[b][j] = table[b][j] BY <1>1, <1>5, <3>2
      <4>3. /\ (\A i \in 1..n : j \notin DOMAIN inbox[b][i]) => table[b][j].state = sent[b][j]
            /\ \A i \in 1..n :
                 /\ j \in DOMAIN inbox[b][i]
                 /\ \A k \in 1..n : k > i => j \notin DOMAIN inbox[b][k]
                 => inbox[b][i][j].state = sent[b][j]
        BY <1>1, <2>2 DEF Inv, BackupExact, In
      <4>4. \A i \in 1..(n + 1) : j \in DOMAIN inbox'[b][i] => i \in 1..n BY <2>2, <4>1
      <4>5. \A i \in 1..n : i \in 1..(n + 1) BY <2>2
      <4>. QED BY <2>2, <4>2, <4>3, <4>4, <4>5
    <3>. QED BY <3>1, <3>2
  <2>. QED BY <1>1, <2>1, <2>3 DEF BackupExact, In
<1>14. UsedOK' /\ LaunchesOK' /\ ResultsOK'
  <2>1. ASSUME NEW j \in Jobs, NEW s \in States, NEW x \in Codes, Recorded(j, s, x)'
        PROVE  Recorded(j, s, x)
    <3>1. PICK d \in Conductors :
            \/ Is(table[d][j], s, x) \/ Is(file[d][j], s, x)
            \/ \E i \in DOMAIN inbox'[d] : j \in DOMAIN inbox'[d][i] /\ Is(inbox'[d][i][j], s, x)
      BY <1>1, <2>1 DEF Recorded, In, Is
    <3>2. CASE Is(table[d][j], s, x) \/ Is(file[d][j], s, x) BY <3>2 DEF Recorded
    <3>3. CASE d # b /\ ~(Is(table[d][j], s, x) \/ Is(file[d][j], s, x))
      BY <1>7, <3>1, <3>3 DEF Recorded, In
    <3>4. CASE d = b /\ ~(Is(table[d][j], s, x) \/ Is(file[d][j], s, x))
      <4>1. PICK i \in DOMAIN inbox'[b] : j \in DOMAIN inbox'[b][i] /\ Is(inbox'[b][i][j], s, x)
        BY <3>1, <3>4
      <4>2. CASE i \in 1..Len(inbox[b]) BY <1>6, <1>8, <4>1, <4>2 DEF Recorded, In
      <4>3. CASE i = Len(inbox[b]) + 1
        <5>1. j \in D /\ Is(Item(j), s, x) BY <1>4, <1>8, <4>1, <4>3
        <5>2. s # "none" BY DEF States
        <5>. QED BY <1>3, <5>1, <5>2 DEF Recorded, Is
      <4>4. i \in 1..Len(inbox[b]) \/ i = Len(inbox[b]) + 1 BY <1>6, <1>8
      <4>. QED BY <4>2, <4>3, <4>4
    <3>. QED BY <3>2, <3>3, <3>4
  <2>2. \A d \in Conductors : Leads(d)' =>
           Leads(d) /\ \A j \in Jobs : Is(table'[d][j], table[d][j].state, table[d][j].code)
    BY <1>1 DEF Leads, Is
  <2>. QED BY <1>1, <2>1, <2>2, Elsewhere
<1>. QED BY <1>9, <1>11, <1>12, <1>13, <1>14 DEF Inv

LEMMA ReceiveMasterUpdateInv ==
  ASSUME Inv, NEW b \in Conductors, ReceiveMasterUpdate(b) PROVE Inv'
<1>. DEFINE h == Head(inbox[b])
<1>1. /\ Backup(b) /\ inbox[b] # <<>>
      /\ table' = [table EXCEPT ![b] = Merge(table[b], h)]
      /\ inbox' = [inbox EXCEPT ![b] = Tail(inbox[b])]
      /\ UNCHANGED <<role, file, peer, sent, calls, origin, sat, online, runs, db, ghosts, faults>>
  BY DEF ReceiveMasterUpdate, satellite
<1>2. PICK n \in Nat : n = Len(inbox[b]) BY Typed, LenProperties DEF TypeOK
<1>3. /\ inbox[b] \in Seq(Message) /\ DOMAIN inbox[b] = 1..n /\ n >= 1 /\ 1 \in 1..n
      /\ h = inbox[b][1]
      /\ Tail(inbox[b]) \in Seq(Message) /\ DOMAIN Tail(inbox[b]) = 1..(n - 1)
      /\ \A i \in 1..(n - 1) : Tail(inbox[b])[i] = inbox[b][i + 1]
  <2>1. inbox[b] \in Seq(Message) BY Typed DEF TypeOK
  <2>2. /\ Tail(inbox[b]) \in Seq(Message) /\ Len(Tail(inbox[b])) = n - 1
        /\ \A i \in 1..(n - 1) : Tail(inbox[b])[i] = inbox[b][i + 1]
    BY <1>1, <1>2, <2>1, HeadTailProperties
  <2>3. DOMAIN inbox[b] = 1..n /\ DOMAIN Tail(inbox[b]) = 1..(n - 1)
    BY <1>2, <2>1, <2>2, LenProperties
  <2>4. n # 0 BY <1>1, <1>2, <2>1, EmptySeq
  <2>. QED BY <2>1, <2>2, <2>3, <2>4
<1>4. \A j \in DOMAIN h : j \in Jobs /\ h[j] \in Record BY <1>3, Typed, InboxFields DEF In
<1>. HIDE DEF h
<1>5. /\ table' \in Tables
      /\ \A d \in Conductors : d # b => table'[d] = table[d]
      /\ \A j \in Jobs : table'[b][j] = IF j \in DOMAIN h THEN h[j] ELSE table[b][j]
  <2>1. Merge(table[b], h) \in [Jobs -> Record] BY <1>4, Typed DEF Merge, Tables
  <2>. QED BY <1>1, <2>1, Typed DEF Merge, Tables
<1>6. /\ inbox' \in [Conductors -> Seq(Message)] /\ inbox'[b] = Tail(inbox[b])
      /\ \A d \in Conductors : d # b => inbox'[d] = inbox[d]
  BY <1>1, <1>3, Typed DEF TypeOK
<1>7. TypeOK'
  <2>1. /\ role' \in [Conductors -> {"down", "backup", "startup", "primary"}]
        /\ file' \in Tables /\ peer' \in [Conductors -> {"none", "hello", "auth"}]
        /\ sent' \in [Conductors -> [Jobs -> States \cup {"none"}]]
        /\ sat' \in [Jobs -> BOOLEAN] /\ online' \in BOOLEAN /\ faults' \in 0..MaxFaults
    BY <1>1, Typed DEF TypeOK
  <2>. QED BY <1>1, <1>5, <1>6, <2>1, Typed, SyncTypes
<1>8. RolesOK' BY <1>1, <1>6 DEF Inv, RolesOK, Leads, Backup, calls
<1>9. FileOK' /\ HelloOK'
  <2>1. file[b] = Empty /\ peer[b] # "hello" BY <1>1 DEF Inv, FileOK, HelloOK
  <2>. QED BY <1>1, <1>5, <1>6, <2>1 DEF Inv, FileOK, HelloOK, Listed
<1>10. BackupExact'
  <2>1. ASSUME NEW d \in Conductors, NEW j \in Jobs, peer[d] = "auth", d # b
        PROVE  /\ (\A i \in DOMAIN inbox'[d] : j \notin DOMAIN inbox'[d][i]) =>
                    table'[d][j].state = sent'[d][j]
               /\ \A i \in DOMAIN inbox'[d] :
                    /\ j \in DOMAIN inbox'[d][i]
                    /\ \A k \in DOMAIN inbox'[d] : k > i => j \notin DOMAIN inbox'[d][k]
                    => inbox'[d][i][j].state = sent'[d][j]
    <3>1. inbox'[d] = inbox[d] /\ table'[d] = table[d] /\ sent'[d] = sent[d] BY <1>1, <1>5, <1>6, <2>1
    <3>. QED BY <2>1, <3>1 DEF Inv, BackupExact, In
  <2>2. ASSUME NEW j \in Jobs, peer[b] = "auth"
        PROVE  /\ (\A i \in DOMAIN inbox'[b] : j \notin DOMAIN inbox'[b][i]) =>
                    table'[b][j].state = sent'[b][j]
               /\ \A i \in DOMAIN inbox'[b] :
                    /\ j \in DOMAIN inbox'[b][i]
                    /\ \A k \in DOMAIN inbox'[b] : k > i => j \notin DOMAIN inbox'[b][k]
                    => inbox'[b][i][j].state = sent'[b][j]
    <3>1. /\ (\A i \in 1..n : j \notin DOMAIN inbox[b][i]) => table[b][j].state = sent[b][j]
          /\ \A i \in 1..n :
               /\ j \in DOMAIN inbox[b][i]
               /\ \A k \in 1..n : k > i => j \notin DOMAIN inbox[b][k]
               => inbox[b][i][j].state = sent[b][j]
      BY <1>3, <2>2 DEF Inv, BackupExact, In
    <3>2. \A k \in 1..n : k = 1 \/ (k - 1 \in 1..(n - 1) /\ inbox'[b][k - 1] = inbox[b][k])
      <4>1. ASSUME NEW k \in 1..n, k # 1
            PROVE  k - 1 \in 1..(n - 1) /\ inbox'[b][k - 1] = inbox[b][k]
        <5>1. k - 1 \in 1..(n - 1) /\ (k - 1) + 1 = k BY <4>1
        <5>2. Tail(inbox[b])[k - 1] = inbox[b][(k - 1) + 1] BY <1>3, <5>1
        <5>. QED BY <1>6, <5>1, <5>2
      <4>. QED BY <4>1
    <3>3. ASSUME \A i \in 1..(n - 1) : j \notin DOMAIN inbox'[b][i]
          PROVE  table'[b][j].state = sent'[b][j]
      <4>1. \A k \in 1..n : k > 1 => j \notin DOMAIN inbox[b][k] BY <3>2, <3>3
      <4>2. CASE j \in DOMAIN h BY <1>1, <1>3, <1>5, <3>1, <4>1, <4>2
      <4>3. CASE j \notin DOMAIN h
        <5>1. \A i \in 1..n : j \notin DOMAIN inbox[b][i] BY <1>3, <4>1, <4>3
        <5>. QED BY <1>1, <1>5, <3>1, <4>3, <5>1
      <4>. QED BY <4>2, <4>3
    <3>4. ASSUME NEW i \in 1..(n - 1), j \in DOMAIN inbox'[b][i],
                 \A k \in 1..(n - 1) : k > i => j \notin DOMAIN inbox'[b][k]
          PROVE  inbox'[b][i][j].state = sent'[b][j]
      <4>1. i + 1 \in 1..n /\ inbox'[b][i] = inbox[b][i + 1] BY <1>3, <1>6
      <4>2. \A k \in 1..n : k > i + 1 => j \notin DOMAIN inbox[b][k] BY <3>2, <3>4
      <4>. QED BY <1>1, <3>1, <3>4, <4>1, <4>2
    <3>. QED BY <1>3, <1>6, <3>3, <3>4
  <2>. QED BY <1>1, <2>1, <2>2 DEF BackupExact, In
<1>11. UsedOK' /\ LaunchesOK' /\ ResultsOK'
  <2>1. ASSUME NEW j \in Jobs, NEW s \in States, NEW x \in Codes, Recorded(j, s, x)'
        PROVE  Recorded(j, s, x)
    <3>1. PICK d \in Conductors :
            \/ Is(table'[d][j], s, x) \/ Is(file[d][j], s, x)
            \/ \E i \in DOMAIN inbox'[d] : j \in DOMAIN inbox'[d][i] /\ Is(inbox'[d][i][j], s, x)
      BY <1>1, <2>1 DEF Recorded, In, Is
    <3>2. CASE d # b BY <1>5, <1>6, <3>1, <3>2 DEF Recorded, In
    <3>3. CASE d = b /\ Is(table'[b][j], s, x)
      <4>1. CASE j \in DOMAIN h BY <1>3, <1>5, <3>3, <4>1 DEF Recorded, In
      <4>2. CASE j \notin DOMAIN h BY <1>5, <3>3, <4>2 DEF Recorded
      <4>. QED BY <4>1, <4>2
    <3>4. CASE Is(file[d][j], s, x) BY <3>4 DEF Recorded
    <3>5. CASE d = b /\ \E i \in DOMAIN inbox'[b] :
                           j \in DOMAIN inbox'[b][i] /\ Is(inbox'[b][i][j], s, x)
      <4>1. PICK i \in 1..(n - 1) : j \in DOMAIN inbox'[b][i] /\ Is(inbox'[b][i][j], s, x)
        BY <1>3, <1>6, <3>5
      <4>2. i + 1 \in 1..n /\ inbox'[b][i] = inbox[b][i + 1] BY <1>3, <1>6
      <4>. QED BY <1>3, <4>1, <4>2 DEF Recorded, In
    <3>. QED BY <3>1, <3>2, <3>3, <3>4, <3>5
  <2>2. \A d \in Conductors : Leads(d)' =>
           Leads(d) /\ \A j \in Jobs : Is(table'[d][j], table[d][j].state, table[d][j].code)
    BY <1>1, <1>5 DEF Leads, Backup, Is
  <2>. QED BY <1>1, <2>1, <2>2, Elsewhere
<1>. QED BY <1>7, <1>8, <1>9, <1>10, <1>11 DEF Inv

LEMMA EndsInv ==
  ASSUME Inv, NEW c \in Conductors, Ends(c),
         file' = file \/ (Leads(c) /\ file' = [file EXCEPT ![c] = Clean(table[c])])
  PROVE  Inv'
<1>1. /\ role[c] # "down" /\ faults < MaxFaults /\ faults' = faults + 1
      /\ role' = [role EXCEPT ![c] = "down"] /\ table' = [table EXCEPT ![c] = Empty]
      /\ UNCHANGED <<origin, sat, runs, db, ghosts>>
  BY DEF Ends
<1>2. /\ role' \in [Conductors -> {"down", "backup", "startup", "primary"}] /\ role'[c] = "down"
      /\ table' \in Tables /\ table'[c] = Empty
      /\ \A d \in Conductors : d # c => role'[d] = role[d] /\ table'[d] = table[d]
  BY <1>1, Typed, NoRecordType DEF TypeOK, Tables
<1>3. /\ inbox' \in [Conductors -> Seq(Message)]
      /\ \A d \in Conductors : inbox'[d] = inbox[d] \/ inbox'[d] = <<>>
  <2>1. inbox \in [Conductors -> Seq(Message)] /\ <<>> \in Seq(Message)
    BY Typed, EmptySeq DEF TypeOK
  <2>2. CASE Leads(c)
    <3>1. PICK kept \in SUBSET Conductors :
            inbox' = [b \in Conductors |-> IF b \in kept THEN inbox[b] ELSE <<>>]
      BY <2>2 DEF Ends
    <3>. QED BY <2>1, <3>1
  <2>3. CASE ~Leads(c) BY <2>1, <2>3 DEF Ends
  <2>. QED BY <2>2, <2>3
<1>4. /\ peer' \in [Conductors -> {"none", "hello", "auth"}] /\ peer'[c] = "none" /\ inbox'[c] = <<>>
      /\ \A d \in Conductors : /\ peer'[d] # "none" => peer'[d] = peer[d] /\ sent'[d] = sent[d]
                                                       /\ inbox'[d] = inbox[d] /\ d # c /\ ~Leads(c)
                               /\ peer[d] = "none" => peer'[d] = "none"
      /\ sent' \in [Conductors -> [Jobs -> States \cup {"none"}]]
  <2>1. /\ peer \in [Conductors -> {"none", "hello", "auth"}]
        /\ sent \in [Conductors -> [Jobs -> States \cup {"none"}]]
        /\ inbox \in [Conductors -> Seq(Message)]
    BY Typed DEF TypeOK
  <2>2. CASE Leads(c)
    <3>1. inbox[c] = <<>> BY <2>2, Primary
    <3>. QED BY <1>3, <2>1, <2>2, <3>1 DEF Ends
  <2>3. CASE ~Leads(c)
    <3>1. /\ peer' = [peer EXCEPT ![c] = "none"] /\ inbox' = [inbox EXCEPT ![c] = <<>>]
          /\ sent' = [sent EXCEPT ![c] = [j \in Jobs |-> "none"]]
      BY <2>3 DEF Ends, Reset
    <3>2. /\ peer' \in [Conductors -> {"none", "hello", "auth"}] /\ peer'[c] = "none"
          /\ \A d \in Conductors : d # c => peer'[d] = peer[d]
      BY <2>1, <3>1
    <3>3. inbox'[c] = <<>> /\ \A d \in Conductors : d # c => inbox'[d] = inbox[d]
      BY <2>1, <3>1
    <3>4. /\ sent' \in [Conductors -> [Jobs -> States \cup {"none"}]]
          /\ \A d \in Conductors : d # c => sent'[d] = sent[d]
      BY <2>1, <3>1
    <3>. QED BY <2>3, <3>2, <3>3, <3>4
  <2>. QED BY <2>2, <2>3
<1>5. /\ UNCHANGED calls \/ (starting' = NoCalls /\ log' = NoCalls /\ actions' = NoCalls)
      /\ Leads(c) => starting' = NoCalls /\ log' = NoCalls /\ actions' = NoCalls
      /\ ~Leads(c) => UNCHANGED calls
      /\ online' \in BOOLEAN
  BY Typed DEF Ends, TypeOK, calls
<1>6. /\ file' \in Tables /\ \A d \in Conductors : file'[d] # file[d] => d = c /\ Leads(c)
      /\ file'[c] # file[c] => file'[c] = Clean(table[c])
  <2>1. Clean(table[c]) \in [Jobs -> Record] BY Typed, NoRecordType DEF Clean, Tables
  <2>. QED BY <2>1, Typed DEF Tables
<1>7. TypeOK'
  <2>1. sat' \in [Jobs -> BOOLEAN] BY <1>1, Typed
  <2>2. faults' \in 0..MaxFaults BY <1>1, Typed, FailoverAssumption DEF TypeOK
  <2>. QED BY <1>1, <1>2, <1>3, <1>4, <1>5, <1>6, <2>1, <2>2, Typed, SyncTypes
<1>8. RolesOK'
  <2>1. \A d, e \in Conductors :
          role'[d] \in {"startup", "primary"} /\ role'[e] \in {"startup", "primary"} => d = e
    BY <1>2 DEF Inv, RolesOK
  <2>2. (\A d \in Conductors : ~Leads(d)') =>
           starting' = NoCalls /\ log' = NoCalls /\ actions' = NoCalls
    <3>1. CASE Leads(c) BY <1>5, <3>1
    <3>2. CASE ~Leads(c) /\ \A d \in Conductors : ~Leads(d)'
      <4>1. \A d \in Conductors : ~Leads(d) BY <1>2, <3>2 DEF Leads
      <4>. QED BY <1>5, <3>2, <4>1 DEF Inv, RolesOK, calls
    <3>. QED BY <3>1, <3>2
  <2>3. ASSUME NEW b \in Conductors
        PROVE  /\ peer'[b] # "none" => Backup(b)' /\ \E d \in Conductors : Leads(d)'
               /\ inbox'[b] # <<>> => Backup(b)'
    <3>1. ASSUME inbox'[b] # <<>> PROVE Backup(b)'
      <4>1. inbox[b] # <<>> /\ b # c BY <1>3, <1>4, <3>1
      <4>. QED BY <1>2, <4>1 DEF Inv, RolesOK, Backup
    <3>2. ASSUME peer'[b] # "none" PROVE Backup(b)' /\ \E d \in Conductors : Leads(d)'
      <4>1. peer[b] # "none" /\ b # c /\ ~Leads(c) BY <1>4, <3>2
      <4>2. PICK d \in Conductors : Leads(d) BY <4>1 DEF Inv, RolesOK
      <4>3. Backup(b) BY <4>1 DEF Inv, RolesOK
      <4>. QED BY <1>2, <4>1, <4>2, <4>3 DEF Leads, Backup
    <3>. QED BY <3>1, <3>2
  <2>. QED BY <2>1, <2>2, <2>3 DEF RolesOK
<1>9. FileOK'
  <2>1. Listed(table'[c]) = {} BY <1>2, NoRecordType DEF Listed
  <2>2. ASSUME NEW d \in Conductors, file'[d] # Empty, d # c
        PROVE  /\ role'[d] \in {"down", "backup"} /\ Listed(table'[d]) = {}
               /\ peer'[d] = "none" /\ inbox'[d] = <<>>
    <3>1. file[d] # Empty BY <1>6, <2>2
    <3>. QED BY <1>2, <1>3, <1>4, <2>2, <3>1 DEF Inv, FileOK
  <2>. QED BY <1>2, <1>4, <2>1, <2>2 DEF FileOK
<1>10. HelloOK'
  <2>1. ASSUME NEW b \in Conductors, peer'[b] = "hello"
        PROVE  Listed(table'[b]) = {} /\ inbox'[b] = <<>>
    <3>1. peer[b] = "hello" /\ b # c BY <1>4, <2>1
    <3>. QED BY <1>2, <1>3, <3>1 DEF Inv, HelloOK
  <2>. QED BY <2>1 DEF HelloOK
<1>11. BackupExact'
  <2>1. \A b \in Conductors : peer'[b] = "auth" =>
           /\ peer[b] = "auth" /\ inbox'[b] = inbox[b] /\ table'[b] = table[b]
           /\ sent'[b] = sent[b]
    BY <1>2, <1>4
  <2>. QED BY <2>1, BackupKept
<1>12. UsedOK' /\ LaunchesOK' /\ ResultsOK'
  <2>1. ASSUME NEW j \in Jobs, NEW s \in States, NEW x \in Codes, Recorded(j, s, x)'
        PROVE  Recorded(j, s, x)
    <3>1. PICK d \in Conductors :
            \/ Is(table'[d][j], s, x) \/ Is(file'[d][j], s, x)
            \/ \E i \in DOMAIN inbox'[d] : j \in DOMAIN inbox'[d][i] /\ Is(inbox'[d][i][j], s, x)
      BY <2>1 DEF Recorded, In, Is
    <3>2. s # "none" BY DEF States
    <3>3. ~Is(Empty[j], s, x) BY <3>2, NoRecordType DEF Is
    <3>4. CASE Is(table'[d][j], s, x) BY <1>2, <3>3, <3>4 DEF Recorded
    <3>5. CASE Is(file'[d][j], s, x)
      <4>1. CASE file'[d] = file[d] BY <3>5, <4>1 DEF Recorded
      <4>2. CASE file'[d] # file[d]
        <5>1. d = c /\ file'[d] = Clean(table[c]) BY <1>6, <4>2
        <5>2. Is(table[c][j], s, x) BY <3>2, <3>5, <5>1, NoRecordType DEF Clean, Is
        <5>. QED BY <5>2 DEF Recorded
      <4>. QED BY <4>1, <4>2
    <3>6. CASE \E i \in DOMAIN inbox'[d] : j \in DOMAIN inbox'[d][i] /\ Is(inbox'[d][i][j], s, x)
      <4>1. inbox'[d] = inbox[d] BY <1>3, <3>6
      <4>. QED BY <3>6, <4>1 DEF Recorded, In
    <3>. QED BY <3>1, <3>4, <3>5, <3>6
  <2>2. \A d \in Conductors : Leads(d)' =>
           Leads(d) /\ \A j \in Jobs : Is(table'[d][j], table[d][j].state, table[d][j].code)
    BY <1>2 DEF Leads, Is
  <2>3. \A j \in Jobs : sat'[j] => sat[j] BY <1>1
  <2>. QED BY <1>1, <1>5, <2>1, <2>2, <2>3, Elsewhere
<1>. QED BY <1>7, <1>8, <1>9, <1>10, <1>11, <1>12 DEF Inv
LEMMA CrashInv == ASSUME Inv, NEW c \in Conductors, Crash(c) PROVE Inv'
BY EndsInv DEF Crash

LEMMA StopInv == ASSUME Inv, NEW c \in Conductors, Stop(c) PROVE Inv'
BY EndsInv DEF Stop

(* While nobody leads, nothing waits for anything. *)
LEMMA Leaderless ==
  ASSUME Inv, \A c \in Conductors : ~Leads(c)
  PROVE  /\ \A b \in Conductors : peer[b] = "none"
         /\ \A j \in Jobs : starting[j] = 0 /\ log[j] = 0 /\ actions[j] = 0
BY CallTypes DEF Inv, RolesOK

LEMMA BecomeMasterInv == ASSUME Inv, NEW c \in Conductors, BecomeMaster(c) PROVE Inv'
<1>1. /\ Backup(c) /\ Vacant /\ inbox[c] = <<>>
      /\ role' = [role EXCEPT ![c] = "startup"]
      /\ table' = [table EXCEPT ![c] = IF file[c] = Empty THEN table[c] ELSE file[c]]
      /\ file' = [file EXCEPT ![c] = Empty]
      /\ UNCHANGED <<peer, sent, inbox, calls, origin, sat, online, runs, db, ghosts, faults>>
  BY DEF BecomeMaster, sync, satellite
<1>2. \A d \in Conductors : ~Leads(d) BY <1>1 DEF Vacant, Leads
<1>3. /\ role' \in [Conductors -> {"down", "backup", "startup", "primary"}]
      /\ role'[c] = "startup" /\ \A d \in Conductors : d # c => role'[d] = role[d]
  BY <1>1, Typed DEF TypeOK
<1>4. /\ table' \in Tables /\ table'[c] \in {table[c], file[c]}
      /\ \A d \in Conductors : d # c => table'[d] = table[d]
  <2>1. table \in Tables /\ file \in Tables BY Typed
  <2>. QED BY <1>1, <2>1 DEF Tables
<1>5. /\ file' \in Tables /\ file'[c] = Empty
      /\ \A d \in Conductors : d # c => file'[d] = file[d]
  <2>1. file \in Tables BY Typed
  <2>. QED BY <1>1, <2>1, NoRecordType DEF Tables
<1>6. \A d \in Conductors : ~Leads(d)' BY <1>2, <1>3 DEF Leads
<1>7. TypeOK'
  <2>1. /\ peer' \in [Conductors -> {"none", "hello", "auth"}]
        /\ sent' \in [Conductors -> [Jobs -> States \cup {"none"}]]
        /\ inbox' \in [Conductors -> Seq(Message)]
        /\ sat' \in [Jobs -> BOOLEAN] /\ online' \in BOOLEAN /\ faults' \in 0..MaxFaults
    BY <1>1, Typed DEF TypeOK
  <2>. QED BY <1>1, <1>3, <1>4, <1>5, <2>1, Typed, SyncTypes
<1>8. RolesOK'
  <2>1. \A d, e \in Conductors :
          role'[d] \in {"startup", "primary"} /\ role'[e] \in {"startup", "primary"} => d = e
    BY <1>1, <1>3 DEF Vacant
  <2>2. starting' = NoCalls /\ log' = NoCalls /\ actions' = NoCalls
    BY <1>1, <1>2 DEF Inv, RolesOK, calls
  <2>3. \A b \in Conductors : peer'[b] = "none" /\ (inbox'[b] # <<>> => Backup(b)')
    BY <1>1, <1>2, <1>3, Leaderless DEF Inv, RolesOK, Backup
  <2>. QED BY <2>1, <2>2, <2>3 DEF RolesOK
<1>9. FileOK' BY <1>1, <1>3, <1>4, <1>5 DEF Inv, FileOK
<1>10. HelloOK' /\ BackupExact' BY <1>1, <1>2, Leaderless DEF HelloOK, BackupExact
<1>11. UsedOK' /\ LaunchesOK' /\ ResultsOK'
  <2>1. ASSUME NEW j \in Jobs, NEW s \in States, NEW x \in Codes, Recorded(j, s, x)'
        PROVE  Recorded(j, s, x)
    <3>1. PICK d \in Conductors :
            \/ Is(table'[d][j], s, x) \/ Is(file'[d][j], s, x)
            \/ \E i \in DOMAIN inbox'[d] : j \in DOMAIN inbox'[d][i] /\ Is(inbox'[d][i][j], s, x)
      BY <2>1 DEF Recorded, In, Is
    <3>2. ~Is(Empty[j], s, x) BY NoRecordType DEF Is, States
    <3>3. CASE Is(table'[d][j], s, x) BY <1>4, <3>3 DEF Recorded
    <3>4. CASE Is(file'[d][j], s, x) BY <1>5, <3>2, <3>4 DEF Recorded
    <3>5. CASE \E i \in DOMAIN inbox'[d] : j \in DOMAIN inbox'[d][i] /\ Is(inbox'[d][i][j], s, x)
      BY <1>1, <3>5 DEF Recorded, In
    <3>. QED BY <3>1, <3>3, <3>4, <3>5
  <2>. QED BY <1>1, <1>6, <2>1, Elsewhere
<1>. QED BY <1>7, <1>8, <1>9, <1>10, <1>11 DEF Inv

LEMMA PreparedFacts ==
  ASSUME NEW r \in Record
  PROVE  /\ Prepared(r) \in Record
         /\ Is(Prepared(r), IF r.state = "starting" THEN "ready" ELSE r.state, r.code)
BY RecordMade DEF Prepared, States

LEMMA PrepActiveJobsInv == ASSUME Inv, NEW c \in Conductors, PrepActiveJobs(c) PROVE Inv'
<1>. DEFINE complete == {j \in Jobs : table[c][j].state = "complete"}
            again == {j \in Jobs : table[c][j].state \in {"ready", "starting"}}
<1>1. /\ role[c] = "startup" /\ role' = [role EXCEPT ![c] = "primary"]
      /\ table' = [table EXCEPT ![c] = [j \in Jobs |-> Prepared(table[c][j])]]
      /\ log' = [j \in Jobs |-> IF j \in complete THEN 1 ELSE 0]
      /\ cut' = [j \in Jobs |-> cut[j] + IF j \in again THEN 1 ELSE 0]
      /\ open' = [j \in Jobs |-> open[j] + IF j \in Listed(table[c]) \ complete THEN 1 ELSE 0]
      /\ UNCHANGED <<file, peer, sent, inbox, starting, actions, origin, sat, online, runs, db, faults>>
  BY DEF PrepActiveJobs, sync, satellite
<1>2. \A d \in Conductors : ~Leads(d) BY <1>1 DEF Inv, RolesOK, Leads
<1>3. /\ role' \in [Conductors -> {"down", "backup", "startup", "primary"}]
      /\ role'[c] = "primary" /\ \A d \in Conductors : d # c => role'[d] = role[d]
  BY <1>1, Typed DEF TypeOK
<1>4. /\ table' \in Tables /\ \A d \in Conductors : d # c => table'[d] = table[d]
      /\ \A j \in Jobs : /\ table[c][j] \in Record /\ table'[c][j] = Prepared(table[c][j])
                          /\ table'[c][j] \in Record
  <2>1. table \in Tables BY Typed
  <2>2. \A j \in Jobs : table[c][j] \in Record /\ Prepared(table[c][j]) \in Record
    BY <2>1, PreparedFacts DEF Tables
  <2>3. [j \in Jobs |-> Prepared(table[c][j])] \in [Jobs -> Record] BY <2>2
  <2>. QED BY <1>1, <2>1, <2>2, <2>3 DEF Tables
<1>5. \A j \in Jobs :
        Is(table'[c][j], IF table[c][j].state = "starting" THEN "ready" ELSE table[c][j].state,
           table[c][j].code)
  BY <1>4, PreparedFacts
<1>6. \A d \in Conductors : Leads(d)' <=> d = c BY <1>2, <1>3 DEF Leads
<1>7. \A j \in Jobs : /\ starting'[j] = 0 /\ actions'[j] = 0
                      /\ log'[j] = IF table[c][j].state = "complete" THEN 1 ELSE 0
  BY <1>1, <1>2, Leaderless
<1>8. \A j \in Jobs :
        /\ cut[j] \in Nat /\ open[j] \in Nat /\ runs[j] \in Nat
        /\ cut'[j] = cut[j] + IF table[c][j].state \in {"ready", "starting"} THEN 1 ELSE 0
        /\ open'[j] = open[j] + IF table[c][j].state \in {"none", "complete"} THEN 0 ELSE 1
  BY <1>1, CallTypes, Typed DEF Listed
<1>9. TypeOK'
  <2>1. log' \in [Jobs -> 0..MaxCalls] BY <1>1, FailoverAssumption
  <2>2. cut' \in [Jobs -> Nat] BY <1>1, <1>8
  <2>3. open' \in [Jobs -> Nat] BY <1>1, <1>8
  <2>. QED BY <1>1, <1>3, <1>4, <2>1, <2>2, <2>3 DEF Inv, TypeOK, Tables
<1>10. RolesOK' BY <1>1, <1>2, <1>3, <1>6, Leaderless DEF Inv, RolesOK, Backup
<1>11. FileOK' BY <1>1, <1>3, <1>4 DEF Inv, FileOK
<1>12. HelloOK' /\ BackupExact' BY <1>1, <1>2, Leaderless DEF HelloOK, BackupExact
<1>13. ASSUME NEW j \in Jobs, NEW s \in States, NEW x \in Codes, Recorded(j, s, x)'
       PROVE  Recorded(j, s, x) \/ (Is(table'[c][j], s, x) /\ Recorded(j, table[c][j].state, x))
  <2>1. CASE Is(table'[c][j], s, x) BY <1>5, <2>1 DEF Recorded, Is
  <2>. QED BY <1>1, <1>4, <1>13, <2>1 DEF Recorded, In, Is
<1>14. UsedOK'
  <2>1. SUFFICES ASSUME NEW j \in Jobs, origin[j] = j PROVE UsedAt(j)' BY <1>1 DEF UsedOK
  <2>2. UsedAt(j) BY <2>1 DEF Inv, UsedOK
  <2>3. table[c][j].code \in Codes /\ table[c][j].state \in States \cup {"none"}
    BY <1>4, RecordFields
  <2>4. table[c][j].state = "none"
    BY <2>2, <2>3 DEF UsedAt, Recorded, Is
  <2>5. ASSUME NEW s \in States, NEW x \in Codes PROVE ~Recorded(j, s, x)'
    <3>1. ~Is(table'[c][j], s, x) BY <1>5, <2>4 DEF Is, States
    <3>. QED BY <1>13, <2>2, <3>1 DEF UsedAt
  <2>. QED BY <1>1, <1>7, <2>2, <2>4, <2>5 DEF UsedAt
<1>15. LaunchesOK'
  <2>1. SUFFICES ASSUME NEW j \in Jobs PROVE LaunchesAt(j)' BY DEF LaunchesOK
  <2>2. runs[j] + starting[j] <= 1 + cut[j] BY DEF Inv, LaunchesOK, LaunchesAt
  <2>3. starting[j] = 0 /\ starting'[j] = 0 /\ runs'[j] = runs[j] BY <1>1, <1>7
  <2>4. runs'[j] + starting'[j] <= 1 + cut'[j] BY <1>8, <2>2, <2>3
  <2>5. table'[c][j].state = "ready" => runs'[j] + starting'[j] <= cut'[j]
    <3>1. table'[c][j].state = "ready" => table[c][j].state \in {"ready", "starting"}
      BY <1>5 DEF Is
    <3>. QED BY <1>8, <2>2, <2>3, <3>1
  <2>. QED BY <1>6, <2>4, <2>5 DEF LaunchesAt
<1>16. ResultsOK'
  <2>1. SUFFICES ASSUME NEW j \in Jobs, open'[j] = 0 PROVE ResultAt(j)'
    BY DEF ResultsOK, ResultAt
  <2>2. /\ open[j] = 0 /\ cut'[j] = cut[j] /\ table[c][j].state \in {"none", "complete"}
    BY <1>8, <2>1
  <2>3. ResultAt(j) BY DEF Inv, ResultsOK
  <2>4. Is(table'[c][j], table[c][j].state, table[c][j].code) BY <1>5, <2>2 DEF Is
  <2>5. Settled(j)' BY <1>6, <2>2, <2>4 DEF Settled, Is
  <2>6. ASSUME NEW x \in Codes, Final(j, x)' PROVE Final(j, x)
    <3>1. CASE Recorded(j, "complete", x)'
      <4>1. "complete" \in States BY DEF States
      <4>2. Recorded(j, "complete", x) BY <1>13, <2>4, <3>1, <4>1 DEF Is
      <4>. QED BY <4>2 DEF Final
    <3>2. CASE \E d \in Conductors : (Leads(d) /\ table[d][j].code = x /\ Pending(d, j))'
      <4>1. table'[c][j].code = x /\ log'[j] > 0 BY <1>6, <1>7, <3>2 DEF Pending
      <4>2. table[c][j].state = "complete" /\ table[c][j].code = x
        BY <1>7, <2>4, <4>1 DEF Is
      <4>. QED BY <4>2 DEF Final, Recorded, Is
    <3>3. CASE db'[j] \in {"ok", "error"} /\ db'[j] = x BY <1>1, <3>3 DEF Final
    <3>. QED BY <2>6, <3>1, <3>2, <3>3 DEF Final
  <2>. QED BY <1>1, <2>2, <2>3, <2>5, <2>6 DEF ResultAt
<1>. QED BY <1>9, <1>10, <1>11, <1>12, <1>14, <1>15, <1>16 DEF Inv
-----------------------------------------------------------------------------
(* The invariant, and what follows from it. *)

LEMMA StepInv == Inv /\ [Next]_vars => Inv'
<1>. SUFFICES ASSUME Inv, [Next]_vars PROVE Inv' OBVIOUS
<1>1. ASSUME NEW c \in Conductors, NEW j \in Jobs, JobStep(c, j) PROVE Inv'
  BY <1>1, StartJobInv, StartedInv, DeadJobInv, UpdateInv, ReportInv, LogReadyInv, IndexedInv
     DEF JobStep
<1>2. ASSUME NEW c \in Conductors, NEW b \in Conductors,
             ReceiveNewMaster(c, b) \/ MasterSync(c, b)
      PROVE  Inv'
  BY <1>2, ReceiveNewMasterInv, MasterSyncInv
<1>3. ASSUME NEW c \in Conductors,
             \/ LaunchJob(c) \/ Standby(c) \/ ReceiveMasterUpdate(c) \/ Drop(c) \/ Crash(c)
             \/ Stop(c) \/ Restart(c) \/ BecomeMaster(c) \/ PrepActiveJobs(c)
      PROVE  Inv'
  BY <1>3, LaunchJobInv, StandbyInv, ReceiveMasterUpdateInv, DropInv, CrashInv, StopInv,
     RestartInv, BecomeMasterInv, PrepActiveJobsInv
<1>4. CASE SatConnect \/ SatDrop BY <1>4, SatConnectInv, SatDropInv
<1>5. CASE UNCHANGED vars
  <2>1. /\ UNCHANGED <<role, table, file, peer, sent, inbox, calls, origin, sat, online, runs,
                       db, ghosts, faults>>
        /\ UNCHANGED <<starting, log, actions, cut, open>>
    BY <1>5 DEF vars, conductors, sync, satellite, calls, ghosts
  <2>2. TypeOK' BY <2>1 DEF Inv, TypeOK
  <2>3. RolesOK' BY <2>1 DEF Inv, RolesOK, Leads, Backup
  <2>4. FileOK' /\ HelloOK' BY <2>1 DEF Inv, FileOK, HelloOK, Listed
  <2>5. BackupExact' BY <2>1 DEF Inv, BackupExact, In
  <2>6. UsedOK' /\ LaunchesOK' /\ ResultsOK' BY <2>1, SameRecords, Elsewhere DEF Leads, Is
  <2>. QED BY <2>2, <2>3, <2>4, <2>5, <2>6 DEF Inv
<1>. QED BY <1>1, <1>2, <1>3, <1>4, <1>5 DEF Next

(* The inductive invariant holds in every reachable state. *)
THEOREM FailoverInv == Spec => []Inv
BY InitInv, StepInv, PTL DEF Spec

(* The variables keep their types, the callbacks of a job their bound. *)
THEOREM FailoverTypeCorrect == Spec => []TypeOK
<1>1. Inv => TypeOK BY DEF Inv
<1>. QED BY <1>1, FailoverInv, PTL

(* A backup with a socket holds what the primary remembers to have sent it,   *)
(* whatever connections were lost and made again (masterSync,                 *)
(* receiveMasterUpdate and receiveNewMaster of multi.js).                     *)
THEOREM BackupsExact == Spec => []BackupExact
<1>1. Inv => BackupExact BY DEF Inv
<1>. QED BY <1>1, FailoverInv, PTL

(* A conductor that holds a recovery file holds no jobs, which importing the  *)
(* file would replace (receiveNewMaster, becomeMaster of multi.js).           *)
THEOREM FileAloneCorrect == Spec => []FileAlone
<1>1. Inv => FileAlone BY DEF Inv, FileOK, FileAlone
<1>. QED BY <1>1, FailoverInv, PTL

(* A job is launched once, and once more for each conductor that took over    *)
(* while it held the job as not yet started (prepActiveJobs, monitorJob).     *)
THEOREM LaunchedOnceCorrect == Spec => []LaunchedOnce
<1>1. Inv => LaunchedOnce
  <2>. SUFFICES ASSUME Inv, NEW j \in Jobs PROVE runs[j] <= 1 + cut[j] BY DEF LaunchedOnce
  <2>1. runs[j] \in Nat /\ starting[j] \in Nat /\ cut[j] \in Nat BY CallTypes, Typed
  <2>2. runs[j] + starting[j] <= 1 + cut[j] BY DEF Inv, LaunchesOK, LaunchesAt
  <2>. QED BY <2>1, <2>2
<1>. QED BY <1>1, FailoverInv, PTL

LEMMA StoredStays ==
  ASSUME Inv, Next, NEW j \in Jobs, db[j] \in {"ok", "error"}, open[j] = 0
  PROVE  db'[j] = db[j]
<1>1. db[j] \in Codes /\ Final(j, db[j]) BY DEF Final, Codes
<1>2. /\ ~sat[j] /\ \A x \in Codes : Final(j, x) => x = db[j]
  BY <1>1 DEF Inv, ResultsOK, ResultAt
<1>3. db \in [Jobs -> Results] BY Typed
<1>4. ASSUME NEW c \in Conductors, NEW k \in Jobs, Report(c, k) PROVE db'[j] = db[j]
  <2>1. k # j BY <1>2, <1>4 DEF Report
  <2>2. PICK code \in {"ok", "error"} :
          db' = db \/ db' = [db EXCEPT ![k] = LateResult(k, code)]
    BY <1>4 DEF Report
  <2>3. CASE db' = db BY <2>3
  <2>4. CASE db' = [db EXCEPT ![k] = LateResult(k, code)] BY <1>3, <2>1, <2>4
  <2>. QED BY <2>2, <2>3, <2>4
<1>5. ASSUME NEW c \in Conductors, NEW k \in Jobs, Indexed(c, k) PROVE db'[j] = db[j]
  <2>1. /\ Leads(c) /\ actions[k] > 0 /\ db' = [db EXCEPT ![k] = Stored(table[c][k].code)]
    BY <1>5 DEF Indexed
  <2>2. CASE k # j BY <1>3, <2>1, <2>2
  <2>3. CASE k = j
    <3>1. table[c][j].code \in Codes BY Typed, RecordFields DEF Tables
    <3>2. Final(j, table[c][j].code) BY <2>1, <2>3 DEF Final, Pending
    <3>3. Stored(table[c][j].code) = db[j] BY <1>2, <3>1, <3>2 DEF Stored
    <3>. QED BY <1>3, <2>1, <2>3, <3>3
  <2>. QED BY <2>2, <2>3
<1>6. ASSUME NEW c \in Conductors, NEW k \in Jobs, JobStep(c, k) PROVE db'[j] = db[j]
  BY <1>4, <1>5, <1>6 DEF JobStep, StartJob, Started, DeadJob, Update, LogReady
<1>7. ASSUME NEW c \in Conductors,
             \/ LaunchJob(c) \/ Standby(c) \/ ReceiveMasterUpdate(c) \/ Drop(c) \/ Crash(c)
             \/ Stop(c) \/ Restart(c) \/ BecomeMaster(c) \/ PrepActiveJobs(c)
             \/ \E b \in Conductors : ReceiveNewMaster(c, b) \/ MasterSync(c, b)
      PROVE  db' = db
  BY <1>7 DEF LaunchJob, Standby, ReceiveMasterUpdate, Drop, Crash, Stop, Ends, Restart,
              BecomeMaster, PrepActiveJobs, ReceiveNewMaster, MasterSync
<1>8. CASE SatConnect \/ SatDrop BY <1>8 DEF SatConnect, SatDrop
<1>. QED BY <1>6, <1>7, <1>8 DEF Next

(* A result that is stored stays, although finishJob, the actions of a job    *)
(* and late reports of its satellite all write it (finishJob, updateJobLate   *)
(* of job.js).                                                                *)
THEOREM ResultsStickCorrect == Spec => ResultsStick
<1>1. Inv /\ [Next]_vars =>
        [\A j \in Jobs : db[j] \in {"ok", "error"} /\ db'[j] # db[j] => open[j] > 0]_vars
  <2>. SUFFICES ASSUME Inv, Next
                PROVE  \A j \in Jobs : db[j] \in {"ok", "error"} /\ db'[j] # db[j] => open[j] > 0
    OBVIOUS
  <2>1. ASSUME NEW j \in Jobs, db[j] \in {"ok", "error"}, db'[j] # db[j] PROVE open[j] > 0
    <3>1. open[j] \in Nat BY Typed
    <3>2. open[j] # 0 BY <2>1, StoredStays
    <3>. QED BY <3>1, <3>2
  <2>. QED BY <2>1
<1>. QED BY <1>1, FailoverInv, PTL DEF Spec, ResultsStick
=============================================================================
