------------------------------ MODULE Failover ------------------------------
(***************************************************************************)
(* The active jobs while conductors fail: masterSync, the recovery file    *)
(* and prepActiveJobs of lib/multi.js with the parts of lib/job.js that    *)
(* start and finish a job.                                                 *)
(*                                                                         *)
(* Module Conductors shows that two conductors do not lead at once and     *)
(* that somebody leads in the end; here a conductor may begin to lead      *)
(* whenever no other does.  One satellite (external) runs all the jobs and *)
(* keeps the result of a job until a conductor takes it.                   *)
(***************************************************************************)
EXTENDS Integers, Sequences, FiniteSets

CONSTANTS
  Conductors,
  Jobs,        \* job ids
  NoJob,
  MaxUser,     \* bound: jobs that users launch
  MaxFaults,   \* bound: crashes, stops and disconnections
  MaxInbox,    \* bound: syncs on their way to a backup
  MaxCalls     \* bound: starts, or completions, of one job under way

ASSUME FailoverAssumption ==
  /\ Jobs \subseteq Nat /\ IsFiniteSet(Jobs) /\ NoJob \notin Jobs
  /\ {MaxUser, MaxFaults, MaxInbox} \subseteq Nat /\ MaxCalls \in Nat \ {0}

VARIABLES
  role,     \* of each conductor
  table,    \* activeJobs of each conductor
  file,     \* its recovery file
  peer,     \* the primary's socket to each backup
  sent,     \* peer.jobStates: the states last sent over it
  inbox,    \* syncs a backup has not handled
  starting, \* callbacks of start actions the primary waits for
  log, actions, \* finishJob waiting for the log; for its actions and the database
  origin,   \* the job each job is a retry of
  sat,      \* is a job on the satellite, running or ended but not taken yet?
  online,   \* is the satellite connected to the primary?
  db,       \* stored results
  runs,     \* ghost: launches of each job on the satellite
  cut,      \* ghost: takeovers by a conductor that holds the job as not started
  open,     \* ghost: takeovers by a conductor that holds the job as unfinished
  faults

conductors == <<role, table, file>>
sync  == <<peer, sent, inbox>>
calls == <<starting, log, actions>>
satellite == <<sat, online, runs>>
ghosts == <<cut, open>>
vars == <<conductors, sync, calls, origin, satellite, db, ghosts, faults>>

States == {"ready", "starting", "active", "complete"}
Codes  == {"none", "ok", "error", "abort", "dead"}   \* dead: abort with retry_ok
Record == [state : States \cup {"none"}, remote : BOOLEAN, code : Codes, retried : BOOLEAN]

(* No job: in a table, and in a message, where it is a removal. *)
NoRecord == [state |-> "none", remote |-> FALSE, code |-> "none", retried |-> FALSE]
New == [NoRecord EXCEPT !.state = "ready"]
Empty == [j \in Jobs |-> NoRecord]
Message == UNION {[D -> Record] : D \in SUBSET Jobs}
Listed(t) == {j \in Jobs : t[j].state # "none"}

Unused == {j \in Jobs : origin[j] = j}
NewJob(n) == n \in Unused /\ \A k \in Unused : n <= k

Leads(c)  == role[c] = "primary"
Vacant    == \A c \in Conductors : role[c] \notin {"startup", "primary"}
Backup(c) == role[c] = "backup"

Add(f, j) == [f EXCEPT ![j] = @ + 1]
Sub(f, j) == [f EXCEPT ![j] = @ - 1]
NoCalls == [j \in Jobs |-> 0]
Put(c, j, r) == table' = [table EXCEPT ![c][j] = r]

-----------------------------------------------------------------------------
(* The primary's jobs. *)

LaunchJob(c) ==
  /\ Leads(c)
  /\ Cardinality({j \in Jobs : origin[j] = NoJob}) < MaxUser
  /\ \E n \in Jobs :
       /\ NewJob(n)
       /\ origin' = [origin EXCEPT ![n] = NoJob]
       /\ Put(c, n, New)
  /\ UNCHANGED <<role, file, sync, calls, satellite, db, ghosts, faults>>

(* monitorJob: a server is found, the start actions run. *)
StartJob(c, j) ==
  /\ Leads(c) /\ table[c][j].state = "ready" /\ online
  /\ starting[j] < MaxCalls
  /\ Put(c, j, [table[c][j] EXCEPT !.state = "starting"])
  /\ starting' = Add(starting, j)
  /\ UNCHANGED <<role, file, sync, log, actions, origin, satellite, db, ghosts, faults>>

(* A job that is no longer listed lives on in the callbacks that hold it. *)
Finished(r, code) ==
  [r EXCEPT !.state = IF r.state = "none" THEN "none" ELSE "complete",
            !.remote = FALSE, !.code = code]
FinishJob(c, j, code) ==
  /\ Put(c, j, Finished(table[c][j], code))
  /\ log' = Add(log, j)

Running(r) == [r EXCEPT !.state = "active", !.remote = TRUE]
(* The callback of the start actions.  The job may be complete by then, or *)
(* active if another start of it was under way before a takeover.          *)
Outstanding(j) == starting[j] > 0
Started(c, j) ==
  /\ Leads(c) /\ Outstanding(j) /\ log[j] < MaxCalls
  /\ starting' = Sub(starting, j)
  /\ IF table[c][j].state \in {"complete", "none"}
     THEN FinishJob(c, j, table[c][j].code) /\ UNCHANGED <<sat, runs>>
     ELSE IF ~online
     THEN FinishJob(c, j, "abort") /\ UNCHANGED <<sat, runs>>
     ELSE /\ Put(c, j, Running(table[c][j]))
          /\ sat' = [sat EXCEPT ![j] = TRUE]
          /\ runs' = Add(runs, j)
          /\ UNCHANGED log
  /\ UNCHANGED <<role, file, sync, actions, origin, online, db, ghosts, faults>>

(* checkDeadJobTimeout: no update for long enough; aborting a remote job is *)
(* only a message to its satellite.                                         *)
DeadJob(c, j) ==
  /\ Leads(c) /\ table[c][j].state = "active" /\ ~table[c][j].remote
  /\ ~(online /\ sat[j]) /\ log[j] < MaxCalls
  /\ FinishJob(c, j, "dead")
  /\ UNCHANGED <<role, file, sync, starting, actions, origin, satellite, db, ghosts, faults>>

(* updateJobData: every second the satellite sends its jobs. *)
Update(c, j) ==
  /\ Leads(c) /\ online /\ sat[j]
  /\ table[c][j].state \notin {"none", "complete"}
  /\ Put(c, j, Running(table[c][j]))
  /\ UNCHANGED <<role, file, sync, calls, origin, satellite, db, ghosts, faults>>

LateResult(j, code) ==
  IF db[j] = "none" THEN "none" ELSE IF db[j] = "abort" THEN "warning" ELSE code

(* The final update: updateJobData, or updateJobLate if the job is not active. *)
Report(c, j) ==
  /\ Leads(c) /\ online /\ sat[j] /\ log[j] < MaxCalls
  /\ sat' = [sat EXCEPT ![j] = FALSE]
  /\ \E code \in {"ok", "error"} :
       \/ /\ table[c][j].state = "none"
          /\ db' = [db EXCEPT ![j] = LateResult(j, code)] /\ UNCHANGED <<table, log>>
       \/ /\ table[c][j].state = "complete" /\ UNCHANGED <<table, log, db>>
       \/ /\ table[c][j].state \notin {"none", "complete"}
          /\ FinishJob(c, j, code) /\ UNCHANGED db
  /\ UNCHANGED <<role, file, sync, starting, actions, origin, online, runs,
                 ghosts, faults>>

(* The log is ready: checkRetryJob, once per job, then the actions. *)
MayRetry(r) == r.code \in {"error", "dead"} /\ ~r.retried
LogReady(c, j) ==
  /\ Leads(c) /\ log[j] > 0 /\ actions[j] < MaxCalls
  /\ log' = Sub(log, j) /\ actions' = Add(actions, j)
  /\ IF MayRetry(table[c][j]) /\ origin[j] = NoJob /\ Unused # {}
     THEN \E n \in Jobs :
            /\ NewJob(n)
            /\ origin' = [origin EXCEPT ![n] = j]
            /\ table' = [table EXCEPT ![c] =
                 [table[c] EXCEPT ![n] = New, ![j] = [table[c][j] EXCEPT !.retried = TRUE]]]
     ELSE UNCHANGED <<origin, table>>
  /\ UNCHANGED <<role, file, sync, starting, satellite, db, ghosts, faults>>

Stored(code) == IF code = "dead" THEN "abort" ELSE code
Indexed(c, j) ==
  /\ Leads(c) /\ actions[j] > 0
  /\ actions' = Sub(actions, j)
  /\ db' = [db EXCEPT ![j] = Stored(table[c][j].code)]
  /\ Put(c, j, [table[c][j] EXCEPT !.state = "none"])
  /\ UNCHANGED <<role, file, sync, starting, log, origin, satellite, ghosts, faults>>

-----------------------------------------------------------------------------
(* The satellite. *)

SatConnect ==
  /\ ~online /\ \E c \in Conductors : Leads(c)
  /\ online' = TRUE
  /\ UNCHANGED <<conductors, sync, calls, origin, sat, runs, db, ghosts, faults>>

(* removeServer *)
Unremote(t) == [j \in Jobs |-> [t[j] EXCEPT !.remote = FALSE]]
SatDrop ==
  /\ online /\ faults < MaxFaults
  /\ online' = FALSE
  /\ table' = [c \in Conductors |-> IF Leads(c) THEN Unremote(table[c]) ELSE table[c]]
  /\ sat' \in {sat, [j \in Jobs |-> FALSE]}    \* it may have crashed
  /\ faults' = faults + 1
  /\ UNCHANGED <<role, file, sync, calls, origin, runs, db, ghosts>>

-----------------------------------------------------------------------------
(* Backups. *)

Reset(b) ==
  /\ peer' = [peer EXCEPT ![b] = "none"]
  /\ sent' = [sent EXCEPT ![b] = [j \in Jobs |-> "none"]]

(* receiveNewMaster: the jobs and the recovery file of an earlier time go. *)
ClearFile_Never(b) == UNCHANGED file
ClearFile(b) == file' = [file EXCEPT ![b] = Empty]
ClearJobs_Never(b) == UNCHANGED table
ClearJobs(b) == table' = [table EXCEPT ![b] = Empty]
ReceiveNewMaster(c, b) ==
  /\ Leads(c) /\ Backup(b) /\ peer[b] = "none" /\ inbox[b] = <<>>
  /\ peer' = [peer EXCEPT ![b] = "hello"]
  /\ ClearJobs(b) /\ ClearFile(b)
  /\ UNCHANGED <<role, sent, inbox, calls, origin, satellite, db, ghosts, faults>>

(* The answer `standby' arrives. *)
Standby(b) ==
  /\ peer[b] = "hello"
  /\ peer' = [peer EXCEPT ![b] = "auth"]
  /\ sent' = [sent EXCEPT ![b] = [j \in Jobs |-> "none"]]
  /\ UNCHANGED <<conductors, inbox, calls, origin, satellite, db, ghosts, faults>>

(* masterSync, for one peer. *)
Changed(c, b) ==
  {j \in Listed(table[c]) : table[c][j].state = "active" \/ table[c][j].state # sent[b][j]}
Removed_Forgotten(c, b) == {}
Removed(c, b) == {j \in Jobs : sent[b][j] # "none"} \ Listed(table[c])
MasterSync(c, b) ==
  /\ Leads(c) /\ peer[b] = "auth" /\ Len(inbox[b]) < MaxInbox
  /\ LET D == Changed(c, b) \cup Removed(c, b)
         Item(j) == IF j \in Changed(c, b) THEN table[c][j] ELSE NoRecord
     IN  /\ D # {}
         /\ inbox' = [inbox EXCEPT ![b] = Append(@, [j \in D |-> Item(j)])]
         /\ sent' = [sent EXCEPT ![b] =
              [j \in Jobs |-> IF j \in D THEN Item(j).state ELSE @[j]]]
  /\ UNCHANGED <<conductors, peer, calls, origin, satellite, db, ghosts, faults>>

Merge(t, m) == [j \in Jobs |-> IF j \in DOMAIN m THEN m[j] ELSE t[j]]
ReceiveMasterUpdate(b) ==
  /\ Backup(b) /\ inbox[b] # <<>>
  /\ table' = [table EXCEPT ![b] = Merge(@, Head(inbox[b]))]
  /\ inbox' = [inbox EXCEPT ![b] = Tail(@)]
  /\ UNCHANGED <<role, file, peer, sent, calls, origin, satellite, db, ghosts, faults>>

Drop(b) ==
  /\ peer[b] # "none" /\ faults < MaxFaults
  /\ Reset(b)
  /\ inbox' \in {inbox, [inbox EXCEPT ![b] = <<>>]}
  /\ faults' = faults + 1
  /\ UNCHANGED <<conductors, calls, origin, satellite, db, ghosts>>

-----------------------------------------------------------------------------
(* The end of a conductor.  What the backups were sent may still arrive. *)

Clean(t) == [j \in Jobs |-> IF t[j].state = "none" THEN NoRecord ELSE t[j]]

Ends(c) ==
  /\ role[c] # "down" /\ faults < MaxFaults
  /\ role' = [role EXCEPT ![c] = "down"]
  /\ table' = [table EXCEPT ![c] = Empty]
  /\ faults' = faults + 1
  /\ IF Leads(c)
     THEN /\ \E kept \in SUBSET Conductors :
               inbox' = [b \in Conductors |-> IF b \in kept THEN inbox[b] ELSE <<>>]
          /\ peer' = [b \in Conductors |-> "none"]
          /\ sent' = [b \in Conductors |-> [j \in Jobs |-> "none"]]
          /\ online' = FALSE
          /\ starting' = NoCalls /\ log' = NoCalls /\ actions' = NoCalls
     ELSE Reset(c) /\ inbox' = [inbox EXCEPT ![c] = <<>>] /\ UNCHANGED <<online, calls>>
  /\ UNCHANGED <<origin, sat, runs, db, ghosts>>

Crash(c) == Ends(c) /\ UNCHANGED file

(* multiShutdown writes the recovery file, if this is the primary. *)
Stop(c) ==
  /\ Ends(c)
  /\ file' = IF Leads(c) THEN [file EXCEPT ![c] = Clean(table[c])] ELSE file

Restart(c) ==
  /\ role[c] = "down"
  /\ role' = [role EXCEPT ![c] = "backup"]
  /\ UNCHANGED <<table, file, sync, calls, origin, satellite, db, ghosts, faults>>

(* becomeMaster up to its asynchronous steps, with importRecoveryFile. *)
BecomeMaster(c) ==
  /\ Backup(c) /\ Vacant /\ inbox[c] = <<>>
  /\ role' = [role EXCEPT ![c] = "startup"]
  /\ table' = [table EXCEPT ![c] = IF file[c] = Empty THEN @ ELSE file[c]]
  /\ file' = [file EXCEPT ![c] = Empty]
  /\ UNCHANGED <<sync, calls, origin, satellite, db, ghosts, faults>>

(* prepActiveJobs *)
Prepared_KeepsStarting(r) == [r EXCEPT !.remote = FALSE]
Prepared_Reopens(r) ==
  IF r.state = "starting" THEN [r EXCEPT !.state = "ready"]
  ELSE IF r.state = "complete" THEN [r EXCEPT !.state = "active"]
  ELSE [r EXCEPT !.remote = FALSE]
Prepared_Again(r) ==
  IF r.state \in {"starting", "active"} THEN [r EXCEPT !.state = "ready", !.remote = FALSE]
  ELSE [r EXCEPT !.remote = FALSE]
Prepared(r) ==
  IF r.state = "starting" THEN [r EXCEPT !.state = "ready"] ELSE [r EXCEPT !.remote = FALSE]

PrepActiveJobs(c) ==
  LET complete == {j \in Jobs : table[c][j].state = "complete"}
      again    == {j \in Jobs : table[c][j].state \in {"ready", "starting"}}
  IN  /\ role[c] = "startup"
      /\ role' = [role EXCEPT ![c] = "primary"]
      /\ table' = [table EXCEPT ![c] = [j \in Jobs |-> Prepared(table[c][j])]]
      /\ log' = [j \in Jobs |-> IF j \in complete THEN 1 ELSE 0]
      /\ cut' = [j \in Jobs |-> cut[j] + IF j \in again THEN 1 ELSE 0]
      /\ open' = [j \in Jobs |-> open[j] + IF j \in Listed(table[c]) \ complete THEN 1 ELSE 0]
      /\ UNCHANGED <<file, sync, starting, actions, origin, satellite, db, faults>>

-----------------------------------------------------------------------------
Init ==
  /\ role = [c \in Conductors |-> "backup"]
  /\ table = [c \in Conductors |-> Empty] /\ file = [c \in Conductors |-> Empty]
  /\ peer = [b \in Conductors |-> "none"] /\ inbox = [b \in Conductors |-> <<>>]
  /\ sent = [b \in Conductors |-> [j \in Jobs |-> "none"]]
  /\ starting = NoCalls /\ log = NoCalls /\ actions = NoCalls
  /\ origin = [j \in Jobs |-> j]     \* unused
  /\ sat = [j \in Jobs |-> FALSE] /\ online = FALSE
  /\ runs = NoCalls
  /\ db = [j \in Jobs |-> "none"]
  /\ cut = NoCalls /\ open = NoCalls /\ faults = 0

JobStep(c, j) ==
  \/ StartJob(c, j) \/ Started(c, j) \/ DeadJob(c, j) \/ Update(c, j) \/ Report(c, j)
  \/ LogReady(c, j) \/ Indexed(c, j)

Next ==
  \/ \E c \in Conductors :
       \/ LaunchJob(c) \/ Standby(c) \/ ReceiveMasterUpdate(c) \/ Drop(c) \/ Crash(c)
       \/ Stop(c) \/ Restart(c) \/ BecomeMaster(c) \/ PrepActiveJobs(c)
       \/ \E j \in Jobs : JobStep(c, j)
       \/ \E b \in Conductors : ReceiveNewMaster(c, b) \/ MasterSync(c, b)
  \/ SatConnect \/ SatDrop

Spec == Init /\ [][Next]_vars

(* Callbacks come, ticks happen, processes end, connections are made again,  *)
(* a conductor is elected.  That one stops or that users launch is not fair. *)
Fairness ==
  /\ WF_vars(SatConnect)
  /\ WF_vars(\E c \in Conductors : BecomeMaster(c))
  /\ \A c \in Conductors :
       /\ WF_vars(Restart(c)) /\ WF_vars(PrepActiveJobs(c))
       /\ WF_vars(Standby(c)) /\ WF_vars(ReceiveMasterUpdate(c))
       /\ WF_vars(\E b \in Conductors : ReceiveNewMaster(b, c))
       /\ WF_vars(\E b \in Conductors : MasterSync(b, c))
       /\ \A j \in Jobs :
            /\ WF_vars(StartJob(c, j)) /\ WF_vars(Started(c, j)) /\ WF_vars(DeadJob(c, j))
            /\ WF_vars(Report(c, j)) /\ WF_vars(LogReady(c, j)) /\ WF_vars(Indexed(c, j))

FairSpec == Spec /\ Fairness

-----------------------------------------------------------------------------
TypeOK ==
  /\ role \in [Conductors -> {"down", "backup", "startup", "primary"}]
  /\ table \in [Conductors -> [Jobs -> Record]] /\ file \in [Conductors -> [Jobs -> Record]]
  /\ peer \in [Conductors -> {"none", "hello", "auth"}]
  /\ sent \in [Conductors -> [Jobs -> States \cup {"none"}]]
  /\ inbox \in [Conductors -> Seq(Message)]
  /\ {starting, log, actions} \subseteq [Jobs -> 0..MaxCalls]
  /\ origin \in [Jobs -> Jobs \cup {NoJob}]
  /\ sat \in [Jobs -> BOOLEAN] /\ online \in BOOLEAN
  /\ db \in [Jobs -> {"none", "ok", "error", "abort", "warning"}]
  /\ {runs, cut, open} \subseteq [Jobs -> Nat] /\ faults \in 0..MaxFaults

(* Updates are sparse: what the primary thinks a backup has been told of a   *)
(* job is what that backup holds, or has last been sent and not handled,    *)
(* through lost connections and restarts of either end.                     *)
In(b, i, j) == j \in DOMAIN inbox[b][i]
BackupExact ==
  \A b \in Conductors, j \in Jobs : peer[b] = "auth" =>
    /\ (\A i \in DOMAIN inbox[b] : ~In(b, i, j)) => table[b][j].state = sent[b][j]
    /\ \A i \in DOMAIN inbox[b] :
         In(b, i, j) /\ (\A k \in DOMAIN inbox[b] : k > i => ~In(b, k, j)) =>
           inbox[b][i][j].state = sent[b][j]

(* multi.js:1154, "will be out of date": a conductor never holds jobs from a *)
(* primary together with a recovery file, which would replace them.          *)
FileAlone ==
  \A c \in Conductors : file[c] # Empty => role[c] # "primary" /\ Listed(table[c]) = {}

(* A job runs once, but for takeovers by a conductor that holds it as not yet *)
(* started: a job that was active or complete is not launched again.          *)
LaunchedOnce == \A j \in Jobs : runs[j] <= 1 + cut[j]

(* docs/limits.md:307, "Maximum number of retries to attempt" (here 1); the *)
(* retries that reach the satellite.                                        *)
Retries(j) == {k \in Jobs \ {j} : origin[k] = j /\ runs[k] > 0}
RetriedOnce == \A j \in Jobs : Cardinality(Retries(j)) <= 1

(* A result that is stored stays, whatever callbacks and late reports are still *)
(* to come and if it is finished again, unless a conductor that took over held  *)
(* the job as unfinished.                                                       *)
ResultsStick ==
  [][\A j \in Jobs : db[j] \in {"ok", "error"} /\ db'[j] # db[j] => open[j] > 0]_vars

(* Every job a primary holds ends, though its callbacks died with another. *)
Held(j) == \E c \in Conductors : Leads(c) /\ table[c][j].state # "none"
JobsEnd == \A j \in Jobs : Held(j) ~> ~Held(j)

(* When faults have stopped the backups end up with the jobs of the primary. *)
BackupsConverge ==
  <>[](\A c, b \in Conductors :
         Leads(c) /\ Backup(b) => \A j \in Jobs : table[b][j].state = table[c][j].state)
=============================================================================
