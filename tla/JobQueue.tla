------------------------------ MODULE JobQueue ------------------------------
(***************************************************************************)
(* The job engine of the primary conductor: lib/job.js, with the parts of  *)
(* lib/server.js, lib/action.js and lib/api/jobs.js that change a job.     *)
(*                                                                         *)
(* The conductor is one JavaScript event loop, so a step of this module is *)
(* one callback that runs to completion: a launch, one iteration of the    *)
(* monitorJobs loops, the callback of an asynchronous operation (`pending' *)
(* names the one each job is waiting for), a message from a satellite or a *)
(* request of a user.                                                      *)
(*                                                                         *)
(* A job is a record.  Its key is the queue id of getJobQueueID: the       *)
(* shared capacity key if the event has one, else the event itself.  The   *)
(* members of a pool have the same limits, as docs/limits.md:189 demands,  *)
(* so the limits are functions of the key.  A limit of 0 is an absent one. *)
(***************************************************************************)
EXTENDS Integers, FiniteSets, FiniteSetsExt

CONSTANTS
  MaxLaunches,   \* bound: how many job ids are ever handed out
  Keys,          \* queue ids
  Events,
  Servers,
  NoServer,
  KeyOf,         \* [Events -> Keys]
  Targets,       \* [Events -> SUBSET Servers] resolved targets of the event
  Passing,       \* [Events -> SUBSET Servers] where its target expression holds
  Weight,        \* [Events -> Nat] weight of the job limit
  Retries,       \* [Events -> Nat] amount of the retry limit
  ForceRetry,    \* events whose retry limit has `force'
  RetryDelay,    \* events whose retry limit has a duration
  SuspendStart,  \* events with a suspend action on start
  SuspendEnd,    \* events with a suspend action on completion
  Limited,       \* events with a runtime limit that aborts the job
  Amount,        \* [Keys -> Nat] amount of the job limit
  QueueMax,      \* [Keys -> Nat] amount of the queue limit
  Rate,          \* [Keys -> Nat] starts per rate window
  ServerMax,     \* [Servers -> Nat] maximum job weight on a server
  MinuteMax,     \* max_jobs_per_min
  Priorities,    \* what the priority flag of a new job may be
  FirstStates,   \* states a new job may be passed in with
  ExitCodes,     \* bound: how the processes on the satellites may end
  Unstable,      \* bound: servers that may disconnect
  Blockable,     \* bound: servers that may be disabled or get a limiting alert
  Switchable     \* bound: events that may be switched off and on

ASSUME BoundAssumption == MaxLaunches \in Nat /\ MinuteMax \in Nat

ASSUME FiniteAssumption == IsFiniteSet(Servers) /\ NoServer \notin Servers

ASSUME EventAssumption ==
  /\ Events # {}
  /\ KeyOf \in [Events -> Keys]
  /\ Targets \in [Events -> SUBSET Servers]
  /\ Passing \in [Events -> SUBSET Servers]
  /\ Weight \in [Events -> Nat \ {0}]
  /\ Retries \in [Events -> Nat]
  /\ ForceRetry \subseteq Events /\ RetryDelay \subseteq Events
  /\ SuspendStart \subseteq Events /\ SuspendEnd \subseteq Events
  /\ Limited \subseteq Events
  /\ Priorities \subseteq BOOLEAN /\ FirstStates \subseteq {"ready", "start_delay"}
  /\ ExitCodes \subseteq {"ok", "error"}
  /\ Unstable \subseteq Servers /\ Blockable \subseteq Servers /\ Switchable \subseteq Events

ASSUME LimitAssumption ==
  /\ Amount \in [Keys -> Nat] /\ QueueMax \in [Keys -> Nat] /\ Rate \in [Keys -> Nat]
  /\ ServerMax \in [Servers -> Nat]

(* launchJob (and requireValidLimits) refuse a queue limit or a rate without a job limit. *)
ASSUME QueueAssumption ==
  \A k \in Keys : QueueMax[k] > 0 \/ Rate[k] > 0 => Amount[k] > 0

VARIABLES
  job,         \* activeJobs: one record per job id
  launched,    \* number of job ids handed out
  clock,       \* orders the values of job.started
  window,      \* jobRateLimits: state of the rate window of each key
  rateCount,   \* jobRateLimits: starts counted in that window
  minuteJobs,  \* stats.currentMinute.jobs
  online,      \* servers with a live satellite socket
  blocked,     \* servers disabled, or under an alert with limit_jobs
  disabled,    \* events switched off
  sat,         \* what the satellites know of each job
  stored       \* the result of each job in the database

vars == <<job, launched, clock, window, rateCount, minuteJobs, online, blocked, disabled, sat, stored>>
rateVars == <<window, rateCount>>
idVars   == <<launched, clock, minuteJobs>>
envVars  == <<online, blocked, disabled>>

Ids    == 1..MaxLaunches
Codes  == {"ok", "error", "abort"}
States == {"none", "start_delay", "retry_delay", "ready", "queued", "starting",
           "active", "finishing", "complete", "gone"}

JobRecord ==
  [state : States, event : Events, priority : BOOLEAN, expression : BOOLEAN,
   started : Nat, server : Servers \cup {NoServer}, remote : BOOLEAN,
   code : Codes, retry_ok : BOOLEAN, retry_count : Nat, retried : BOOLEAN,
   pending : {"none", "start_actions", "job_log", "end_actions", "insert"},
   suspended : BOOLEAN, resumed : BOOLEAN,
   limit : {"armed", "firing", "fired"}, retry_prev : 0..MaxLaunches]

SatPhases == {"none", "sent", "running", "uploading", "ok", "error", "abort"}
SatRecord == [phase : SatPhases, at : Servers \cup {NoServer}, kill : BOOLEAN]

-----------------------------------------------------------------------------
(* Queries over activeJobs; J is the value the hash has at that point.      *)

Live(J)       == {j \in Ids : J[j].state \notin {"none", "gone"}}
KeyJobs(J, k, S) == {j \in Ids : J[j].state \in S /\ KeyOf[J[j].event] = k}
Running(J, k) == KeyJobs(J, k, {"active", "starting"})
Queued(J, k)  == KeyJobs(J, k, {"queued"})

(* Mutants: jobs in their start actions are forgotten; waiting jobs are counted. *)
AtCapacity_ActiveOnly(J, k) ==
  Amount[k] > 0 /\ Cardinality(KeyJobs(J, k, {"active"})) >= Amount[k]
AtCapacity_CountsQueued(J, k) ==
  Amount[k] > 0 /\ Cardinality(KeyJobs(J, k, {"active", "starting", "queued"})) >= Amount[k]
AtCapacity(J, k) == Amount[k] > 0 /\ Cardinality(Running(J, k)) >= Amount[k]
(* Mutant: off by one. *)
QueueRoom_OffByOne(J, k) == Cardinality(Queued(J, k)) <= QueueMax[k] /\ QueueMax[k] > 0
QueueRoom(J, k)  == Cardinality(Queued(J, k)) < QueueMax[k]

RateNow(k)  == IF window[k] = "open" THEN rateCount[k] ELSE 0
RateFull(k) == Rate[k] > 0 /\ RateNow(k) >= Rate[k]

(* A fresh window when there is none or it has expired, then n more starts. *)
OpenWindow(k, n) ==
  IF Rate[k] = 0 THEN UNCHANGED rateVars
  ELSE /\ window' = [window EXCEPT ![k] = "open"]
       /\ rateCount' = [rateCount EXCEPT ![k] = RateNow(k) + n]

(* Every active job that has a server counts, whatever its state. *)
Load(J, s) == MapThenSumSet(LAMBDA j : Weight[J[j].event],
                            {j \in Live(J) : J[j].server = s})

(* Mutant: the weight of the job itself is left out. *)
HasCapacity_WithoutJob(J, s, w) == ServerMax[s] = 0 \/ Load(J, s) < ServerMax[s]
HasCapacity(J, s, w) == ServerMax[s] = 0 \/ w + Load(J, s) <= ServerMax[s]

Candidates(J, j) ==
  LET e == J[j].event IN
  {s \in Targets[e] \cap (online \ blocked) :
     /\ J[j].expression => s \in Passing[e]
     /\ HasCapacity(J, s, Weight[e])}

(* The oldest of the queued jobs with priority, else the oldest of all. *)
Before(a, b) ==
  \/ a.priority /\ ~b.priority
  \/ a.priority = b.priority /\ a.started < b.started
IsHead(J, k, h) ==
  h \in Queued(J, k) /\ \A i \in Queued(J, k) \ {h} : Before(J[h], J[i])

Newest == clock + 1

-----------------------------------------------------------------------------
(* Pieces of the handlers, as functions of a job record or of the hash. *)

Finish(r, c) ==
  [r EXCEPT !.state = "complete", !.code = c, !.remote = FALSE, !.pending = "job_log"]

(* The request goes to the satellite only while the job is remote. *)
AbortSent(J, j) == J[j].state = "active" /\ J[j].remote /\ J[j].server \in online

(* Mutant: an abort during the start actions leaves the job suspended. *)
AbortRecord_KeepsSuspended(r) ==
  IF r.state \in {"starting", "complete"}
  THEN [r EXCEPT !.state = "complete", !.code = "abort"]
  ELSE Finish(r, "abort")

AbortRecord(r) ==
  IF r.state \in {"starting", "complete"}
  THEN [r EXCEPT !.state = "complete", !.code = "abort", !.suspended = FALSE]
  ELSE Finish(r, "abort")

Abort(J, j) == IF AbortSent(J, j) THEN J ELSE [J EXCEPT ![j] = AbortRecord(@)]

AbortMessage(j) ==
  IF AbortSent(job, j) /\ sat[j].phase \in {"sent", "running"}
  THEN sat' = [sat EXCEPT ![j].kill = TRUE]
  ELSE UNCHANGED sat

(* No room to run: wait in the queue if the queue limit allows it, else abort. *)
Enqueue(J, j, retryOk) ==
  IF QueueRoom(J, KeyOf[J[j].event])
  THEN [J EXCEPT ![j].state = "queued"]
  ELSE [J EXCEPT ![j] = AbortRecord([J[j] EXCEPT !.retry_ok = @ \/ retryOk])]

Start(r, s) ==
  [r EXCEPT !.state = "starting", !.server = s, !.pending = "start_actions",
            !.suspended = (r.event \in SuspendStart /\ ~r.resumed)]

(* Mutant: the rate counter is not incremented. *)
MonitorReady_Uncounted(J, j) ==
  /\ \/ \E s \in Candidates(J, j) : job' = [J EXCEPT ![j] = Start(@, s)]
     \/ Candidates(J, j) = {} /\ job' = Enqueue(J, j, TRUE)
  /\ OpenWindow(KeyOf[J[j].event], 0)

(* monitorJob of the job j, whose state in J is "ready". *)
MonitorReady(J, j) ==
  LET k == KeyOf[J[j].event] IN
  \/ /\ AtCapacity(J, k)
     /\ job' = Enqueue(J, j, FALSE)
     /\ UNCHANGED rateVars
  \/ /\ ~AtCapacity(J, k) /\ RateFull(k)
     /\ job' = Enqueue(J, j, FALSE)
     /\ OpenWindow(k, 0)
  \/ /\ ~AtCapacity(J, k) /\ ~RateFull(k) /\ J[j].event \in disabled
     /\ job' = Abort(J, j)
     /\ OpenWindow(k, 0)
  \/ /\ ~AtCapacity(J, k) /\ ~RateFull(k) /\ J[j].event \notin disabled
     /\ \/ /\ Candidates(J, j) = {}
           /\ job' = Enqueue(J, j, TRUE)
           /\ OpenWindow(k, 0)
        \/ \E s \in Candidates(J, j) :
             /\ job' = [J EXCEPT ![j] = Start(@, s)]
             /\ OpenWindow(k, 1)

Blank(e) ==
  [state |-> "none", event |-> e, priority |-> FALSE, expression |-> TRUE,
   started |-> 0, server |-> NoServer, remote |-> FALSE, code |-> "ok",
   retry_ok |-> FALSE, retry_count |-> 0, retried |-> FALSE, pending |-> "none",
   suspended |-> FALSE, resumed |-> FALSE, limit |-> "armed", retry_prev |-> 0]

Gone(r) == [Blank(r.event) EXCEPT !.state = "gone", !.retry_prev = r.retry_prev]

(* The sanity checks and the global brake of launchJob. *)
LaunchAllowed(e) ==
  /\ launched < MaxLaunches
  /\ e \notin disabled
  /\ MinuteMax > 0 => minuteJobs < MinuteMax

CountLaunch ==
  /\ launched' = launched + 1
  /\ clock' = Newest
  /\ minuteJobs' = IF MinuteMax = 0 THEN minuteJobs ELSE minuteJobs + 1

(* launchJob of the new job r in the hash J, with the next id. *)
LaunchJob(J, r) ==
  LET j == launched + 1 IN
  /\ CountLaunch
  /\ IF r.state = "ready"
     THEN MonitorReady([J EXCEPT ![j] = r], j)
     ELSE job' = [J EXCEPT ![j] = r] /\ UNCHANGED rateVars

-----------------------------------------------------------------------------
(* Launching and monitoring. *)

(* launchJob for a trigger or a user; a delayed job is looked at by a later tick. *)
Launch(e, p, st) ==
  /\ LaunchAllowed(e)
  /\ LaunchJob(job, [Blank(e) EXCEPT !.state = st, !.priority = p, !.started = Newest])
  /\ UNCHANGED <<envVars, sat, stored>>

(* monitorJob of a delayed job whose `until' has passed. *)
DelayOver(j) ==
  /\ job[j].state \in {"start_delay", "retry_delay"}
  /\ MonitorReady([job EXCEPT ![j].state = "ready"], j)
  /\ UNCHANGED <<idVars, envVars, sat, stored>>

(* One turn of the queue loop of monitorJobs: the head of the queue is taken *)
(* if there is room and a server for it; nothing behind it is looked at.     *)
MonitorQueue(k) ==
  /\ Queued(job, k) # {} /\ Amount[k] > 0
  /\ UNCHANGED <<idVars, envVars, sat, stored>>
  /\ \/ \E h \in Queued(job, k) :
          /\ IsHead(job, k, h)
          /\ ~AtCapacity(job, k) /\ ~RateFull(k) /\ Candidates(job, h) # {}
          /\ MonitorReady([job EXCEPT ![h].state = "ready"], h)
     \/ /\ \A h \in Queued(job, k) : IsHead(job, k, h) =>
             AtCapacity(job, k) \/ RateFull(k) \/ Candidates(job, h) = {}
        /\ window[k] # "open"
        /\ OpenWindow(k, 0) /\ UNCHANGED job

(* Send launch_job to the chosen server, or abort if it has left meanwhile. *)
SendLaunch(J, j) ==
  IF J[j].server \in online
  THEN /\ job' = [J EXCEPT ![j].remote = TRUE]
       /\ sat' = [sat EXCEPT ![j] = [phase |-> "sent", at |-> J[j].server, kill |-> FALSE]]
  ELSE job' = Abort(J, j) /\ UNCHANGED sat

(* The callback of runJobActions('start').  A resumed job has lost its server *)
(* and chooses again, which may put it back in the queue.                     *)
StartActionsDone(j) ==
  LET r == job[j]
      J == [job EXCEPT ![j] = [r EXCEPT !.state = "active", !.pending = "none",
                                 !.started = IF r.server = NoServer THEN Newest ELSE r.started]]
  IN
  /\ r.pending = "start_actions" /\ ~r.suspended
  /\ clock' = IF r.server = NoServer /\ r.state = "starting" THEN Newest ELSE clock
  /\ \/ /\ r.state = "complete"
        /\ job' = [job EXCEPT ![j] = Finish(@, @.code)]
        /\ UNCHANGED sat
     \/ /\ r.state = "starting" /\ r.server # NoServer
        /\ SendLaunch(J, j)
     \/ /\ r.state = "starting" /\ r.server = NoServer
        /\ \/ /\ Candidates(J, j) = {}
              /\ job' = Enqueue(J, j, TRUE)
              /\ UNCHANGED sat
           \/ \E s \in Candidates(J, j) : SendLaunch([J EXCEPT ![j].server = s], j)
  /\ UNCHANGED <<launched, minuteJobs, rateVars, envVars, stored>>

(* api_resume_job: the suspend action lets go, and the server is forgotten. *)
Resume(j) ==
  /\ job[j].suspended
  /\ job' = [job EXCEPT ![j] = [@ EXCEPT !.suspended = FALSE, !.resumed = TRUE,
                                         !.server = NoServer]]
  /\ UNCHANGED <<idVars, rateVars, envVars, sat, stored>>

(* checkDeadJobTimeout: no update for dead_job_timeout seconds. *)
DeadTimeout(j) ==
  /\ job[j].state \in {"active", "finishing"}
  /\ job' = Abort([job EXCEPT ![j].retry_ok = TRUE], j)
  /\ AbortMessage(j)
  /\ UNCHANGED <<idVars, rateVars, envVars, stored>>

(* checkJobActiveLimits: a runtime limit is exceeded and its actions start. *)
LimitTrigger(j) ==
  /\ job[j].state = "active" /\ job[j].limit = "armed" /\ job[j].event \in Limited
  /\ job' = [job EXCEPT ![j].limit = "firing"]
  /\ UNCHANGED <<idVars, rateVars, envVars, sat, stored>>

(* The end of triggerActiveJobLimit, whatever has become of the job meanwhile. *)
LimitFire(j) ==
  /\ job[j].limit = "firing"
  /\ job' = Abort([job EXCEPT ![j] = [@ EXCEPT !.limit = "fired", !.retry_ok = TRUE]], j)
  /\ AbortMessage(j)
  /\ UNCHANGED <<idVars, rateVars, envVars, stored>>

(* api_abort_job. *)
UserAbort(j) ==
  /\ j \in Live(job)
  /\ job' = Abort(job, j)
  /\ AbortMessage(j)
  /\ UNCHANGED <<idVars, rateVars, envVars, stored>>

(* api_flush_job_queue: queued jobs are dropped with no trace. *)
Flush(k) ==
  /\ Queued(job, k) # {}
  /\ job' = [j \in Ids |-> IF j \in Queued(job, k) THEN Gone(job[j]) ELSE job[j]]
  /\ UNCHANGED <<idVars, rateVars, envVars, sat, stored>>

-----------------------------------------------------------------------------
(* Finishing: the three asynchronous stages of finishJob. *)

(* The early returns of checkRetryJob that leave retry_ok alone are false here. *)
RetryChecked(r) ==
  /\ r.code # "ok" /\ ~r.retried /\ Retries[r.event] > 0
  /\ r.code = "abort" => r.retry_ok \/ r.event \in ForceRetry

(* The copy launched as a retry keeps a fixed list of properties, which has *)
(* neither the target expression nor the priority.                          *)
RetryOf(r, j) ==
  [Blank(r.event) EXCEPT
     !.state = IF r.event \in RetryDelay THEN "retry_delay" ELSE "ready",
     !.expression = FALSE, !.started = Newest,
     !.retry_count = r.retry_count + 1, !.retry_prev = j]

EndActions(r) ==
  [r EXCEPT !.pending = "end_actions",
            !.suspended = (r.event \in SuspendEnd /\ ~r.retried)]

(* The callback of prepJobLog: decide on a retry, then run the completion actions. *)
JobLogReady(j) ==
  LET r == job[j]
      checked == IF RetryChecked(r) THEN [r EXCEPT !.retry_ok = FALSE] ELSE r
      again == RetryChecked(r) /\ r.retry_count < Retries[r.event] /\ LaunchAllowed(r.event)
  IN
  /\ r.pending = "job_log"
  /\ IF again
     THEN LaunchJob([job EXCEPT ![j] = EndActions([checked EXCEPT !.retried = TRUE])],
                    RetryOf(r, j))
     ELSE /\ job' = [job EXCEPT ![j] = EndActions(checked)]
          /\ UNCHANGED <<idVars, rateVars>>
  /\ UNCHANGED <<envVars, sat, stored>>

(* The callback of the completion actions hands a copy to the database: what *)
(* happens to the job from here on is not recorded.                          *)
EndActionsDone(j) ==
  /\ job[j].pending = "end_actions" /\ ~job[j].suspended
  /\ job' = [job EXCEPT ![j].pending = "insert"]
  /\ stored' = [stored EXCEPT ![j] = job[j].code]
  /\ UNCHANGED <<idVars, rateVars, envVars, sat>>

(* The callback of the insertion: only now does the job leave activeJobs. *)
Indexed(j) ==
  /\ job[j].pending = "insert"
  /\ job' = [job EXCEPT ![j] = Gone(@)]
  /\ UNCHANGED <<idVars, rateVars, envVars, sat, stored>>

-----------------------------------------------------------------------------
(* The satellites (external: test/xysat.js is the repository's stand-in) and *)
(* the messages they exchange with the conductor.                            *)

Connected(j) == sat[j].at \in online
Idle == [phase |-> "none", at |-> NoServer, kill |-> FALSE]

(* launch_job arrives. *)
SatLaunch(j) ==
  /\ sat[j].phase = "sent"
  /\ sat' = [sat EXCEPT ![j].phase = "running"]
  /\ UNCHANGED <<job, idVars, rateVars, envVars, stored>>

(* The process exits and its output is uploaded, connected or not. *)
SatExit(j) ==
  /\ sat[j].phase = "running"
  /\ sat' = [sat EXCEPT ![j].phase = "uploading", ![j].kill = FALSE]
  /\ UNCHANGED <<job, idVars, rateVars, envVars, stored>>

SatComplete(j) ==
  /\ sat[j].phase = "uploading"
  /\ \E c \in ExitCodes : sat' = [sat EXCEPT ![j].phase = c]
  /\ UNCHANGED <<job, idVars, rateVars, envVars, stored>>

(* abort_job arrives and the process is killed. *)
SatKill(j) ==
  /\ sat[j].kill /\ sat[j].phase = "running"
  /\ sat' = [sat EXCEPT ![j].phase = "abort", ![j].kill = FALSE]
  /\ UNCHANGED <<job, idVars, rateVars, envVars, stored>>

(* A disconnected satellite dies, or drops a final update it could not send. *)
SatLose(j) ==
  /\ sat[j].phase # "none" /\ ~Connected(j)
  /\ sat' = [sat EXCEPT ![j] = Idle]
  /\ UNCHANGED <<job, idVars, rateVars, envVars, stored>>

Final(j) == sat[j].phase \in Codes

(* An update comes over the socket, a final one perhaps through api_finish_job. *)
CanReport(j) == IF Final(j) THEN TRUE ELSE Connected(j) /\ sat[j].phase \in {"running", "uploading"}

(* Mutant: updates are applied to a job that is already complete. *)
Update_NoSanityCheck(j) ==
  /\ CanReport(j)
  /\ j \in Live(job)
  /\ job' = [job EXCEPT ![j] =
       IF Final(j) THEN Finish(@, sat[j].phase)
       ELSE [@ EXCEPT !.remote = TRUE,
                      !.state = IF sat[j].phase = "running" THEN "active" ELSE "finishing"]]
  /\ sat' = IF Final(j) THEN [sat EXCEPT ![j] = Idle] ELSE sat
  /\ UNCHANGED <<idVars, rateVars, envVars, stored>>

(* updateJobData for a job in activeJobs. *)
Update(j) ==
  /\ CanReport(j)
  /\ j \in Live(job)
  /\ IF job[j].state = "complete" THEN UNCHANGED job
     ELSE job' = [job EXCEPT ![j] =
            IF Final(j) THEN Finish(@, sat[j].phase)
            ELSE [@ EXCEPT !.remote = TRUE,
                           !.state = IF sat[j].phase = "running" THEN "active" ELSE "finishing"]]
  /\ sat' = IF Final(j) THEN [sat EXCEPT ![j] = Idle] ELSE sat
  /\ UNCHANGED <<idVars, rateVars, envVars, stored>>

(* updateJobLate: a final update for a job that is no longer active goes to *)
(* the database; the others are ignored.                                    *)
UpdateLate(j) ==
  /\ Final(j)
  /\ j \notin Live(job)
  /\ stored' = [stored EXCEPT ![j] =
       IF @ = "none" THEN @ ELSE IF @ = "abort" THEN "warning" ELSE sat[j].phase]
  /\ sat' = [sat EXCEPT ![j] = Idle]
  /\ UNCHANGED <<job, idVars, rateVars, envVars>>

-----------------------------------------------------------------------------
(* Servers, time and configuration. *)

(* Mutants: the remote flag is kept; the jobs of a lost server are queued again. *)
RemoveServer_KeepsRemote(s) ==
  /\ s \in online /\ s \in Unstable
  /\ online' = online \ {s}
  /\ UNCHANGED <<job, idVars, rateVars, blocked, disabled, sat, stored>>
RemoveServer_Requeues(s) ==
  /\ s \in online /\ s \in Unstable
  /\ online' = online \ {s}
  /\ job' = [j \in Ids |-> IF job[j].remote /\ job[j].server = s
                           THEN [job[j] EXCEPT !.remote = FALSE, !.state = "queued"] ELSE job[j]]
  /\ UNCHANGED <<idVars, rateVars, blocked, disabled, sat, stored>>

(* removeServer: its jobs stay active, no longer remote; what was on the wire *)
(* is lost.                                                                   *)
RemoveServer(s) ==
  /\ s \in online /\ s \in Unstable
  /\ online' = online \ {s}
  /\ job' = [j \in Ids |-> IF job[j].remote /\ job[j].server = s
                           THEN [job[j] EXCEPT !.remote = FALSE] ELSE job[j]]
  /\ sat' = [j \in Ids |-> IF sat[j].at # s THEN sat[j]
                           ELSE IF sat[j].phase = "sent" THEN Idle
                           ELSE [sat[j] EXCEPT !.kill = FALSE]]
  /\ UNCHANGED <<idVars, rateVars, blocked, disabled, stored>>

AddServer(s) ==
  /\ s \notin online
  /\ online' = online \cup {s}
  /\ UNCHANGED <<job, idVars, rateVars, blocked, disabled, sat, stored>>

(* An admin disables or enables a server, or an alert with limit_jobs comes and goes. *)
ToggleServer(s) ==
  /\ s \in Blockable
  /\ blocked' = IF s \in blocked THEN blocked \ {s} ELSE blocked \cup {s}
  /\ UNCHANGED <<job, idVars, rateVars, online, disabled, sat, stored>>

ToggleEvent(e) ==
  /\ e \in Switchable
  /\ disabled' = IF e \in disabled THEN disabled \ {e} ELSE disabled \cup {e}
  /\ UNCHANGED <<job, idVars, rateVars, online, blocked, sat, stored>>

(* The end of a rate window, seen by the next look at it ... *)
WindowEnds(k) ==
  /\ window[k] = "open"
  /\ window' = [window EXCEPT ![k] = "expired"]
  /\ UNCHANGED <<job, idVars, rateCount, envVars, sat, stored>>

(* ... or by expireJobRateLimits. *)
ExpireRateLimit(k) ==
  /\ window[k] = "expired"
  /\ window' = [window EXCEPT ![k] = "none"]
  /\ rateCount' = [rateCount EXCEPT ![k] = 0]
  /\ UNCHANGED <<job, idVars, envVars, sat, stored>>

NewMinute ==
  /\ minuteJobs > 0
  /\ minuteJobs' = 0
  /\ UNCHANGED <<job, launched, clock, rateVars, envVars, sat, stored>>

-----------------------------------------------------------------------------
Init ==
  /\ job = [j \in Ids |-> Blank(CHOOSE e \in Events : TRUE)]
  /\ launched = 0 /\ clock = 0
  /\ window = [k \in Keys |-> "none"]
  /\ rateCount = [k \in Keys |-> 0]
  /\ minuteJobs = 0
  /\ online = Servers /\ blocked = {} /\ disabled = {}
  /\ sat = [j \in Ids |-> Idle]
  /\ stored = [j \in Ids |-> "none"]

(* What the conductor does by itself for the job j. *)
JobStep(j) ==
  \/ DelayOver(j) \/ StartActionsDone(j) \/ LimitFire(j)
  \/ JobLogReady(j) \/ EndActionsDone(j) \/ Indexed(j)

SatStep(j) ==
  \/ SatLaunch(j) \/ SatExit(j) \/ SatComplete(j) \/ SatKill(j)
  \/ Update(j) \/ UpdateLate(j)

Next ==
  \/ \E e \in Events, p \in Priorities, st \in FirstStates : Launch(e, p, st)
  \/ \E j \in Ids : JobStep(j) \/ SatStep(j) \/ SatLose(j)
  \/ \E j \in Ids : Resume(j) \/ DeadTimeout(j) \/ LimitTrigger(j) \/ UserAbort(j)
  \/ \E k \in Keys : MonitorQueue(k) \/ Flush(k) \/ WindowEnds(k) \/ ExpireRateLimit(k)
  \/ \E s \in Servers : RemoveServer(s) \/ AddServer(s) \/ ToggleServer(s)
  \/ \E e \in Events : ToggleEvent(e)
  \/ NewMinute

Spec == Init /\ [][Next]_vars

(* No satellite will ever report on this job. *)
Silent(j) == sat[j].phase = "none"

(* The tick runs every second and every callback is eventually called; a dead *)
(* job is only sure to be noticed if nothing reports on it.  Satellites are   *)
(* assumed to finish what they run and to come back.  Users, admins, limits   *)
(* and disconnections are under no obligation.                                *)
Fairness ==
  /\ \A j \in Ids : WF_vars(JobStep(j)) /\ WF_vars(Silent(j) /\ DeadTimeout(j))
  /\ \A j \in Ids : WF_vars(SatStep(j))
  /\ \A k \in Keys : WF_vars(MonitorQueue(k)) /\ WF_vars(WindowEnds(k))
  /\ \A s \in Servers : WF_vars(AddServer(s))

FairSpec == Spec /\ Fairness

-----------------------------------------------------------------------------
(* Properties. *)

(* The shape of the state: every record is one the code can hold, and "ready" *)
(* never outlives the callback that sets it.                                  *)
TypeOK ==
  /\ job \in [Ids -> JobRecord] /\ \A j \in Ids : job[j].state # "ready"
  /\ launched \in 0..MaxLaunches /\ clock \in Nat
  /\ window \in [Keys -> {"none", "open", "expired"}]
  /\ rateCount \in [Keys -> Nat]
  /\ minuteJobs \in Nat
  /\ online \subseteq Servers /\ blocked \subseteq Servers /\ disabled \subseteq Events
  /\ sat \in [Ids -> SatRecord]
  /\ stored \in [Ids -> Codes \cup {"none", "warning"}]

(* The job limit: no more jobs of a key start or run than it allows, however   *)
(* launches, delays, retries, dequeues and resumed jobs interleave             *)
(* (checkJobStartLimits counts the jobs still in their start actions for this).*)
ConcurrencyBound ==
  \A k \in Keys : Amount[k] > 0 => Cardinality(Running(job, k)) <= Amount[k]

(* The queue limit: three places of the code put a job in the queue, one of *)
(* them from the active state, and none overfills it.                       *)
QueueBound == \A k \in Keys : Cardinality(Queued(job, k)) <= QueueMax[k]

(* filterServerByMaxJobs: the weight placed on a server never exceeds its     *)
(* maximum, although a server is chosen long before the job is launched on it *)
(* and a resumed job gives its place up and chooses again.                    *)
ServerLoadBound == \A s \in Servers : ServerMax[s] > 0 => Load(job, s) <= ServerMax[s]

(* No window admits more starts than the rate, and no start escapes the count: *)
(* whatever puts a job in "starting" adds one to the window it starts in.      *)
RateBound ==
  [][\A j \in Ids :
       LET k == KeyOf[job'[j].event] IN
       job[j].state # "starting" /\ job'[j].state = "starting" /\ Rate[k] > 0
       => /\ window'[k] = "open"
          /\ rateCount'[k] = RateNow(k) + 1 /\ rateCount'[k] <= Rate[k]]_vars

(* Nobody is left stranded: a job is starting or complete exactly while one   *)
(* callback is outstanding that will move it on, even when it is aborted      *)
(* during its actions and abortJob leaves the rest to be `detected downstream'.*)
CallbackPending ==
  \A j \in Ids :
    /\ job[j].state = "starting" => job[j].pending = "start_actions"
    /\ job[j].state = "complete" => job[j].pending # "none"
    /\ job[j].pending # "none" => job[j].state \in {"starting", "complete"}
    /\ job[j].suspended => job[j].pending \in {"start_actions", "end_actions"}

(* abortJob calls the case of a remote job without a connected server one that *)
(* `should never happen': removeServer and updateJobData keep it so.           *)
RemoteHasServer == \A j \in Ids : job[j].remote => job[j].server \in online

(* What a satellite has of a job, from the launch message to a result it has   *)
(* not delivered, is of one that was launched here: never of one that was not, *)
(* waits, is queued again or is still in its start actions.  And a job that    *)
(* finishes here no longer runs there (removeServer, updateJobData).           *)
SatelliteAgrees ==
  \A j \in Ids :
    /\ sat[j].phase # "none" => job[j].state \in {"active", "finishing", "complete", "gone"}
    /\ job[j].state = "finishing" => sat[j].phase \notin {"sent", "running"}

(* A retry is launched at most once for a job, and only when the attempt before *)
(* it is over: late updates, timeouts and aborts never leave two attempts alive.*)
OneLiveAttempt ==
  \A i \in Ids : LET p == job[i].retry_prev IN p # 0 =>
    /\ job[p].state \in {"complete", "gone"}
    /\ \A h \in Ids : job[h].retry_prev = p => h = i

(* updateJobLate: a result in the database changes only when an aborted job *)
(* turns out to have finished after all, and then to a warning.             *)
LateUpdateOnlyAfterAbort ==
  [][\A j \in Ids : stored[j] # "none" /\ stored'[j] # stored[j]
                    => stored[j] = "abort" /\ stored'[j] = "warning"]_vars

(* finishJob always comes to an end, unless a suspend action waits for its user. *)
CompletionEnds ==
  \A j \in Ids : job[j].state = "complete"
    ~> \/ job[j].state = "gone"
       \/ job[j].suspended /\ job[j].pending = "end_actions"

(* A job that no satellite will ever report on is noticed and ended. *)
DeadJobsEnd ==
  \A j \in Ids : job[j].state \in {"active", "finishing"} /\ Silent(j)
                 ~> job[j].state \in {"complete", "gone"}

(* While servers stay and no job is suspended, only other jobs that start again *)
(* and again keep one in the queue for ever: those with priority, and new ones, *)
(* which take the room or the place in the window before the tick               *)
(* (checkJobStartLimits does not look at the queue).  Once they have ended, the *)
(* tick serves everyone.                                                        *)
Overtakes(j) ==
  \E i \in Ids \ {j} : job[i].state # "starting" /\ job'[i].state = "starting"
QueueServed ==
  \A j \in Ids : <>[](job[j].state = "queued") => []<><<Overtakes(j)>>_vars

PhaseOf(s) ==
  CASE s = "none" -> "none"
    [] s \in {"start_delay", "retry_delay", "ready", "queued"} -> "waiting"
    [] s \in {"starting", "active"} -> "running"
    [] s \in {"finishing", "complete"} -> "ending"
    [] s = "gone" -> "done"

Pool == INSTANCE JobPool WITH
  Limit <- Amount,
  phase <- [j \in Ids |-> PhaseOf(job[j].state)],
  key   <- [j \in Ids |-> KeyOf[job[j].event]]

(* The engine implements the abstract pool. *)
ImplementsPool == Pool!PSpec

=============================================================================
