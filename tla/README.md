# xyOps in TLA+

A verification project for xyOps, the job scheduler, workflow and monitoring
server of this repository.  The modules are translated from the sources under
`lib/`; documentation is quoted only where a run compares the program with it.

Contents: [inventory](#inventory), [plan](#plan), [the modules](#the-modules),
[the runs](#the-runs), [proofs](#proofs), [disagreements](#disagreements),
[what is not modelled](#what-is-not-modelled).

## Inventory

xyOps is one Node.js process per *conductor*.  One conductor of the cluster is
primary (`this.master`) and does everything below; the others hold copies.
*Satellites* (xySat agents) on the servers run the jobs and stream monitoring
data over web sockets.  A conductor is single threaded: what makes it hard is
that most operations end in a callback of the file system, the database or an
external process, with ticks, requests and satellite messages in between.

| part | state | operations | hard behaviour | correct when |
|---|---|---|---|---|
| Job engine, `lib/job.js`, `lib/api/jobs.js` | `activeJobs`, `jobDetails`, `jobRateLimits`, `stats.currentMinute` | `launchJob`, `monitorJobs`, `monitorJob`, `checkJobStartLimits`, `chooseJobServer`, `updateJobData`, `updateJobLate`, `abortJob`, `finishJob`, `checkRetryJob`, resume, flush | several asynchronous stages at both ends of a job; aborts, updates and timeouts in any of them; queueing in three places; late results | no limit is exceeded, no job is stranded or runs twice, results are not overwritten, every start is counted, queues drain |
| Job actions, `lib/action.js` | `job.actions`, suspension | `runJobActions`, one handler per type | run in parallel and asynchronously, poll while suspended | the callback always comes, once |
| Workflow engine, `lib/workflow.js` | `job.workflow.state`, `workflow.jobs`, `wfJobData` | `startWorkflow`, `runWorkflowNode`, controllers (multiplex, repeat, split, join, decision, wait), `finishWorkflowJob`, `tickWorkflow`, `abortWorkflow` | counters of controllers while their jobs finish in any order, re-entry, replay loaded asynchronously | a workflow ends exactly when nothing more can happen; thresholds count the right jobs |
| Scheduler, `lib/schedule.js` | cursors in `state`, launch queue | `schedulerMinuteTick`, `enqueueLaunch`, startup and activity triggers | missed minutes, crash between launch and saved cursor | each due minute launches once, or is caught up |
| Conductor cluster, `lib/multi.js` | `master`, `masterSocket`, `peers`, `electionTimer`, recovery file | `electMaster`, `becomeMaster`, `receiveNewMaster`, `lostMaster`, `masterSync`, `prepActiveJobs`, `multiShutdown` | crash, lost messages, two candidates at once, asynchronous start-up of a primary | at most one primary, eventually one, and no job lost or repeated by a take-over |
| Monitors and alerts, `lib/monitor.js`, `lib/alert.js` | `activeAlerts`, `warmAlerts` | `handleMonitoringData`, `clearActiveAlert` | warm-up counters over samples that may be missed; clears, deletions and the clean-up between a write and its answer | as many equal samples in a row as configured decide; what is active in memory is active in the database |
| Servers and groups, `lib/server.js` | `servers`, `serverCache` | `addServer`, `removeServer`, `updateServer`, group assignment | disconnection with jobs on board | jobs of a lost server are neither lost nor started again |
| Satellite link, `lib/comm.js`, `lib/api/satellite.js` | sockets | `launch_job`, `abort_job`, `updateJob`, `finish_job` | messages lost with a socket, final results kept and sent later | the two sides agree on who runs what |
| Maintenance, tickets, buckets, secrets, users, configuration, web interface | database records | create, read, update, delete; nightly clean-up | storage locks | outside this project so far, see below |

How they interact: the scheduler, users, actions and workflows call `launchJob`;
the tick of `lib/engine.js` calls `monitorJobs` and `tickWorkflow` every second;
`finishJob` calls `finishWorkflowJob`, which may call `launchJob`; satellites
answer through `lib/comm.js`; alerts block servers (`filterServerByAlerts`) and
abort jobs; `masterSync` copies `activeJobs` to the other conductors.

`PROJECT.json` lists the components with their status and every hazard with its
line and the properties that cover it.

## Plan

| step | modules | about |
|---|---|---|
| done | `JobQueue`, `JobPool`, `JobQueueProofs`, `JobLimitsProofs` | the life of a job, its limits, satellites and retries; the abstract pool |
| done | `Conductors`, `Leadership`, `ConductorsProofs` | the abstract office of primary conductor; the election, with the asynchronous window of `becomeMaster`, timers, connections, crashes and restarts |
| done | `Workflow`, `ForkJoin`, `WorkflowProofs`, `WorkflowCountsProofs` | the workflow engine: nodes, controllers, retries, replays, aborts; the abstract fork-join |
| done | `Failover`, `FailoverProofs` | what becomes of the jobs when the primary changes: sparse synchronisation, recovery file, take-over |
| done | `Schedule`, `ScheduleProofs` | the minute tick, catch-up, the Nth counter, the launch queue, crashes |
| done | `Alerts`, `AlertsProofs` | the warm-up counter (enough samples in a row decide), memory against database |
| next | `JobQueue` | `api_update_active_job` as check and merge; a user's abort that a disconnection forgets |
| next | `Buckets` | store and fetch actions of parallel jobs under the storage lock |

## The modules

### JobQueue

The job engine of the primary conductor.  A step is one callback that runs to
completion, so everything a handler does before it returns to the event loop is
one action: `launchJob` of a job without delay includes its `monitorJob`, its
limits, the choice of the server and the entry in the queue or the abort.

| variable | code |
|---|---|
| `job` | `activeJobs` (a record per job id; `none` before and `gone` after) with `state`, `remote`, `server`, `code`, `retry_ok`, `retry_count`, `retried`, `started`, and from the suspend action `suspended` and `resumed` |
| `job[j].pending` | the callback outstanding for the job: start actions, job log, completion actions, database insertion |
| `job[j].limit` | whether the runtime limit is armed, its actions run, or it has fired |
| `window`, `rateCount` | `jobRateLimits[queue_id]`: `expires` against the clock, `count` |
| `minuteJobs` | `stats.currentMinute.jobs` |
| `online`, `blocked`, `disabled` | `servers`; servers disabled or under an alert with `limit_jobs`; events with `enabled` off |
| `sat` | what the satellite of the job has: the launch message, the process, the upload, or a final result |
| `stored` | the `code` of the job in the database |
| `launched`, `clock` | ids and the order of `job.started`; not in the code |

| actions | code |
|---|---|
| `Launch`, `DelayOver`, `MonitorQueue` | `launchJob`, `monitorJob` of delayed jobs, the queue loop of `monitorJobs` (one turn of its `while`) |
| `StartActionsDone`, `Resume` | the callback of the start actions with the second choice of a server for a resumed job; `api_resume_job` |
| `LimitTrigger`, `LimitFire`, `DeadTimeout`, `UserAbort` | the ways to `abortJob` |
| `JobLogReady`, `EndActionsDone`, `Indexed` | the asynchronous stages of `finishJob`, with `checkRetryJob` |
| `Update`, `UpdateLate` | `updateJobData`, `updateJobLate` |
| `RemoveServer`, `AddServer`, `ToggleServer`, `ToggleEvent` | `removeServer`, `addServer`, administration |
| `WindowEnds`, `ExpireRateLimit`, `NewMinute`, `Flush` | time and `api_flush_job_queue` |
| `SatLaunch`, `SatExit`, `SatComplete`, `SatKill`, `SatLose` | the satellite: external, after `test/xysat.js` and the messages `lib/comm.js` handles |

Abstractions.  A pool is a queue id and its members have the same limits, as
`docs/limits.md` demands of events that share a key.  Targets are resolved to a
set of servers and a target expression to the subset where it holds; the
algorithm that picks one of several candidates is a free choice.  Durations are
dropped: a delay, a window or a timeout may end whenever it is running.  The
`while` loop of the queue is one action per turn; a step of another action
between two turns is one that could as well have come before the tick.  Jobs
whose output, plugins, files or statistics differ are not told apart.

### JobPool

The abstract specification: jobs that wait, run, end and are done, with at most
`Limit[k]` running per key.  `JobQueue` implements it (`ImplementsPool`):
`starting` and `active` are running; every other live state waits or ends.  A job in
`finishing` has left the pool, as in `checkJobStartLimits`.

### MCJobQueue

Values of the constants of the `Job` runs; the numbers are in the `.cfg` files.

### Conductors

The election of the primary in `lib/multi.js`, with both ends of the
`PeerSocket`s and the socket handlers of `lib/comm.js`.  The code says `master`.

| variable | code |
|---|---|
| `role` | `down`: no process; `backup`: neither `this.master` nor in `becomeMaster`; `starting`: in the asynchronous part of `becomeMaster`, with `this.master` still unset; `primary`: `this.master` |
| `elections` | the runs of `electMaster` that wait for answers: who has still to answer, `online`, `found_master` |
| `timers`, `handle` | the armed election timers, and whether `this.electionTimer` refers to the last one.  `lostMaster` and `electMaster` arm a timer without clearing the one before, so there may be several, of which `clearTimeout` reaches one |
| `link[m][p]` | the `PeerSocket` of `m` to `p`: waiting to connect, connected with the hello (`master`) on its way, hello handled, or broken and not yet noticed by `m` |
| `sockets[p]` | the accepted sockets of `p` that carry `socket.master`, whose close calls `lostMaster` |
| `masterSocket` | `this.masterSocket` |
| `parked` | ghost: the last election of the conductor ended with `if (found_master) return` |
| `faults` | what is left of the bounds on crashes, broken connections and lost calls; not in the code |

| actions | code |
|---|---|
| `Start`, `Crash` | `multiSetup` of a new process; its end, clean (`multiShutdown`) or not |
| `ElectMaster`, `Register`, `RegisterLost` | `electMaster` and its calls of `api_master_register`; an answer is what the candidate is when it answers |
| `ElectionStops`, `StepAside`, `Win`, `WinTwice` | the end of `electMaster`; `Win` includes `becomeMaster` up to its first `await`, `WinTwice` is its emergency shutdown |
| `StartupDone` | the end of the `async.series` of `becomeMaster` |
| `Connect`, `ReceiveNewMaster` | `setupPeer`'s hello and `receiveNewMaster`, which shuts down a primary |
| `Drop`, `Disconnected`, `LostMaster` | a connection breaks; each end notices by itself |
| `Relinquish` | `checkPeerRelinquish` up to the restart |

Time.  Nothing is counted.  If `Timely`, a timer carries the conductors that were
in an election or a start-up when it was armed, and cannot go off before these
are through: electing and starting up take less than `master_timeout_sec`
(10 seconds; a register call times out after 5).  Without `Timely` it may go off
at any time.  If `Prompt`, no election starts or is won while some
end of a connection has not noticed that it is broken.  That is what a
closed socket does; for a half-open one the code does not promise it
(`ping_timeout_sec` is 30, `master_timeout_sec` is 10), so only `LeadFollows` assumes it:
without it, timers pile up while a dead connection is not noticed, and no bound
on them is large enough.  The liveness of the cluster is therefore not shown for
half-open connections.

`Misled` says that some conductor was told of a primary and waits for its hello
while nobody is primary.  The code has no way out of it (see
[disagreements](#disagreements)), so `EveryoneFollows` and `PreferredLeads` are
about behaviours without it.

Abstractions.  A second `becomeMaster` of a conductor that is still starting sets
up its peers twice and ends its `async.series` twice; the model has one
start-up, which ends once.  The member list is fixed and has two conductors or more (a
single one calls `becomeMaster` from `multiSetup` without an election).  The keys
agree, so authentication never fails.  A clean shutdown is one step.  Both ends of a
connection are closed before a new one is made, and the "hurry up" of
`api_master_register` only shortens a wait.  `relinquish_wait_jobs` and
internal jobs, which delay `Relinquish`, are left out, and
`relinquish_min_age` is dropped.

`Leadership` is the abstract specification: the office of primary has at most one
holder, who starts up once before it acts, and is vacant between two holders.
`Conductors` implements it (`Office`); `Failover` takes it for granted.

`MCConductors` holds the constants of the `Lead` runs.

### Workflow

One running workflow of `lib/workflow.js`.  Running a node runs the nodes behind
it before it returns, so a callback of the code is a depth-first walk.  The walk
is the list `agenda`: each action takes one node off its head and puts what the
node runs in front, and no other callback starts before the list is empty
(`Quiet`).  The order of steps is that of the code, and an abort in the middle
of a walk meets exactly the nodes the code would still run.

| variable | code |
|---|---|
| `flow` | the workflow's nodes, wires and settings |
| `phase`, `aborted`, `result` | `job.state`, `workflow.aborted`, `job.code` of the workflow's own job |
| `agenda`, `pass` | the call stack of `runWorkflowNode`; the loop of `tickWorkflow` over the nodes |
| `node` | `workflow.state`: active, error, `count` and `max` per node |
| `jobs` | `workflow.jobs`: completed jobs, counted per node as success, failure or retried |
| `sub` | the sub-jobs in `activeJobs`, and replays whose old job is being loaded (`state.loading`) |
| `lost`, `reentered`, `rounds`, `won` | ghosts for the properties |

| actions | code |
|---|---|
| `RunTrigger` ... `RunWait` | `runWorkflowNode` and the handler of each node type |
| `RunJob`, `RunEvent`, `Launch`, `Replay` | `runWFJob`, with `max_jobs_per_workflow`, failing launches and `replayWorkflowJob` |
| `EndSub`, `CheckRetry`, `FinishSub` | a sub-job reaches `finishJob`; `checkRetryJob`; `finishWorkflowJob` with the controller's counter, the option to abort on the first failure, and the wires that match the result |
| `ReplayLoaded`, `ActionDone`, `WaitOver`, `FlushSub`, `UserAbort` | the other callbacks and requests |
| `TickNodes`, `TickNode`, `TickEnd` | `tickWorkflow`: waits, joins that have starved, the end of the workflow |

Abstractions.  Data on the wires, files and parameters are left out; what an
expression, an empty list or a missing server decides is a free choice, and so
is the number of items of a split or servers of a multiplex (up to `MaxItems`).
A wait node that is run waits, or stays inactive because it has no time to wait:
a free choice too.
A sub-job that waits, is queued or runs is `active`.

The percentage of *On Continue* is `Math.floor((successes / size) * 100)` in
floating point.  That is the integer quotient, except where the exact percentage
is a whole number and the product falls just below it; 29 of 50 gives 57.  The
constant `RoundsDown` is the set of these pairs, and `Percentage` is one less for
them.  `ContinueEarned` says that a controller continues with more than its
percentage, not with less, and with exactly the percentage unless the pair is one
of `RoundsDown`.  The smallest such pair is far beyond two items, so no run meets
it; `ContinueEarnedCorrect` is proved for every `RoundsDown`.

`ForkJoin` is the abstract specification: some things are busy, only what is
busy makes other things busy, the whole ends once, and nothing is busy
afterwards.  `Workflow` implements it (`ImplementsForkJoin`), with the live
sub-jobs, the loading replays, the active nodes and the walk as what is busy.

`MCWorkflow` has eight workflows of five nodes that together have every node
type, nested controllers, loops, joins, replays and redirects; one run
checks them all, each as an initial state.

### Failover

What happens to `activeJobs` when conductors fail.  `Conductors` shows that two
do not lead at once and that somebody leads in the end; here a conductor may
begin to lead whenever no other does (`Vacant`, the guard of `Leadership`), and the job engine is reduced
to the states that are synchronised.

| variable | code |
|---|---|
| `role`, `table`, `file` | of each conductor: role, `activeJobs`, recovery file |
| `peer`, `sent`, `inbox` | the primary's socket to each backup, `peer.jobStates`, and the `update` messages the backup has still to handle |
| `starting`, `log`, `actions` | how many callbacks of start actions, of the job log, and of the completion actions with their insertion are outstanding for each job; a new primary has none |
| `origin`, `db`, `sat`, `online` | the job each job retries, the stored results, what the satellite has, whether it is connected |
| `runs`, `cut`, `open` | ghosts: launches on the satellite; takeovers by a conductor that held the job as not started, and as unfinished |

| actions | code |
|---|---|
| `LaunchJob`, `StartJob`, `Started`, `Update`, `DeadJob`, `Report`, `LogReady`, `Indexed` | `launchJob`, `monitorJob` and its start actions, `updateJobData`, `checkDeadJobTimeout`, `updateJobLate`, the stages of `finishJob` with `checkRetryJob` |
| `ReceiveNewMaster`, `Standby`, `MasterSync`, `ReceiveMasterUpdate`, `Drop` | the hello and its answer, `masterSync` to one peer, its reception, a broken connection |
| `Crash`, `Stop`, `Restart` | the end of a process, without and with `multiShutdown`'s recovery file; a new one |
| `BecomeMaster`, `PrepActiveJobs` | `becomeMaster` with `importRecoveryFile`; `prepActiveJobs` after its asynchronous part |

When a primary ends, what it sent to the backups may or may not still arrive
(`kept` in `Ends`).  An empty recovery file is the same as none.  There is one
satellite, and a retry of one job at most.

### Schedule

The scheduler: `lib/schedule.js`, the state of `lib/engine.js` it keeps its
cursors in, and the calls of `lib/api/events.js` and `lib/api/admin.js` that
touch this state.  Time is in minutes of `SecondsPerMinute` seconds.

| variable | code |
|---|---|
| `listed`, `enabled`, `catchup` | the events, their `enabled` flag and catch-up trigger |
| `state`, `saved` | `this.state` (`scheduler/enabled`, `events/<id>/cursor` and the Nth counter) and what the storage holds of it |
| `queue`, `deferred` | `launchQueue`; the batches trigger plugins are evaluating |
| `conductor`, `startup` | up, stopping or down; whether `checkStartupTriggers` is still to come |
| `state.base`, `state.skip` | ghosts: the minute before the first that a cursor stands for; the due minutes its Nth counter lets pass before the first it picks |
| `scheduled`, `replay` | ghosts: the minutes an event was scheduled for, up to where a user set its cursor; those that may come again |
| `kept`, `since`, `unsaved` | ghosts: whether the cursor has been in use since it was set, where or when that was, and whether it has been saved since |

`Minute` is `schedulerMinuteTick`: for every event the minutes from its cursor
to now, with schedules, intervals, single shots, ranges, blackouts, the Nth
counter, precision seconds and plugins, in the order of the code.  The others
are the startup check, the return of a plugin, `dequeueLaunch`, the saving of
the state, the four kinds of user changes with their activity triggers, and
stop, exit, crash and restart.  Users create and delete an event, enable it and
disable it, switch its catch-up, and set its cursor or its Nth counter
(`SetState`: `update_state` of `api_create_event` and `api_update_event`, and
`api_update_global_state`, which writes the state of any event, listed or not).
They set them to members of `Cursors` and `Counters`, and a cursor is set to a
whole minute.  The other triggers of an event stay what they are: edits of
schedules, ranges, Nth rules and plugins are not modelled, so an event never
loses its last enabled schedule trigger, in which case the tick would leave its cursor
behind.  *Scheduled* means put in the launch queue or given to the
plugin: a stop or a crash drops what waits there.  The calendar fields of a schedule trigger in
their time zone are the set of minutes they match.  The events of the cache
(`this.events`) come in some order that the properties do not tell apart.

### Alerts

One alert on one server, in `lib/monitor.js` and `lib/api/alerts.js`; alerts of
different servers or definitions share no state.

| variable | code |
|---|---|
| `def`, `samples`, `member`, `online`, `sent` | the alert's definition and its `samples`, whether the server is in its groups and connected, and whether its data of this minute have come |
| `warm` | `warmAlerts`: counter, `notified`, id of the invocation, age |
| `active`, `age` | `activeAlerts` and the age of its `modified` |
| `db`, `writing`, `updates`, `purge` | invocations active in the database; writes under way from data, from other calls and from the deletion of the alert |
| `clearing` | for each invocation, how many calls of `clearActiveAlert` wait for the server's record (`MaxClears` at once) |
| `streak`, `cool`, `mixed` | ghosts: equal results in a row; negative results since it fired; whether the samples were changed under the counter |
| `erased`, `astray` | ghosts: the tracked invocation if a user has deleted its record; invocations a restart brought back, that were set inactive before their insertion, or forgotten as another was cleared |

`HandleMonitoringData` holds the lock of the server's record, so the next data
wait for `WriteDone`; `Minute` is `cleanupGlobalAlerts`, which comes whatever is
under way: between a write or a clear and its answer too.  `ClearActiveAlert`
begins a clear, `Cleared` and `ClearFailed` are the two ends of its
`storage.get`.  `UpdateAlert`, `DeleteAlert` and `DeleteInvocation` are
`api_update_alert` (samples, `enabled`), `api_delete_alert` and
`api_delete_alert_invocation`, which deletes the record of an invocation that
memory may still track.  `Crash` and `Restart` end in `setupMonitoring`, with the
recovery file or without.

## The runs

`tlc -config <run>.cfg MC<module>.tla` (`JobQueue` for the `Job` runs,
`Conductors` for `Lead`, `Workflow`, `Failover`, `Schedule`, `Alerts`).  Each
takes between a second and two minutes on two workers.  `CHECK_DEADLOCK
FALSE`, in all but `WorkflowRuns`: a system with no job left and no more faults
to come really is idle, and so is time that has reached `MaxMinute`.  A workflow
that has ended idles by an action of its own, so there a deadlock would be one.

| run | question | bounds |
|---|---|---|
| `JobLimits` | can any interleaving exceed the job, queue or server limit, and does the engine implement the pool? | 3 jobs of 2 events with weights 1 and 2 in one pool, one running, one queued, server weight 1, a suspension at the start after which the job chooses its server again, a server disabled and an event switched off at any time |
| `JobLive` | do conductor and satellite agree, does completion always end, is a dead job always noticed, is nothing retried twice or overwritten late? | a job and its delayed retry, disconnections, lost and late results, user, limit and timeout aborts, suspension at both ends |
| `JobServed` | is every start within the rate; does a job stay in the queue only if others start before it again and again? | 3 jobs with and without priority, one running, one start per window, two per minute, a full server |
| `LeadOne` | can two conductors lead at once, `starting` included; is the office of primary filled as `Leadership` says; do elections settle? | 3 conductors, `Timely`, a crash and restart, 2 overlapping elections, 3 timers |
| `LeadFollows` | can a conductor be left with nothing that would make it elect; does every backup end up with a primary, and the preferred conductor as it? | 3 conductors, one preferred, `Timely`, `Prompt`, a crash, a broken connection or a lost register call (`MaxFaults` 1), restarts |
| `WorkflowRuns` | does a controller always have the jobs it waits for, does *continue* fire after its own jobs and at the right percentage, does an abort reach every job, does the workflow end, exactly when nothing is left? | 8 workflows of 5 nodes, 6 jobs, 2 items, one retry, user aborts and flushed sub-jobs |
| `FailoverSync` | is the sparse synchronisation exact; can an old recovery file replace newer jobs; can a takeover launch a running job again or overwrite its result? | 2 conductors, a job and its retry, 2 crashes, stops or lost connections |
| `FailoverEnds` | does a job end whatever primary holds it, and do the backups converge? | 2 conductors, one job, 3 faults |
| `ScheduleTick` | is each due minute scheduled once, over crashes, pauses, catch-up and cursors set by users; do intervals keep their beat; does the queue drain? | 3 events, 5 minutes of 2 seconds, 2 changes by users (`Cursors` 1 and 5, `Counters` 0 and 3), 1 fault |
| `AlertTracks` | do equal samples in a row decide, without flapping; do memory and database agree; is the alert of a lost server closed? | one alert with 1 or 2 samples, changed at any time, 2 invocations, one clear of each waiting, one crash or restart |
| `FailoverRetry`, `AlertResumes` | see [disagreements](#disagreements) | a job with two retries, one fault; the same as `AlertTracks` |

The bounds are enough for what each run asks.  Three jobs are one running, one
at the head of the queue and one behind it or arriving; one retry is what a
second retry of the same attempt has to collide with.  Three conductors are a
winner, a loser and one that answers one of them before and the other after a
change; two elections and three timers are one more than the code refers to.  A
takeover needs two conductors, and a second takeover by the first one two
faults: that is how a stale table, a stale recovery file and a job known as
complete meet.  Five minutes hold a blackout, two Nth cycles, a crash and the
catch-up after it; two changes are a deletion and a second creation with a
cursor, or a cursor set back and catch-up switched off; the cursors lie behind and ahead of
the clock, the counters at the next due minute and beyond a cycle; the interval of three seconds in minutes of two changes its
phase every minute, and starts in the middle of one.  With two samples an alert warms up, fires, cools down and
clears, and the change to one or from one leaves a counter that began under
another number; the second invocation lets one be written, cleared or
left behind in the database while the other is tracked.  A third state of the
counter, where a miss between hits does not reset it, needs three samples and is
left to the theorems.

Every definition whose name ends in an underscore and a word
(`AtCapacity_ActiveOnly`) is a mutant: the code with a plausible bug.  No
specification uses them; replacing the definition of the plain name by one makes
the run named in `PROJECT.json` fail, which shows that the property can.

Fairness.  `lib/engine.js` ticks every second for ever, so `MonitorQueue` and
`DelayOver` happen when they stay possible, and so do the ticks of `Workflow` and
`Alerts`; every callback of the file system, the database and the actions comes
(`JobStep`, `SubStep`, `ActionDone`, `WriteDone`, ...).  `DeadTimeout` is fair
only while the satellite is silent, since any update resets the timer.
Satellites finish what they run and reconnect: this is an assumption about the
environment, also in `Failover`.  In `Conductors`, timers go off, register calls
are answered or fail, a socket that can connect does, what is sent arrives and a
broken connection is noticed, which `ping_timeout_sec` ensures; a start-up ends,
and the check of every minute finds an aged peer.  Processes need not start
again there; in `Failover` and `Schedule` a stopped conductor is restarted,
as otherwise nothing can be said of the jobs.  `EveryoneFollows` and
`PreferredLeads` are about behaviours in which no register call is lost
(`Answered`) and no primary ends while somebody who was told of it waits for its
hello (`NobodyMisled`), and are checked under `Timely` and `Prompt`.
`QueueServed` assumes nothing of who launches jobs: that other jobs start before
a queued one again and again is its exception.  In `JobServed` launches end, so
there every queued job leaves.  Nothing is assumed of users (a suspended job may wait for ever,
and `CompletionEnds` says so), of administrators, of runtime limits, of
disconnections or of monitoring data.

## Proofs

`tlapm JobQueueProofs.tla` checks all of it, for every number of jobs, events,
keys and servers, every limit and every set of switches, from the named
assumptions of `JobQueue` (types of the constants; `QueueAssumption` is not
needed).

The inductive invariant is `Base`.  `TypeOK` alone is not inductive enough for
anything of interest: that `updateJobData` never makes a queued job active needs
to know that satellites hold no queued job, which needs that only
`StartActionsDone` sends a launch and that the record it sends was `starting`, hence
that `pending` and `state` agree; that a remote job's server is connected needs
that the satellite that reports is the one the job was given to.  So `Base` is
the type invariant with `RecordOK` (state, `pending`, `remote`, suspension and
limit of one job agree), `PairOK` (job and satellite agree) and `Fresh` (ids not
handed out).

The proof has one lemma per action.  Each shows `Base'` and `Shape`: one job
moves along its states, or begins while `checkJobStartLimits` finds room, or is new; or
a queue is flushed.  Two arguments use `Shape` alone:

| theorem | follows from |
|---|---|
| `TypeCorrect`, `CallbackCorrect`, `RemoteCorrect`, `SatelliteCorrect` | conjuncts of `Base` |
| `LimitCorrect` | `Shape`: the running jobs of a key only grow by one that begins, below the limit (cardinality lemmas of `FiniteSetTheorems`) |
| `PoolCorrect` | `Shape`: each of its cases is a step of `JobPool` or leaves `phase` and `key` alone |

`tlapm JobLimitsProofs.tla` extends it with five more properties of the engine.
Again one lemma per action leads to one description of a step, `Limits`, and the
properties follow from that alone.  Most steps are `Calm`: no job starts or
enters a queue.  The others place one job in a hash that is `Near` the old one;
the hash matters because the retry of `JobLogReady` is launched into one that
already records the decision about the first attempt.

| theorem | follows from |
|---|---|
| `QueueCorrect` | `Fits`: the queue of a key does not grow, or `QueueRoom` was asked with the other jobs as they are now |
| `RateCorrect` | `StartsWell`: a job only starts where `RateFull` was asked and `OpenWindow` counts |
| `AttemptCorrect` | the invariant `Attempts`: a job that has a retry is past its decision (`Over`), so it cannot get a second one |
| `LateCorrect` | the invariant `Lates`: a result is stored only when a job is over, and a satellite that still knows of a job that ended here holds an aborted one |
| `ServerLoadCorrect` | each step is `Leaves` or `Places`: no job takes a place on a server, or one does, and `HasCapacity` has weighed it in the same callback against all the others |

The load of a server is a fold over the set of its jobs, `MapThenSumSet`, which
takes them in an order nobody knows.  The lemmas on `Sums` show, by induction over
the subsets of a finite set (`SubsetInductive`), that such a fold exists, that it does
not depend on the order (`SumsAdd`) and that it grows with the set and with the
weights (`SumsMono`); the functions they speak of are built up by the size of the set.

`tlapm ConductorsProofs.tla` proves, for every number of conductors, every
preference and with or without `Timely` and `Prompt`, that the variables of `Conductors`
keep their shape (`ConductorsTypeCorrect`) and that `SomeoneElects` holds
(`SomeoneAlwaysElects`).  The inductive invariant `Inv` adds `MasterIsSocket` to them:
an election that stops because of `masterSocket` leaves the conductor nothing but
that socket, so the socket must be one whose close calls `lostMaster`.
The lemmas on `Arm`, `Disarm` and `Await` say that timers of other conductors are never lost;
each action has a lemma that shows what it leaves its own conductor.

The second part of the module proves that two conductors do not lead at once.
`OneLeads` has the two hypotheses of the property: `Timely`, and that every
register call to a running conductor has been answered so far (`Answered`).
`OneAlwaysLeads` is the case the run `LeadOne` checks, where none can get lost.
Crashes, restarts, broken connections, elections that overlap and the moment
at which anything is noticed (`Prompt`) are left free.  The argument is what the
election relies on without saying so:

| conjunct of `Lead` | what it says |
|---|---|
| `MissedWaits` | whoever an election has asked in vain was down.  If it is up again, the timer it armed then waits for this election (`Held`): it cannot elect before the other is through |
| `OnlineFollows` | a candidate the election has met and that ranks lower does not lead, and no election of its own has missed the one that holds this |
| `LeaderAlone` | while one leads, the others do not, and each of their elections has still to ask it, has found a primary, or has met it and it ranks higher.  During its start-up it answers like any other candidate, so then nobody ranks higher but who is down or waits |
| `DownIsIdle` | a conductor that is down holds no timer, election or socket |

`HeldStep` is the use of `Timely`: every callback leaves a timer that waits for
somebody busy waiting.  In most steps nobody begins to elect or to lead
(`CalmStep`); `NewRunStep` covers a new election and each answer, `WinLead` and
`StartupDoneLead` the rest.  The rank of a conductor is a number of its own for
each (`RankInjective`), so every set of candidates has one winner, which
outranks the others (`WinnerBeats`): that is where every hostname must be in the list.

From `AtMostOneLeading` follows that the election implements `Leadership`
(`LeadershipCorrect`): a step changes what one conductor is (`MovesStep`), so when
one begins to lead nobody did before.

`tlapm FailoverProofs.tla` proves the safety properties of `FailoverSync` for
every number of conductors, jobs, faults and messages under way.  None of them
is inductive.  `Inv` adds to `TypeOK`:

| conjunct | why it is needed |
|---|---|
| `RolesOK` | one conductor leads, and callbacks and sockets live only while one does: what the actions of the primary leave alone follows from it |
| `FileOK` | the owner of a recovery file is down or a backup that has not heard of a primary since; this is `FileAlone` and, for `BecomeMaster`, that the file is as good as a table |
| `HelloOK` | a backup between the hello and `standby` holds nothing: this is why `Standby` may start from empty `sent` (`BackupExact`) |
| `UsedOK` | no table, file, message, callback or satellite knows of a job that was not launched |
| `LaunchesOK` | the launches and the starts under way of a job are paid for, and a job that is ready at the primary has one left: a second start can only come from `PrepActiveJobs` (`LaunchedOnce`) |
| `ResultsOK` | as long as no takeover has reopened a job, everything that has finished it (tables, files, messages, callbacks, database) agrees on the result, and the satellite has no other left (`ResultsStick`) |

The steps of the primary share the lemmas `PrimaryFrame` (what concerns the
backups), `Progress` and `Keeps` (a job goes on, or keeps its result) and
`OneJob`; those of the backups `Elsewhere` (they tell nothing new about a job)
and `BackupKept`.  `MasterSync` and `ReceiveMasterUpdate` are about the last
message that speaks of a job, and `PrepActiveJobs`, where the ghosts change, has
a proof of its own.

`tlapm AlertsProofs.tla` proves, for every number of samples, invocations,
waiting clears and faults, `MemoryAndDatabase`, `SamplesDecide`, `CooledDown` and the types.  The inductive
invariant relates the counter to the run of equal results (`CounterOK`: after a
run of k positive results the counter is at least k, after k negative ones at
most `samples` - k, the latter unless the samples were changed under it: `mixed`), to the tracked alert (`ActiveOK`: it has the counter it
fired with, of the same age, and lacks at most the negative results since then) and to the
invocation's id (`CounterIdOK`: a counter that has not fired has an id nothing
refers to; `WritingOK`: what is inserted is tracked, being set inactive or astray).
That counter and alert are of the same age is what the clean-up needs: it drops
both or neither.

`tlapm WorkflowProofs.tla` proves, for every graph, every setting and every
number of jobs and items, the types, `AbortReachesJobs` and that the engine is a
fork-join (`ForkJoinCorrect`).  `Inv` adds to `TypeOK` that a sub-job has a node
(`SubsHaveNodes`) and `Ended`: a result of "abort" ends the workflow, and at the
end nothing is under way.  Without `Ended` a node could seem to run after the
end.  A step is one of four kinds, each with a lemma that shows `Inv'` and the
step of `ForkJoin`: it changes no task (`StutterStep`), it changes tasks while
some are left (`ProceedStep`), it is an abort, alone or with the end of one
sub-job (`AbortStep`), or it is the end (`TickEndStep`).  Most actions are of the
second kind because they need a live sub-job, a loading replay, an active node or a
walk; the late callbacks of an aborted workflow are of the first.

`tlapm WorkflowCountsProofs.tla` extends it with what controllers count, again
for every graph.  A controller's *debt* is the number of its sub-jobs that are
not over and of its runs ahead in the walk.  That an active controller has one
job per missing count (`ControllerFed`) is not inductive; `Counting` adds to it

| conjunct | why it is needed |
|---|---|
| `AllFit` | what runs for a controller runs its own node, and a node with one wire runs for that controller alone: a job that ends is counted where it was owed |
| `SubsRun` | sub-jobs are of job and event nodes, and one that is not over has not been retried: a retry replaces a debt, it does not add one |
| `ActiveManages` | an active controller belongs to a workflow that goes on and waits for something |
| `Bounded` | the other inequality: the debt is at most what is missing, unless the controller was run again while active (`ContinueAfterOwn`) |
| `FirstSet` | the successes of a first set are all that its node ever had (`ContinueEarned`) |

`PercentageEnough` is the arithmetic of `ContinueEarned`: a percentage rounded
down reaches a whole number when the exact one does, and one too low only where
the pair is in `RoundsDown` and the percentage is exactly met.

Every step is `Regular`: the debt of each controller and its counter change
together, in one of five ways (`Accounts`: both stay, a job is done, a flushed
queue loses one, a set begins, an empty set begins).  `Regular` preserves
`Counting` whatever the action was; `Tallied` says the same of the successes.
The cardinality of a debt changes through the agenda (a list) and through the
sub-jobs (a function), and the lemmas of the module's second part say by how
much.  The proof corrected the model: a managed split that is run again with an
empty list while active starts its counter anew like every other controller, and
`reentered` did not say so; the eighth workflow of `MCWorkflow` is that case.

`tlapm ScheduleProofs.tla` proves all safety properties of `Schedule`, for every
set of events, triggers, Nth rules and seconds and any number of minutes, edits
and faults.  A tick computes by recursion over the minutes (`Counter`,
`Seconds`) and by lists of lists, so the first part of the module is about
these.  The theorems on induction of the library cannot be used; `Inductive` replaces
them with the sets of numbers that contain 0 and the next of each member, and
`RecursionFrom` says that a function that is constant up to the cursor and goes
on from each minute to the next exists.  From them follow what the counter and
the seconds of each minute are (`CounterDefined`, `SecondsDefined`), that
`FlattenSeq` puts lists together, and which jobs a tick makes
(`JobsOfEventsAre`).

`PickedExact` is the heart: if the Nth counter is on count (`OnCount`: after d
due minutes it stands where d says, as it lets `skip` of them pass and then every
but each Nth), the minutes a tick picks are
those of `NthDue` that the cursor passes, and the counter stays on count.  The
inductive invariant adds to `TypeOK`

| conjunct | why it is needed |
|---|---|
| `Clocks` | cursors, bases and schedules are not ahead of the clock; a conductor that is down has lost what it had not saved |
| `Accurate` | while the cursor of an event is `kept`, what the state says of it is true (`Exact`): of the state in memory, and, unless the cursor was set and not yet saved, of the stored one, which a crash brings back and which has the same base (`Linked`).  Deleting an event, creating it again and setting its cursor are what could break it |
| `Accounted` | a minute ahead of its cursor is scheduled only where `replay` says so (`OncePerMinute`) |

`OnTheBeat` is arithmetic: the first hit is the quotient rounded up, and the
remainder of every other is 0 (`HitsAreBeats`).  The search for this invariant
corrected the model: after a crash an event that was created again could be
taken for one whose cursor is its own when the state saved for its predecessor
had a counter and no cursor (`kept` and `unsaved`).  The property said too much as well: the
hits of the minute in which an interval starts are left out, and `OnTheBeat` now says so.

Only model-checked: the liveness properties, which are out of the prover's reach
(`CompletionEnds`, `DeadJobsEnd`, `QueueServed`, `ElectionSettles`,
`EveryoneFollows`, `PreferredLeads`, `WorkflowEnds`, `JobsEnd`, `BackupsConverge`,
`Drains`, `GoneCleared`).  Every safety and action property of the passing runs
is a theorem.

## Disagreements

Two are shown by a run.

| run | the code | the documentation |
|---|---|---|
| `FailoverRetry` | `masterSync` sends an inactive job only when its state changes, so a backup learns that a job is complete and not that it was retried; after a takeover it is finished and retried once more | `docs/limits.md:307`: "Maximum number of retries to attempt." |
| `AlertResumes` | `setupMonitoring` replaces the recovered alert by the database's record, dated when it fired; the next clean-up may close it as stale, and the recovered counter, already notified, does not fire it again while its condition lasts | `lib/monitor.js:78`: "recover / resume tracking all active alerts" |

The others were met while reading and modelling; where a property would fail, it
states the exception and its comment says so.

Jobs.
- `checkRetryJob` copies a fixed list of properties, without `expression` and
  `priority`: the retry may run on a server the target expression excludes
  (`docs/events.md:96`, `docs/limits.md:300`).
- The callback of a runtime limit's actions aborts a job that has completed with
  code 0 meanwhile and allows its retry (`docs/limits.md:327`: "Successful jobs
  with a code of `0` are never retried.").
- A new job of a pool is compared with its running jobs and not with its queue,
  so it may overtake the head (`checkJobStartLimits`; `docs/limits.md:200`), and
  a stream of new jobs, or of jobs with priority, may keep a job queued for
  ever (`Overtakes`).

Conductors.
- With a start-up longer than the election timeout two conductors become
  primary: until `becomeMaster` is through, the winner answers like a candidate
  and accepts another's hello (`docs/servers.md:16`: "one is primary at any time").
- A candidate that was told of a primary arms no timer.  If that primary dies
  before its hello, or shuts down after a lost register call let two conductors
  win, the candidate waits until another conductor contacts it
  (`lib/multi.js:436`: "master will contact us").  `parked`, `Misled` and
  `Answered` stand for this.  If the one that waits is the preferred conductor it is
  worse: it still answers register calls and ranks first, so every other
  candidate steps aside for it, again and again, and the cluster has no primary
  until the one that waits is restarted (`docs/hosting.md:871`: "The cluster can fail over to
  any available conductor, then return leadership to a higher-priority preferred
  conductor after it becomes stable again.").  Without the premise
  `NobodyMisled`, TLC shows in `LeadFollows` that the preferred conductor then
  never leads.
- `lostMaster` and `electMaster` arm a timer beside the one `this.electionTimer`
  refers to, so one conductor may win two overlapping elections; the second
  `becomeMaster` is the emergency shutdown `WinTwice`.  The late close of a former
  primary's socket makes `lostMaster` forget the present one; the election this
  calls finds it again.

Workflows.
- A controller that is entered again while active starts its counter anew, so
  *On Continue* may fire before all jobs have finished
  (`docs/workflows.md:212`; `ContinueAfterOwn` excepts it).
- The continue percentage counts all successes the node ever had and not only
  those of the present set (`ContinueEarned` is about first sets).
- It is a floating-point quotient rounded down, so 29 of 50 jobs do not meet 58
  percent (`docs/workflows.md:225`: "meets or exceeds"; `RoundsDown`).
- `max_jobs_per_workflow` is not checked for retries, nor, while they load, for
  replays; a retry launched after the abort of its workflow is not aborted
  (`AbortReachesJobs`).
- A queue that is flushed deletes sub-jobs whose controller waits for ever
  (`lost`).
- An action node run twice is inactive after the first of its two callbacks.
- While a replay loads, a tick may give up a join the replay would still reach.

Scheduler.
- A clean stop drops the launch queue although the cursors have passed its
  minutes, so catch-up does not make these launches (`docs/triggers.md:295`).
- The seconds of an interval trigger stay set for the other triggers of the event
  (`Seconds`; `OnTheBeat` is about events with one interval).
- An interval that starts within a minute loses its hits in that minute, the first
  included: `intervalHitsPerMinute` returns nothing for a minute that begins before
  `start` (`docs/triggers.md:144`: "The scheduler computes all hits within the
  current minute and launches at the exact second(s)."; `OnTheBeat` excepts it).
- A cursor stays behind while catch-up is switched off and is used when it is
  switched on again (`replay`).
- No disagreement, but an exception of the properties: a user who sets a cursor
  back has its minutes run again (`docs/triggers.md:312`, the "Time Machine"), and
  one who sets it forward has minutes left out.  A crash before the state is
  saved undoes either.

Alerts.
- The counter goes down by one with each negative result and is not reset
  (`handleMonitoringData`), so with three samples hit, hit, miss, hit, hit fires
  the alert, and it clears on negative results that are not in a row either
  (`docs/alerts.md:105`: "Consecutive minutes that must evaluate true to fire; also
  used as cool-down to clear."; also line 15).  `SamplesDecide`
  says what holds: enough in a row decide.
- Deleting one invocation removes its record only: memory tracks it until it
  clears (`erased`).  Clearing an invocation that has ended meanwhile forgets
  what is tracked by then, and leaves it active in the database (`astray`).
- Disabling an alert leaves its counter; deleting it looks up the entries in
  memory by another key than they are kept under, so they stay until the clean-up;
  a server that leaves the alert's groups keeps its alert as long as it sends data.

## What is not modelled

`PROJECT.json` has the status of every component.  Most lines of the repository
are the web interface (`htdocs/js`): pages that present the server's state and
send the requests modelled here; it keeps no state the server relies on.  Of the
server, left out for good:

- reading, writing and deleting records (events apart from their state, plugins,
  categories, channels, tags, roles, web hooks, tickets): one record at a
  time under the locks of the storage library, with nothing to interleave but
  those locks (buckets, which parallel jobs share, are in the plan);
- users, sessions, keys, privileges and single sign-on, secrets and encryption:
  guards of requests, which the models take as granted;
- what actions send (mail, web hooks, channels), terminals, external services, the
  command-line tools and the plugins run as processes of their own;
- the bulk database work of `lib/maint.js` and the import, export and searches of
  `lib/api/admin.js`, and the statistics and timelines of all parts.

Within the modelled components: `deleteJob`, searches and logs, and the numbers
(disk, memory, progress) no decision of the modelled handlers reads; resource
limits other than run time go through the same `triggerActiveJobLimit` as
`LimitTrigger`.  `api_update_active_job`, which checks a job and merges a change
into it after an `await`, a member list that changes, network transactions
between conductors, and the data on the wires of a workflow are left out as
well.  Nothing composes `Workflow` with the limits of `JobQueue`: sub-jobs are
launched, end, retry and are flushed at any time instead.
