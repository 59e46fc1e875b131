--------------------------- MODULE JobQueueProofs ---------------------------
(* Theorems about JobQueue, for every value of its constants. *)
EXTENDS JobQueue, TLAPS, FiniteSetTheorems

Jobs == [Ids -> JobRecord]

(* What the pieces of the handlers return: a record is a record again. *)
LEMMA BlankType ==
  ASSUME NEW e \in Events PROVE Blank(e) \in JobRecord
BY BoundAssumption DEF Blank, JobRecord, States, Codes

LEMMA GoneType ==
  ASSUME NEW r \in JobRecord
  PROVE  /\ Gone(r) \in JobRecord /\ Gone(r).state = "gone" /\ Gone(r).event = r.event
         /\ Gone(r).pending = "none" /\ Gone(r).suspended = FALSE /\ Gone(r).remote = FALSE
BY BoundAssumption DEF Gone, Blank, JobRecord, States, Codes

LEMMA FinishType ==
  ASSUME NEW r \in JobRecord, NEW c \in Codes
  PROVE  /\ Finish(r, c) \in JobRecord /\ Finish(r, c).state = "complete"
         /\ Finish(r, c).event = r.event /\ Finish(r, c).server = r.server
         /\ Finish(r, c).pending = "job_log" /\ Finish(r, c).remote = FALSE
         /\ Finish(r, c).suspended = r.suspended
BY DEF Finish, JobRecord, States, Codes

LEMMA AbortRecordType ==
  ASSUME NEW r \in JobRecord
  PROVE  /\ AbortRecord(r) \in JobRecord /\ AbortRecord(r).state = "complete"
         /\ AbortRecord(r).event = r.event /\ AbortRecord(r).server = r.server
         /\ r.state \in {"starting", "complete"} =>
              /\ AbortRecord(r).pending = r.pending /\ AbortRecord(r).remote = r.remote
              /\ AbortRecord(r).suspended = FALSE
         /\ r.state \notin {"starting", "complete"} =>
              /\ AbortRecord(r).pending = "job_log" /\ AbortRecord(r).remote = FALSE
              /\ AbortRecord(r).suspended = r.suspended
BY DEF AbortRecord, Finish, JobRecord, States, Codes

LEMMA StartType ==
  ASSUME NEW r \in JobRecord, NEW s \in Servers
  PROVE  /\ Start(r, s) \in JobRecord /\ Start(r, s).state = "starting"
         /\ Start(r, s).event = r.event /\ Start(r, s).pending = "start_actions"
         /\ Start(r, s).remote = r.remote
BY EventAssumption DEF Start, JobRecord, States

(* Candidates are connected servers. *)
LEMMA CandidatesType ==
  ASSUME NEW J \in Jobs, NEW j \in Ids
  PROVE  Candidates(J, j) \subseteq Servers \cap online
BY EventAssumption DEF Candidates, Jobs, JobRecord

(* Rate windows stay well formed. *)
LEMMA OpenWindowType ==
  ASSUME TypeOK, NEW k \in Keys, NEW n \in Nat, OpenWindow(k, n)
  PROVE  window' \in [Keys -> {"none", "open", "expired"}] /\ rateCount' \in [Keys -> Nat]
BY LimitAssumption DEF OpenWindow, RateNow, rateVars, TypeOK

-----------------------------------------------------------------------------
(* Where a job goes when it is placed: it waits, ends, or starts within the limit. *)
Waits(r0, r) ==
  r.state = "queued" /\ r.pending = r0.pending /\ r.suspended = r0.suspended /\ r.remote = r0.remote
Ends(r0, r) ==
  r.state = "complete" /\ r.pending = "job_log" /\ r.suspended = r0.suspended /\ r.remote = FALSE
Starts(r0, r) ==
  r.state = "starting" /\ r.pending = "start_actions" /\ r.remote = r0.remote
Same(r0, r) == r.event = r0.event /\ r.limit = r0.limit /\ r.retry_prev = r0.retry_prev

(* A job that cannot be reached ends at once. *)
LEMMA AbortShape ==
  ASSUME NEW J \in Jobs, NEW j \in Ids, ~AbortSent(J, j),
         J[j].state \notin {"starting", "complete"}
  PROVE  \E r \in JobRecord :
           Abort(J, j) = [J EXCEPT ![j] = r] /\ Same(J[j], r) /\ Ends(J[j], r)
<1>1. J[j] \in JobRecord BY DEF Jobs
<1>2. Abort(J, j) = [J EXCEPT ![j] = AbortRecord(J[j])] BY DEF Abort
<1>3. AbortRecord(J[j]) \in JobRecord /\ Ends(J[j], AbortRecord(J[j]))
  BY <1>1, AbortRecordType DEF Ends
<1>4. Same(J[j], AbortRecord(J[j]))
  BY <1>1 DEF Same, AbortRecord, Finish, JobRecord
<1> QED BY <1>2, <1>3, <1>4

(* A job for which there is no room to run waits where there is room, or ends. *)
LEMMA EnqueueShape ==
  ASSUME NEW J \in Jobs, NEW j \in Ids, NEW b \in BOOLEAN,
         J[j].state \notin {"starting", "complete"}
  PROVE  \E r \in JobRecord :
           /\ Enqueue(J, j, b) = [J EXCEPT ![j] = r] /\ Same(J[j], r)
           /\ \/ Waits(J[j], r) /\ QueueRoom(J, KeyOf[J[j].event])
              \/ Ends(J[j], r)
<1>1. J[j] \in JobRecord BY DEF Jobs
<1>2. CASE QueueRoom(J, KeyOf[J[j].event])
  <2> DEFINE r == [J[j] EXCEPT !.state = "queued"]
  <2>1. r \in JobRecord /\ Same(J[j], r) /\ Waits(J[j], r)
    BY <1>1 DEF JobRecord, States, Same, Waits
  <2>2. Enqueue(J, j, b) = [J EXCEPT ![j] = r] BY <1>2 DEF Enqueue
  <2> QED BY <1>2, <2>1, <2>2
<1>3. CASE ~QueueRoom(J, KeyOf[J[j].event])
  <2> DEFINE r0 == [J[j] EXCEPT !.retry_ok = @ \/ b]
             r == AbortRecord(r0)
  <2>1. r0 \in JobRecord /\ Same(J[j], r0) /\ r0.state = J[j].state
        /\ r0.suspended = J[j].suspended /\ r0.remote = J[j].remote
    BY <1>1 DEF JobRecord, Same
  <2>2. r \in JobRecord /\ Ends(J[j], r) BY <2>1, AbortRecordType DEF Ends
  <2>3. Same(J[j], r) BY <2>1 DEF Same, AbortRecord, Finish, JobRecord
  <2>4. Enqueue(J, j, b) = [J EXCEPT ![j] = r] BY <1>3 DEF Enqueue
  <2> QED BY <2>2, <2>3, <2>4
<1> QED BY <1>2, <1>3

(* monitorJob of a ready job changes that job only, and starts it only below the limit. *)
LEMMA MonitorShape ==
  ASSUME NEW J \in Jobs, NEW j \in Ids, J[j].state = "ready", MonitorReady(J, j), TypeOK
  PROVE  /\ \E r \in JobRecord :
              /\ job' = [J EXCEPT ![j] = r] /\ Same(J[j], r)
              /\ \/ Waits(J[j], r) \/ Ends(J[j], r)
                 \/ Starts(J[j], r) /\ ~AtCapacity(J, KeyOf[J[j].event])
         /\ window' \in [Keys -> {"none", "open", "expired"}]
         /\ rateCount' \in [Keys -> Nat]
<1> DEFINE k == KeyOf[J[j].event]
<1>0. J[j] \in JobRecord /\ J[j].event \in Events /\ k \in Keys
  BY EventAssumption DEF Jobs, JobRecord
<1>1. ASSUME NEW b \in BOOLEAN, job' = Enqueue(J, j, b)
      PROVE \E r \in JobRecord :
              /\ job' = [J EXCEPT ![j] = r] /\ Same(J[j], r)
              /\ Waits(J[j], r) \/ Ends(J[j], r)
  BY <1>1, EnqueueShape
<1>2. ASSUME job' = Abort(J, j)
      PROVE \E r \in JobRecord : job' = [J EXCEPT ![j] = r] /\ Same(J[j], r) /\ Ends(J[j], r)
  BY <1>2, AbortShape DEF AbortSent
<1>3. ASSUME NEW s \in Candidates(J, j), job' = [J EXCEPT ![j] = Start(@, s)]
      PROVE \E r \in JobRecord : job' = [J EXCEPT ![j] = r] /\ Same(J[j], r) /\ Starts(J[j], r)
  <2>1. s \in Servers BY CandidatesType
  <2>2. Start(J[j], s) \in JobRecord /\ Starts(J[j], Start(J[j], s))
    BY <1>0, <2>1, StartType DEF Starts
  <2>3. Same(J[j], Start(J[j], s)) BY <1>0 DEF Same, Start, JobRecord
  <2> QED BY <1>3, <2>2, <2>3
<1>4. ASSUME UNCHANGED rateVars \/ OpenWindow(k, 0) \/ OpenWindow(k, 1)
      PROVE  window' \in [Keys -> {"none", "open", "expired"}] /\ rateCount' \in [Keys -> Nat]
  BY <1>0, <1>4, OpenWindowType DEF TypeOK, rateVars
<1>5. UNCHANGED rateVars \/ OpenWindow(k, 0) \/ OpenWindow(k, 1)
  BY DEF MonitorReady
<1>6. \/ \E b \in BOOLEAN : job' = Enqueue(J, j, b)
      \/ job' = Abort(J, j)
      \/ ~AtCapacity(J, k) /\ \E s \in Candidates(J, j) : job' = [J EXCEPT ![j] = Start(@, s)]
  BY DEF MonitorReady
<1> QED BY <1>1, <1>2, <1>3, <1>4, <1>5, <1>6

-----------------------------------------------------------------------------
(* The inductive invariant.  A job that runs on a satellite is active here or *)
(* already ending, and the satellite is the one it was given to; whatever has *)
(* a callback outstanding is starting or complete; an id not yet handed out   *)
(* belongs to nobody.                                                         *)
RecordOK(r) ==
  /\ r.state # "ready"
  /\ r.state = "starting" => r.pending = "start_actions"
  /\ r.state = "complete" => r.pending # "none"
  /\ r.pending # "none" => r.state \in {"starting", "complete"}
  /\ r.suspended => r.pending \in {"start_actions", "end_actions"}
  /\ r.remote => r.state \in {"active", "finishing"}
  /\ r.limit = "firing" => r.state \in {"active", "finishing", "complete"}

PairOK(r, t, on) ==
  /\ t.phase # "none" => r.state \in {"active", "finishing", "complete", "gone"}
  /\ r.state = "finishing" => t.phase \notin {"sent", "running"}
  /\ t.phase # "none" /\ r.state \in {"active", "finishing"} => t.at = r.server
  /\ r.remote => r.server \in on

Fresh(J, n) == \A i \in Ids : i > n => J[i].state = "none"

Base ==
  /\ TypeOK
  /\ \A j \in Ids : RecordOK(job[j])
  /\ \A j \in Ids : PairOK(job[j], sat[j], online)
  /\ Fresh(job, launched)

(* One job moves, and perhaps what its satellite knows of it: nothing else to check. *)
LEMMA LocalStep ==
  ASSUME Base, NEW j \in Ids, NEW r \in JobRecord, NEW t \in SatRecord,
         job' = [job EXCEPT ![j] = r], sat' = [sat EXCEPT ![j] = t],
         RecordOK(r), PairOK(r, t, online), online' = online, launched' = launched,
         r.state = "none" \/ j <= launched,
         clock' \in Nat, minuteJobs' \in Nat, blocked' \subseteq Servers, disabled' \subseteq Events,
         window' \in [Keys -> {"none", "open", "expired"}], rateCount' \in [Keys -> Nat],
         stored' \in [Ids -> Codes \cup {"none", "warning"}]
  PROVE  Base'
<1>1. TypeOK'
  <2>1. job' \in [Ids -> JobRecord] /\ sat' \in [Ids -> SatRecord] BY DEF Base, TypeOK
  <2>2. \A i \in Ids : job'[i].state # "ready" BY DEF Base, TypeOK, RecordOK
  <2> QED BY <2>1, <2>2 DEF Base, TypeOK
<1>2. \A i \in Ids : RecordOK(job'[i]) BY DEF Base, TypeOK
<1>3. \A i \in Ids : PairOK(job'[i], sat'[i], online') BY DEF Base, TypeOK
<1>4. Fresh(job', launched') BY BoundAssumption DEF Base, TypeOK, Fresh, Ids
<1> QED BY <1>1, <1>2, <1>3, <1>4 DEF Base

(* An id that has not been handed out has no satellite and no callback. *)
LEMMA Known ==
  ASSUME Base, NEW j \in Ids
  PROVE  /\ job[j] \in JobRecord /\ sat[j] \in SatRecord /\ job \in Jobs
         /\ RecordOK(job[j]) /\ PairOK(job[j], sat[j], online)
         /\ job[j].state # "none" => j <= launched
BY BoundAssumption DEF Base, TypeOK, Jobs, Fresh, Ids

(* A step that changes neither the jobs nor what the satellites know. *)
LEMMA ElsewhereStep ==
  ASSUME Base, UNCHANGED <<job, sat, launched>>, online \subseteq online',
         clock' \in Nat, minuteJobs' \in Nat, online' \subseteq Servers,
         blocked' \subseteq Servers, disabled' \subseteq Events,
         window' \in [Keys -> {"none", "open", "expired"}], rateCount' \in [Keys -> Nat],
         stored' \in [Ids -> Codes \cup {"none", "warning"}]
  PROVE  Base'
BY DEF Base, TypeOK, RecordOK, PairOK, Fresh

-----------------------------------------------------------------------------
(* Launching and monitoring keep the invariant. *)

(* A record as Launch and RetryOf make it. *)
NewRecord(r) ==
  /\ r \in JobRecord /\ r.state \in {"ready", "start_delay", "retry_delay"}
  /\ r.pending = "none" /\ r.suspended = FALSE /\ r.remote = FALSE /\ r.limit = "armed"

(* A record as MonitorReady leaves it. *)
LEMMA PlacedOK ==
  ASSUME NEW r0 \in JobRecord, NEW r \in JobRecord, NEW t \in SatRecord,
         r0.pending = "none", r0.suspended = FALSE, r0.remote = FALSE, r0.limit # "firing",
         t.phase = "none", Same(r0, r), Waits(r0, r) \/ Ends(r0, r) \/ Starts(r0, r)
  PROVE  RecordOK(r) /\ PairOK(r, t, online)
BY DEF RecordOK, PairOK, Same, Waits, Ends, Starts

(* launchJob in the hash J, whose jobs are all in order. *)
LEMMA LaunchStep ==
  ASSUME Base, NEW J \in Jobs, NEW r, NewRecord(r), LaunchJob(J, r), launched < MaxLaunches,
         \A i \in Ids : RecordOK(J[i]), \A i \in Ids : PairOK(J[i], sat[i], online),
         Fresh(J, launched), UNCHANGED <<envVars, sat, stored>>
  PROVE  /\ Base'
         /\ launched' = launched + 1
         /\ launched' \in Ids
         /\ \E n \in JobRecord :
              /\ job' = [J EXCEPT ![launched'] = n] /\ n.event = r.event
              /\ n.retry_prev = r.retry_prev
              /\ n.state \in {"start_delay", "retry_delay", "queued", "complete", "starting"}
              /\ n.state = "starting" => ~AtCapacity([J EXCEPT ![launched'] = r], KeyOf[r.event])
<1> DEFINE l == launched + 1
           J1 == [J EXCEPT ![l] = r]
<1>0. l \in Ids /\ launched' = l /\ launched \in Nat /\ r \in JobRecord
  BY BoundAssumption DEF Base, TypeOK, LaunchJob, CountLaunch, Ids, NewRecord
<1>1. J1 \in Jobs /\ J1[l] = r BY <1>0 DEF Jobs
<1>2. J[l].state = "none" /\ sat[l].phase = "none" /\ sat[l] \in SatRecord
  BY <1>0 DEF Fresh, Base, TypeOK, PairOK, Ids
<1>3. /\ window' \in [Keys -> {"none", "open", "expired"}] /\ rateCount' \in [Keys -> Nat]
      /\ \E n \in JobRecord :
           /\ job' = [J EXCEPT ![l] = n] /\ n.event = r.event /\ n.retry_prev = r.retry_prev
           /\ n.state \in {"start_delay", "retry_delay", "queued", "complete", "starting"}
           /\ n.state = "starting" => ~AtCapacity(J1, KeyOf[r.event])
           /\ RecordOK(n) /\ PairOK(n, sat[l], online)
  <2>1. CASE r.state = "ready"
    <3>1. MonitorReady(J1, l) BY <2>1 DEF LaunchJob
    <3>2. PICK n \in JobRecord :
            /\ job' = [J1 EXCEPT ![l] = n] /\ Same(r, n)
            /\ \/ Waits(r, n) \/ Ends(r, n)
               \/ Starts(r, n) /\ ~AtCapacity(J1, KeyOf[r.event])
      <4> HIDE DEF J1
      <4> QED BY <1>0, <1>1, <2>1, <3>1, MonitorShape DEF Base
    <3>3. window' \in [Keys -> {"none", "open", "expired"}] /\ rateCount' \in [Keys -> Nat]
      BY <1>0, <1>1, <2>1, <3>1, MonitorShape DEF Base
    <3>4. RecordOK(n) /\ PairOK(n, sat[l], online)
      BY <1>0, <1>2, <3>2, PlacedOK DEF NewRecord
    <3>5. job' = [J EXCEPT ![l] = n] BY <3>2, <1>0 DEF Jobs
    <3> QED BY <3>2, <3>3, <3>4, <3>5 DEF Same, Waits, Ends, Starts
  <2>2. CASE r.state # "ready"
    <3>1. job' = J1 /\ UNCHANGED rateVars BY <2>2 DEF LaunchJob
    <3>2. RecordOK(r) /\ PairOK(r, sat[l], online)
      BY <2>2, <1>2 DEF NewRecord, RecordOK, PairOK
    <3> QED BY <1>0, <2>2, <3>1, <3>2 DEF NewRecord, rateVars, Base, TypeOK
  <2> QED BY <2>1, <2>2
<1>4. PICK n \in JobRecord :
        /\ job' = [J EXCEPT ![l] = n] /\ n.event = r.event /\ n.retry_prev = r.retry_prev
        /\ n.state \in {"start_delay", "retry_delay", "queued", "complete", "starting"}
        /\ n.state = "starting" => ~AtCapacity(J1, KeyOf[r.event])
        /\ RecordOK(n) /\ PairOK(n, sat[l], online)
  BY <1>3
<1>5. clock' \in Nat /\ minuteJobs' \in Nat
  BY DEF Base, TypeOK, LaunchJob, CountLaunch, Newest
<1>6. /\ job' \in Jobs /\ \A i \in Ids : RecordOK(job'[i])
      /\ \A i \in Ids : PairOK(job'[i], sat[i], online)
  BY <1>4, <1>0 DEF Jobs
<1>7. Fresh(job', launched') BY <1>0, <1>4 DEF Fresh, Jobs, Ids
<1>8. TypeOK'
  BY <1>0, <1>3, <1>5, <1>6 DEF TypeOK, Base, Jobs, RecordOK, Ids, envVars
<1>9. Base' BY <1>6, <1>7, <1>8 DEF Base, envVars
<1> QED BY <1>0, <1>4, <1>9

(* monitorJob of a delayed or a queued job. *)
LEMMA ReadyStep ==
  ASSUME Base, NEW j \in Ids, job[j].state \in {"start_delay", "retry_delay", "queued"},
         MonitorReady([job EXCEPT ![j].state = "ready"], j),
         UNCHANGED <<idVars, envVars, sat, stored>>
  PROVE  /\ Base'
         /\ \E r \in JobRecord :
              /\ job' = [job EXCEPT ![j] = r] /\ Same(job[j], r)
              /\ r.state \in {"queued", "complete", "starting"}
              /\ r.state = "starting"
                   => ~AtCapacity([job EXCEPT ![j].state = "ready"], KeyOf[job[j].event])
<1> DEFINE r0 == [job[j] EXCEPT !.state = "ready"]
           J == [job EXCEPT ![j] = r0]
<1>1. /\ job[j] \in JobRecord /\ sat[j] \in SatRecord /\ job \in Jobs
      /\ RecordOK(job[j]) /\ PairOK(job[j], sat[j], online) /\ j <= launched
  BY Known
<1>2. r0 \in JobRecord /\ r0.pending = "none" /\ r0.suspended = FALSE /\ r0.remote = FALSE
      /\ r0.limit # "firing" /\ sat[j].phase = "none" /\ r0.state = "ready" /\ Same(job[j], r0)
  BY <1>1 DEF JobRecord, States, RecordOK, PairOK, Same
<1>3. J \in Jobs /\ J[j] = r0 BY <1>1, <1>2 DEF Jobs
<1>4. MonitorReady(J, j) /\ J = [job EXCEPT ![j].state = "ready"] OBVIOUS
<1>5. \A r \in JobRecord : [J EXCEPT ![j] = r] = [job EXCEPT ![j] = r] BY <1>1 DEF Jobs
<1> HIDE DEF r0, J
<1>6. PICK r \in JobRecord :
        /\ job' = [J EXCEPT ![j] = r] /\ Same(r0, r)
        /\ \/ Waits(r0, r) \/ Ends(r0, r)
           \/ Starts(r0, r) /\ ~AtCapacity(J, KeyOf[r0.event])
  BY <1>2, <1>3, <1>4, MonitorShape DEF Base
<1>7. window' \in [Keys -> {"none", "open", "expired"}] /\ rateCount' \in [Keys -> Nat]
  BY <1>2, <1>3, <1>4, MonitorShape DEF Base
<1>8. RecordOK(r) /\ PairOK(r, sat[j], online) BY <1>1, <1>2, <1>6, PlacedOK
<1>9. job' = [job EXCEPT ![j] = r] BY <1>5, <1>6
<1>10. sat' = [sat EXCEPT ![j] = sat[j]] BY DEF Base, TypeOK
<1>11. Base'
  BY <1>1, <1>7, <1>8, <1>9, <1>10, LocalStep DEF Base, TypeOK, idVars, envVars
<1>12. Same(job[j], r) /\ r.state \in {"queued", "complete", "starting"}
       /\ (r.state = "starting" => ~AtCapacity(J, KeyOf[job[j].event]))
  BY <1>2, <1>6 DEF Same, Waits, Ends, Starts
<1> QED BY <1>4, <1>9, <1>11, <1>12

(* abortJob, after retry_ok or the limit of the job may have been set: the job *)
(* goes on while its satellite is asked, or it is complete.                    *)
LEMMA AbortStep ==
  ASSUME Base, NEW j \in Ids, NEW r0 \in JobRecord, j \in Live(job),
         r0.state = job[j].state, r0.event = job[j].event, r0.pending = job[j].pending,
         r0.suspended = job[j].suspended, r0.remote = job[j].remote,
         r0.server = job[j].server, r0.retry_prev = job[j].retry_prev,
         r0.limit \in {job[j].limit, "fired"},
         job' = Abort([job EXCEPT ![j] = r0], j), AbortMessage(j) \/ UNCHANGED sat,
         UNCHANGED <<idVars, rateVars, envVars, stored>>
  PROVE  /\ Base'
         /\ \E r \in JobRecord :
              /\ job' = [job EXCEPT ![j] = r] /\ r.event = job[j].event
              /\ r.retry_prev = job[j].retry_prev /\ r.state \in {job[j].state, "complete"}
<1> DEFINE J == [job EXCEPT ![j] = r0]
<1>1. /\ job[j] \in JobRecord /\ sat[j] \in SatRecord /\ job \in Jobs
      /\ RecordOK(job[j]) /\ PairOK(job[j], sat[j], online) /\ j <= launched
      /\ job[j].state \notin {"none", "gone"}
  BY Known DEF Live
<1>2. RecordOK(r0) /\ PairOK(r0, sat[j], online) BY <1>1 DEF RecordOK, PairOK
<1>3. /\ AbortRecord(r0) \in JobRecord /\ RecordOK(AbortRecord(r0))
      /\ PairOK(AbortRecord(r0), sat[j], online)
      /\ AbortRecord(r0).event = r0.event /\ AbortRecord(r0).retry_prev = r0.retry_prev
      /\ AbortRecord(r0).state = "complete"
  <2>1. AbortRecord(r0).limit = r0.limit /\ AbortRecord(r0).retry_prev = r0.retry_prev
    BY DEF AbortRecord, Finish, JobRecord
  <2> QED BY <1>1, <1>2, <2>1, AbortRecordType DEF RecordOK, PairOK
<1>4. job' = [job EXCEPT ![j] = r0] \/ job' = [job EXCEPT ![j] = AbortRecord(r0)]
  <2>1. J[j] = r0 /\ \A r : [J EXCEPT ![j] = r] = [job EXCEPT ![j] = r] BY <1>1 DEF Jobs
  <2> QED BY <2>1 DEF Abort
<1>5. PICK r \in JobRecord :
        /\ job' = [job EXCEPT ![j] = r] /\ r.event = job[j].event
        /\ r.retry_prev = job[j].retry_prev /\ r.state \in {job[j].state, "complete"}
        /\ RecordOK(r) /\ PairOK(r, sat[j], online)
  BY <1>2, <1>3, <1>4
<1>6. PICK t \in SatRecord :
        sat' = [sat EXCEPT ![j] = t] /\ t.phase = sat[j].phase /\ t.at = sat[j].at
  <2>1. CASE UNCHANGED sat BY <1>1, <2>1 DEF Base, TypeOK
  <2>2. CASE sat' = [sat EXCEPT ![j].kill = TRUE]
    <3> DEFINE t == [sat[j] EXCEPT !.kill = TRUE]
    <3>1. t \in SatRecord /\ t.phase = sat[j].phase /\ t.at = sat[j].at BY <1>1 DEF SatRecord
    <3> QED BY <2>2, <3>1
  <2> QED BY <2>1, <2>2 DEF AbortMessage
<1>7. PairOK(r, t, online) BY <1>5, <1>6 DEF PairOK
<1>8. Base'
  BY <1>1, <1>5, <1>6, <1>7, LocalStep DEF Base, TypeOK, idVars, rateVars, envVars
<1> QED BY <1>5, <1>8

(* The launch of a job that has been through its start actions. *)
LEMMA SendStep ==
  ASSUME Base, NEW j \in Ids, NEW r0 \in JobRecord, NEW J, J = [job EXCEPT ![j] = r0],
         r0.state = "active", r0.pending = "none", r0.suspended = FALSE, r0.remote = FALSE,
         r0.limit # "firing", sat[j].phase = "none", SendLaunch(J, j)
  PROVE  \E r \in JobRecord, t \in SatRecord :
           /\ job' = [job EXCEPT ![j] = r] /\ sat' = [sat EXCEPT ![j] = t]
           /\ Same(r0, r) /\ r.state \in {"active", "complete"}
           /\ r.state = "complete" => t = sat[j]
           /\ RecordOK(r) /\ PairOK(r, t, online)
<1>1. job \in Jobs /\ sat[j] \in SatRecord /\ J \in Jobs /\ J[j] = r0 /\ online \subseteq Servers
      /\ sat \in [Ids -> SatRecord]
  BY Known DEF Jobs, Base, TypeOK
<1>2. \A r : [J EXCEPT ![j] = r] = [job EXCEPT ![j] = r] BY <1>1 DEF Jobs
<1>3. CASE r0.server \in online
  <2> DEFINE r == [r0 EXCEPT !.remote = TRUE]
             t == [phase |-> "sent", at |-> r0.server, kill |-> FALSE]
  <2>1. r \in JobRecord /\ Same(r0, r) /\ RecordOK(r) BY DEF JobRecord, Same, RecordOK
  <2>2. t \in SatRecord BY <1>1, <1>3 DEF SatRecord, SatPhases
  <2>3. PairOK(r, t, online) BY <1>3 DEF PairOK, JobRecord
  <2>4. job' = [J EXCEPT ![j] = r] /\ sat' = [sat EXCEPT ![j] = t] BY <1>1, <1>3 DEF SendLaunch
  <2>5. r.state = "active" BY DEF JobRecord
  <2> QED BY <1>2, <2>1, <2>2, <2>3, <2>4, <2>5
<1>4. CASE r0.server \notin online
  <2>1. job' = Abort(J, j) /\ UNCHANGED sat BY <1>1, <1>4 DEF SendLaunch
  <2>2. PICK r \in JobRecord : Abort(J, j) = [J EXCEPT ![j] = r] /\ Same(r0, r) /\ Ends(r0, r)
    <3>1. ~AbortSent(J, j) BY <1>1, <1>4 DEF AbortSent
    <3>2. J[j].state \notin {"starting", "complete"} BY <1>1
    <3>3. J \in Jobs /\ J[j] = r0 BY <1>1
    <3>4. PICK r \in JobRecord :
            Abort(J, j) = [J EXCEPT ![j] = r] /\ Same(J[j], r) /\ Ends(J[j], r)
      BY ONLY <3>1, <3>2, <3>3, AbortShape, j \in Ids
    <3> QED BY ONLY <3>3, <3>4
  <2>3. RecordOK(r) /\ PairOK(r, sat[j], online) /\ r.state = "complete"
    BY <2>2 DEF RecordOK, PairOK, Ends, Same
  <2>4. sat' = [sat EXCEPT ![j] = sat[j]] BY <1>1, <2>1
  <2> QED BY <1>1, <1>2, <2>1, <2>2, <2>3, <2>4
<1> QED BY <1>3, <1>4

(* What becomes of a job when its start actions are done. *)
AfterStart(j, r, t) ==
  \/ /\ job[j].state = "complete" /\ r.state = "complete"
     /\ r.pending = "job_log" /\ r.code = job[j].code /\ t = sat[j]
  \/ /\ job[j].state = "starting" /\ r.state \in {"active", "queued", "complete"}
     /\ r.state # "active" => t = sat[j]
     /\ r.state = "queued" => QueueRoom(job, KeyOf[job[j].event])

(* A job that does not wait makes no difference to the room in a queue. *)
LEMMA RoomSame ==
  ASSUME NEW j \in Ids, NEW r \in JobRecord, NEW k \in Keys, job \in Jobs,
         job[j].state # "queued", r.state # "queued"
  PROVE  QueueRoom([job EXCEPT ![j] = r], k) = QueueRoom(job, k)
<1>1. Queued([job EXCEPT ![j] = r], k) = Queued(job, k) BY DEF Queued, KeyJobs, Jobs
<1> QED BY <1>1 DEF QueueRoom

(* The callback of the start actions, for the job itself. *)
LEMMA StartActionsDoneStep ==
  ASSUME Base, NEW j \in Ids, StartActionsDone(j)
  PROVE  /\ Base'
         /\ \E r \in JobRecord, t \in SatRecord :
              /\ job' = [job EXCEPT ![j] = r] /\ sat' = [sat EXCEPT ![j] = t]
              /\ Same(job[j], r) /\ AfterStart(j, r, t)
<1>1. /\ job[j] \in JobRecord /\ sat[j] \in SatRecord /\ job \in Jobs
      /\ RecordOK(job[j]) /\ PairOK(job[j], sat[j], online)
      /\ job[j].state \in {"starting", "complete"} /\ j <= launched /\ sat \in [Ids -> SatRecord]
      /\ job[j].suspended = FALSE
  BY Known DEF StartActionsDone, RecordOK, Base, TypeOK, JobRecord
<1> DEFINE r0 == [job[j] EXCEPT !.state = "active", !.pending = "none",
                        !.started = IF job[j].server = NoServer THEN Newest ELSE job[j].started]
           J == [job EXCEPT ![j] = r0]
<1>2. job[j].state = "starting" =>
        /\ r0 \in JobRecord /\ r0.state = "active" /\ r0.pending = "none" /\ r0.suspended = FALSE
        /\ r0.remote = FALSE /\ r0.limit # "firing" /\ sat[j].phase = "none" /\ Same(job[j], r0)
        /\ r0.server = job[j].server /\ r0.event = job[j].event
  <2>1. (IF job[j].server = NoServer THEN Newest ELSE job[j].started) \in Nat
    BY <1>1 DEF Newest, Base, TypeOK, JobRecord
  <2>2. r0 \in JobRecord BY <1>1, <2>1 DEF JobRecord, States
  <2>3. job[j].state = "starting" => job[j].limit # "firing" /\ job[j].remote = FALSE
                                     /\ sat[j].phase = "none"
    BY <1>1 DEF JobRecord, RecordOK, PairOK
  <2> QED BY <1>1, <2>2, <2>3 DEF JobRecord, Same
<1>3. \E r \in JobRecord, t \in SatRecord :
        /\ job' = [job EXCEPT ![j] = r] /\ sat' = [sat EXCEPT ![j] = t]
        /\ Same(job[j], r) /\ RecordOK(r) /\ PairOK(r, t, online) /\ AfterStart(j, r, t)
  <2>1. CASE job[j].state = "complete"
    <3> DEFINE r == Finish(job[j], job[j].code)
    <3>1. job' = [job EXCEPT ![j] = r] /\ sat' = [sat EXCEPT ![j] = sat[j]]
      BY <1>1, <2>1 DEF StartActionsDone
    <3>2. r \in JobRecord /\ r.state = "complete" /\ r.pending = "job_log" /\ r.remote = FALSE
          /\ r.suspended = FALSE
      BY <1>1, FinishType DEF JobRecord
    <3>3. Same(job[j], r) /\ r.code = job[j].code BY <1>1 DEF Same, Finish, JobRecord
    <3>4. RecordOK(r) /\ PairOK(r, sat[j], online) BY <3>2 DEF RecordOK, PairOK
    <3>5. AfterStart(j, r, sat[j]) BY <2>1, <3>2, <3>3 DEF AfterStart
    <3> QED BY <1>1, <3>1, <3>2, <3>3, <3>4, <3>5
  <2>2. CASE job[j].state = "starting" /\ job[j].server # NoServer
    <3>1. SendLaunch(J, j) BY <2>2 DEF StartActionsDone
    <3> HIDE DEF r0
    <3>2. PICK r \in JobRecord, t \in SatRecord :
            /\ job' = [job EXCEPT ![j] = r] /\ sat' = [sat EXCEPT ![j] = t]
            /\ Same(r0, r) /\ r.state \in {"active", "complete"}
            /\ r.state = "complete" => t = sat[j]
            /\ RecordOK(r) /\ PairOK(r, t, online)
      BY <1>2, <2>2, <3>1, SendStep
    <3>3. AfterStart(j, r, t) BY <2>2, <3>2 DEF AfterStart
    <3> QED BY <1>2, <2>2, <3>2, <3>3 DEF Same
  <2>3. CASE job[j].state = "starting" /\ job[j].server = NoServer
    <3>1. \/ job' = Enqueue(J, j, TRUE) /\ UNCHANGED sat
          \/ \E s \in Candidates(J, j) : SendLaunch([J EXCEPT ![j].server = s], j)
      BY <2>3 DEF StartActionsDone
    <3>2. J \in Jobs /\ J[j] = r0 /\ \A r : [J EXCEPT ![j] = r] = [job EXCEPT ![j] = r]
      BY <1>1, <1>2, <2>3 DEF Jobs
    <3>3. CASE job' = Enqueue(J, j, TRUE) /\ UNCHANGED sat
      <4> HIDE DEF r0, J
      <4>1. PICK r \in JobRecord :
              /\ job' = [J EXCEPT ![j] = r] /\ Same(r0, r)
              /\ \/ Waits(r0, r) /\ QueueRoom(J, KeyOf[job[j].event])
                 \/ Ends(r0, r)
        BY <1>2, <2>3, <3>2, <3>3, EnqueueShape
      <4>2. RecordOK(r) /\ PairOK(r, sat[j], online) /\ r.state \in {"queued", "complete"}
        BY <1>2, <2>3, <4>1 DEF RecordOK, PairOK, Waits, Ends, Same
      <4>3. Same(job[j], r) BY <1>2, <2>3, <4>1 DEF Same
      <4>4. sat' = [sat EXCEPT ![j] = sat[j]] BY <1>1, <3>3
      <4>5. KeyOf[job[j].event] \in Keys BY <1>1, EventAssumption DEF JobRecord
      <4>6. QueueRoom(J, KeyOf[job[j].event]) => QueueRoom(job, KeyOf[job[j].event])
        BY <1>1, <1>2, <2>3, <4>5, RoomSame DEF J
      <4>7. AfterStart(j, r, sat[j])
        BY <2>3, <4>1, <4>2, <4>6 DEF AfterStart, Waits, Ends
      <4> QED BY <1>1, <3>2, <4>1, <4>2, <4>3, <4>4, <4>7
    <3>4. CASE \E s \in Candidates(J, j) : SendLaunch([J EXCEPT ![j].server = s], j)
      <4>1. PICK s \in Servers : SendLaunch([J EXCEPT ![j].server = s], j)
        BY <3>2, <3>4, CandidatesType
      <4> DEFINE r1 == [r0 EXCEPT !.server = s]
      <4>2. [J EXCEPT ![j].server = s] = [job EXCEPT ![j] = r1] BY <3>2 DEF Jobs
      <4>3. /\ r1 \in JobRecord /\ r1.state = "active" /\ r1.pending = "none"
            /\ r1.suspended = FALSE /\ r1.remote = FALSE /\ r1.limit # "firing" /\ Same(r0, r1)
        <5> HIDE DEF r0
        <5> QED BY <1>2, <2>3 DEF JobRecord, Same
      <4> HIDE DEF r1, r0, J
      <4>4. PICK r \in JobRecord, t \in SatRecord :
              /\ job' = [job EXCEPT ![j] = r] /\ sat' = [sat EXCEPT ![j] = t]
              /\ Same(r1, r) /\ r.state \in {"active", "complete"}
              /\ r.state = "complete" => t = sat[j]
              /\ RecordOK(r) /\ PairOK(r, t, online)
        BY <1>2, <2>3, <4>1, <4>2, <4>3, SendStep
      <4>5. AfterStart(j, r, t) BY <2>3, <4>4 DEF AfterStart
      <4> QED BY <1>2, <2>3, <4>3, <4>4, <4>5 DEF Same
    <3> QED BY <3>1, <3>3, <3>4
  <2> QED BY <1>1, <2>1, <2>2, <2>3
<1>4. clock' \in Nat
  <2>1. clock' = Newest \/ clock' = clock BY DEF StartActionsDone
  <2> QED BY <2>1 DEF Newest, Base, TypeOK
<1> QED BY <1>1, <1>3, <1>4, LocalStep DEF StartActionsDone, Base, TypeOK, rateVars, envVars

-----------------------------------------------------------------------------
(* What a step of the engine does to the states of the jobs: one job moves    *)
(* along, begins within the limit of its pool, or is new; or a queue is        *)
(* flushed.  The job limit and the abstract pool follow from this alone.       *)
Still(i)   == job'[i].state = job[i].state /\ job'[i].event = job[i].event
Waiting    == {"start_delay", "retry_delay", "queued"}
Along(a, b) ==
  \/ a = b
  \/ a \in Waiting /\ b \in {"queued", "complete"}
  \/ a = "starting" /\ b \in {"active", "queued", "complete"}
  \/ a = "active" /\ b \in {"finishing", "complete"}
  \/ a = "finishing" /\ b = "complete"
  \/ a = "complete" /\ b = "gone"
Begins(j) ==
  /\ job[j].state \in Waiting \cup {"none"} /\ job'[j].state = "starting"
  /\ job[j].state # "none" => job'[j].event = job[j].event
  /\ ~AtCapacity(job, KeyOf[job'[j].event])
Arrives(j) == job[j].state = "none" /\ job'[j].state \in Waiting \cup {"complete"}

Shape ==
  \/ \E j \in Ids :
       /\ \A i \in Ids \ {j} : Still(i)
       /\ \/ job'[j].event = job[j].event /\ Along(job[j].state, job'[j].state)
          \/ Begins(j) \/ Arrives(j)
  \/ \A i \in Ids : \/ Still(i)
                    \/ /\ job[i].state = "queued" /\ job'[i].state = "gone"
                       /\ job'[i].event = job[i].event

(* A step that changes the record of one job. *)
LEMMA LocalShape ==
  ASSUME job \in Jobs, NEW j \in Ids, NEW r \in JobRecord, job' = [job EXCEPT ![j] = r],
         r.event = job[j].event, Along(job[j].state, r.state)
  PROVE  Shape
BY DEF Jobs, Shape, Still

(* A step that changes no job. *)
LEMMA StillShape == ASSUME \A i \in Ids : Still(i) PROVE Shape
BY DEF Shape

(* A job that does not run makes no difference to the capacity of its pool. *)
LEMMA CapacitySame ==
  ASSUME NEW J \in Jobs, NEW j \in Ids, NEW r \in JobRecord, NEW k \in Keys,
         J[j].state \notin {"active", "starting"}, r.state \notin {"active", "starting"}
  PROVE  AtCapacity([J EXCEPT ![j] = r], k) = AtCapacity(J, k)
<1>1. Running([J EXCEPT ![j] = r], k) = Running(J, k) BY DEF Running, KeyJobs, Jobs
<1> QED BY <1>1 DEF AtCapacity

(* A waiting job is placed. *)
LEMMA ReadyShape ==
  ASSUME Base, NEW j \in Ids, job[j].state \in {"start_delay", "retry_delay", "queued"},
         MonitorReady([job EXCEPT ![j].state = "ready"], j),
         UNCHANGED <<idVars, envVars, sat, stored>>
  PROVE  Base' /\ Shape
<1>1. job \in Jobs /\ job[j] \in JobRecord /\ KeyOf[job[j].event] \in Keys
  BY Known, EventAssumption DEF JobRecord
<1> DEFINE r0 == [job[j] EXCEPT !.state = "ready"]
<1>2. r0 \in JobRecord /\ r0.state = "ready" BY <1>1 DEF JobRecord, States
<1>3. PICK r \in JobRecord :
        /\ job' = [job EXCEPT ![j] = r] /\ Same(job[j], r)
        /\ r.state \in {"queued", "complete", "starting"}
        /\ r.state = "starting" => ~AtCapacity([job EXCEPT ![j] = r0], KeyOf[job[j].event])
  BY ReadyStep
<1>4. r.state = "starting" => ~AtCapacity(job, KeyOf[job[j].event])
  <2> HIDE DEF r0
  <2> QED BY <1>1, <1>2, <1>3, CapacitySame
<1>5. job'[j] = r /\ r.event = job[j].event /\ \A i \in Ids \ {j} : Still(i)
  BY <1>1, <1>3 DEF Jobs, Same, Still
<1>6. Shape
  BY <1>3, <1>4, <1>5 DEF Shape, Along, Begins, Waiting
<1> QED BY <1>6, ReadyStep

(* A delay is over. *)
LEMMA DelayOverShape == ASSUME Base, NEW j \in Ids, DelayOver(j) PROVE Base' /\ Shape
BY ReadyShape DEF DelayOver

(* One turn of the queue loop. *)
LEMMA MonitorQueueShape == ASSUME Base, NEW k \in Keys, MonitorQueue(k) PROVE Base' /\ Shape
<1>1. CASE \E h \in Queued(job, k) : MonitorReady([job EXCEPT ![h].state = "ready"], h)
  <2>1. PICK h \in Ids : job[h].state = "queued" /\ MonitorReady([job EXCEPT ![h].state = "ready"], h)
    BY <1>1 DEF Queued, KeyJobs
  <2> QED BY <2>1, ReadyShape DEF MonitorQueue
<1>2. CASE OpenWindow(k, 0) /\ UNCHANGED job
  <2>1. window' \in [Keys -> {"none", "open", "expired"}] /\ rateCount' \in [Keys -> Nat]
    BY <1>2, OpenWindowType DEF Base
  <2>2. Base'
    BY <1>2, <2>1, ElsewhereStep DEF MonitorQueue, Base, TypeOK, idVars, envVars
  <2> QED BY <1>2, <2>2, StillShape DEF Still
<1> QED BY <1>1, <1>2 DEF MonitorQueue

(* The callback of the start actions. *)
LEMMA StartActionsDoneShape == ASSUME Base, NEW j \in Ids, StartActionsDone(j) PROVE Base' /\ Shape
BY Known, StartActionsDoneStep, LocalShape DEF AfterStart, Along, Same

(* The three ways to abort a job. *)
LEMMA AbortShapes ==
  ASSUME Base, NEW j \in Ids, DeadTimeout(j) \/ LimitFire(j) \/ UserAbort(j)
  PROVE  Base' /\ Shape
<1>1. /\ job \in Jobs /\ job[j] \in JobRecord /\ RecordOK(job[j]) /\ sat \in [Ids -> SatRecord]
  BY Known DEF Base, TypeOK
<1>2. \E r0 \in JobRecord :
        /\ r0.state = job[j].state /\ r0.event = job[j].event /\ r0.pending = job[j].pending
        /\ r0.suspended = job[j].suspended /\ r0.remote = job[j].remote
        /\ r0.server = job[j].server /\ r0.retry_prev = job[j].retry_prev
        /\ r0.limit \in {job[j].limit, "fired"}
        /\ job' = Abort([job EXCEPT ![j] = r0], j)
  <2>1. CASE DeadTimeout(j)
    <3> DEFINE r0 == [job[j] EXCEPT !.retry_ok = TRUE]
    <3>1. r0 \in JobRecord BY <1>1 DEF JobRecord
    <3> QED BY <1>1, <2>1, <3>1 DEF DeadTimeout, JobRecord
  <2>2. CASE LimitFire(j)
    <3> DEFINE r0 == [job[j] EXCEPT !.limit = "fired", !.retry_ok = TRUE]
    <3>1. r0 \in JobRecord BY <1>1 DEF JobRecord
    <3> QED BY <1>1, <2>2, <3>1 DEF LimitFire, JobRecord
  <2>3. CASE UserAbort(j)
    <3>1. job = [job EXCEPT ![j] = job[j]] BY <1>1 DEF Jobs
    <3> QED BY <1>1, <2>3, <3>1 DEF UserAbort
  <2> QED BY <2>1, <2>2, <2>3
<1>3. j \in Live(job) /\ AbortMessage(j) /\ UNCHANGED <<idVars, rateVars, envVars, stored>>
  BY <1>1 DEF DeadTimeout, LimitFire, UserAbort, Live, RecordOK
<1>4. PICK r0 \in JobRecord :
        /\ r0.state = job[j].state /\ r0.event = job[j].event /\ r0.pending = job[j].pending
        /\ r0.suspended = job[j].suspended /\ r0.remote = job[j].remote
        /\ r0.server = job[j].server /\ r0.retry_prev = job[j].retry_prev
        /\ r0.limit \in {job[j].limit, "fired"}
        /\ job' = Abort([job EXCEPT ![j] = r0], j)
  BY <1>2
<1>5. Base' BY <1>3, <1>4, AbortStep
<1>6. PICK r \in JobRecord :
        /\ job' = [job EXCEPT ![j] = r] /\ r.event = job[j].event
        /\ r.state \in {job[j].state, "complete"}
  BY <1>3, <1>4, AbortStep
<1>7. CASE job[j].state # "none" /\ job[j].state # "gone"
  <2>1. Along(job[j].state, r.state) BY <1>1, <1>6, <1>7 DEF Along, JobRecord, States, Waiting, RecordOK
  <2> QED BY <1>1, <1>5, <1>6, <2>1, LocalShape
<1> QED BY <1>3, <1>7 DEF Live

(* One record changes, the satellites do not. *)
LEMMA RecordStep ==
  ASSUME Base, NEW j \in Ids, NEW r \in JobRecord, job' = [job EXCEPT ![j] = r],
         UNCHANGED <<idVars, rateVars, envVars, sat>>, r.event = job[j].event,
         Along(job[j].state, r.state), RecordOK(r), PairOK(r, sat[j], online), r.state # "none",
         job[j].state # "none", stored' \in [Ids -> Codes \cup {"none", "warning"}]
  PROVE  Base' /\ Shape
<1>1. job \in Jobs /\ sat[j] \in SatRecord /\ sat' = [sat EXCEPT ![j] = sat[j]] /\ j <= launched
  BY Known DEF Base, TypeOK
<1>2. Base'
  BY <1>1, LocalStep DEF Base, TypeOK, idVars, rateVars, envVars
<1> QED BY <1>1, <1>2, LocalShape

(* api_resume_job. *)
LEMMA ResumeShape == ASSUME Base, NEW j \in Ids, Resume(j) PROVE Base' /\ Shape
<1> DEFINE r == [job[j] EXCEPT !.suspended = FALSE, !.resumed = TRUE, !.server = NoServer]
<1>1. /\ job[j] \in JobRecord /\ RecordOK(job[j]) /\ PairOK(job[j], sat[j], online)
      /\ job[j].suspended
  BY Known DEF Resume
<1>2. r \in JobRecord BY <1>1 DEF JobRecord
<1>3. job[j].state \in {"starting", "complete"} BY <1>1 DEF RecordOK
<1>4. r.event = job[j].event /\ r.state = job[j].state /\ RecordOK(r) /\ PairOK(r, sat[j], online)
  BY <1>1, <1>3 DEF JobRecord, RecordOK, PairOK
<1> QED
  BY <1>2, <1>3, <1>4, RecordStep DEF Resume, Along, Base, TypeOK

(* A runtime limit starts its actions. *)
LEMMA LimitTriggerShape == ASSUME Base, NEW j \in Ids, LimitTrigger(j) PROVE Base' /\ Shape
<1> DEFINE r == [job[j] EXCEPT !.limit = "firing"]
<1>1. /\ job[j] \in JobRecord /\ RecordOK(job[j]) /\ PairOK(job[j], sat[j], online)
      /\ job[j].state = "active"
  BY Known DEF LimitTrigger
<1>2. r \in JobRecord BY <1>1 DEF JobRecord
<1>3. r.event = job[j].event /\ r.state = job[j].state /\ RecordOK(r) /\ PairOK(r, sat[j], online)
  BY <1>1 DEF JobRecord, RecordOK, PairOK
<1> QED
  BY <1>1, <1>2, <1>3, RecordStep DEF LimitTrigger, Along, Base, TypeOK

(* The job is handed to the database. *)
LEMMA EndActionsDoneShape == ASSUME Base, NEW j \in Ids, EndActionsDone(j) PROVE Base' /\ Shape
<1> DEFINE r == [job[j] EXCEPT !.pending = "insert"]
<1>1. /\ job[j] \in JobRecord /\ RecordOK(job[j]) /\ PairOK(job[j], sat[j], online)
      /\ job[j].state = "complete" /\ job[j].suspended = FALSE
  BY Known DEF EndActionsDone, RecordOK, JobRecord
<1>2. r \in JobRecord BY <1>1 DEF JobRecord
<1>3. r.event = job[j].event /\ r.state = job[j].state /\ RecordOK(r) /\ PairOK(r, sat[j], online)
  BY <1>1 DEF JobRecord, RecordOK, PairOK
<1>4. stored' \in [Ids -> Codes \cup {"none", "warning"}]
  BY <1>1 DEF EndActionsDone, Base, TypeOK, JobRecord
<1>5. UNCHANGED <<idVars, rateVars, envVars, sat>> /\ job' = [job EXCEPT ![j] = r]
  BY DEF EndActionsDone
<1> HIDE DEF r
<1> QED BY <1>1, <1>2, <1>3, <1>4, <1>5, RecordStep DEF Along

(* The job leaves activeJobs. *)
LEMMA IndexedShape == ASSUME Base, NEW j \in Ids, Indexed(j) PROVE Base' /\ Shape
<1> DEFINE r == Gone(job[j])
<1>1. /\ job[j] \in JobRecord /\ RecordOK(job[j]) /\ PairOK(job[j], sat[j], online)
      /\ job[j].state = "complete" /\ sat[j] \in SatRecord
  BY Known DEF Indexed, RecordOK
<1>2. /\ r \in JobRecord /\ r.state = "gone" /\ r.event = job[j].event
      /\ r.pending = "none" /\ r.suspended = FALSE /\ r.remote = FALSE
  BY <1>1, GoneType
<1>3. r.limit = "armed" BY DEF Gone, Blank
<1>4. RecordOK(r) /\ PairOK(r, sat[j], online) BY <1>2, <1>3 DEF RecordOK, PairOK
<1>5. /\ UNCHANGED <<idVars, rateVars, envVars, sat>> /\ job' = [job EXCEPT ![j] = r]
      /\ stored' \in [Ids -> Codes \cup {"none", "warning"}]
  BY DEF Indexed, Base, TypeOK
<1> HIDE DEF r
<1> QED BY <1>1, <1>2, <1>4, <1>5, RecordStep DEF Along

(* api_flush_job_queue. *)
LEMMA FlushShape == ASSUME Base, NEW k \in Keys, Flush(k) PROVE Base' /\ Shape
<1>1. \A i \in Ids :
        /\ job[i] \in JobRecord /\ sat[i] \in SatRecord /\ RecordOK(job[i])
        /\ PairOK(job[i], sat[i], online) /\ (job[i].state # "none" => i <= launched)
  BY Known
<1>2. \A i \in Ids : job'[i] = job[i] \/ (job[i].state = "queued" /\ job'[i] = Gone(job[i]))
  BY DEF Flush, Queued, KeyJobs
<1>3. \A i \in Ids :
        /\ job'[i] \in JobRecord /\ RecordOK(job'[i]) /\ PairOK(job'[i], sat[i], online)
        /\ \/ Still(i)
           \/ /\ job[i].state = "queued" /\ job'[i].state = "gone"
              /\ job'[i].event = job[i].event
  <2> TAKE i \in Ids
  <2>1. CASE job'[i] = job[i] BY <1>1, <2>1 DEF Still
  <2>2. CASE job[i].state = "queued" /\ job'[i] = Gone(job[i])
    <3>1. /\ Gone(job[i]) \in JobRecord /\ Gone(job[i]).state = "gone"
          /\ Gone(job[i]).event = job[i].event /\ Gone(job[i]).pending = "none"
          /\ Gone(job[i]).suspended = FALSE /\ Gone(job[i]).remote = FALSE
      BY <1>1, GoneType
    <3>2. Gone(job[i]).limit = "armed" BY DEF Gone, Blank
    <3>3. RecordOK(Gone(job[i])) /\ PairOK(Gone(job[i]), sat[i], online)
      BY <3>1, <3>2 DEF RecordOK, PairOK
    <3> QED BY <2>2, <3>1, <3>3
  <2> QED BY <1>2, <2>1, <2>2
<1>4. Shape BY <1>3 DEF Shape
<1>5. job' \in [Ids -> JobRecord] BY <1>3 DEF Flush
<1>6. TypeOK'
  BY <1>3, <1>5 DEF Flush, Base, TypeOK, RecordOK, idVars, rateVars, envVars
<1>7. Fresh(job', launched') BY <1>1, <1>3 DEF Fresh, Still, Flush, idVars, Base
<1> QED BY <1>3, <1>4, <1>6, <1>7 DEF Base, Flush, envVars

(* The record of a job in its completion actions. *)
LEMMA EndActionsType ==
  ASSUME NEW r \in JobRecord, r.state = "complete", r.remote = FALSE
  PROVE  /\ EndActions(r) \in JobRecord /\ EndActions(r).state = "complete"
         /\ EndActions(r).event = r.event /\ RecordOK(EndActions(r))
         /\ EndActions(r).remote = FALSE
<1>1. EndActions(r) \in JobRecord BY DEF EndActions, JobRecord
<1>2. /\ EndActions(r).state = "complete" /\ EndActions(r).event = r.event
      /\ EndActions(r).remote = FALSE /\ EndActions(r).pending = "end_actions"
  BY DEF EndActions, JobRecord
<1> QED BY <1>1, <1>2 DEF RecordOK

(* The copy that is launched as a retry is a new record. *)
LEMMA RetryType ==
  ASSUME Base, NEW j \in Ids
  PROVE  NewRecord(RetryOf(job[j], j)) /\ RetryOf(job[j], j).event = job[j].event
<1> DEFINE r == job[j]
           n == RetryOf(r, j)
<1>0. r \in JobRecord BY Known
<1>1. Newest \in Nat /\ r.event \in Events /\ r.retry_count \in Nat /\ j \in 0..MaxLaunches
  BY <1>0, BoundAssumption DEF Newest, Base, TypeOK, JobRecord, Ids
<1>2. Blank(r.event) \in JobRecord BY <1>1, BlankType
<1>3. n \in JobRecord
  <2> DEFINE st == IF r.event \in RetryDelay THEN "retry_delay" ELSE "ready"
             b == Blank(r.event)
             b1 == [[[b EXCEPT !.state = st] EXCEPT !.expression = FALSE]
                      EXCEPT !.started = Newest]
  <2>1. st \in States BY DEF States
  <2>2. b1 \in JobRecord
    <3> HIDE DEF st, b
    <3>1. b \in JobRecord BY <1>2 DEF b
    <3> DEFINE c1 == [b EXCEPT !.state = st]
               c2 == [c1 EXCEPT !.expression = FALSE]
    <3>2. c1 \in JobRecord BY <2>1, <3>1 DEF JobRecord
    <3>3. c2 \in JobRecord
      <4> HIDE DEF c1
      <4> QED BY <3>2 DEF JobRecord
    <3>4. [c2 EXCEPT !.started = Newest] \in JobRecord
      <4> HIDE DEF c2
      <4> QED BY <1>1, <3>3 DEF JobRecord
    <3> QED BY <3>4
  <2>3. n = [b1 EXCEPT !.retry_count = r.retry_count + 1, !.retry_prev = j] BY DEF RetryOf
  <2> DEFINE b2 == [b1 EXCEPT !.retry_count = r.retry_count + 1]
  <2>4. r.retry_count + 1 \in Nat BY <1>1
  <2>5. b2 \in JobRecord
    <3> HIDE DEF b1, r
    <3> QED BY <2>2, <2>4 DEF JobRecord
  <2>6. [b2 EXCEPT !.retry_prev = j] \in JobRecord
    <3> HIDE DEF b2
    <3> QED BY <1>1, <2>5 DEF JobRecord
  <2>7. n = [b2 EXCEPT !.retry_prev = j] BY <2>3
  <2> QED BY <2>6, <2>7
<1>4. n.state \in {"ready", "retry_delay"} /\ n.event = r.event /\ n.pending = "none"
      /\ n.suspended = FALSE /\ n.remote = FALSE /\ n.limit = "armed"
  BY DEF RetryOf, Blank
<1> QED BY <1>3, <1>4 DEF NewRecord

(* The end of prepJobLog, with the retry it may launch. *)
LEMMA JobLogReadyShape == ASSUME Base, NEW j \in Ids, JobLogReady(j) PROVE Base' /\ Shape
<1> DEFINE r == job[j]
           checked == IF RetryChecked(r) THEN [r EXCEPT !.retry_ok = FALSE] ELSE r
           again == RetryChecked(r) /\ r.retry_count < Retries[r.event] /\ LaunchAllowed(r.event)
           q1 == EndActions([checked EXCEPT !.retried = TRUE])
           q0 == EndActions(checked)
<1>1. /\ r \in JobRecord /\ RecordOK(r) /\ PairOK(r, sat[j], online) /\ job \in Jobs
      /\ r.state = "complete" /\ r.remote = FALSE /\ j <= launched /\ sat[j] \in SatRecord
  BY Known DEF JobLogReady, RecordOK, JobRecord
<1>2. checked \in JobRecord /\ checked.state = "complete" /\ checked.remote = FALSE
      /\ checked.event = r.event
  BY <1>1 DEF JobRecord
<1>3. [checked EXCEPT !.retried = TRUE] \in JobRecord
      /\ [checked EXCEPT !.retried = TRUE].state = "complete"
      /\ [checked EXCEPT !.retried = TRUE].remote = FALSE
      /\ [checked EXCEPT !.retried = TRUE].event = r.event
  <2> HIDE DEF checked
  <2> QED BY <1>2 DEF JobRecord
<1>4. /\ q0 \in JobRecord /\ q0.state = "complete" /\ q0.event = r.event /\ RecordOK(q0)
      /\ q0.remote = FALSE
  BY <1>2, EndActionsType
<1>5. /\ q1 \in JobRecord /\ q1.state = "complete" /\ q1.event = r.event /\ RecordOK(q1)
      /\ q1.remote = FALSE
  BY <1>3, EndActionsType
<1>6. PairOK(q0, sat[j], online) /\ PairOK(q1, sat[j], online)
  BY <1>1, <1>4, <1>5 DEF PairOK
<1>7. CASE again
  <2> DEFINE J == [job EXCEPT ![j] = q1]
             n == RetryOf(r, j)
  <2>1. LaunchJob(J, n) /\ launched < MaxLaunches
    BY <1>7 DEF JobLogReady, LaunchAllowed
  <2>2. NewRecord(n) /\ n.event = r.event BY RetryType
  <2>3. /\ J \in Jobs /\ J[j] = q1 /\ \A i \in Ids : RecordOK(J[i])
        /\ \A i \in Ids : PairOK(J[i], sat[i], online)
    <3> HIDE DEF q1
    <3> QED BY <1>1, <1>5, <1>6, Known DEF Jobs
  <2>4. Fresh(J, launched)
    <3> HIDE DEF q1
    <3> QED BY <1>1, <1>5, BoundAssumption DEF Fresh, Base, Jobs, TypeOK, Ids
  <2>5. UNCHANGED <<envVars, sat, stored>> BY DEF JobLogReady
  <2> HIDE DEF J, n, q1
  <2>6. Base' BY <2>1, <2>2, <2>3, <2>4, <2>5, LaunchStep
  <2>7. PICK m \in JobRecord :
          /\ launched' = launched + 1 /\ launched' \in Ids
          /\ job' = [J EXCEPT ![launched'] = m] /\ m.event = n.event
          /\ m.state \in {"start_delay", "retry_delay", "queued", "complete", "starting"}
          /\ m.state = "starting" => ~AtCapacity([J EXCEPT ![launched'] = n], KeyOf[n.event])
    BY <2>1, <2>2, <2>3, <2>4, <2>5, LaunchStep
  <2> DEFINE l == launched'
  <2>8. l \in Ids /\ l # j /\ job[l].state = "none" /\ J[l] = job[l]
    BY <1>1, <2>7, BoundAssumption DEF Base, TypeOK, Fresh, Ids, J, Jobs
  <2>9. m.state = "starting" => ~AtCapacity(job, KeyOf[m.event])
    <3>1. n \in JobRecord /\ n.state \notin {"active", "starting"} /\ KeyOf[n.event] \in Keys
      BY <2>2, EventAssumption DEF NewRecord, JobRecord
    <3>2. AtCapacity([J EXCEPT ![l] = n], KeyOf[n.event]) = AtCapacity(J, KeyOf[n.event])
      BY <2>3, <2>8, <3>1, CapacitySame
    <3>3. AtCapacity(J, KeyOf[n.event]) = AtCapacity(job, KeyOf[n.event])
      BY <1>1, <1>5, <3>1, CapacitySame DEF J
    <3> QED BY <2>7, <3>2, <3>3
  <2>10. job'[l] = m /\ job' = [[job EXCEPT ![j] = q1] EXCEPT ![l] = m]
    BY <2>3, <2>7, <2>8 DEF Jobs, J
  <2>11. \A i \in Ids \ {l} : Still(i)
    BY <1>1, <1>5, <2>8, <2>10 DEF Still, Jobs
  <2>12. Begins(l) \/ Arrives(l)
    BY <2>7, <2>8, <2>9, <2>10 DEF Begins, Arrives, Waiting
  <2>13. Shape BY <2>8, <2>11, <2>12 DEF Shape
  <2> QED BY <2>6, <2>13
<1>8. CASE ~again
  <2>1. /\ job' = [job EXCEPT ![j] = q0] /\ UNCHANGED <<idVars, rateVars, envVars, sat>>
        /\ stored' \in [Ids -> Codes \cup {"none", "warning"}]
    BY <1>8 DEF JobLogReady, Base, TypeOK
  <2> HIDE DEF q0
  <2> QED BY <1>1, <1>4, <1>6, <2>1, RecordStep DEF Along
<1> QED BY <1>7, <1>8

(* launchJob. *)
LEMMA LaunchShape ==
  ASSUME Base, NEW e \in Events, NEW p \in Priorities, NEW st \in FirstStates, Launch(e, p, st)
  PROVE  Base' /\ Shape
<1> DEFINE r == [Blank(e) EXCEPT !.state = st, !.priority = p, !.started = Newest]
<1>1. NewRecord(r) /\ r.event = e
  <2>1. Blank(e) \in JobRecord BY BlankType
  <2>2. st \in {"ready", "start_delay"} /\ p \in BOOLEAN /\ Newest \in Nat
    BY EventAssumption DEF Newest, Base, TypeOK
  <2>3. r \in JobRecord BY <2>1, <2>2 DEF JobRecord, States
  <2> QED BY <2>2, <2>3 DEF NewRecord, Blank
<1>2. job \in Jobs BY DEF Base, TypeOK, Jobs
<1>3. LaunchJob(job, r) /\ launched < MaxLaunches /\ UNCHANGED <<envVars, sat, stored>>
  BY DEF Launch, LaunchAllowed
<1> HIDE DEF r
<1>4. PICK m \in JobRecord :
        /\ Base' /\ launched' = launched + 1 /\ launched' \in Ids
        /\ job' = [job EXCEPT ![launched'] = m] /\ m.event = r.event
        /\ m.state \in {"start_delay", "retry_delay", "queued", "complete", "starting"}
        /\ m.state = "starting" => ~AtCapacity([job EXCEPT ![launched'] = r], KeyOf[r.event])
  BY <1>1, <1>2, <1>3, LaunchStep DEF Base
<1> DEFINE l == launched'
<1>5. l \in Ids /\ job[l].state = "none"
  BY <1>4, BoundAssumption DEF Base, TypeOK, Fresh, Ids
<1>6. m.state = "starting" => ~AtCapacity(job, KeyOf[m.event])
  <2>1. r \in JobRecord /\ r.state \notin {"active", "starting"} /\ KeyOf[r.event] \in Keys
    BY <1>1, EventAssumption DEF NewRecord, JobRecord
  <2> QED BY <1>2, <1>4, <1>5, <2>1, CapacitySame
<1>7. job'[l] = m /\ \A i \in Ids \ {l} : Still(i) BY <1>2, <1>4, <1>5 DEF Still, Jobs
<1>8. Begins(l) \/ Arrives(l) BY <1>4, <1>5, <1>6, <1>7 DEF Begins, Arrives, Waiting
<1> QED BY <1>4, <1>5, <1>7, <1>8 DEF Shape

-----------------------------------------------------------------------------
(* The satellites and the environment. *)

(* Only what the satellite knows of one job changes. *)
LEMMA SatOnly ==
  ASSUME Base, NEW j \in Ids, NEW t \in SatRecord, sat' = [sat EXCEPT ![j] = t],
         UNCHANGED <<job, idVars, rateVars, envVars>>,
         t.phase = "none" \/ PairOK(job[j], t, online),
         stored' \in [Ids -> Codes \cup {"none", "warning"}]
  PROVE  Base' /\ Shape
<1>1. /\ job[j] \in JobRecord /\ RecordOK(job[j]) /\ PairOK(job[j], sat[j], online)
      /\ job = [job EXCEPT ![j] = job[j]] /\ (job[j].state # "none" => j <= launched)
  BY Known DEF Base, TypeOK
<1>2. PairOK(job[j], t, online) BY <1>1 DEF PairOK
<1>3. job[j].state = "none" \/ j <= launched BY <1>1
<1>4. job' = [job EXCEPT ![j] = job[j]] BY <1>1
<1>5. /\ online' = online /\ launched' = launched /\ clock' \in Nat /\ minuteJobs' \in Nat
      /\ blocked' \subseteq Servers /\ disabled' \subseteq Events
      /\ window' \in [Keys -> {"none", "open", "expired"}] /\ rateCount' \in [Keys -> Nat]
  BY DEF Base, TypeOK, idVars, rateVars, envVars
<1>6. Base'
  BY <1>1, <1>2, <1>3, <1>4, <1>5, LocalStep
<1> QED BY <1>6, StillShape DEF Still

(* A satellite that knows nothing of a job. *)
LEMMA IdleType == Idle \in SatRecord /\ Idle.phase = "none"
BY DEF Idle, SatRecord, SatPhases

(* The steps of a satellite and the late updates. *)
LEMMA SatShape ==
  ASSUME Base, NEW j \in Ids,
         SatLaunch(j) \/ SatExit(j) \/ SatComplete(j) \/ SatKill(j) \/ SatLose(j) \/ UpdateLate(j)
  PROVE  Base' /\ Shape
<1>1. /\ job[j] \in JobRecord /\ sat[j] \in SatRecord /\ RecordOK(job[j])
      /\ PairOK(job[j], sat[j], online)
  BY Known
<1>2. CASE SatLaunch(j)
  <2> DEFINE t == [sat[j] EXCEPT !.phase = "running"]
  <2>1. t \in SatRecord BY <1>1 DEF SatRecord, SatPhases
  <2>2. PairOK(job[j], t, online) BY <1>1, <1>2 DEF PairOK, SatRecord, SatLaunch
  <2> QED BY <1>2, <2>1, <2>2, SatOnly DEF SatLaunch, Base, TypeOK
<1>3. CASE SatExit(j)
  <2> DEFINE t == [sat[j] EXCEPT !.phase = "uploading", !.kill = FALSE]
  <2>1. t \in SatRecord BY <1>1 DEF SatRecord, SatPhases
  <2>2. PairOK(job[j], t, online) BY <1>1, <1>3 DEF PairOK, SatRecord, SatExit
  <2>3. sat' = [sat EXCEPT ![j] = t] BY <1>3 DEF SatExit
  <2> QED BY <1>3, <2>1, <2>2, <2>3, SatOnly DEF SatExit, Base, TypeOK
<1>4. CASE SatComplete(j)
  <2>1. PICK c \in ExitCodes : sat' = [sat EXCEPT ![j].phase = c] BY <1>4 DEF SatComplete
  <2> DEFINE t == [sat[j] EXCEPT !.phase = c]
  <2>2. c \in {"ok", "error"} BY EventAssumption
  <2>3. t \in SatRecord BY <1>1, <2>2 DEF SatRecord, SatPhases
  <2>4. PairOK(job[j], t, online) BY <1>1, <1>4, <2>2 DEF PairOK, SatRecord, SatComplete
  <2> QED BY <1>4, <2>1, <2>3, <2>4, SatOnly DEF SatComplete, Base, TypeOK
<1>5. CASE SatKill(j)
  <2> DEFINE t == [sat[j] EXCEPT !.phase = "abort", !.kill = FALSE]
  <2>1. t \in SatRecord BY <1>1 DEF SatRecord, SatPhases
  <2>2. PairOK(job[j], t, online) BY <1>1, <1>5 DEF PairOK, SatRecord, SatKill
  <2>3. sat' = [sat EXCEPT ![j] = t] BY <1>5 DEF SatKill
  <2> QED BY <1>5, <2>1, <2>2, <2>3, SatOnly DEF SatKill, Base, TypeOK
<1>6. CASE SatLose(j)
  BY <1>6, IdleType, SatOnly DEF SatLose, Base, TypeOK
<1>7. CASE UpdateLate(j)
  <2>1. sat[j].phase \in Codes BY <1>7 DEF UpdateLate, Final
  <2>2. stored' \in [Ids -> Codes \cup {"none", "warning"}]
    BY <1>7, <2>1 DEF UpdateLate, Base, TypeOK
  <2> QED BY <1>7, <2>2, IdleType, SatOnly DEF UpdateLate
<1> QED BY <1>2, <1>3, <1>4, <1>5, <1>6, <1>7

(* updateJobData. *)
LEMMA UpdateShape == ASSUME Base, NEW j \in Ids, Update(j) PROVE Base' /\ Shape
<1>1. /\ job[j] \in JobRecord /\ sat[j] \in SatRecord /\ RecordOK(job[j]) /\ j <= launched
      /\ PairOK(job[j], sat[j], online) /\ job \in Jobs /\ sat \in [Ids -> SatRecord]
      /\ job[j].state \notin {"none", "gone"} /\ sat[j].phase # "none"
  BY Known DEF Update, Live, CanReport, Final, Base, TypeOK, Codes
<1>2. job[j].state \in {"active", "finishing", "complete"} BY <1>1 DEF PairOK
<1>3. PICK t \in SatRecord :
        /\ sat' = [sat EXCEPT ![j] = t]
        /\ IF Final(j) THEN t.phase = "none" ELSE t = sat[j]
  BY <1>1, IdleType DEF Update
<1>4. UNCHANGED <<idVars, rateVars, envVars, stored>> BY DEF Update
<1>5. \E r \in JobRecord :
        /\ job' = [job EXCEPT ![j] = r] /\ r.event = job[j].event
        /\ Along(job[j].state, r.state) /\ RecordOK(r) /\ PairOK(r, t, online)
  <2>1. CASE job[j].state = "complete"
    <3>1. job' = [job EXCEPT ![j] = job[j]] BY <1>1, <2>1 DEF Update, Jobs
    <3>2. PairOK(job[j], t, online) BY <1>1, <1>3, <2>1 DEF PairOK
    <3> QED BY <1>1, <3>1, <3>2 DEF Along
  <2>2. CASE job[j].state # "complete" /\ Final(j)
    <3> DEFINE r == Finish(job[j], sat[j].phase)
    <3>1. sat[j].phase \in Codes BY <2>2 DEF Final
    <3>2. /\ r \in JobRecord /\ r.state = "complete" /\ r.event = job[j].event
          /\ r.pending = "job_log" /\ r.remote = FALSE /\ r.suspended = job[j].suspended
      BY <1>1, <3>1, FinishType
    <3>3. r.suspended = FALSE BY <1>1, <1>2, <2>2, <3>2 DEF RecordOK, JobRecord
    <3>4. RecordOK(r) /\ PairOK(r, t, online) BY <3>2, <3>3 DEF RecordOK, PairOK
    <3>5. job' = [job EXCEPT ![j] = r] BY <2>2 DEF Update
    <3> QED BY <1>2, <2>2, <3>2, <3>4, <3>5 DEF Along
  <2>3. CASE job[j].state # "complete" /\ ~Final(j)
    <3> DEFINE st == IF sat[j].phase = "running" THEN "active" ELSE "finishing"
               r == [job[j] EXCEPT !.remote = TRUE, !.state = st]
    <3>1. Connected(j) /\ sat[j].phase \in {"running", "uploading"}
      BY <2>3 DEF Update, CanReport
    <3>2. st \in {"active", "finishing"} /\ Along(job[j].state, st)
      BY <1>1, <1>2, <2>3, <3>1 DEF PairOK, Along
    <3>3. job' = [job EXCEPT ![j] = r] BY <2>3 DEF Update
    <3>4. t = sat[j] BY <1>3, <2>3
    <3>5. st = "finishing" => sat[j].phase \notin {"sent", "running"} BY <3>1
    <3> HIDE DEF st
    <3>6. r \in JobRecord /\ r.event = job[j].event /\ r.state = st /\ r.server = job[j].server
      BY <1>1, <3>2 DEF JobRecord, States
    <3>7. RecordOK(r)
      BY <1>1, <1>2, <2>3, <3>2 DEF RecordOK, JobRecord
    <3>8. PairOK(r, t, online)
      BY <1>1, <1>2, <2>3, <3>1, <3>2, <3>4, <3>5, <3>6 DEF PairOK, Connected
    <3> QED BY <3>2, <3>3, <3>6, <3>7, <3>8
  <2> QED BY <2>1, <2>2, <2>3
<1>6. PICK r \in JobRecord :
        /\ job' = [job EXCEPT ![j] = r] /\ r.event = job[j].event
        /\ Along(job[j].state, r.state) /\ RecordOK(r) /\ PairOK(r, t, online)
  BY <1>5
<1>7. Base'
  BY <1>1, <1>3, <1>4, <1>6, LocalStep DEF Base, TypeOK, idVars, rateVars, envVars
<1> QED BY <1>1, <1>6, <1>7, LocalShape

(* removeServer. *)
LEMMA RemoveServerShape == ASSUME Base, NEW s \in Servers, RemoveServer(s) PROVE Base' /\ Shape
<1>1. \A i \in Ids :
        /\ job[i] \in JobRecord /\ sat[i] \in SatRecord /\ RecordOK(job[i])
        /\ PairOK(job[i], sat[i], online)
  BY Known
<1>2. \A i \in Ids :
        /\ job'[i] \in JobRecord /\ RecordOK(job'[i]) /\ Still(i)
        /\ job'[i].server = job[i].server
        /\ job'[i].remote => job[i].remote /\ job[i].server # s
  <2> TAKE i \in Ids
  <2>1. job[i] \in JobRecord /\ RecordOK(job[i]) BY <1>1
  <2>2. job'[i] = IF job[i].remote /\ job[i].server = s
                  THEN [job[i] EXCEPT !.remote = FALSE] ELSE job[i]
    BY DEF RemoveServer
  <2> QED BY <2>1, <2>2 DEF JobRecord, RecordOK, Still
<1>3. \A i \in Ids :
        /\ sat'[i] \in SatRecord /\ sat'[i].phase \in {sat[i].phase, "none"}
        /\ sat'[i].phase # "none" => sat'[i].at = sat[i].at
  <2> TAKE i \in Ids
  <2>1. sat[i] \in SatRecord BY <1>1
  <2>2. \/ sat'[i] = sat[i] \/ sat'[i] = Idle \/ sat'[i] = [sat[i] EXCEPT !.kill = FALSE]
    BY DEF RemoveServer
  <2> QED BY <2>1, <2>2, IdleType DEF SatRecord
<1>4. \A i \in Ids : PairOK(job'[i], sat'[i], online')
  <2> TAKE i \in Ids
  <2>1. online' = online \ {s} BY DEF RemoveServer
  <2> QED BY <1>1, <1>2, <1>3, <2>1 DEF PairOK, Still
<1>5. job' \in [Ids -> JobRecord] /\ sat' \in [Ids -> SatRecord]
  BY <1>2, <1>3 DEF RemoveServer
<1>6. TypeOK'
  BY <1>2, <1>5 DEF RemoveServer, Base, TypeOK, RecordOK, idVars, rateVars
<1>7. Fresh(job', launched') BY <1>2 DEF Fresh, Still, RemoveServer, idVars, Base
<1> QED BY <1>2, <1>4, <1>6, <1>7, StillShape DEF Base

(* Servers, events, windows and minutes change no job. *)
LEMMA EnvironmentShape ==
  ASSUME Base,
         \/ \E s \in Servers : AddServer(s) \/ ToggleServer(s)
         \/ \E e \in Events : ToggleEvent(e)
         \/ \E k \in Keys : WindowEnds(k) \/ ExpireRateLimit(k)
         \/ NewMinute
  PROVE  Base' /\ Shape
<1>1. UNCHANGED <<job, sat, launched, stored, clock>> /\ online \subseteq online'
  BY DEF AddServer, ToggleServer, ToggleEvent, WindowEnds, ExpireRateLimit, NewMinute,
         idVars, rateVars, envVars
<1>2. minuteJobs' \in Nat
  BY DEF AddServer, ToggleServer, ToggleEvent, WindowEnds, ExpireRateLimit, NewMinute,
         idVars, Base, TypeOK
<1>3. online' \subseteq Servers /\ blocked' \subseteq Servers /\ disabled' \subseteq Events
  BY DEF AddServer, ToggleServer, ToggleEvent, WindowEnds, ExpireRateLimit, NewMinute,
         envVars, Base, TypeOK
<1>4. window' \in [Keys -> {"none", "open", "expired"}] /\ rateCount' \in [Keys -> Nat]
  BY DEF AddServer, ToggleServer, ToggleEvent, WindowEnds, ExpireRateLimit, NewMinute,
         rateVars, Base, TypeOK
<1>5. Base' BY <1>1, <1>2, <1>3, <1>4, ElsewhereStep DEF Base, TypeOK
<1> QED BY <1>1, <1>5, StillShape DEF Still

-----------------------------------------------------------------------------
(* The invariant holds initially. *)
LEMMA BaseInit == Init => Base
<1> SUFFICES ASSUME Init PROVE Base OBVIOUS
<1> DEFINE e == CHOOSE e \in Events : TRUE
<1>1. e \in Events BY EventAssumption
<1>2. Blank(e) \in JobRecord BY <1>1, BlankType
<1>3. RecordOK(Blank(e)) /\ PairOK(Blank(e), Idle, online) /\ Blank(e).state = "none"
  BY DEF RecordOK, PairOK, Blank, Idle
<1>4. \A j \in Ids : job[j] = Blank(e) /\ sat[j] = Idle BY DEF Init
<1>5. TypeOK
  <2> HIDE DEF e
  <2>1. job = [j \in Ids |-> Blank(e)] BY DEF Init, e
  <2> QED BY <1>2, <1>3, <1>4, <2>1, IdleType, BoundAssumption DEF TypeOK, Init
<1>6. Fresh(job, launched) BY <1>3, <1>4 DEF Fresh
<1> HIDE DEF e
<1> QED BY <1>3, <1>4, <1>5, <1>6 DEF Base

(* Every action keeps the invariant and has the shape above. *)
LEMMA BaseStep == Base /\ Next => Base' /\ Shape
<1> SUFFICES ASSUME Base, Next PROVE Base' /\ Shape OBVIOUS
<1>1. ASSUME NEW e \in Events, NEW p \in Priorities, NEW st \in FirstStates, Launch(e, p, st)
      PROVE  Base' /\ Shape
  BY <1>1, LaunchShape
<1>2. ASSUME NEW j \in Ids, JobStep(j) PROVE Base' /\ Shape
  BY <1>2, DelayOverShape, StartActionsDoneShape, AbortShapes, JobLogReadyShape,
     EndActionsDoneShape, IndexedShape DEF JobStep
<1>3. ASSUME NEW j \in Ids, SatStep(j) \/ SatLose(j) PROVE Base' /\ Shape
  BY <1>3, SatShape, UpdateShape DEF SatStep
<1>4. ASSUME NEW j \in Ids, Resume(j) \/ DeadTimeout(j) \/ LimitTrigger(j) \/ UserAbort(j)
      PROVE  Base' /\ Shape
  BY <1>4, ResumeShape, AbortShapes, LimitTriggerShape
<1>5. ASSUME NEW k \in Keys, MonitorQueue(k) \/ Flush(k) PROVE Base' /\ Shape
  BY <1>5, MonitorQueueShape, FlushShape
<1>6. ASSUME NEW s \in Servers, RemoveServer(s) PROVE Base' /\ Shape
  BY <1>6, RemoveServerShape
<1> QED BY <1>1, <1>2, <1>3, <1>4, <1>5, <1>6, EnvironmentShape DEF Next

(* So does a stuttering step. *)
LEMMA BaseStutter == Base /\ UNCHANGED vars => Base' /\ Shape
<1> SUFFICES ASSUME Base, UNCHANGED vars PROVE Base' /\ Shape OBVIOUS
<1>1. Base'
  BY ElsewhereStep DEF vars, Base, TypeOK
<1> QED BY <1>1, StillShape DEF vars, Still

(* The inductive invariant holds in every reachable state. *)
THEOREM BaseHolds == Spec => []Base
<1>1. Base /\ [Next]_vars => Base' BY BaseStep, BaseStutter
<1> QED BY <1>1, BaseInit, PTL DEF Spec

(* TypeOK: every record of activeJobs is well formed and none stays "ready". *)
THEOREM TypeCorrect == Spec => []TypeOK
<1>1. Base => TypeOK BY DEF Base
<1> QED BY <1>1, BaseHolds, PTL

(* abortJob never meets a remote job whose server is not connected. *)
THEOREM RemoteCorrect == Spec => []RemoteHasServer
<1>1. Base => RemoteHasServer BY DEF Base, RemoteHasServer, PairOK
<1> QED BY <1>1, BaseHolds, PTL

(* A satellite never holds a job that waits or starts here. *)
THEOREM SatelliteCorrect == Spec => []SatelliteAgrees
<1>1. Base => SatelliteAgrees BY DEF Base, SatelliteAgrees, PairOK
<1> QED BY <1>1, BaseHolds, PTL

(* A job that starts or completes always has the callback that moves it on. *)
THEOREM CallbackCorrect == Spec => []CallbackPending
<1>1. Base => CallbackPending BY DEF Base, CallbackPending, RecordOK
<1> QED BY <1>1, BaseHolds, PTL

-----------------------------------------------------------------------------
(* The job limit. *)
(* The running jobs of a key can be counted. *)
LEMMA RunningFinite ==
  ASSUME NEW J, NEW k PROVE IsFiniteSet(Running(J, k)) /\ Cardinality(Running(J, k)) \in Nat
<1>1. IsFiniteSet(Ids) BY FS_Interval, BoundAssumption DEF Ids
<1>2. Running(J, k) \subseteq Ids BY DEF Running, KeyJobs
<1> QED BY <1>1, <1>2, FS_Subset, FS_CardinalityType

(* The shape of a step keeps the job limit. *)
LEMMA BoundStep ==
  ASSUME Base, Base', Shape, ConcurrencyBound
  PROVE  ConcurrencyBound'
<1> SUFFICES ASSUME NEW k \in Keys, Amount[k] > 0
             PROVE  Cardinality(Running(job', k)) <= Amount[k]
  BY DEF ConcurrencyBound
<1>1. Cardinality(Running(job, k)) <= Amount[k] BY DEF ConcurrencyBound
<1>2. /\ IsFiniteSet(Running(job, k)) /\ Cardinality(Running(job, k)) \in Nat
      /\ IsFiniteSet(Running(job', k)) /\ Cardinality(Running(job', k)) \in Nat
      /\ Amount[k] \in Nat
  BY RunningFinite, LimitAssumption
<1>3. ASSUME Running(job', k) \subseteq Running(job, k)
      PROVE  Cardinality(Running(job', k)) <= Amount[k]
  <2>1. Cardinality(Running(job', k)) <= Cardinality(Running(job, k))
    BY <1>2, <1>3, FS_Subset
  <2> QED BY <1>1, <1>2, <2>1
<1>4. ASSUME NEW j \in Ids, \A i \in Ids \ {j} : Still(i), Begins(j)
      PROVE  Cardinality(Running(job', k)) <= Amount[k]
  <2>1. CASE KeyOf[job'[j].event] # k
    <3>1. Running(job', k) \subseteq Running(job, k)
      BY <1>4, <2>1 DEF Running, KeyJobs, Still
    <3> QED BY <1>3, <3>1
  <2>2. CASE KeyOf[job'[j].event] = k
    <3>1. Running(job', k) \subseteq Running(job, k) \cup {j}
      BY <1>4 DEF Running, KeyJobs, Still
    <3>2. Cardinality(Running(job, k)) < Amount[k]
      BY <1>2, <1>4, <2>2 DEF Begins, AtCapacity
    <3>3. /\ IsFiniteSet(Running(job, k) \cup {j})
          /\ Cardinality(Running(job, k) \cup {j}) \in Nat
          /\ Cardinality(Running(job, k) \cup {j}) <= Cardinality(Running(job, k)) + 1
      <4>1. /\ IsFiniteSet(Running(job, k) \cup {j})
            /\ Cardinality(Running(job, k) \cup {j}) =
                 IF j \in Running(job, k) THEN Cardinality(Running(job, k))
                 ELSE Cardinality(Running(job, k)) + 1
        BY <1>2, FS_AddElement
      <4> QED BY <1>2, <4>1
    <3>4. Cardinality(Running(job', k)) <= Cardinality(Running(job, k) \cup {j})
      BY <1>2, <3>1, <3>3, FS_Subset
    <3> QED BY <1>2, <3>2, <3>3, <3>4
  <2> QED BY <2>1, <2>2
<1>5. ASSUME NEW j \in Ids, \A i \in Ids \ {j} : Still(i),
             \/ job'[j].event = job[j].event /\ Along(job[j].state, job'[j].state)
             \/ Arrives(j)
      PROVE  Running(job', k) \subseteq Running(job, k)
  BY <1>5 DEF Running, KeyJobs, Still, Along, Arrives, Waiting
<1>6. ASSUME \A i \in Ids : \/ Still(i)
                            \/ /\ job[i].state = "queued" /\ job'[i].state = "gone"
                               /\ job'[i].event = job[i].event
      PROVE  Running(job', k) \subseteq Running(job, k)
  BY <1>6 DEF Running, KeyJobs, Still
<1> QED BY <1>3, <1>4, <1>5, <1>6 DEF Shape

(* The job limit of every key holds whatever the numbers of jobs, events, servers and *)
(* keys: a job begins only after checkJobStartLimits has counted those that have begun. *)
THEOREM LimitCorrect == Spec => []ConcurrencyBound
<1>1. Init => ConcurrencyBound
  <2> SUFFICES ASSUME Init, NEW k \in Keys, Amount[k] > 0
               PROVE  Cardinality(Running(job, k)) <= Amount[k]
    BY DEF ConcurrencyBound
  <2>1. Running(job, k) = {} BY DEF Running, KeyJobs, Init, Blank
  <2> QED BY <2>1, FS_EmptySet, LimitAssumption
<1>2. Base /\ ConcurrencyBound /\ [Next]_vars => Base' /\ ConcurrencyBound'
  BY BaseStep, BaseStutter, BoundStep
<1> QED BY <1>1, <1>2, BaseInit, PTL DEF Spec

-----------------------------------------------------------------------------
(* The abstract pool. *)
(* The abstract pool has room exactly when checkJobStartLimits finds some. *)
LEMMA PoolMembers ==
  ASSUME NEW k \in Keys, job \in Jobs
  PROVE  Pool!Room(k) <=> ~AtCapacity(job, k)
<1>1. Pool!Members(k) = Running(job, k)
  BY DEF Pool!Members, Running, KeyJobs, PhaseOf, Jobs, JobRecord, States
<1>2. Cardinality(Running(job, k)) \in Nat /\ Amount[k] \in Nat
  BY RunningFinite, LimitAssumption
<1>3. Pool!Room(k) <=> Amount[k] = 0 \/ Cardinality(Running(job, k)) < Amount[k]
  BY <1>1 DEF Pool!Room, Pool!Cardinality, Cardinality
<1> QED BY <1>2, <1>3 DEF AtCapacity

(* An empty engine is an empty pool. *)
LEMMA PoolInit == Init => Pool!PInit
<1> SUFFICES ASSUME Init PROVE Pool!PInit OBVIOUS
<1>1. Base BY BaseInit
<1>2. \A j \in Ids : job[j].event \in Events /\ job[j].state = "none"
  BY <1>1, Known DEF Init, Blank, JobRecord
<1> QED BY <1>2, EventAssumption DEF Pool!PInit, PhaseOf

(* A step of the engine is a step of the pool or leaves it alone. *)
LEMMA PoolStep ==
  ASSUME Base, Base', Shape
  PROVE  Pool!PNext \/ UNCHANGED Pool!pvars
<1> DEFINE ph(J) == [j \in Ids |-> PhaseOf(J[j].state)]
           ky(J) == [j \in Ids |-> KeyOf[J[j].event]]
<1>1. /\ job \in Jobs /\ job' \in Jobs
      /\ \A j \in Ids : KeyOf[job[j].event] \in Keys /\ KeyOf[job'[j].event] \in Keys
  BY EventAssumption DEF Base, TypeOK, Jobs, JobRecord
<1>2. ASSUME NEW j \in Ids, \A i \in Ids \ {j} : Still(i),
             job'[j].event = job[j].event, Along(job[j].state, job'[j].state)
      PROVE  Pool!PNext \/ UNCHANGED Pool!pvars
  <2> DEFINE a == PhaseOf(job[j].state)
             b == PhaseOf(job'[j].state)
  <2>1. ky(job') = ky(job) BY <1>2 DEF Still
  <2>2. ph(job') = [ph(job) EXCEPT ![j] = b] BY <1>2 DEF Still
  <2>3. \/ a = b
        \/ a = "running" /\ b = "waiting"
        \/ a \in {"waiting", "running"} /\ b = "ending"
        \/ a = "ending" /\ b = "done"
    BY <1>2 DEF Along, PhaseOf, Waiting
  <2>4. CASE a = b
    <3>1. ph(job') = ph(job) BY <2>2, <2>4
    <3> QED BY <2>1, <3>1 DEF Pool!pvars
  <2>5. CASE a = "running" /\ b = "waiting"
    <3>1. Pool!Requeue(j) BY <2>1, <2>2, <2>5 DEF Pool!Requeue
    <3> QED BY <3>1 DEF Pool!PNext
  <2>6. CASE a \in {"waiting", "running"} /\ b = "ending"
    <3>1. Pool!End(j) BY <2>1, <2>2, <2>6 DEF Pool!End
    <3> QED BY <3>1 DEF Pool!PNext
  <2>7. CASE a = "ending" /\ b = "done"
    <3>1. Pool!Close(j) BY <2>1, <2>2, <2>7 DEF Pool!Close
    <3> QED BY <3>1 DEF Pool!PNext
  <2> QED BY <2>3, <2>4, <2>5, <2>6, <2>7
<1>3. ASSUME NEW j \in Ids, \A i \in Ids \ {j} : Still(i), Begins(j) \/ Arrives(j),
             job[j].state = "none"
      PROVE  Pool!PNext
  <2>0. PICK k \in Keys : k = KeyOf[job'[j].event] BY <1>1
  <2> DEFINE b == PhaseOf(job'[j].state)
  <2>1. ky(job') = [ky(job) EXCEPT ![j] = k] /\ ph(job') = [ph(job) EXCEPT ![j] = b]
    BY <1>3, <2>0 DEF Still
  <2>2. b \in {"waiting", "running", "ending"} /\ (b = "running" => Begins(j))
    BY <1>3 DEF Begins, Arrives, Waiting, PhaseOf
  <2>3. b = "running" => Pool!Room(k) BY <1>1, <2>0, <2>2, PoolMembers DEF Begins
  <2>4. ph(job)[j] = "none" BY <1>3 DEF PhaseOf
  <2>5. Pool!Arrive(j, k) BY <2>1, <2>2, <2>3, <2>4 DEF Pool!Arrive
  <2> QED BY <2>5 DEF Pool!PNext
<1>4. ASSUME NEW j \in Ids, \A i \in Ids \ {j} : Still(i), Begins(j), job[j].state # "none"
      PROVE  Pool!PNext
  <2>1. ky(job') = ky(job) BY <1>4 DEF Still, Begins
  <2>2. ph(job') = [ph(job) EXCEPT ![j] = "running"]
    <3>1. PhaseOf("starting") = "running" BY DEF PhaseOf
    <3> QED BY <1>4, <3>1 DEF Still, Begins
  <2>3. ph(job)[j] = "waiting" BY <1>4 DEF Begins, Waiting, PhaseOf
  <2>4. Pool!Room(ky(job)[j]) BY <1>1, <1>4, PoolMembers DEF Begins
  <2>5. Pool!Begin(j) BY <2>1, <2>2, <2>3, <2>4 DEF Pool!Begin
  <2> QED BY <2>5 DEF Pool!PNext
<1>5. ASSUME \A i \in Ids : \/ Still(i)
                            \/ /\ job[i].state = "queued" /\ job'[i].state = "gone"
                               /\ job'[i].event = job[i].event
      PROVE  Pool!PNext
  <2> DEFINE S == {i \in Ids : job[i].state = "queued" /\ job'[i].state = "gone"}
  <2>1. ky(job') = ky(job) BY <1>5 DEF Still
  <2>2. \A i \in S : ph(job)[i] = "waiting" BY DEF PhaseOf
  <2>3. ph(job') = [i \in Ids |-> IF i \in S THEN "done" ELSE ph(job)[i]]
    <3>1. PhaseOf("gone") = "done" BY DEF PhaseOf
    <3>2. ASSUME NEW i \in Ids
          PROVE  PhaseOf(job'[i].state) = IF i \in S THEN "done" ELSE ph(job)[i]
      BY <1>5, <3>1 DEF Still
    <3> QED BY <3>2
  <2>4. Pool!Drop(S) BY <2>1, <2>2, <2>3 DEF Pool!Drop
  <2>5. S \in SUBSET Ids OBVIOUS
  <2> QED BY <2>4, <2>5 DEF Pool!PNext
<1> QED BY <1>2, <1>3, <1>4, <1>5 DEF Shape, Begins, Arrives

(* Every behaviour of the engine is one of the abstract pool. *)
THEOREM PoolCorrect == Spec => ImplementsPool
<1>1. Base /\ [Next]_vars => [Pool!PNext]_(Pool!pvars)
  BY BaseStep, BaseStutter, PoolStep
<1> QED BY <1>1, PoolInit, BaseHolds, PTL DEF Spec, ImplementsPool, Pool!PSpec

=============================================================================
