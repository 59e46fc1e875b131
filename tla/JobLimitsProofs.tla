--------------------------- MODULE JobLimitsProofs ---------------------------
(* More theorems about JobQueue: the queue and rate limits, retries, late      *)
(* results and the load of a server, for every value of the constants.         *)
EXTENDS JobQueueProofs, WellFoundedInduction

-----------------------------------------------------------------------------
(* What most steps leave alone. *)

(* The decision about a retry is behind the job. *)
Over(r) == r.state = "gone" \/ (r.state = "complete" /\ r.pending \in {"end_actions", "insert"})

(* A result is stored when the job is over; a satellite that still knows of a *)
(* job that has ended here holds an aborted one.                              *)
Late(r, t, st) ==
  /\ st # "none" => r.state = "gone" \/ (r.state = "complete" /\ r.pending = "insert")
  /\ t.phase # "none" /\ r.state = "complete" => r.code = "abort"
  /\ t.phase # "none" /\ st # "none" => st = "abort"

(* The job neither starts nor enters a queue. *)
Calm(i) == job'[i].state \in {"queued", "starting"} => Still(i)

(* The job is no less over, and its result changes only by a late update. *)
Settled(i) ==
  /\ Over(job[i]) => Over(job'[i])
  /\ Late(job[i], sat[i], stored[i]) =>
       /\ Late(job'[i], sat'[i], stored'[i])
       /\ stored[i] # "none" /\ stored'[i] # stored[i]
            => stored[i] = "abort" /\ stored'[i] = "warning"

(* The same, and it stays the retry of the same job. *)
Good(i) == job'[i].retry_prev = job[i].retry_prev /\ Settled(i)

(* A job of which nothing changes. *)
LEMMA Untouched ==
  ASSUME NEW i \in Ids, job'[i] = job[i], sat'[i] = sat[i], stored'[i] = stored[i]
  PROVE  Good(i) /\ Calm(i)
BY DEF Good, Settled, Calm, Still

(* One job changes, and perhaps its satellite and its result. *)
Entry(j, r, t, c) ==
  /\ job' = [job EXCEPT ![j] = r]
  /\ sat' = [sat EXCEPT ![j] = t]
  /\ stored' = [stored EXCEPT ![j] = c]

(* The changed entry, and the others. *)
LEMMA EntryAt ==
  ASSUME Base, NEW j \in Ids, NEW r, NEW t, NEW c, Entry(j, r, t, c)
  PROVE  /\ job'[j] = r /\ sat'[j] = t /\ stored'[j] = c
         /\ \A i \in Ids \ {j} : job'[i] = job[i] /\ sat'[i] = sat[i] /\ stored'[i] = stored[i]
BY DEF Base, TypeOK, Entry

(* It is enough to look at the changed entry. *)
LEMMA OneJob ==
  ASSUME Base, NEW j \in Ids, NEW r, NEW t, NEW c, Entry(j, r, t, c), Good(j), Calm(j)
  PROVE  \A i \in Ids : Good(i) /\ Calm(i)
<1> TAKE i \in Ids
<1>1. CASE i # j
  BY <1>1, EntryAt, Untouched
<1> QED
  BY <1>1

(* An entry may be replaced by itself. *)
LEMMA SameEntries ==
  ASSUME Base, NEW j \in Ids
  PROVE  /\ job = [job EXCEPT ![j] = job[j]] /\ sat = [sat EXCEPT ![j] = sat[j]]
         /\ stored = [stored EXCEPT ![j] = stored[j]]
BY DEF Base, TypeOK

-----------------------------------------------------------------------------
(* The steps at which no job starts or enters a queue. *)

(* The three ways to abort a job. *)
LEMMA AbortsCalm ==
  ASSUME Base, NEW j \in Ids, DeadTimeout(j) \/ LimitFire(j) \/ UserAbort(j)
  PROVE  \A i \in Ids : Good(i) /\ Calm(i)
<1>1. /\ job[j] \in JobRecord /\ RecordOK(job[j]) /\ job \in Jobs /\ sat[j] \in SatRecord
      /\ UNCHANGED stored
  BY Known DEF DeadTimeout, LimitFire, UserAbort
<1>2. PICK r0 \in JobRecord :
        /\ r0.state = job[j].state /\ r0.event = job[j].event /\ r0.pending = job[j].pending
        /\ r0.retry_prev = job[j].retry_prev /\ r0.code = job[j].code
        /\ job' = Abort([job EXCEPT ![j] = r0], j)
  <2>1. CASE DeadTimeout(j)
    <3> DEFINE r0 == [job[j] EXCEPT !.retry_ok = TRUE]
    <3>1. r0 \in JobRecord
      BY <1>1 DEF JobRecord
    <3> QED
      BY <1>1, <2>1, <3>1 DEF DeadTimeout, JobRecord
  <2>2. CASE LimitFire(j)
    <3> DEFINE r0 == [job[j] EXCEPT !.limit = "fired", !.retry_ok = TRUE]
    <3>1. r0 \in JobRecord
      BY <1>1 DEF JobRecord
    <3> QED
      BY <1>1, <2>2, <3>1 DEF LimitFire, JobRecord
  <2>3. CASE UserAbort(j)
    BY <1>1, <2>3, SameEntries DEF UserAbort
  <2> QED
    BY <2>1, <2>2, <2>3
<1>3. job[j].state \notin {"none", "gone", "queued", "ready"} \/ UserAbort(j)
  BY <1>1 DEF DeadTimeout, LimitFire, RecordOK
<1>4. PICK r \in JobRecord :
        /\ job' = [job EXCEPT ![j] = r] /\ r.event = job[j].event
        /\ r.retry_prev = job[j].retry_prev
        /\ \/ r.state = job[j].state /\ r.state = "active"
           \/ /\ r.state = "complete" /\ r.code = "abort"
              /\ job[j].state = "complete" => r.pending = job[j].pending
  <2> DEFINE J == [job EXCEPT ![j] = r0]
  <2>1. J[j] = r0 /\ \A r : [J EXCEPT ![j] = r] = [job EXCEPT ![j] = r]
    BY <1>1 DEF Jobs
  <2>2. CASE AbortSent(J, j)
    <3>1. job' = J /\ r0.state = "active"
      BY <1>2, <2>1, <2>2 DEF Abort, AbortSent
    <3> QED
      BY <1>2, <3>1
  <2>3. CASE ~AbortSent(J, j)
    <3>1. job' = [job EXCEPT ![j] = AbortRecord(r0)]
      BY <1>2, <2>1, <2>3 DEF Abort
    <3>2. AbortRecord(r0).code = "abort" /\ AbortRecord(r0).retry_prev = r0.retry_prev
      BY DEF AbortRecord, Finish, JobRecord
    <3>3. /\ AbortRecord(r0) \in JobRecord /\ AbortRecord(r0).state = "complete"
          /\ AbortRecord(r0).event = r0.event
          /\ r0.state = "complete" => AbortRecord(r0).pending = r0.pending
      BY AbortRecordType
    <3> HIDE DEF J
    <3> QED
      BY <1>2, <3>1, <3>2, <3>3
  <2> QED
    BY <2>2, <2>3
<1>5. PICK t : sat' = [sat EXCEPT ![j] = t] /\ t.phase = sat[j].phase
  <2>1. CASE UNCHANGED sat
    BY <2>1, SameEntries
  <2>2. CASE sat' = [sat EXCEPT ![j].kill = TRUE]
    <3>1. [sat[j] EXCEPT !.kill = TRUE].phase = sat[j].phase
      BY <1>1 DEF SatRecord
    <3> QED
      BY <2>2, <3>1
  <2> QED
    BY <2>1, <2>2 DEF DeadTimeout, LimitFire, UserAbort, AbortMessage
<1>6. Entry(j, r, t, stored[j])
  BY <1>1, <1>4, <1>5, SameEntries DEF Entry
<1>7. job'[j] = r /\ sat'[j] = t /\ stored'[j] = stored[j] /\ job[j].state # "gone"
  BY <1>3, <1>6, EntryAt DEF UserAbort, Live
<1>8. Good(j) /\ Calm(j)
  BY <1>4, <1>5, <1>7 DEF Good, Settled, Calm, Over, Late
<1> QED
  BY <1>6, <1>8, OneJob

(* The steps that change the record of a job and nothing else. *)
LEMMA RecordsCalm ==
  ASSUME Base, NEW j \in Ids, Resume(j) \/ LimitTrigger(j) \/ Indexed(j)
  PROVE  \A i \in Ids : Good(i) /\ Calm(i)
<1>1. job[j] \in JobRecord /\ RecordOK(job[j]) /\ UNCHANGED <<sat, stored>>
  BY Known DEF Resume, LimitTrigger, Indexed
<1>2. PICK r : job' = [job EXCEPT ![j] = r] /\ r.retry_prev = job[j].retry_prev
               /\ \/ /\ r.state = job[j].state /\ r.event = job[j].event
                     /\ r.pending = job[j].pending /\ r.code = job[j].code
                  \/ r.state = "gone"
  <2>1. CASE Resume(j)
    <3> DEFINE r == [job[j] EXCEPT !.suspended = FALSE, !.resumed = TRUE, !.server = NoServer]
    <3>1. /\ r.retry_prev = job[j].retry_prev /\ r.state = job[j].state /\ r.event = job[j].event
          /\ r.pending = job[j].pending /\ r.code = job[j].code
      BY <1>1 DEF JobRecord
    <3>2. job' = [job EXCEPT ![j] = r]
      BY <2>1 DEF Resume
    <3> QED
      BY <3>1, <3>2
  <2>2. CASE LimitTrigger(j)
    <3> DEFINE r == [job[j] EXCEPT !.limit = "firing"]
    <3>1. /\ r.retry_prev = job[j].retry_prev /\ r.state = job[j].state /\ r.event = job[j].event
          /\ r.pending = job[j].pending /\ r.code = job[j].code
      BY <1>1 DEF JobRecord
    <3>2. job' = [job EXCEPT ![j] = r]
      BY <2>2 DEF LimitTrigger
    <3> QED
      BY <3>1, <3>2
  <2>3. CASE Indexed(j)
    <3>1. Gone(job[j]).state = "gone" /\ Gone(job[j]).retry_prev = job[j].retry_prev
      BY <1>1, GoneType DEF Gone, Blank
    <3> QED
      BY <2>3, <3>1 DEF Indexed
  <2> QED
    BY <2>1, <2>2, <2>3
<1>3. Entry(j, r, sat[j], stored[j])
  BY <1>1, <1>2, SameEntries DEF Entry
<1>4. job'[j] = r /\ sat'[j] = sat[j] /\ stored'[j] = stored[j]
  BY <1>3, EntryAt
<1>5. Good(j) /\ Calm(j)
  BY <1>2, <1>4 DEF Good, Settled, Calm, Still, Over, Late
<1> QED
  BY <1>3, <1>5, OneJob

(* The result is stored when the completion actions are done. *)
LEMMA EndActionsDoneCalm ==
  ASSUME Base, NEW j \in Ids, EndActionsDone(j)
  PROVE  \A i \in Ids : Good(i) /\ Calm(i)
<1> DEFINE r == [job[j] EXCEPT !.pending = "insert"]
<1>1. job[j] \in JobRecord /\ RecordOK(job[j]) /\ job[j].pending = "end_actions"
  BY Known DEF EndActionsDone
<1>2. Entry(j, r, sat[j], job[j].code)
  BY SameEntries DEF EndActionsDone, Entry
<1>3. r.pending = "insert" /\ r.state = job[j].state /\ r.retry_prev = job[j].retry_prev
      /\ r.code = job[j].code
  BY <1>1 DEF JobRecord
<1>4. job[j].state = "complete"
  <2>1. job[j].state # "starting"
    BY <1>1 DEF RecordOK
  <2> QED
    BY <1>1, <2>1 DEF RecordOK
<1> HIDE DEF r
<1>5. job'[j] = r /\ sat'[j] = sat[j] /\ stored'[j] = job[j].code
  BY <1>2, EntryAt
<1>6. Good(j) /\ Calm(j)
  BY <1>1, <1>3, <1>4, <1>5 DEF Good, Settled, Calm, Over, Late
<1> QED
  BY <1>2, <1>6, OneJob

(* The satellites: the jobs stay as they are. *)
LEMMA SatellitesCalm ==
  ASSUME Base, NEW j \in Ids,
         SatLaunch(j) \/ SatExit(j) \/ SatComplete(j) \/ SatKill(j) \/ SatLose(j) \/ UpdateLate(j)
  PROVE  \A i \in Ids : Good(i) /\ Calm(i)
<1>1. sat[j] \in SatRecord
  BY Known
<1>2. job' = [job EXCEPT ![j] = job[j]]
  BY SameEntries DEF SatLaunch, SatExit, SatComplete, SatKill, SatLose, UpdateLate
<1>3. CASE UpdateLate(j)
  <2> DEFINE c == IF stored[j] = "none" THEN stored[j]
                  ELSE IF stored[j] = "abort" THEN "warning" ELSE sat[j].phase
  <2>1. Entry(j, job[j], Idle, c) /\ sat[j].phase \in Codes
    BY <1>2, <1>3 DEF UpdateLate, Final, Entry
  <2>2. sat[j].phase # "none" /\ Idle.phase = "none"
    BY <2>1, IdleType DEF Codes
  <2>3. stored'[j] = c /\ sat'[j] = Idle /\ job'[j] = job[j]
    BY <2>1, EntryAt
  <2>4. Good(j) /\ Calm(j)
    BY <2>2, <2>3 DEF Good, Settled, Calm, Still, Late
  <2> QED
    BY <2>1, <2>4, OneJob
<1>4. ASSUME UNCHANGED stored, NEW t, sat' = [sat EXCEPT ![j] = t],
             t.phase # "none" => sat[j].phase # "none"
      PROVE  \A i \in Ids : Good(i) /\ Calm(i)
  <2>1. Entry(j, job[j], t, stored[j])
    BY <1>2, <1>4, SameEntries DEF Entry
  <2>2. stored'[j] = stored[j] /\ sat'[j] = t /\ job'[j] = job[j]
    BY <2>1, EntryAt
  <2>3. Good(j) /\ Calm(j)
    BY <1>4, <2>2 DEF Good, Settled, Calm, Still, Late
  <2> QED
    BY <2>1, <2>3, OneJob
<1>5. CASE SatLose(j)
  BY <1>4, <1>5, IdleType DEF SatLose
<1>6. CASE SatLaunch(j)
  BY <1>4, <1>6 DEF SatLaunch
<1>7. CASE SatExit(j)
  <2>1. sat' = [sat EXCEPT ![j] = [sat[j] EXCEPT !.phase = "uploading", !.kill = FALSE]]
        /\ sat[j].phase = "running" /\ UNCHANGED stored
    BY <1>7 DEF SatExit
  <2> QED
    BY <1>4, <2>1
<1>8. CASE SatKill(j)
  <2>1. sat' = [sat EXCEPT ![j] = [sat[j] EXCEPT !.phase = "abort", !.kill = FALSE]]
        /\ sat[j].phase = "running" /\ UNCHANGED stored
    BY <1>8 DEF SatKill
  <2> QED
    BY <1>4, <2>1
<1>9. CASE SatComplete(j)
  BY <1>4, <1>9 DEF SatComplete
<1> QED
  BY <1>3, <1>5, <1>6, <1>7, <1>8, <1>9

(* An update of a job that is complete changes nothing; a final one of another *)
(* job ends it and is the last the satellite sends.                            *)
LEMMA UpdateCalm ==
  ASSUME Base, NEW j \in Ids, Update(j)
  PROVE  \A i \in Ids : Good(i) /\ Calm(i)
<1>1. /\ job[j] \in JobRecord /\ sat[j] \in SatRecord /\ PairOK(job[j], sat[j], online)
      /\ UNCHANGED stored /\ sat[j].phase # "none" /\ job[j].state \notin {"none", "gone"}
  BY Known DEF Update, CanReport, Final, Codes, Live
<1>2. PICK t : sat' = [sat EXCEPT ![j] = t] /\ (t.phase = "none" \/ (t = sat[j] /\ ~Final(j)))
               /\ (Final(j) => t.phase = "none")
  BY SameEntries, IdleType DEF Update
<1>3. PICK r : /\ job' = [job EXCEPT ![j] = r] /\ r.retry_prev = job[j].retry_prev
               /\ \/ r = job[j] /\ job[j].state = "complete"
                  \/ /\ job[j].state # "complete"
                     /\ r.state = "complete" => t.phase = "none"
                     /\ r.state \in {"complete", "active", "finishing"}
  <2>1. CASE job[j].state = "complete"
    BY <2>1, SameEntries DEF Update
  <2>2. CASE job[j].state # "complete" /\ Final(j)
    <3> DEFINE r == Finish(job[j], sat[j].phase)
    <3>1. job' = [job EXCEPT ![j] = r]
      BY <2>2 DEF Update
    <3>2. r.state = "complete" /\ r.retry_prev = job[j].retry_prev
      BY <1>1 DEF Finish, JobRecord
    <3> HIDE DEF r
    <3> QED
      BY <1>2, <2>2, <3>1, <3>2
  <2>3. CASE job[j].state # "complete" /\ ~Final(j)
    <3> DEFINE st == IF sat[j].phase = "running" THEN "active" ELSE "finishing"
               r == [job[j] EXCEPT !.remote = TRUE, !.state = st]
    <3>1. job' = [job EXCEPT ![j] = r]
      BY <2>3 DEF Update
    <3>2. st \in {"active", "finishing"}
      OBVIOUS
    <3> HIDE DEF st
    <3>3. r.state = st /\ r.retry_prev = job[j].retry_prev
      BY <1>1 DEF JobRecord
    <3> HIDE DEF r
    <3> QED
      BY <2>3, <3>1, <3>2, <3>3
  <2> QED
    BY <2>1, <2>2, <2>3
<1>4. Entry(j, r, t, stored[j])
  BY <1>1, <1>2, <1>3, SameEntries DEF Entry
<1>5. job'[j] = r /\ sat'[j] = t /\ stored'[j] = stored[j]
  BY <1>4, EntryAt
<1>6. Good(j) /\ Calm(j)
  BY <1>1, <1>2, <1>3, <1>5 DEF Good, Settled, Calm, Still, Over, Late
<1> QED
  BY <1>4, <1>6, OneJob

(* removeServer. *)
LEMMA RemoveServerCalm ==
  ASSUME Base, NEW s \in Servers, RemoveServer(s)
  PROVE  \A i \in Ids : Good(i) /\ Calm(i)
<1> TAKE i \in Ids
<1>1. job[i] \in JobRecord /\ sat[i] \in SatRecord /\ stored'[i] = stored[i]
  BY Known DEF RemoveServer
<1>2. job'[i] = job[i] \/ job'[i] = [job[i] EXCEPT !.remote = FALSE]
  BY DEF RemoveServer
<1>3. sat'[i] = sat[i] \/ sat'[i] = Idle \/ sat'[i] = [sat[i] EXCEPT !.kill = FALSE]
  BY DEF RemoveServer
<1>4. /\ job'[i].state = job[i].state /\ job'[i].event = job[i].event
      /\ job'[i].pending = job[i].pending /\ job'[i].code = job[i].code
      /\ job'[i].retry_prev = job[i].retry_prev
  BY <1>1, <1>2 DEF JobRecord
<1>5. sat'[i].phase # "none" => sat[i].phase # "none"
  BY <1>1, <1>3, IdleType DEF SatRecord
<1> QED
  BY <1>1, <1>4, <1>5 DEF Good, Settled, Calm, Still, Over, Late

(* api_flush_job_queue. *)
LEMMA FlushCalm ==
  ASSUME Base, NEW k \in Keys, Flush(k)
  PROVE  \A i \in Ids : Good(i) /\ Calm(i)
<1> TAKE i \in Ids
<1>1. job[i] \in JobRecord /\ sat'[i] = sat[i] /\ stored'[i] = stored[i]
  BY Known DEF Flush
<1>2. CASE job'[i] = job[i]
  BY <1>1, <1>2, Untouched
<1>3. CASE job[i].state = "queued" /\ job'[i] = Gone(job[i])
  <2>1. job'[i].state = "gone" /\ job'[i].retry_prev = job[i].retry_prev
    BY <1>1, <1>3, GoneType DEF Gone, Blank
  <2> QED
    BY <1>1, <1>3, <2>1 DEF Good, Settled, Calm, Over, Late
<1> QED
  BY <1>2, <1>3 DEF Flush, Queued, KeyJobs

(* A step that changes neither jobs nor satellites nor results. *)
LEMMA StillCalm ==
  ASSUME UNCHANGED <<job, sat, stored>>
  PROVE  \A i \in Ids : Good(i) /\ Calm(i)
BY Untouched

-----------------------------------------------------------------------------
(* The steps at which a job starts, enters a queue or is launched. *)

(* The queue of k does not grow, or has room. *)
Fits(k) == Queued(job', k) \subseteq Queued(job, k) \/ Cardinality(Queued(job', k)) <= QueueMax[k]

(* A start is counted in an open window that had room for it. *)
Counted(k) == ~RateFull(k) /\ OpenWindow(k, 1)

(* What a new start looks like. *)
StartsWell(i) ==
  job[i].state # "starting" /\ job'[i].state = "starting" => Counted(KeyOf[job'[i].event])

(* The job is, from now on, the retry of one that has just been decided on. *)
NewAttempt(i) ==
  LET p == job'[i].retry_prev IN
  /\ p \in Ids /\ ~Over(job[p]) /\ Over(job'[p])
  /\ \A h \in Ids \ {i} : job'[h].retry_prev \in {0, job[h].retry_prev}

(* A job stays the retry of what it was, or becomes one. *)
Attempt(i) == job'[i].retry_prev \in {0, job[i].retry_prev} \/ NewAttempt(i)

(* All that a step has to keep to. *)
Limits ==
  /\ \A k \in Keys : Fits(k)
  /\ \A i \in Ids : StartsWell(i) /\ Settled(i) /\ Attempt(i)

(* A calm step meets all of them. *)
LEMMA CalmLimits ==
  ASSUME \A i \in Ids : Good(i) /\ Calm(i)
  PROVE  Limits
<1>1. \A k \in Keys : Queued(job', k) \subseteq Queued(job, k)
  BY DEF Calm, Still, Queued, KeyJobs
<1>2. \A i \in Ids : StartsWell(i) /\ Settled(i) /\ Attempt(i)
  BY DEF Calm, Still, StartsWell, Good, Attempt
<1> QED
  BY <1>1, <1>2 DEF Limits, Fits

(* The queued jobs of a key can be counted. *)
LEMMA QueuedFinite ==
  ASSUME NEW J, NEW k
  PROVE  IsFiniteSet(Queued(J, k)) /\ Cardinality(Queued(J, k)) \in Nat
<1>1. IsFiniteSet(Ids)
  BY FS_Interval, BoundAssumption DEF Ids
<1>2. Queued(J, k) \subseteq Ids
  BY DEF Queued, KeyJobs
<1> QED
  BY <1>1, <1>2, FS_Subset, FS_CardinalityType

(* A job that is put in a queue with room does not overfill it. *)
LEMMA RoomBound ==
  ASSUME NEW J \in Jobs, NEW j \in Ids, NEW r, NEW k \in Keys, QueueRoom(J, k),
         job' = [J EXCEPT ![j] = r]
  PROVE  Cardinality(Queued(job', k)) <= QueueMax[k]
<1>1. Queued(job', k) \subseteq Queued(J, k) \cup {j}
  BY DEF Queued, KeyJobs, Jobs
<1>2. Cardinality(Queued(J, k)) < QueueMax[k] /\ QueueMax[k] \in Nat
  BY LimitAssumption DEF QueueRoom
<1>3. /\ IsFiniteSet(Queued(J, k)) /\ Cardinality(Queued(J, k)) \in Nat
      /\ IsFiniteSet(Queued(job', k)) /\ Cardinality(Queued(job', k)) \in Nat
  BY QueuedFinite
<1>4. /\ IsFiniteSet(Queued(J, k) \cup {j})
      /\ Cardinality(Queued(J, k) \cup {j}) =
           IF j \in Queued(J, k) THEN Cardinality(Queued(J, k)) ELSE Cardinality(Queued(J, k)) + 1
  BY <1>3, FS_AddElement
<1>5. Cardinality(Queued(job', k)) <= Cardinality(Queued(J, k) \cup {j})
  BY <1>1, <1>4, FS_Subset
<1> QED
  BY <1>2, <1>3, <1>4, <1>5

(* monitorJob looks for room in the queue, and counts a start. *)
LEMMA MonitorFits ==
  ASSUME NEW J \in Jobs, NEW j \in Ids, J[j].state = "ready", MonitorReady(J, j)
  PROVE  \E r \in JobRecord :
           /\ job' = [J EXCEPT ![j] = r] /\ Same(J[j], r)
           /\ r.state \in {"queued", "complete", "starting"}
           /\ r.state = "queued" => QueueRoom(J, KeyOf[J[j].event])
           /\ r.state = "starting" => Counted(KeyOf[J[j].event])
<1>1. CASE \E b \in BOOLEAN : job' = Enqueue(J, j, b)
  <2>1. PICK b \in BOOLEAN : job' = Enqueue(J, j, b)
    BY <1>1
  <2>2. PICK r \in JobRecord :
          /\ Enqueue(J, j, b) = [J EXCEPT ![j] = r] /\ Same(J[j], r)
          /\ \/ Waits(J[j], r) /\ QueueRoom(J, KeyOf[J[j].event])
             \/ Ends(J[j], r)
    BY EnqueueShape
  <2> QED
    BY <2>1, <2>2 DEF Waits, Ends
<1>2. CASE job' = Abort(J, j)
  BY <1>2, AbortShape DEF AbortSent, Ends
<1>3. CASE \E s \in Candidates(J, j) :
             /\ job' = [J EXCEPT ![j] = Start(@, s)]
             /\ ~RateFull(KeyOf[J[j].event]) /\ OpenWindow(KeyOf[J[j].event], 1)
  <2>1. PICK s \in Servers :
          /\ job' = [J EXCEPT ![j] = Start(J[j], s)]
          /\ ~RateFull(KeyOf[J[j].event]) /\ OpenWindow(KeyOf[J[j].event], 1)
    BY <1>3, CandidatesType
  <2>2. J[j] \in JobRecord
    BY DEF Jobs
  <2>3. Start(J[j], s) \in JobRecord /\ Start(J[j], s).state = "starting"
    BY <2>2, StartType
  <2>4. Same(J[j], Start(J[j], s))
    BY <2>2 DEF Same, Start, JobRecord
  <2> QED
    BY <2>1, <2>3, <2>4 DEF Counted
<1> QED
  BY <1>1, <1>2, <1>3 DEF MonitorReady

(* The record q may stand for the job i while another job is placed. *)
Near(i, q) ==
  /\ q.state \in {"queued", "starting"} => q.state = job[i].state /\ q.event = job[i].event
  /\ Over(job[i]) => Over(q)
  /\ Late(job[i], sat[i], stored[i]) => Late(q, sat[i], stored[i])

(* The job j has been placed, the others are as in the hash J. *)
Placed(J, j) ==
  /\ \A k \in Keys : Fits(k)
  /\ \A i \in Ids : StartsWell(i) /\ Settled(i)
  /\ \A i \in Ids \ {j} : job'[i] = J[i]
  /\ job'[j].retry_prev = J[j].retry_prev

(* No satellite knows of a job that waits, and no result of it is stored. *)
LEMMA WaitingSettled ==
  ASSUME Base, NEW j \in Ids, job[j].state \in Waiting \cup {"none"}, UNCHANGED <<sat, stored>>
  PROVE  Settled(j)
<1>1. sat[j].phase = "none"
  BY Known DEF PairOK, Waiting
<1> QED
  BY <1>1 DEF Settled, Over, Late, Waiting

(* The others start and queue no more than before. *)
LEMMA OthersPlaced ==
  ASSUME Base, NEW J \in Jobs, NEW j \in Ids, NEW r \in JobRecord, job' = [J EXCEPT ![j] = r],
         job[j].state \in Waiting \cup {"none"}, UNCHANGED <<sat, stored>>,
         \A i \in Ids \ {j} : Near(i, J[i])
  PROVE  /\ job'[j] = r
         /\ \A i \in Ids \ {j} : job'[i] = J[i]
         /\ \A i \in Ids \ {j} : StartsWell(i) /\ Calm(i)
         /\ \A i \in Ids : Settled(i)
<1>1. job'[j] = r /\ \A i \in Ids \ {j} : job'[i] = J[i]
  BY DEF Jobs
<1>2. ASSUME NEW i \in Ids \ {j} PROVE StartsWell(i) /\ Calm(i) /\ Settled(i)
  <2>1. Near(i, job'[i]) /\ sat'[i] = sat[i] /\ stored'[i] = stored[i]
    BY <1>1
  <2> QED
    BY <2>1 DEF Near, StartsWell, Calm, Still, Settled
<1> QED
  BY <1>1, <1>2, WaitingSettled

(* monitorJob of a ready job in a hash that is otherwise as before. *)
LEMMA MonitorPlaced ==
  ASSUME Base, NEW J \in Jobs, NEW j \in Ids, J[j].state = "ready", MonitorReady(J, j),
         job[j].state \in Waiting \cup {"none"},
         job[j].state # "none" => J[j].event = job[j].event,
         UNCHANGED <<sat, stored>>, \A i \in Ids \ {j} : Near(i, J[i])
  PROVE  Placed(J, j)
<1>1. PICK r \in JobRecord :
        /\ job' = [J EXCEPT ![j] = r] /\ Same(J[j], r)
        /\ r.state \in {"queued", "complete", "starting"}
        /\ r.state = "queued" => QueueRoom(J, KeyOf[J[j].event])
        /\ r.state = "starting" => Counted(KeyOf[J[j].event])
  BY MonitorFits
<1>2. /\ job'[j] = r
      /\ \A i \in Ids \ {j} : job'[i] = J[i]
      /\ \A i \in Ids \ {j} : StartsWell(i) /\ Calm(i)
      /\ \A i \in Ids : Settled(i)
  BY <1>1, OthersPlaced
<1>3. StartsWell(j)
  BY <1>1, <1>2 DEF StartsWell, Same
<1>4. ASSUME NEW k \in Keys PROVE Fits(k)
  <2>1. CASE r.state = "queued" /\ KeyOf[r.event] = k
    BY <1>1, <2>1, RoomBound DEF Fits, Same
  <2>2. CASE ~(r.state = "queued" /\ KeyOf[r.event] = k)
    <3>1. Queued(job', k) \subseteq Queued(job, k)
      BY <1>2, <2>2 DEF Queued, KeyJobs, Calm, Still
    <3> QED
      BY <3>1 DEF Fits
  <2> QED
    BY <2>1, <2>2
<1> QED
  BY <1>1, <1>2, <1>3, <1>4 DEF Placed, Same

(* A job stands for itself. *)
LEMMA NearSelf == \A i \in Ids : Near(i, job[i])
BY DEF Near

(* monitorJob of a waiting job. *)
LEMMA ReadyLimits ==
  ASSUME Base, NEW j \in Ids, job[j].state \in Waiting,
         MonitorReady([job EXCEPT ![j].state = "ready"], j),
         UNCHANGED <<idVars, envVars, sat, stored>>
  PROVE  Limits
<1> DEFINE r0 == [job[j] EXCEPT !.state = "ready"]
           J == [job EXCEPT ![j] = r0]
<1>1. job[j] \in JobRecord /\ job \in Jobs
  BY Known
<1>2. /\ r0 \in JobRecord /\ r0.state = "ready" /\ r0.event = job[j].event
      /\ r0.retry_prev = job[j].retry_prev
  BY <1>1 DEF JobRecord, States
<1>3. MonitorReady(J, j)
  OBVIOUS
<1> HIDE DEF r0
<1>4. J \in Jobs /\ J[j] = r0 /\ \A i \in Ids \ {j} : J[i] = job[i]
  BY <1>1, <1>2 DEF Jobs
<1> HIDE DEF J
<1>5. \A i \in Ids \ {j} : Near(i, J[i])
  BY <1>4, NearSelf
<1>6. Placed(J, j)
  BY <1>2, <1>3, <1>4, <1>5, MonitorPlaced
<1>7. \A i \in Ids : job'[i].retry_prev = job[i].retry_prev
  BY <1>2, <1>4, <1>6 DEF Placed
<1> QED
  BY <1>6, <1>7 DEF Limits, Placed, Attempt

(* A delay is over. *)
LEMMA DelayOverLimits == ASSUME Base, NEW j \in Ids, DelayOver(j) PROVE Limits
BY ReadyLimits DEF DelayOver, Waiting

(* One turn of the queue loop. *)
LEMMA MonitorQueueLimits == ASSUME Base, NEW k \in Keys, MonitorQueue(k) PROVE Limits
<1>1. CASE \E h \in Queued(job, k) :
             MonitorReady([job EXCEPT ![h].state = "ready"], h)
  <2>1. PICK h \in Ids : /\ job[h].state = "queued" /\ KeyOf[job[h].event] = k
                         /\ MonitorReady([job EXCEPT ![h].state = "ready"], h)
    BY <1>1 DEF Queued, KeyJobs
  <2> QED
    BY <2>1, ReadyLimits DEF MonitorQueue, Waiting
<1>2. CASE UNCHANGED job
  BY <1>2, StillCalm, CalmLimits DEF MonitorQueue
<1> QED
  BY <1>1, <1>2 DEF MonitorQueue

(* The callback of the start actions: a resumed job may enter the queue again. *)
LEMMA StartActionsDoneLimits == ASSUME Base, NEW j \in Ids, StartActionsDone(j) PROVE Limits
<1>1. /\ job[j] \in JobRecord /\ job \in Jobs /\ RecordOK(job[j]) /\ PairOK(job[j], sat[j], online)
      /\ job[j].pending = "start_actions"
  BY Known DEF StartActionsDone
<1>2. PICK r \in JobRecord, t \in SatRecord :
        /\ job' = [job EXCEPT ![j] = r] /\ sat' = [sat EXCEPT ![j] = t]
        /\ Same(job[j], r) /\ AfterStart(j, r, t)
  BY StartActionsDoneStep
<1>3. Entry(j, r, t, stored[j])
  BY <1>2, SameEntries DEF Entry, StartActionsDone
<1>4. /\ job'[j] = r /\ sat'[j] = t /\ stored'[j] = stored[j]
      /\ \A i \in Ids \ {j} : job'[i] = job[i] /\ sat'[i] = sat[i] /\ stored'[i] = stored[i]
  BY <1>3, EntryAt
<1>5. job[j].state = "starting" => sat[j].phase = "none"
  BY <1>1 DEF PairOK
<1>6. Good(j)
  BY <1>1, <1>2, <1>4, <1>5 DEF Good, Settled, Over, Late, Same, AfterStart
<1>7. StartsWell(j) /\ \A i \in Ids \ {j} : Good(i) /\ Calm(i)
  BY <1>2, <1>4, Untouched DEF StartsWell, AfterStart
<1>8. \A i \in Ids : StartsWell(i) /\ Settled(i) /\ Attempt(i)
  BY <1>6, <1>7 DEF Good, Calm, Still, StartsWell, Attempt
<1>9. ASSUME NEW k \in Keys PROVE Fits(k)
  <2>1. CASE r.state = "queued" /\ KeyOf[r.event] = k
    BY <1>1, <1>2, <2>1, RoomBound DEF Fits, Same, AfterStart
  <2>2. CASE ~(r.state = "queued" /\ KeyOf[r.event] = k)
    <3>1. Queued(job', k) \subseteq Queued(job, k)
      BY <1>4, <1>7, <2>2 DEF Queued, KeyJobs, Calm, Still
    <3> QED
      BY <3>1 DEF Fits
  <2> QED
    BY <2>1, <2>2
<1> QED
  BY <1>8, <1>9 DEF Limits

(* launchJob of the new record r in the hash J. *)
LEMMA LaunchPlaced ==
  ASSUME Base, NEW J \in Jobs, NEW r, NewRecord(r), LaunchJob(J, r), launched < MaxLaunches,
         UNCHANGED <<sat, stored>>, \A i \in Ids \ {launched + 1} : Near(i, J[i])
  PROVE  /\ launched + 1 \in Ids /\ job[launched + 1].state = "none"
         /\ Placed([J EXCEPT ![launched + 1] = r], launched + 1)
<1> DEFINE l == launched + 1
           J1 == [J EXCEPT ![l] = r]
<1>1. l \in Ids /\ l > launched /\ r \in JobRecord
  BY BoundAssumption DEF Base, TypeOK, Ids, NewRecord
<1>2. job[l].state = "none"
  BY <1>1 DEF Base, Fresh
<1>3. LaunchJob(J, r) /\ \A i \in Ids \ {l} : Near(i, J[i])
  OBVIOUS
<1>4. J1 \in Jobs /\ J1[l] = r /\ \A i \in Ids \ {l} : J1[i] = J[i]
  BY <1>1 DEF Jobs
<1>5. CASE r.state = "ready"
  <2>1. MonitorReady(J1, l)
    BY <1>3, <1>5 DEF LaunchJob
  <2> HIDE DEF J1, l
  <2>2. \A i \in Ids \ {l} : Near(i, J1[i])
    BY <1>3, <1>4
  <2>3. Placed(J1, l)
    BY <1>1, <1>2, <1>4, <1>5, <2>1, <2>2, MonitorPlaced
  <2> QED
    BY <1>1, <1>2, <2>3 DEF J1, l
<1>6. CASE r.state # "ready"
  <2>1. job' = [J EXCEPT ![l] = r] /\ job' = J1
    BY <1>3, <1>6 DEF LaunchJob
  <2> HIDE DEF J1, l
  <2>2. /\ job'[l] = r
        /\ \A i \in Ids \ {l} : job'[i] = J[i]
        /\ \A i \in Ids \ {l} : StartsWell(i) /\ Calm(i)
        /\ \A i \in Ids : Settled(i)
    BY <1>1, <1>2, <1>3, <2>1, OthersPlaced
  <2>3. r.state \in {"start_delay", "retry_delay"}
    BY <1>6 DEF NewRecord
  <2>4. StartsWell(l)
    BY <2>2, <2>3 DEF StartsWell
  <2>5. \A k \in Keys : Queued(job', k) \subseteq Queued(job, k)
    BY <2>2, <2>3 DEF Queued, KeyJobs, Calm, Still
  <2>6. Placed(J1, l)
    BY <1>4, <2>2, <2>4, <2>5 DEF Placed, Fits
  <2> QED
    BY <1>1, <1>2, <2>6 DEF J1, l
<1> QED
  BY <1>5, <1>6

(* launchJob for a trigger or a user. *)
LEMMA LaunchLimits ==
  ASSUME Base, NEW e \in Events, NEW p \in Priorities, NEW st \in FirstStates, Launch(e, p, st)
  PROVE  Limits
<1> DEFINE r == [Blank(e) EXCEPT !.state = st, !.priority = p, !.started = Newest]
           l == launched + 1
<1>1. NewRecord(r) /\ r.retry_prev = 0
  <2>1. Blank(e) \in JobRecord
    BY BlankType
  <2>2. st \in {"ready", "start_delay"} /\ p \in BOOLEAN /\ Newest \in Nat
    BY EventAssumption DEF Newest, Base, TypeOK
  <2>3. r \in JobRecord
    BY <2>1, <2>2 DEF JobRecord, States
  <2> QED
    BY <2>2, <2>3 DEF NewRecord, Blank
<1>2. job \in Jobs /\ LaunchJob(job, r) /\ launched < MaxLaunches /\ UNCHANGED <<sat, stored>>
  BY DEF Base, TypeOK, Jobs, Launch, LaunchAllowed
<1> HIDE DEF r
<1>3. l \in Ids /\ Placed([job EXCEPT ![l] = r], l)
  BY <1>1, <1>2, NearSelf, LaunchPlaced
<1>4. /\ [job EXCEPT ![l] = r][l] = r
      /\ \A i \in Ids \ {l} : [job EXCEPT ![l] = r][i] = job[i]
  BY <1>2, <1>3 DEF Jobs
<1> HIDE DEF l
<1>5. \A i \in Ids : Attempt(i)
  BY <1>1, <1>3, <1>4 DEF Placed, Attempt
<1> QED
  BY <1>3, <1>5 DEF Limits, Placed

(* What the completion actions leave alone. *)
LEMMA EndActionsShape ==
  ASSUME NEW r \in JobRecord
  PROVE  /\ EndActions(r).state = r.state /\ EndActions(r).pending = "end_actions"
         /\ EndActions(r).code = r.code /\ EndActions(r).retry_prev = r.retry_prev
         /\ EndActions(r).event = r.event /\ EndActions(r) \in JobRecord
BY DEF EndActions, JobRecord

(* The end of prepJobLog: the decision is taken, and a retry may be launched. *)
LEMMA JobLogReadyLimits == ASSUME Base, NEW j \in Ids, JobLogReady(j) PROVE Limits
<1> DEFINE r == job[j]
           checked == IF RetryChecked(r) THEN [r EXCEPT !.retry_ok = FALSE] ELSE r
           last == [checked EXCEPT !.retried = TRUE]
           again == RetryChecked(r) /\ r.retry_count < Retries[r.event] /\ LaunchAllowed(r.event)
           q == EndActions(IF again THEN last ELSE checked)
<1>1. r \in JobRecord /\ job \in Jobs /\ RecordOK(r) /\ r.pending = "job_log" /\ j \in 1..MaxLaunches
  BY Known DEF JobLogReady, Ids
<1>2. r.state = "complete"
  BY <1>1 DEF RecordOK
<1>3. checked \in JobRecord /\ checked.state = r.state /\ checked.code = r.code
      /\ checked.retry_prev = r.retry_prev /\ checked.event = r.event
  BY <1>1 DEF JobRecord
<1>4. last \in JobRecord /\ last.state = r.state /\ last.code = r.code
      /\ last.retry_prev = r.retry_prev /\ last.event = r.event
  <2> HIDE DEF checked, r
  <2> QED
    BY <1>3 DEF JobRecord
<1>5. /\ q \in JobRecord /\ q.state = "complete" /\ q.pending = "end_actions" /\ q.code = r.code
      /\ q.retry_prev = r.retry_prev /\ q.event = r.event
  <2> HIDE DEF checked, last, again, r
  <2> QED
    BY <1>2, <1>3, <1>4, EndActionsShape
<1>6. UNCHANGED <<sat, stored>>
  BY DEF JobLogReady
<1>7. Near(j, q) /\ Over(q) /\ ~Over(r)
  BY <1>1, <1>2, <1>5 DEF Near, Over, Late
<1>8. CASE ~again
  <2>1. job' = [job EXCEPT ![j] = q]
    BY <1>8 DEF JobLogReady
  <2> HIDE DEF q
  <2>2. Entry(j, q, sat[j], stored[j])
    BY <1>6, <2>1, SameEntries DEF Entry
  <2>3. job'[j] = q /\ sat'[j] = sat[j] /\ stored'[j] = stored[j]
    BY <2>2, EntryAt
  <2>4. Good(j) /\ Calm(j)
    BY <1>5, <1>7, <2>3 DEF Near, Good, Settled, Calm
  <2> QED
    BY <2>2, <2>4, OneJob, CalmLimits
<1>9. CASE again
  <2> DEFINE J == [job EXCEPT ![j] = q]
             n == RetryOf(r, j)
             l == launched + 1
  <2>1. LaunchJob(J, n) /\ launched < MaxLaunches
    BY <1>9 DEF JobLogReady, LaunchAllowed
  <2>2. NewRecord(n) /\ n.retry_prev = j
    BY RetryType DEF RetryOf, Blank
  <2> HIDE DEF q, n
  <2>3. J \in Jobs /\ J[j] = q /\ \A i \in Ids \ {j} : J[i] = job[i]
    BY <1>1, <1>5 DEF Jobs
  <2> HIDE DEF J
  <2>4. \A i \in Ids : Near(i, J[i])
    BY <1>7, <2>3, NearSelf
  <2>5. l \in Ids /\ job[l].state = "none" /\ Placed([J EXCEPT ![l] = n], l)
    BY <1>6, <2>1, <2>2, <2>3, <2>4, LaunchPlaced
  <2> HIDE DEF l
  <2>6. l # j
    BY <1>2, <2>5
  <2>7. [J EXCEPT ![l] = n][l] = n /\ \A i \in Ids \ {l} : [J EXCEPT ![l] = n][i] = J[i]
    BY <2>3, <2>5 DEF Jobs
  <2>8. job'[l].retry_prev = j /\ \A i \in Ids \ {l} : job'[i] = J[i]
    BY <2>2, <2>5, <2>7 DEF Placed
  <2>9. \A i \in Ids \ {l} : job'[i].retry_prev = job[i].retry_prev
    BY <1>5, <2>3, <2>8
  <2>10. NewAttempt(l)
    BY <1>7, <2>3, <2>6, <2>8, <2>9 DEF NewAttempt
  <2>11. \A i \in Ids : Attempt(i)
    BY <2>9, <2>10 DEF Attempt
  <2> QED
    BY <2>5, <2>11 DEF Limits, Placed
<1> QED
  BY <1>8, <1>9

-----------------------------------------------------------------------------
(* Every step keeps to the limits. *)

(* Every action. *)
LEMMA LimitsStep == ASSUME Base, Next PROVE Limits
<1>1. ASSUME NEW e \in Events, NEW p \in Priorities, NEW st \in FirstStates, Launch(e, p, st)
      PROVE  Limits
  BY <1>1, LaunchLimits
<1>2. ASSUME NEW j \in Ids, JobStep(j) PROVE Limits
  BY <1>2, DelayOverLimits, StartActionsDoneLimits, JobLogReadyLimits, AbortsCalm, RecordsCalm,
     EndActionsDoneCalm, CalmLimits DEF JobStep
<1>3. ASSUME NEW j \in Ids, SatStep(j) \/ SatLose(j) PROVE Limits
  BY <1>3, SatellitesCalm, UpdateCalm, CalmLimits DEF SatStep
<1>4. ASSUME NEW j \in Ids, Resume(j) \/ DeadTimeout(j) \/ LimitTrigger(j) \/ UserAbort(j)
      PROVE  Limits
  BY <1>4, AbortsCalm, RecordsCalm, CalmLimits
<1>5. ASSUME NEW k \in Keys, MonitorQueue(k) \/ Flush(k) PROVE Limits
  BY <1>5, MonitorQueueLimits, FlushCalm, CalmLimits
<1>6. ASSUME NEW s \in Servers, RemoveServer(s) PROVE Limits
  BY <1>6, RemoveServerCalm, CalmLimits
<1>7. ASSUME \/ \E s \in Servers : AddServer(s) \/ ToggleServer(s)
             \/ \E e \in Events : ToggleEvent(e)
             \/ \E k \in Keys : WindowEnds(k) \/ ExpireRateLimit(k)
             \/ NewMinute
      PROVE  Limits
  <2>1. UNCHANGED <<job, sat, stored>>
    BY <1>7 DEF AddServer, ToggleServer, ToggleEvent, WindowEnds, ExpireRateLimit, NewMinute
  <2> QED
    BY <2>1, StillCalm, CalmLimits
<1> QED
  BY <1>1, <1>2, <1>3, <1>4, <1>5, <1>6, <1>7 DEF Next

(* And a stuttering step. *)
LEMMA LimitsAlways == Base /\ [Next]_vars => Limits
BY LimitsStep, StillCalm, CalmLimits DEF vars

(* The queue limit of every key holds whatever the numbers of jobs, events,     *)
(* servers and keys: launches, retries, delays and resumed jobs all look first. *)
THEOREM QueueCorrect == Spec => []QueueBound
<1>1. Init => QueueBound
  <2> SUFFICES ASSUME Init, NEW k \in Keys PROVE Cardinality(Queued(job, k)) <= QueueMax[k]
    BY DEF QueueBound
  <2>1. Queued(job, k) = {}
    BY DEF Queued, KeyJobs, Init, Blank
  <2> QED
    BY <2>1, FS_EmptySet, LimitAssumption
<1>2. QueueBound /\ Limits => QueueBound'
  <2> SUFFICES ASSUME QueueBound, Limits, NEW k \in Keys
               PROVE  Cardinality(Queued(job', k)) <= QueueMax[k]
    BY DEF QueueBound
  <2>1. /\ IsFiniteSet(Queued(job, k)) /\ Cardinality(Queued(job, k)) \in Nat
        /\ Cardinality(Queued(job', k)) \in Nat /\ QueueMax[k] \in Nat
    BY QueuedFinite, LimitAssumption
  <2>2. CASE Queued(job', k) \subseteq Queued(job, k)
    <3>1. Cardinality(Queued(job', k)) <= Cardinality(Queued(job, k))
      BY <2>1, <2>2, FS_Subset
    <3> QED
      BY <2>1, <3>1 DEF QueueBound
  <2> QED
    BY <2>2 DEF Limits, Fits
<1> QED
  BY <1>1, <1>2, LimitsAlways, BaseHolds, PTL DEF Spec

(* Every start is counted in a window that has room for it: checkJobStartLimits  *)
(* and the chooser of a server run in one callback, whoever caused it.           *)
THEOREM RateCorrect == Spec => RateBound
<1>1. ASSUME Base, Base', Limits, NEW j \in Ids,
             job[j].state # "starting", job'[j].state = "starting", Rate[KeyOf[job'[j].event]] > 0
      PROVE  /\ window'[KeyOf[job'[j].event]] = "open"
             /\ rateCount'[KeyOf[job'[j].event]] = RateNow(KeyOf[job'[j].event]) + 1
             /\ rateCount'[KeyOf[job'[j].event]] <= Rate[KeyOf[job'[j].event]]
  <2> DEFINE k == KeyOf[job'[j].event]
  <2>1. k \in Keys
    BY <1>1, EventAssumption DEF Base, TypeOK, JobRecord
  <2>2. ~RateFull(k) /\ OpenWindow(k, 1)
    BY <1>1 DEF Limits, StartsWell, Counted
  <2> HIDE DEF k
  <2>3. window'[k] = "open" /\ rateCount'[k] = RateNow(k) + 1
    BY <1>1, <2>1, <2>2 DEF OpenWindow, Base, TypeOK, k
  <2>4. RateNow(k) \in Nat /\ Rate[k] \in Nat
    BY <1>1, <2>1, LimitAssumption DEF RateNow, Base, TypeOK
  <2>5. RateNow(k) < Rate[k]
    BY <1>1, <2>2, <2>4 DEF RateFull, k
  <2> QED
    BY <2>3, <2>4, <2>5 DEF k
<1>2. Base /\ Base' /\ Limits =>
        \A j \in Ids :
          LET k == KeyOf[job'[j].event] IN
          job[j].state # "starting" /\ job'[j].state = "starting" /\ Rate[k] > 0
          => /\ window'[k] = "open"
             /\ rateCount'[k] = RateNow(k) + 1 /\ rateCount'[k] <= Rate[k]
  BY <1>1
<1> QED
  BY <1>2, LimitsAlways, BaseHolds, PTL DEF Spec, RateBound

-----------------------------------------------------------------------------
(* Retries and late results. *)

(* The inductive invariant: the decision about a retry is behind every job that *)
(* has one, and none has two.                                                   *)
Attempts ==
  \A i \in Ids : LET p == job[i].retry_prev IN p # 0 =>
    /\ p \in Ids /\ Over(job[p])
    /\ \A h \in Ids : job[h].retry_prev = p => h = i

(* A step that keeps to the limits keeps the invariant. *)
LEMMA AttemptsStep == Attempts /\ Limits => Attempts'
<1> SUFFICES ASSUME Attempts, Limits, NEW i \in Ids, job'[i].retry_prev # 0
             PROVE  /\ job'[i].retry_prev \in Ids /\ Over(job'[job'[i].retry_prev])
                    /\ \A h \in Ids : job'[h].retry_prev = job'[i].retry_prev => h = i
  BY DEF Attempts, Over
<1> DEFINE p == job'[i].retry_prev
<1>1. ASSUME NEW h \in Ids, job'[h].retry_prev = job[h].retry_prev, job'[h].retry_prev # 0
      PROVE  /\ job'[h].retry_prev \in Ids /\ Over(job[job'[h].retry_prev])
             /\ Over(job'[job'[h].retry_prev])
  BY <1>1 DEF Attempts, Limits, Settled
<1>2. CASE NewAttempt(i)
  <2>1. p \in Ids /\ ~Over(job[p]) /\ Over(job'[p])
        /\ \A h \in Ids \ {i} : job'[h].retry_prev \in {0, job[h].retry_prev}
    BY <1>2 DEF NewAttempt
  <2>2. ASSUME NEW h \in Ids, job'[h].retry_prev = p, h # i PROVE FALSE
    BY <1>1, <2>1, <2>2
  <2> QED
    BY <2>1, <2>2
<1>3. CASE ~NewAttempt(i)
  <2>1. p = job[i].retry_prev
    BY <1>3 DEF Limits, Attempt
  <2>2. p \in Ids /\ Over(job[p]) /\ Over(job'[p])
    BY <1>1, <2>1
  <2>3. ASSUME NEW h \in Ids, job'[h].retry_prev = p PROVE h = i
    <3>1. job'[h].retry_prev = job[h].retry_prev
      BY <2>2, <2>3 DEF Limits, Attempt, NewAttempt
    <3> QED
      BY <2>1, <2>3, <3>1 DEF Attempts
  <2> QED
    BY <2>2, <2>3
<1> QED
  BY <1>2, <1>3

(* checkRetryJob: no job is retried twice, and none while it may still end *)
(* otherwise.                                                              *)
THEOREM AttemptCorrect == Spec => []OneLiveAttempt
<1>1. Init => Attempts
  BY DEF Init, Attempts, Blank
<1>2. Attempts => OneLiveAttempt
  BY DEF Attempts, OneLiveAttempt, Over
<1> QED
  BY <1>1, <1>2, AttemptsStep, LimitsAlways, BaseHolds, PTL DEF Spec

(* The inductive invariant: a result is stored only of a job that is over. *)
Lates == \A j \in Ids : Late(job[j], sat[j], stored[j])

(* updateJobLate: a stored result changes from abort to warning, and in no *)
(* other way.                                                              *)
THEOREM LateCorrect == Spec => LateUpdateOnlyAfterAbort
<1>1. Init => Lates
  BY DEF Init, Lates, Late, Idle
<1>2. Lates /\ Limits => Lates'
  BY DEF Lates, Limits, Settled, Late
<1>3. Lates /\ Limits =>
        \A j \in Ids : stored[j] # "none" /\ stored'[j] # stored[j]
                       => stored[j] = "abort" /\ stored'[j] = "warning"
  BY DEF Lates, Limits, Settled
<1> QED
  BY <1>1, <1>2, <1>3, LimitsAlways, BaseHolds, PTL DEF Spec, LateUpdateOnlyAfterAbort

-----------------------------------------------------------------------------
(* Sums over finite sets. *)

(* The order of the numbers, as a relation. *)
LEMMA LessThan == \A a, b \in Nat : a < b => <<a, b>> \in OpToRel(<, Nat)
BY Zenon DEF OpToRel

(* Induction over a set of numbers. *)
LEMMA Inductive ==
  ASSUME NEW T, 0 \in T, \A n \in Nat : n \in T => n + 1 \in T
  PROVE  Nat \subseteq T
<1> DEFINE U == Nat \ T
<1>1. SUFFICES ASSUME U # {} PROVE FALSE
  OBVIOUS
<1>2. U \subseteq Nat
  OBVIOUS
<1>3. PICK n \in U : \A m \in U : ~(<<m, n>> \in OpToRel(<, Nat))
  <2>1. \E n \in U : \A m \in U : ~(<<m, n>> \in OpToRel(<, Nat))
    BY <1>1, <1>2, NatLessThanWellFounded, WFMin
  <2> QED
    BY <2>1
<1>4. \A m \in U : ~(m < n)
  BY <1>2, <1>3, LessThan, Zenon
<1>5. n \in Nat /\ n # 0 /\ n \notin T
  OBVIOUS
<1>6. n - 1 \in Nat /\ n - 1 < n /\ n = (n - 1) + 1
  BY <1>5
<1>7. n - 1 \in T
  BY <1>4, <1>6
<1> QED
  BY <1>5, <1>6, <1>7

(* The element that MapThenSumSet takes first. *)
Chosen(s) == CHOOSE x \in s : TRUE

(* h holds the sum of w over every subset of D. *)
Sums(h, w, D) ==
  \A s \in SUBSET D : h[s] = IF s = {} THEN 0 ELSE w[Chosen(s)] + h[s \ {Chosen(s)}]

(* Taking the chosen element away leaves a smaller set. *)
LEMMA Smaller ==
  ASSUME NEW s, IsFiniteSet(s), s # {}
  PROVE  /\ Chosen(s) \in s /\ IsFiniteSet(s \ {Chosen(s)})
         /\ Cardinality(s) \in Nat /\ Cardinality(s \ {Chosen(s)}) = Cardinality(s) - 1
<1>1. Chosen(s) \in s
  BY DEF Chosen
<1> QED
  BY <1>1, FS_RemoveElement, FS_CardinalityType

(* Induction over the subsets of a finite set. *)
LEMMA SubsetInductive ==
  ASSUME NEW D, IsFiniteSet(D), NEW T, {} \in T,
         \A s \in SUBSET D : s # {} /\ (\A t \in SUBSET D : Cardinality(t) = Cardinality(s) - 1 => t \in T) => s \in T
  PROVE  SUBSET D \subseteq T
<1> DEFINE N == {n \in Nat : \A s \in SUBSET D : Cardinality(s) = n => s \in T}
<1>0. \A s \in SUBSET D : IsFiniteSet(s) /\ Cardinality(s) \in Nat /\ (Cardinality(s) = 0 => s = {})
  BY FS_Subset, FS_CardinalityType, FS_EmptySet
<1>1. 0 \in N
  BY <1>0
<1>2. ASSUME NEW n \in Nat, n \in N PROVE n + 1 \in N
  <2>1. SUFFICES ASSUME NEW s \in SUBSET D, Cardinality(s) = n + 1 PROVE s \in T
    OBVIOUS
  <2>2. s # {}
    BY <2>1, FS_EmptySet
  <2>3. Cardinality(s) - 1 = n
    BY <2>1
  <2> QED
    BY <1>2, <2>2, <2>3
<1> HIDE DEF N
<1>3. Nat \subseteq N
  BY <1>1, <1>2, Inductive
<1> QED
  BY <1>0, <1>3 DEF N

(* The same for the subsets of at most n elements. *)
SumsUpTo(h, w, D, n) ==
  \A s \in SUBSET D : Cardinality(s) <= n =>
    h[s] = IF s = {} THEN 0 ELSE w[Chosen(s)] + h[s \ {Chosen(s)}]

(* Such a function exists for every n. *)
LEMMA SumsTo ==
  ASSUME NEW D, IsFiniteSet(D), NEW w \in [D -> Nat]
  PROVE  \A n \in Nat : \E f \in [SUBSET D -> Nat] : SumsUpTo(f, w, D, n)
<1> DEFINE N == {n \in Nat : \E f \in [SUBSET D -> Nat] : SumsUpTo(f, w, D, n)}
<1>0. \A s \in SUBSET D : IsFiniteSet(s) /\ Cardinality(s) \in Nat /\ (Cardinality(s) = 0 => s = {})
  BY FS_Subset, FS_CardinalityType, FS_EmptySet
<1>1. 0 \in N
  <2> DEFINE f == [s \in SUBSET D |-> 0]
  <2>1. f \in [SUBSET D -> Nat] /\ SumsUpTo(f, w, D, 0)
    BY <1>0 DEF SumsUpTo
  <2> QED
    BY <2>1
<1>2. ASSUME NEW n \in Nat, n \in N PROVE n + 1 \in N
  <2>1. PICK f \in [SUBSET D -> Nat] : SumsUpTo(f, w, D, n)
    BY <1>2
  <2> DEFINE g == [s \in SUBSET D |-> IF s = {} THEN 0 ELSE w[Chosen(s)] + f[s \ {Chosen(s)}]]
  <2>2. \A s \in SUBSET D : s # {} => /\ Chosen(s) \in D /\ s \ {Chosen(s)} \in SUBSET D
                                       /\ Cardinality(s \ {Chosen(s)}) = Cardinality(s) - 1
    BY <1>0, Smaller
  <2>3. g \in [SUBSET D -> Nat]
    <3>1. ASSUME NEW s \in SUBSET D, s # {} PROVE w[Chosen(s)] + f[s \ {Chosen(s)}] \in Nat
      <4>1. w[Chosen(s)] \in Nat /\ f[s \ {Chosen(s)}] \in Nat
        BY <2>2, <3>1
      <4> QED
        BY <4>1
    <3> QED
      BY <3>1
  <2>4. \A s \in SUBSET D : g[s] = IF s = {} THEN 0 ELSE w[Chosen(s)] + f[s \ {Chosen(s)}]
    OBVIOUS
  <2> HIDE DEF g
  <2>5. \A s \in SUBSET D : Cardinality(s) <= n => g[s] = f[s]
    BY <2>1, <2>4 DEF SumsUpTo
  <2>6. SumsUpTo(g, w, D, n + 1)
    <3> SUFFICES ASSUME NEW s \in SUBSET D, Cardinality(s) <= n + 1, s # {}
                 PROVE  g[s] = w[Chosen(s)] + g[s \ {Chosen(s)}]
      BY <2>4 DEF SumsUpTo
    <3>1. Cardinality(s \ {Chosen(s)}) <= n /\ s \ {Chosen(s)} \in SUBSET D
      BY <1>0, <2>2
    <3>2. g[s \ {Chosen(s)}] = f[s \ {Chosen(s)}]
      BY <2>5, <3>1
    <3> QED
      BY <2>4, <3>2
  <2> QED
    BY <2>3, <2>6
<1> HIDE DEF N
<1>3. Nat \subseteq N
  BY <1>1, <1>2, Inductive
<1> QED
  BY <1>3 DEF N

(* Hence one that sums over all the subsets exists ... *)
LEMMA SumsExist ==
  ASSUME NEW D, IsFiniteSet(D), NEW w \in [D -> Nat]
  PROVE  \E f \in [SUBSET D -> Nat] : Sums(f, w, D)
<1>1. Cardinality(D) \in Nat /\ \A s \in SUBSET D : Cardinality(s) <= Cardinality(D)
  BY FS_CardinalityType, FS_Subset
<1>2. PICK n \in Nat : \A s \in SUBSET D : Cardinality(s) <= n
  BY <1>1
<1>3. PICK f \in [SUBSET D -> Nat] : SumsUpTo(f, w, D, n)
  BY SumsTo
<1> QED
  BY <1>2, <1>3 DEF Sums, SumsUpTo

(* ... its values are numbers ... *)
LEMMA SumsNat ==
  ASSUME NEW D, IsFiniteSet(D), NEW w \in [D -> Nat]
  PROVE  \A h : Sums(h, w, D) => \A s \in SUBSET D : h[s] \in Nat
<1> SUFFICES ASSUME NEW h, Sums(h, w, D) PROVE \A s \in SUBSET D : h[s] \in Nat
  OBVIOUS
<1> DEFINE T == {s \in SUBSET D : h[s] \in Nat}
<1>1. {} \in T
  <2>1. h[{}] = 0
    BY DEF Sums
  <2> QED
    BY <2>1
<1>2. ASSUME NEW s \in SUBSET D, s # {},
             \A t \in SUBSET D : Cardinality(t) = Cardinality(s) - 1 => t \in T
      PROVE  s \in T
  <2>1. Chosen(s) \in D /\ s \ {Chosen(s)} \in T
    <3>1. IsFiniteSet(s) /\ s \ {Chosen(s)} \in SUBSET D
      BY FS_Subset
    <3> QED
      BY <1>2, <3>1, Smaller
  <2>2. h[s] = w[Chosen(s)] + h[s \ {Chosen(s)}]
    BY <1>2 DEF Sums
  <2>3. w[Chosen(s)] \in Nat /\ h[s \ {Chosen(s)}] \in Nat
    BY <2>1
  <2> QED
    BY <2>2, <2>3
<1> HIDE DEF T
<1>3. SUBSET D \subseteq T
  BY <1>1, <1>2, SubsetInductive
<1> QED
  BY <1>3 DEF T

(* One more element adds its value. *)
Adds(h, w, D) == \A s \in SUBSET D : \A x \in D \ s : h[s \cup {x}] = h[s] + w[x]

(* ... and it does not matter which element is taken first. *)
LEMMA SumsAdd ==
  ASSUME NEW D, IsFiniteSet(D), NEW w \in [D -> Nat]
  PROVE  \A h : Sums(h, w, D) => Adds(h, w, D)
<1> SUFFICES ASSUME NEW h, Sums(h, w, D)
             PROVE  \A s \in SUBSET D : \A x \in D \ s : h[s \cup {x}] = h[s] + w[x]
  BY DEF Adds
<1>0. \A s \in SUBSET D : h[s] \in Nat
  BY SumsNat
<1> DEFINE T == {s \in SUBSET D : \A x \in D \ s : h[s \cup {x}] = h[s] + w[x]}
<1>4. ASSUME NEW s \in SUBSET D,
             \A t \in SUBSET D : Cardinality(t) = Cardinality(s) - 1 => t \in T
      PROVE  s \in T
  <2> SUFFICES ASSUME NEW x \in D \ s PROVE h[s \cup {x}] = h[s] + w[x]
    OBVIOUS
  <2> DEFINE c == Chosen(s \cup {x})
  <2>1. s \cup {x} \in SUBSET D /\ s \cup {x} # {} /\ c \in s \cup {x}
    BY DEF Chosen
  <2>2. h[s \cup {x}] = w[c] + h[(s \cup {x}) \ {c}]
    BY <2>1 DEF Sums
  <2> HIDE DEF c
  <2>3. CASE c = x
    <3>1. h[(s \cup {x}) \ {c}] = h[s]
      <4>1. (s \cup {x}) \ {c} = s
        BY <2>3
      <4> QED
        BY <4>1
    <3>2. w[x] \in Nat /\ h[s] \in Nat
      BY <1>0
    <3> QED
      BY <2>2, <2>3, <3>1, <3>2
  <2>4. CASE c # x
    <3> DEFINE t == s \ {c}
    <3>1. c \in s /\ t \in SUBSET D /\ (s \cup {x}) \ {c} = t \cup {x} /\ t \cup {c} = s
          /\ x \in D \ t /\ c \in D \ t
      BY <2>1, <2>4
    <3>2. Cardinality(t) = Cardinality(s) - 1
      BY <3>1, FS_Subset, FS_RemoveElement
    <3>3. t \in T
      BY <1>4, <3>1, <3>2
    <3> HIDE DEF t
    <3>4. h[t \cup {x}] = h[t] + w[x] /\ h[t \cup {c}] = h[t] + w[c]
      BY <3>1, <3>3
    <3>5. w[x] \in Nat /\ w[c] \in Nat /\ h[t] \in Nat
      BY <1>0, <3>1
    <3>6. h[s \cup {x}] = w[c] + h[t \cup {x}] /\ h[s] = h[t \cup {c}]
      BY <2>2, <3>1
    <3> QED
      BY <3>4, <3>5, <3>6
  <2> QED
    BY <2>3, <2>4
<1>5. {} \in T
  <2>1. Cardinality({}) = 0 /\ \A t \in SUBSET D : Cardinality(t) \in Nat
    BY FS_EmptySet, FS_Subset, FS_CardinalityType
  <2>2. \A t \in SUBSET D : Cardinality(t) # Cardinality({}) - 1
    BY <2>1
  <2> QED
    BY <1>4, <2>2
<1> HIDE DEF T
<1>6. SUBSET D \subseteq T
  BY <1>4, <1>5, SubsetInductive
<1> QED
  BY <1>6 DEF T

(* More elements and greater values make a greater sum. *)
LEMMA SumsMono ==
  ASSUME NEW D, IsFiniteSet(D), NEW w \in [D -> Nat],
         NEW E, IsFiniteSet(E), NEW v \in [E -> Nat]
  PROVE  \A h, g : Sums(h, w, D) /\ Sums(g, v, E) =>
           \A a \in SUBSET D, b \in SUBSET E :
             a \subseteq b /\ (\A x \in a : w[x] <= v[x]) => h[a] <= g[b]
<1> SUFFICES ASSUME NEW h, NEW g, Sums(h, w, D), Sums(g, v, E)
             PROVE  \A a \in SUBSET D, b \in SUBSET E :
                      a \subseteq b /\ (\A x \in a : w[x] <= v[x]) => h[a] <= g[b]
  OBVIOUS
<1>0. (\A s \in SUBSET D : h[s] \in Nat) /\ (\A s \in SUBSET E : g[s] \in Nat)
  BY SumsNat
<1>3. Adds(g, v, E)
  BY SumsAdd
<1> DEFINE T == {a \in SUBSET D : \A b \in SUBSET E :
                   a \subseteq b /\ (\A x \in a : w[x] <= v[x]) => h[a] <= g[b]}
<1>1. {} \in T
  <2>1. h[{}] = 0
    BY DEF Sums
  <2> QED
    BY <1>0, <2>1
<1>2. ASSUME NEW a \in SUBSET D, a # {},
             \A t \in SUBSET D : Cardinality(t) = Cardinality(a) - 1 => t \in T
      PROVE  a \in T
  <2> SUFFICES ASSUME NEW b \in SUBSET E, a \subseteq b, \A x \in a : w[x] <= v[x]
               PROVE  h[a] <= g[b]
    OBVIOUS
  <2> DEFINE c == Chosen(a)
             s == a \ {c}
             t == b \ {c}
  <2>1. c \in a /\ Cardinality(s) = Cardinality(a) - 1
    BY <1>2, FS_Subset, Smaller
  <2>2. h[a] = w[c] + h[s]
    BY <1>2 DEF Sums
  <2> HIDE DEF c
  <2>3. s \in SUBSET D /\ t \in SUBSET E /\ s \subseteq t /\ t \cup {c} = b /\ c \in E \ t /\ c \in D
    BY <2>1
  <2>4. s \in T
    BY <1>2, <2>1, <2>3
  <2> HIDE DEF s, t
  <2>5. h[s] <= g[t]
    <3>1. \A x \in s : w[x] <= v[x]
      BY <2>1 DEF s
    <3> QED
      BY <2>3, <2>4, <3>1
  <2>6. g[b] = g[t] + v[c]
    <3>1. g[t \cup {c}] = g[t] + v[c]
      BY <1>3, <2>3 DEF Adds
    <3> QED
      BY <2>3, <3>1
  <2>7. w[c] \in Nat /\ v[c] \in Nat /\ h[s] \in Nat /\ g[t] \in Nat /\ w[c] <= v[c]
    BY <1>0, <2>1, <2>3
  <2> QED
    BY <2>2, <2>5, <2>6, <2>7
<1> HIDE DEF T
<1>4. SUBSET D \subseteq T
  BY <1>1, <1>2, SubsetInductive
<1> QED
  BY <1>4 DEF T

(* The jobs that count on the server s. *)
Seats(J, s) == {j \in Live(J) : J[j].server = s}

(* MapThenSumSet computes such a sum of their weights. *)
LEMMA LoadSums ==
  ASSUME NEW J \in Jobs, NEW s
  PROVE  /\ IsFiniteSet(Seats(J, s)) /\ Seats(J, s) \subseteq Ids
         /\ [j \in Seats(J, s) |-> Weight[J[j].event]] \in [Seats(J, s) -> Nat]
         /\ \E h : /\ Sums(h, [j \in Seats(J, s) |-> Weight[J[j].event]], Seats(J, s))
                   /\ Load(J, s) = h[Seats(J, s)]
<1> DEFINE D == Seats(J, s)
           w == [j \in D |-> Weight[J[j].event]]
<1>1. IsFiniteSet(D) /\ D \subseteq Ids
  <2>1. D \subseteq Ids
    BY DEF Seats, Live
  <2>2. IsFiniteSet(Ids)
    BY BoundAssumption, FS_Interval DEF Ids
  <2> QED
    BY <2>1, <2>2, FS_Subset
<1>2. w \in [D -> Nat]
  BY <1>1, EventAssumption DEF Jobs, JobRecord
<1> DEFINE body(h) == [t \in SUBSET D |-> IF t = {} THEN 0
                         ELSE Weight[J[CHOOSE x \in t : TRUE].event] + h[t \ {CHOOSE x \in t : TRUE}]]
           X == CHOOSE h : h = body(h)
<1>3. Load(J, s) = X[D]
  BY DEF Load, MapThenSumSet, MapThenFoldSet, Seats
<1>4. PICK f \in [SUBSET D -> Nat] : Sums(f, w, D)
  BY <1>1, <1>2, SumsExist
<1>5. \A h, t : t \in SUBSET D /\ t # {} =>
         Weight[J[CHOOSE x \in t : TRUE].event] + h[t \ {CHOOSE x \in t : TRUE}]
           = w[Chosen(t)] + h[t \ {Chosen(t)}]
  <2> SUFFICES ASSUME NEW h, NEW t \in SUBSET D, t # {}
               PROVE  w[Chosen(t)] = Weight[J[Chosen(t)].event]
    BY DEF Chosen
  <2>1. Chosen(t) \in D
    BY DEF Chosen
  <2> QED
    BY <2>1
<1>6. f = body(f)
  BY <1>4, <1>5 DEF Sums
<1> HIDE DEF body
<1>7. X = body(X)
  BY <1>6, Zenon
<1> HIDE DEF X
<1>8. Sums(X, w, D)
  BY <1>5, <1>7 DEF Sums, body
<1> QED
  BY <1>1, <1>2, <1>3, <1>8

(* A server with more jobs carries no less. *)
LEMMA LoadGrows ==
  ASSUME NEW J \in Jobs, NEW K \in Jobs, NEW s, Seats(J, s) \subseteq Seats(K, s),
         \A i \in Seats(J, s) : J[i].event = K[i].event
  PROVE  Load(J, s) \in Nat /\ Load(K, s) \in Nat /\ Load(J, s) <= Load(K, s)
<1> DEFINE D == Seats(J, s)
           E == Seats(K, s)
           w == [i \in D |-> Weight[J[i].event]]
           v == [i \in E |-> Weight[K[i].event]]
<1>1. PICK h : Sums(h, w, D) /\ Load(J, s) = h[D]
  BY LoadSums
<1>2. PICK g : Sums(g, v, E) /\ Load(K, s) = g[E]
  BY LoadSums
<1>3. IsFiniteSet(D) /\ IsFiniteSet(E) /\ w \in [D -> Nat] /\ v \in [E -> Nat] /\ D \subseteq E
  BY LoadSums
<1>4. \A i \in D : w[i] <= v[i]
  <2>1. \A i \in D : w[i] = v[i] /\ w[i] \in Nat
    BY <1>3
  <2> QED
    BY <2>1
<1> HIDE DEF D, E, w, v
<1>5. h[D] \in Nat /\ g[E] \in Nat
  BY <1>1, <1>2, <1>3, SumsNat
<1>6. h[D] <= g[E]
  BY <1>1, <1>2, <1>3, <1>4, SumsMono
<1> QED
  BY <1>1, <1>2, <1>5, <1>6

(* One more job adds its weight at most. *)
LEMMA LoadAdds ==
  ASSUME NEW J \in Jobs, NEW K \in Jobs, NEW j \in Ids, NEW s,
         Seats(J, s) \subseteq Seats(K, s) \cup {j},
         \A i \in Seats(J, s) \ {j} : J[i].event = K[i].event
  PROVE  /\ Load(J, s) \in Nat /\ Load(K, s) \in Nat /\ Weight[J[j].event] \in Nat
         /\ Load(J, s) <= Weight[J[j].event] + Load(K, s)
<1> DEFINE D == Seats(J, s)
           E == Seats(K, s)
           w == [i \in D |-> Weight[J[i].event]]
           v == [i \in E |-> Weight[K[i].event]]
           a == D \ {j}
           n == Weight[J[j].event]
<1>1. PICK h : Sums(h, w, D) /\ Load(J, s) = h[D]
  BY LoadSums
<1>2. PICK g : Sums(g, v, E) /\ Load(K, s) = g[E]
  BY LoadSums
<1>3. IsFiniteSet(D) /\ IsFiniteSet(E) /\ w \in [D -> Nat] /\ v \in [E -> Nat] /\ n \in Nat
  BY LoadSums, EventAssumption DEF Jobs, JobRecord
<1>4. a \in SUBSET D /\ a \subseteq E /\ (j \in D => w[j] = n /\ a \cup {j} = D) /\ (j \notin D => a = D)
  OBVIOUS
<1>5. \A i \in a : w[i] <= v[i]
  <2>1. \A i \in a : w[i] = v[i] /\ w[i] \in Nat
    BY <1>3
  <2> QED
    BY <2>1
<1> HIDE DEF D, E, w, v, a, n
<1>6. h[D] \in Nat /\ g[E] \in Nat /\ h[a] \in Nat
  BY <1>1, <1>2, <1>3, <1>4, SumsNat
<1>7. h[a] <= g[E]
  BY <1>1, <1>2, <1>3, <1>4, <1>5, SumsMono
<1>8. h[D] <= n + g[E]
  <2>1. CASE j \notin D
    <3>1. h[D] = h[a]
      BY <1>4, <2>1
    <3> QED
      BY <1>3, <1>6, <1>7, <3>1
  <2>2. CASE j \in D
    <3>1. Adds(h, w, D)
      BY <1>1, <1>3, SumsAdd
    <3>2. a \cup {j} = D /\ j \in D \ a /\ w[j] = n
      BY <1>4, <2>2 DEF a
    <3>3. h[a \cup {j}] = h[a] + w[j]
      BY <1>4, <3>1, <3>2 DEF Adds
    <3>4. h[D] = h[a] + n
      BY <3>2, <3>3
    <3> QED
      BY <1>3, <1>6, <1>7, <3>4
  <2> QED
    BY <2>1, <2>2
<1> QED
  BY <1>1, <1>2, <1>3, <1>6, <1>8 DEF n

-----------------------------------------------------------------------------
(* Who has a place on which server. *)

HasPlace(q) == q.state \notin {"none", "gone"} /\ q.server \in Servers

(* The record q has no place but the one the job i has. *)
Keeps(i, q) ==
  HasPlace(q) => HasPlace(job[i]) /\ q.server = job[i].server /\ q.event = job[i].event

(* The job j has a server on which there was room for it among the others. *)
Takes(j) ==
  \E J \in Jobs :
    /\ \A i \in Ids \ {j} : job'[i] = J[i]
    /\ HasCapacity(J, job'[j].server, Weight[job'[j].event])

(* At most one job takes a place; the others keep theirs or leave it. *)
Places ==
  \E j \in Ids :
    /\ \A i \in Ids \ {j} : Keeps(i, job'[i])
    /\ Keeps(j, job'[j]) \/ Takes(j)

(* Or any number of jobs leave. *)
Leaves == \A i \in Ids : Keeps(i, job'[i])

(* Then no server is overloaded. *)
LEMMA PlacesBound ==
  ASSUME Base, Base', ServerLoadBound, Leaves \/ Places
  PROVE  ServerLoadBound'
<1> SUFFICES ASSUME NEW s \in Servers, ServerMax[s] > 0 PROVE Load(job', s) <= ServerMax[s]
  BY DEF ServerLoadBound
<1>1. job \in Jobs /\ job' \in Jobs /\ Load(job, s) <= ServerMax[s] /\ ServerMax[s] \in Nat
  BY LimitAssumption DEF Base, TypeOK, Jobs, ServerLoadBound
<1>2. \A i \in Ids : i \in Seats(job', s) => HasPlace(job'[i]) /\ job'[i].server = s
  BY DEF Seats, Live, HasPlace
<1>3. \A i \in Ids : HasPlace(job[i]) /\ job[i].server = s => i \in Seats(job, s)
  BY DEF Seats, Live, HasPlace
<1>4. ASSUME NEW i \in Seats(job', s), Keeps(i, job'[i])
      PROVE  i \in Seats(job, s) /\ job'[i].event = job[i].event
  <2>1. i \in Ids
    BY DEF Seats, Live
  <2> QED
    BY <1>2, <1>3, <1>4, <2>1 DEF Keeps
<1>5. CASE \A i \in Seats(job', s) : Keeps(i, job'[i])
  <2>1. Load(job', s) \in Nat /\ Load(job, s) \in Nat /\ Load(job', s) <= Load(job, s)
    BY <1>1, <1>4, <1>5, LoadGrows
  <2> QED
    BY <1>1, <2>1
<1>6. ASSUME NEW j \in Ids, \A i \in Ids \ {j} : Keeps(i, job'[i]), Takes(j)
      PROVE  Load(job', s) <= ServerMax[s]
  <2>1. CASE job'[j].server # s
    <3>1. \A i \in Seats(job', s) : i \in Ids \ {j}
      BY <2>1 DEF Seats, Live
    <3> QED
      BY <1>5, <1>6, <3>1
  <2>2. CASE job'[j].server = s
    <3>1. PICK J \in Jobs : /\ \A i \in Ids \ {j} : job'[i] = J[i]
                            /\ HasCapacity(J, s, Weight[job'[j].event])
      BY <1>6, <2>2 DEF Takes
    <3>2. /\ Seats(job', s) \subseteq Seats(J, s) \cup {j}
          /\ \A i \in Seats(job', s) \ {j} : job'[i].event = J[i].event
      BY <3>1 DEF Seats, Live
    <3>3. /\ Load(job', s) \in Nat /\ Load(J, s) \in Nat /\ Weight[job'[j].event] \in Nat
          /\ Load(job', s) <= Weight[job'[j].event] + Load(J, s)
      BY <1>1, <3>2, LoadAdds
    <3> QED
      BY <1>1, <3>1, <3>3 DEF HasCapacity
  <2> QED
    BY <2>1, <2>2
<1>7. Seats(job', s) \subseteq Ids
  BY DEF Seats, Live
<1> QED
  BY <1>5, <1>6, <1>7 DEF Leaves, Places

(* What one job leaves of its place. *)
Alike(q, r) == r.server = q.server /\ r.event = q.event

(* A record like that of a job that keeps its place keeps it too. *)
LEMMA AlikeKeeps ==
  ASSUME NEW i \in Ids, NEW q, NEW r, Keeps(i, q), Alike(q, r), HasPlace(r) => HasPlace(q)
  PROVE  Keeps(i, r)
BY DEF Keeps, Alike

(* A job keeps its own place. *)
LEMMA KeepsSelf == \A i \in Ids : Keeps(i, job[i])
BY DEF Keeps

(* Nothing changes in activeJobs. *)
LEMMA NobodyMoves == UNCHANGED job => Leaves
BY KeepsSelf DEF Leaves

(* One job changes and takes no place. *)
LEMMA OneLeaves ==
  ASSUME Base, NEW j \in Ids, NEW r, job' = [job EXCEPT ![j] = r], Keeps(j, r)
  PROVE  Leaves
<1>1. job'[j] = r /\ \A i \in Ids \ {j} : job'[i] = job[i]
  BY DEF Base, TypeOK
<1> QED
  BY <1>1, KeepsSelf DEF Leaves

(* An aborted job has its server until it has gone. *)
LEMMA AbortAlike ==
  ASSUME NEW J \in Jobs, NEW j \in Ids
  PROVE  \E r \in JobRecord : Abort(J, j) = [J EXCEPT ![j] = r] /\ Alike(J[j], r)
<1>1. J[j] \in JobRecord /\ J = [J EXCEPT ![j] = J[j]]
  BY DEF Jobs
<1>2. CASE AbortSent(J, j)
  BY <1>1, <1>2 DEF Abort, Alike
<1>3. CASE ~AbortSent(J, j)
  BY <1>1, <1>3, AbortRecordType DEF Abort, Alike
<1> QED
  BY <1>2, <1>3

(* So has one that goes back to the queue. *)
LEMMA EnqueueAlike ==
  ASSUME NEW J \in Jobs, NEW j \in Ids, NEW b \in BOOLEAN
  PROVE  \E r \in JobRecord : Enqueue(J, j, b) = [J EXCEPT ![j] = r] /\ Alike(J[j], r)
<1>1. J[j] \in JobRecord
  BY DEF Jobs
<1>2. CASE QueueRoom(J, KeyOf[J[j].event])
  <2> DEFINE r == [J[j] EXCEPT !.state = "queued"]
  <2>1. r \in JobRecord /\ Alike(J[j], r)
    BY <1>1 DEF JobRecord, States, Alike
  <2>2. Enqueue(J, j, b) = [J EXCEPT ![j] = r]
    BY <1>2 DEF Enqueue
  <2> QED
    BY <2>1, <2>2
<1>3. CASE ~QueueRoom(J, KeyOf[J[j].event])
  <2> DEFINE r0 == [J[j] EXCEPT !.retry_ok = @ \/ b]
  <2>1. r0 \in JobRecord /\ Alike(J[j], r0)
    BY <1>1 DEF JobRecord, Alike
  <2>2. Enqueue(J, j, b) = [J EXCEPT ![j] = AbortRecord(r0)]
    BY <1>3 DEF Enqueue
  <2> HIDE DEF r0
  <2>3. AbortRecord(r0) \in JobRecord /\ Alike(J[j], AbortRecord(r0))
    BY <2>1, AbortRecordType DEF Alike
  <2> QED
    BY <2>2, <2>3
<1> QED
  BY <1>2, <1>3

(* One entry of a hash changes. *)
LEMMA HashAt ==
  ASSUME NEW J \in Jobs, NEW j \in Ids, NEW r
  PROVE  [J EXCEPT ![j] = r][j] = r /\ \A i \in Ids \ {j} : [J EXCEPT ![j] = r][i] = J[i]
BY DEF Jobs

(* monitorJob of a ready job: a place is taken only where there is room. *)
LEMMA MonitorPlaces ==
  ASSUME NEW J \in Jobs, NEW j \in Ids,
         J[j].state = "ready", MonitorReady(J, j), \A i \in Ids : Keeps(i, J[i])
  PROVE  Leaves \/ Places
<1>1. ASSUME NEW r \in JobRecord, job' = [J EXCEPT ![j] = r], Alike(J[j], r) PROVE Leaves
  <2>1. job'[j] = r /\ \A i \in Ids \ {j} : job'[i] = J[i]
    BY <1>1, HashAt
  <2>2. HasPlace(r) => HasPlace(J[j])
    BY <1>1 DEF HasPlace, Alike
  <2>3. Keeps(j, r)
    BY <1>1, <2>2, AlikeKeeps
  <2> QED
    BY <2>1, <2>3 DEF Leaves
<1>2. CASE \E b \in BOOLEAN : job' = Enqueue(J, j, b)
  BY <1>1, <1>2, EnqueueAlike
<1>3. CASE job' = Abort(J, j)
  BY <1>1, <1>3, AbortAlike
<1>4. CASE \E s \in Candidates(J, j) : job' = [J EXCEPT ![j] = Start(@, s)]
  <2>1. PICK s \in Candidates(J, j) : job' = [J EXCEPT ![j] = Start(J[j], s)]
    BY <1>4
  <2>2. J[j] \in JobRecord /\ HasCapacity(J, s, Weight[J[j].event])
    BY DEF Jobs, Candidates
  <2>3. Start(J[j], s).server = s /\ Start(J[j], s).event = J[j].event
    BY <2>2 DEF Start, JobRecord
  <2>4. job'[j] = Start(J[j], s) /\ \A i \in Ids \ {j} : job'[i] = J[i]
    BY <2>1, HashAt
  <2>5. Takes(j)
    BY <2>2, <2>3, <2>4 DEF Takes
  <2> QED
    BY <2>4, <2>5 DEF Places
<1> QED
  BY <1>2, <1>3, <1>4 DEF MonitorReady

(* launchJob of a record that has no server. *)
LEMMA LaunchPlaces ==
  ASSUME Base, NEW J \in Jobs, NEW r \in JobRecord, r.server = NoServer, LaunchJob(J, r),
         launched < MaxLaunches, \A i \in Ids : Keeps(i, J[i])
  PROVE  Leaves \/ Places
<1> DEFINE l == launched + 1
           K == [J EXCEPT ![l] = r]
<1>1. l \in Ids
  BY BoundAssumption DEF Base, TypeOK, Ids
<1>2. LaunchJob(J, r)
  OBVIOUS
<1>3. CASE r.state = "ready"
  <2>1. MonitorReady(K, l)
    BY <1>2, <1>3 DEF LaunchJob
  <2>2. K \in Jobs /\ K[l] = r /\ \A i \in Ids \ {l} : K[i] = J[i]
    BY <1>1 DEF Jobs
  <2> HIDE DEF K, l
  <2>3. Keeps(l, r)
    BY FiniteAssumption DEF Keeps, HasPlace
  <2>4. \A i \in Ids : Keeps(i, K[i])
    BY <2>2, <2>3
  <2> QED
    BY <1>1, <1>3, <2>1, <2>2, <2>4, MonitorPlaces
<1>4. CASE r.state # "ready"
  <2>1. job' = K
    BY <1>2, <1>4 DEF LaunchJob
  <2>2. K[l] = r /\ \A i \in Ids \ {l} : K[i] = J[i]
    BY <1>1 DEF Jobs
  <2> HIDE DEF K, l
  <2>3. Keeps(l, r)
    BY FiniteAssumption DEF Keeps, HasPlace
  <2> QED
    BY <2>1, <2>2, <2>3 DEF Leaves
<1> QED
  BY <1>3, <1>4

-----------------------------------------------------------------------------
(* Every step. *)

(* A delayed or a queued job is looked at. *)
LEMMA ReadyPlaces ==
  ASSUME Base, NEW j \in Ids, job[j].state \in Waiting,
         MonitorReady([job EXCEPT ![j].state = "ready"], j)
  PROVE  Leaves \/ Places
<1> DEFINE r == [job[j] EXCEPT !.state = "ready"]
           J == [job EXCEPT ![j] = r]
<1>1. job[j] \in JobRecord /\ job \in Jobs
  BY Known
<1>2. MonitorReady(J, j) /\ r \in JobRecord /\ r.state = "ready" /\ Alike(job[j], r)
  BY <1>1 DEF JobRecord, States, Alike
<1>3. HasPlace(r) => HasPlace(job[j])
  BY <1>2 DEF HasPlace, Waiting, Alike
<1> HIDE DEF r
<1>4. J \in Jobs /\ J[j] = r /\ \A i \in Ids \ {j} : J[i] = job[i]
  BY <1>1, <1>2 DEF Jobs
<1> HIDE DEF J
<1>5. Keeps(j, r)
  BY <1>2, <1>3, KeepsSelf, AlikeKeeps
<1>6. \A i \in Ids : Keeps(i, J[i])
  BY <1>4, <1>5, KeepsSelf
<1> QED
  BY <1>2, <1>4, <1>6, MonitorPlaces

(* One turn of the queue loop. *)
LEMMA MonitorQueuePlaces == ASSUME Base, NEW k \in Keys, MonitorQueue(k) PROVE Leaves \/ Places
<1>1. CASE UNCHANGED job
  BY <1>1, NobodyMoves
<1>2. CASE \E h \in Queued(job, k) : MonitorReady([job EXCEPT ![h].state = "ready"], h)
  <2>1. PICK h \in Ids : /\ job[h].state = "queued"
                         /\ MonitorReady([job EXCEPT ![h].state = "ready"], h)
    BY <1>2 DEF Queued, KeyJobs
  <2> QED
    BY <2>1, ReadyPlaces DEF Waiting
<1> QED
  BY <1>1, <1>2 DEF MonitorQueue

(* A job whose start actions are over has a server, or chooses again. *)
LEMMA SendAlike ==
  ASSUME NEW J \in Jobs, NEW j \in Ids, SendLaunch(J, j)
  PROVE  \E r : job' = [J EXCEPT ![j] = r] /\ Alike(J[j], r)
<1>1. J[j] \in JobRecord
  BY DEF Jobs
<1>2. CASE job' = [J EXCEPT ![j].remote = TRUE]
  <2>1. Alike(J[j], [J[j] EXCEPT !.remote = TRUE])
    BY <1>1 DEF Alike, JobRecord
  <2> QED
    BY <1>2, <2>1
<1>3. CASE job' = Abort(J, j)
  BY <1>3, AbortAlike
<1> QED
  BY <1>2, <1>3 DEF SendLaunch

(* The callback of the start actions: a resumed job chooses among the servers *)
(* that have room for it now.                                                  *)
LEMMA StartActionsDonePlaces ==
  ASSUME Base, NEW j \in Ids, StartActionsDone(j)
  PROVE  Leaves \/ Places
<1> DEFINE r == job[j]
           started == IF r.server = NoServer THEN Newest ELSE r.started
           q == [r EXCEPT !.state = "active", !.pending = "none", !.started = started]
           J == [job EXCEPT ![j] = q]
<1>1. r \in JobRecord /\ job \in Jobs /\ RecordOK(r) /\ Newest \in Nat
  BY Known DEF Base, TypeOK, Newest
<1>2. r.state \in {"starting", "complete"}
  BY <1>1 DEF RecordOK, StartActionsDone
<1>3. q \in JobRecord /\ Alike(r, q) /\ q.state = "active"
  <2>1. started \in Nat
    BY <1>1 DEF JobRecord
  <2> HIDE DEF started
  <2> QED
    BY <1>1, <2>1 DEF JobRecord, States, Alike
<1>4. \/ /\ r.state = "complete"
         /\ job' = [job EXCEPT ![j] = Finish(r, r.code)]
      \/ SendLaunch(J, j)
      \/ job' = Enqueue(J, j, TRUE)
      \/ /\ r.server = NoServer
         /\ \E s \in Candidates(J, j) : SendLaunch([J EXCEPT ![j].server = s], j)
  BY DEF StartActionsDone
<1>5. Finish(r, r.code).server = r.server /\ Finish(r, r.code).event = r.event
  BY <1>1 DEF Finish, JobRecord
<1> HIDE DEF q
<1>6. J \in Jobs /\ J[j] = q /\ \A i \in Ids \ {j} : J[i] = job[i]
  BY <1>1, <1>3 DEF Jobs
<1>7. \A c : [J EXCEPT ![j] = c] = [job EXCEPT ![j] = c]
  BY DEF Jobs
<1> HIDE DEF J
<1>8. ASSUME NEW c, job' = [job EXCEPT ![j] = c], Alike(r, c) PROVE Leaves
  <2>1. HasPlace(c) => HasPlace(r)
    BY <1>2, <1>8 DEF HasPlace, Alike
  <2>2. Keeps(j, c)
    BY <1>8, <2>1, KeepsSelf, AlikeKeeps
  <2> QED
    BY <1>8, <2>2, OneLeaves
<1>9. ASSUME NEW c, job' = [J EXCEPT ![j] = c], Alike(q, c) PROVE Leaves
  BY <1>3, <1>7, <1>8, <1>9 DEF Alike
<1>10. CASE job' = [job EXCEPT ![j] = Finish(r, r.code)]
  BY <1>5, <1>8, <1>10 DEF Alike
<1>11. CASE SendLaunch(J, j)
  BY <1>6, <1>9, <1>11, SendAlike
<1>12. CASE job' = Enqueue(J, j, TRUE)
  BY <1>6, <1>9, <1>12, EnqueueAlike
<1>13. CASE \E s \in Candidates(J, j) : SendLaunch([J EXCEPT ![j].server = s], j)
  <2>1. PICK s \in Candidates(J, j) : SendLaunch([J EXCEPT ![j].server = s], j)
    BY <1>13
  <2>2. s \in Servers /\ HasCapacity(J, s, Weight[q.event])
    BY <1>6, CandidatesType DEF Candidates
  <2> DEFINE p == [q EXCEPT !.server = s]
             K == [J EXCEPT ![j] = p]
  <2>3. p \in JobRecord /\ p.server = s /\ p.event = q.event
    BY <1>3, <2>2 DEF JobRecord
  <2>4. SendLaunch(K, j)
    BY <1>6, <2>1
  <2> HIDE DEF p
  <2>5. K \in Jobs /\ K[j] = p /\ \A i \in Ids \ {j} : K[i] = job[i] /\ K[i] = J[i]
    BY <1>6, <2>3 DEF Jobs
  <2> HIDE DEF K
  <2>6. PICK c : job' = [K EXCEPT ![j] = c] /\ Alike(p, c)
    BY <2>4, <2>5, SendAlike
  <2>7. job'[j] = c /\ \A i \in Ids \ {j} : job'[i] = K[i]
    BY <2>5, <2>6, HashAt
  <2>8. Takes(j)
    BY <1>6, <2>2, <2>3, <2>5, <2>6, <2>7 DEF Takes, Alike
  <2>9. \A i \in Ids \ {j} : Keeps(i, job'[i])
    BY <2>5, <2>7, KeepsSelf
  <2> QED
    BY <2>8, <2>9 DEF Places
<1> QED
  BY <1>4, <1>10, <1>11, <1>12, <1>13

(* The end of prepJobLog: the retry has no server yet. *)
LEMMA JobLogReadyPlaces == ASSUME Base, NEW j \in Ids, JobLogReady(j) PROVE Leaves \/ Places
<1> DEFINE r == job[j]
           checked == IF RetryChecked(r) THEN [r EXCEPT !.retry_ok = FALSE] ELSE r
           last == [checked EXCEPT !.retried = TRUE]
           again == RetryChecked(r) /\ r.retry_count < Retries[r.event] /\ LaunchAllowed(r.event)
           q == EndActions(IF again THEN last ELSE checked)
<1>1. r \in JobRecord /\ job \in Jobs /\ RecordOK(r) /\ r.pending = "job_log" /\ j \in 1..MaxLaunches
  BY Known DEF JobLogReady, Ids
<1>2. r.state = "complete"
  BY <1>1 DEF RecordOK
<1>3. checked \in JobRecord /\ Alike(r, checked)
  BY <1>1 DEF JobRecord, Alike
<1>4. last \in JobRecord /\ Alike(r, last)
  <2> HIDE DEF checked, r
  <2> QED
    BY <1>3 DEF JobRecord, Alike
<1>5. q \in JobRecord /\ Alike(r, q)
  <2> DEFINE p == IF again THEN last ELSE checked
  <2>1. p \in JobRecord /\ Alike(r, p)
    BY <1>3, <1>4
  <2> HIDE DEF p
  <2>2. EndActions(p) \in JobRecord /\ Alike(r, EndActions(p))
    BY <2>1 DEF EndActions, JobRecord, Alike
  <2> QED
    BY <2>2 DEF p
<1>6. Keeps(j, q)
  BY <1>2, <1>5, KeepsSelf, AlikeKeeps DEF HasPlace, Alike
<1>7. CASE ~again
  <2>1. job' = [job EXCEPT ![j] = q]
    BY <1>7 DEF JobLogReady
  <2> HIDE DEF q
  <2> QED
    BY <1>6, <2>1, OneLeaves
<1>8. CASE again
  <2> DEFINE J == [job EXCEPT ![j] = q]
             n == RetryOf(r, j)
  <2>1. LaunchJob(J, n) /\ launched < MaxLaunches
    BY <1>8 DEF JobLogReady, LaunchAllowed
  <2>2. NewRecord(n) /\ n.server = NoServer
    BY RetryType DEF RetryOf, Blank
  <2> HIDE DEF q, n
  <2>3. J \in Jobs /\ J[j] = q /\ \A i \in Ids \ {j} : J[i] = job[i]
    BY <1>1, <1>5 DEF Jobs
  <2> HIDE DEF J
  <2>4. \A i \in Ids : Keeps(i, J[i])
    BY <1>6, <2>3, KeepsSelf
  <2> QED
    BY <2>1, <2>2, <2>3, <2>4, LaunchPlaces DEF NewRecord
<1> QED
  BY <1>7, <1>8

(* launchJob for a trigger or a user. *)
LEMMA FirstLaunchPlaces ==
  ASSUME Base, NEW e \in Events, NEW p \in Priorities, NEW st \in FirstStates, Launch(e, p, st)
  PROVE  Leaves \/ Places
<1> DEFINE r == [Blank(e) EXCEPT !.state = st, !.priority = p, !.started = Newest]
<1>1. r \in JobRecord /\ r.server = NoServer
  <2>1. Blank(e) \in JobRecord
    BY BlankType
  <2>2. st \in {"ready", "start_delay"} /\ p \in BOOLEAN /\ Newest \in Nat
    BY EventAssumption DEF Newest, Base, TypeOK
  <2>3. r.server = NoServer
    BY DEF Blank
  <2> QED
    BY <2>1, <2>2, <2>3 DEF JobRecord, States
<1>2. job \in Jobs /\ LaunchJob(job, r) /\ launched < MaxLaunches
  BY DEF Base, TypeOK, Jobs, Launch, LaunchAllowed
<1> HIDE DEF r
<1> QED
  BY <1>1, <1>2, KeepsSelf, LaunchPlaces

(* An aborted job keeps its server until it has gone. *)
LEMMA AbortsLeave ==
  ASSUME Base, NEW j \in Ids, DeadTimeout(j) \/ LimitFire(j) \/ UserAbort(j)
  PROVE  Leaves
<1>1. job[j] \in JobRecord /\ job \in Jobs
  BY Known
<1>2. PICK r0 \in JobRecord : Alike(job[j], r0) /\ job' = Abort([job EXCEPT ![j] = r0], j)
  <2>1. CASE DeadTimeout(j)
    <3> DEFINE r0 == [job[j] EXCEPT !.retry_ok = TRUE]
    <3>1. r0 \in JobRecord /\ Alike(job[j], r0)
      BY <1>1 DEF JobRecord, Alike
    <3> QED
      BY <2>1, <3>1 DEF DeadTimeout
  <2>2. CASE LimitFire(j)
    <3> DEFINE r0 == [job[j] EXCEPT !.limit = "fired", !.retry_ok = TRUE]
    <3>1. r0 \in JobRecord /\ Alike(job[j], r0)
      BY <1>1 DEF JobRecord, Alike
    <3> QED
      BY <2>2, <3>1 DEF LimitFire
  <2>3. CASE UserAbort(j)
    <3>1. job = [job EXCEPT ![j] = job[j]]
      BY <1>1 DEF Jobs
    <3> QED
      BY <1>1, <2>3, <3>1 DEF UserAbort, Alike
  <2> QED
    BY <2>1, <2>2, <2>3
<1> DEFINE J == [job EXCEPT ![j] = r0]
<1>3. J \in Jobs /\ J[j] = r0 /\ \A c : [J EXCEPT ![j] = c] = [job EXCEPT ![j] = c]
  BY <1>1 DEF Jobs
<1>4. job' = Abort(J, j)
  BY <1>2
<1> HIDE DEF J
<1>5. PICK r : job' = [job EXCEPT ![j] = r] /\ Alike(job[j], r)
  <2>1. PICK r \in JobRecord : Abort(J, j) = [J EXCEPT ![j] = r] /\ Alike(J[j], r)
    BY <1>3, AbortAlike
  <2> QED
    BY <1>2, <1>3, <1>4, <2>1 DEF Alike
<1>6. job[j].state \notin {"none", "gone"}
  BY <1>1, Known DEF DeadTimeout, LimitFire, UserAbort, Live, RecordOK
<1>7. Keeps(j, r)
  BY <1>5, <1>6, KeepsSelf, AlikeKeeps DEF HasPlace, Alike
<1> QED
  BY <1>5, <1>7, OneLeaves

(* The steps that change the record of a job and nothing else. *)
LEMMA RecordsLeave ==
  ASSUME Base, NEW j \in Ids, Resume(j) \/ LimitTrigger(j) \/ EndActionsDone(j) \/ Indexed(j)
  PROVE  Leaves
<1>1. job[j] \in JobRecord
  BY Known
<1>2. ASSUME NEW r, job' = [job EXCEPT ![j] = r],
             r.state = job[j].state, r.event = job[j].event, r.server \in {job[j].server, NoServer}
      PROVE  Leaves
  <2>1. Keeps(j, r)
    BY <1>2, FiniteAssumption DEF Keeps, HasPlace
  <2> QED
    BY <1>2, <2>1, OneLeaves
<1>3. CASE Resume(j)
  <2> DEFINE r == [job[j] EXCEPT !.suspended = FALSE, !.resumed = TRUE, !.server = NoServer]
  <2>1. r.state = job[j].state /\ r.event = job[j].event /\ r.server = NoServer
    BY <1>1 DEF JobRecord
  <2>2. job' = [job EXCEPT ![j] = r]
    BY <1>3 DEF Resume
  <2> HIDE DEF r
  <2> QED
    BY <1>2, <2>1, <2>2
<1>4. CASE LimitTrigger(j)
  <2> DEFINE r == [job[j] EXCEPT !.limit = "firing"]
  <2>1. r.state = job[j].state /\ r.event = job[j].event /\ r.server = job[j].server
    BY <1>1 DEF JobRecord
  <2>2. job' = [job EXCEPT ![j] = r]
    BY <1>4 DEF LimitTrigger
  <2> HIDE DEF r
  <2> QED
    BY <1>2, <2>1, <2>2
<1>5. CASE EndActionsDone(j)
  <2> DEFINE r == [job[j] EXCEPT !.pending = "insert"]
  <2>1. r.state = job[j].state /\ r.event = job[j].event /\ r.server = job[j].server
    BY <1>1 DEF JobRecord
  <2>2. job' = [job EXCEPT ![j] = r]
    BY <1>5 DEF EndActionsDone
  <2> HIDE DEF r
  <2> QED
    BY <1>2, <2>1, <2>2
<1>6. CASE Indexed(j)
  <2>1. Keeps(j, Gone(job[j]))
    BY <1>1, GoneType DEF Keeps, HasPlace
  <2> QED
    BY <1>6, <2>1, OneLeaves DEF Indexed
<1> QED
  BY <1>3, <1>4, <1>5, <1>6

(* An update of a satellite. *)
LEMMA UpdateLeaves == ASSUME Base, NEW j \in Ids, Update(j) PROVE Leaves
<1>1. job[j] \in JobRecord /\ job[j].state \notin {"none", "gone"}
  BY Known DEF Update, Live
<1>2. CASE UNCHANGED job
  BY <1>2, NobodyMoves
<1>3. ASSUME NEW r, job' = [job EXCEPT ![j] = r], Alike(job[j], r) PROVE Leaves
  <2>1. Keeps(j, r)
    BY <1>1, <1>3, KeepsSelf, AlikeKeeps DEF HasPlace, Alike
  <2> QED
    BY <1>3, <2>1, OneLeaves
<1>4. CASE job' = [job EXCEPT ![j] = Finish(job[j], sat[j].phase)]
  <2>1. Alike(job[j], Finish(job[j], sat[j].phase))
    BY <1>1 DEF Finish, Alike, JobRecord
  <2> QED
    BY <1>3, <1>4, <2>1
<1>5. CASE job' = [job EXCEPT ![j] = [job[j] EXCEPT !.remote = TRUE,
                     !.state = IF sat[j].phase = "running" THEN "active" ELSE "finishing"]]
  <2> DEFINE st == IF sat[j].phase = "running" THEN "active" ELSE "finishing"
             r == [job[j] EXCEPT !.remote = TRUE, !.state = st]
  <2>1. job' = [job EXCEPT ![j] = r]
    BY <1>5
  <2> HIDE DEF st
  <2>2. Alike(job[j], r)
    BY <1>1 DEF Alike, JobRecord
  <2> HIDE DEF r
  <2> QED
    BY <1>3, <2>1, <2>2
<1> QED
  BY <1>2, <1>4, <1>5 DEF Update

(* removeServer and api_flush_job_queue. *)
LEMMA ManyLeave ==
  ASSUME Base, (\E s \in Servers : RemoveServer(s)) \/ (\E k \in Keys : Flush(k))
  PROVE  Leaves
<1> SUFFICES ASSUME NEW i \in Ids PROVE Keeps(i, job'[i])
  BY DEF Leaves
<1>1. job[i] \in JobRecord
  BY Known
<1>2. job'[i] \in {job[i], [job[i] EXCEPT !.remote = FALSE], Gone(job[i])}
  BY DEF RemoveServer, Flush
<1>3. CASE job'[i] = job[i]
  BY <1>3, KeepsSelf
<1>4. CASE job'[i] = [job[i] EXCEPT !.remote = FALSE]
  <2>1. job'[i].state = job[i].state /\ job'[i].event = job[i].event /\ job'[i].server = job[i].server
    BY <1>1, <1>4 DEF JobRecord
  <2> QED
    BY <2>1 DEF Keeps, HasPlace
<1>5. CASE job'[i] = Gone(job[i])
  BY <1>1, <1>5, GoneType DEF Keeps, HasPlace
<1> QED
  BY <1>2, <1>3, <1>4, <1>5

(* Every action. *)
LEMMA PlacesStep == ASSUME Base, Next PROVE Leaves \/ Places
<1>1. ASSUME NEW e \in Events, NEW p \in Priorities, NEW st \in FirstStates, Launch(e, p, st)
      PROVE  Leaves \/ Places
  BY <1>1, FirstLaunchPlaces
<1>2. ASSUME NEW j \in Ids, JobStep(j) PROVE Leaves \/ Places
  <2>1. CASE DelayOver(j)
    BY <2>1, ReadyPlaces DEF DelayOver, Waiting
  <2> QED
    BY <1>2, <2>1, StartActionsDonePlaces, JobLogReadyPlaces, AbortsLeave, RecordsLeave DEF JobStep
<1>3. ASSUME NEW j \in Ids, SatStep(j) \/ SatLose(j) PROVE Leaves
  <2>1. CASE Update(j)
    BY <2>1, UpdateLeaves
  <2>2. CASE UNCHANGED job
    BY <2>2, NobodyMoves
  <2> QED
    BY <1>3, <2>1, <2>2
       DEF SatStep, SatLaunch, SatExit, SatComplete, SatKill, SatLose, UpdateLate
<1>4. ASSUME NEW j \in Ids, Resume(j) \/ DeadTimeout(j) \/ LimitTrigger(j) \/ UserAbort(j)
      PROVE  Leaves
  BY <1>4, AbortsLeave, RecordsLeave
<1>5. ASSUME NEW k \in Keys, MonitorQueue(k) \/ Flush(k) PROVE Leaves \/ Places
  BY <1>5, MonitorQueuePlaces, ManyLeave
<1>6. ASSUME NEW s \in Servers, RemoveServer(s) PROVE Leaves
  BY <1>6, ManyLeave
<1>7. ASSUME \/ \E s \in Servers : AddServer(s) \/ ToggleServer(s)
             \/ \E e \in Events : ToggleEvent(e)
             \/ \E k \in Keys : WindowEnds(k) \/ ExpireRateLimit(k)
             \/ NewMinute
      PROVE  Leaves
  <2>1. UNCHANGED job
    BY <1>7 DEF AddServer, ToggleServer, ToggleEvent, WindowEnds, ExpireRateLimit, NewMinute
  <2> QED
    BY <2>1, NobodyMoves
<1> QED
  BY <1>1, <1>2, <1>3, <1>4, <1>5, <1>6, <1>7 DEF Next

(* filterServerByMaxJobs: no server carries more weight than its maximum,       *)
(* whatever the numbers of jobs, events and servers: the job that takes a place *)
(* is weighed against all that have one, in the callback that gives it.         *)
THEOREM ServerLoadCorrect == Spec => []ServerLoadBound
<1>1. Init => ServerLoadBound
  <2> SUFFICES ASSUME Init, NEW s \in Servers, ServerMax[s] > 0 PROVE Load(job, s) <= ServerMax[s]
    BY DEF ServerLoadBound
  <2>1. job \in Jobs
    BY BaseInit DEF Base, TypeOK, Jobs
  <2>2. Seats(job, s) = {}
    BY DEF Seats, Live, Init, Blank
  <2>3. PICK h : /\ Sums(h, [j \in Seats(job, s) |-> Weight[job[j].event]], Seats(job, s))
                 /\ Load(job, s) = h[Seats(job, s)]
    BY <2>1, LoadSums
  <2>4. Load(job, s) = 0
    BY <2>2, <2>3 DEF Sums
  <2> QED
    BY <2>4, LimitAssumption
<1>2. Base /\ Base' /\ ServerLoadBound /\ [Next]_vars => ServerLoadBound'
  BY PlacesStep, NobodyMoves, PlacesBound DEF vars
<1> QED
  BY <1>1, <1>2, BaseHolds, PTL DEF Spec

=============================================================================
