------------------------------ MODULE Workflow ------------------------------
(***************************************************************************)
(* One running workflow: lib/workflow.js, with what lib/job.js does to its *)
(* sub-jobs.                                                               *)
(*                                                                         *)
(* Running a node runs the nodes it is wired to before it returns, so one  *)
(* callback of the code is a depth-first walk.  `agenda' is the rest of    *)
(* that walk and `pass' the rest of the loop of tickWorkflow over the      *)
(* nodes; no other callback starts before both are empty (Quiet).          *)
(*                                                                         *)
(* A job of the workflow is a slot: a sub-job in activeJobs or a replay    *)
(* that is being loaded.  Completed jobs are only counted per node.  What  *)
(* expressions, servers and input data decide is a free choice.            *)
(***************************************************************************)
EXTENDS Integers, Sequences, FiniteSets, FiniteSetsExt

CONSTANTS
  Nodes, NoNode,
  Flows,      \* the workflows: graph and settings, see FlowType
  MaxJobs,    \* max_jobs_per_workflow
  RoundsDown, \* the successes and sizes whose percentage floating point puts below a whole number
  MaxItems,   \* bound: servers of a multiplex, items of a split
  Slots,      \* bound: jobs at one time
  Flushable   \* bound: whether queued sub-jobs may be flushed

Controlling == {"multiplex", "repeat", "split"}
Controllers == Controlling \cup {"join", "decision", "wait"}
Kinds == Controllers \cup {"trigger", "event", "job", "action"}
Conditions == {"none", "complete", "success", "error", "continue"}

Wire == [to : Nodes, on : Conditions]
FlowType ==
  [kind : [Nodes -> Kinds], out : [Nodes -> Seq(Wire)], start : Nodes,
   repeat : Nat, percent : 0..100,   \* settings of the controllers
   replays : SUBSET Nodes,           \* nodes that replay old jobs
   redirects : SUBSET Nodes,         \* where a resumed job may jump to
   first_abort : BOOLEAN,            \* option: abort on the first failure
   retries : Nat]                    \* retry limit of the sub-jobs

ASSUME FlowAssumption ==
  /\ Flows \subseteq FlowType
  /\ NoNode \notin Nodes
  /\ RoundsDown \subseteq Nat \X (Nat \ {0})
  /\ \A p \in RoundsDown : (p[1] * 100) % p[2] = 0 /\ p[1] % p[2] # 0
  /\ Slots \subseteq Nat /\ MaxItems \in Nat /\ MaxJobs \in Nat /\ Flushable \in BOOLEAN
  /\ IsFiniteSet(Slots) /\ IsFiniteSet(Nodes)

VARIABLES
  flow,      \* the definition this workflow runs
  phase,     \* "active" until job.complete
  aborted,   \* workflow.aborted
  result,    \* job.code
  agenda,    \* nodes still to run in this callback
  pass,      \* nodes still to visit in this tick
  node,      \* workflow.state
  jobs,      \* workflow.jobs: completed jobs per node
  sub,       \* sub-jobs in activeJobs and replays that load
  lost,      \* ghost: controllers one of whose jobs was flushed
  reentered, \* ghost: controllers and actions run again while active
  rounds,    \* ghost: how often each controller has launched a set of jobs
  won        \* ghost: successes among the jobs of the present set

vars == <<flow, phase, aborted, result, agenda, pass, node, jobs, sub,
          lost, reentered, rounds, won>>
walk   == <<agenda, pass>>
ending == <<phase, aborted, result>>
ghosts == <<lost, reentered, rounds, won>>

NodeState == [active : BOOLEAN, error : BOOLEAN, count : Nat, max : Nat,
              due : BOOLEAN, input : BOOLEAN]
Tally == [ok : Nat, bad : Nat, retried : Nat]
Item == [node : Nodes, source : Nodes \cup {NoNode}, input : BOOLEAN, fires : BOOLEAN]
SubPhases == {"none", "active", "ending", "closing", "loading"}
SubJob == [phase : SubPhases, node : Nodes \cup {NoNode}, launcher : Nodes \cup {NoNode},
           ok : BOOLEAN, retried : BOOLEAN, left : Nat, killed : BOOLEAN, retry : BOOLEAN]

NoSub == [phase |-> "none", node |-> NoNode, launcher |-> NoNode, ok |-> FALSE,
          retried |-> FALSE, left |-> 0, killed |-> FALSE, retry |-> FALSE]

-----------------------------------------------------------------------------
Kind(n) == flow.kind[n]
Out(n)  == flow.out[n]
Wires(n) == UNION {{m} \X {i \in DOMAIN Out(m) : Out(m)[i].to = n} : m \in Nodes}

LivePhases == {"active", "ending", "closing"}
Live(S) == {s \in Slots : S[s].phase \in LivePhases}
Loading == {s \in Slots : sub[s].phase = "loading"}
Free    == {s \in Slots : sub[s].phase = "none"}
NewSlot == CHOOSE s \in Free : \A t \in Free : s <= t

Sum(f(_)) == MapThenSumSet(f, Nodes)
Stubs(n) == jobs[n].ok + jobs[n].bad + jobs[n].retried

(* countTotalWFJobs: replays that are still loading are in neither list. *)
TotalJobs == Cardinality(Live(sub)) + Sum(Stubs)

Quiet == agenda = <<>> /\ pass = {}
Going == phase = "active" /\ ~aborted

(* The items of the wires of n that carry one of the conditions. *)
Follow(n, source, input, conditions) ==
  [i \in DOMAIN Out(n) |->
     [node |-> Out(n)[i].to, source |-> source, input |-> input,
      fires |-> Out(n)[i].on \in conditions]]
Times(k, n, source, input) ==
  [i \in 1..k |-> [node |-> n, source |-> source, input |-> input, fires |-> TRUE]]

(* abortWorkflow: S and N are the sub-jobs and node states the abort finds. *)
Kill(S) ==
  [s \in Slots |->
     CASE S[s].phase = "active" -> [S[s] EXCEPT !.killed = TRUE]
       [] S[s].phase \in {"ending", "closing"} -> [S[s] EXCEPT !.ok = FALSE]
       [] OTHER -> S[s]]
Deactivate(N) ==
  [n \in Nodes |-> IF Kind(n) \in Controllers THEN [N[n] EXCEPT !.active = FALSE] ELSE N[n]]
Abort(S, N) ==
  /\ node' = Deactivate(N)
  /\ sub' = Kill(S)
  /\ IF Live(S) = {}
     THEN phase' = "complete" /\ result' = "abort" /\ aborted' = FALSE
     ELSE aborted' = TRUE /\ UNCHANGED <<phase, result>>

-----------------------------------------------------------------------------
(* runWorkflowNode: the head of the agenda. *)
(* Mutant: an aborted workflow goes on until it is complete. *)

Item1 == Head(agenda)
Enter_Complete(n, kind) ==
  /\ agenda # <<>> /\ Item1.fires /\ Item1.node = n /\ Kind(n) = kind
  /\ phase = "active"
Enter(n, kind) ==
  /\ agenda # <<>> /\ Item1.fires /\ Item1.node = n /\ Kind(n) = kind
  /\ Going
Then(items) == agenda' = items \o Tail(agenda)
Calm == UNCHANGED <<flow, ending, pass, jobs, sub, ghosts>>
Fails(n) == node' = [node EXCEPT ![n].error = TRUE] /\ Then(<<>>)

SkipItem ==
  /\ agenda # <<>>
  /\ ~Item1.fires \/ ~Going
  /\ Then(<<>>)
  /\ UNCHANGED <<flow, ending, pass, node, jobs, sub, ghosts>>

RunTrigger(n) ==
  /\ Enter(n, "trigger")
  /\ IF Out(n) = <<>> THEN Fails(n)
     ELSE Then(Follow(n, n, Item1.input, Conditions)) /\ UNCHANGED node
  /\ Calm

(* launchJob answers with an id or an error; a job that is queued or delayed *)
(* or aborted at once is an active job like any other.                       *)
Launch(n) ==
  /\ Free # {}
  /\ sub' = [sub EXCEPT ![NewSlot] =
       [NoSub EXCEPT !.phase = "active", !.node = n, !.launcher = Item1.source,
                     !.left = flow.retries]]
  /\ UNCHANGED <<ending, node>>

(* replayWorkflowJob up to the asynchronous load. *)
Replay(n) ==
  /\ Free # {}
  /\ sub' = [sub EXCEPT ![NewSlot] =
       [NoSub EXCEPT !.phase = "loading", !.node = n, !.launcher = Item1.source]]
  /\ UNCHANGED <<ending, node>>

RunJobNode(n) ==
  /\ IF TotalJobs >= MaxJobs THEN Abort(sub, node)
     ELSE IF n \in flow.replays THEN Replay(n)
     ELSE Launch(n) \/ Abort(sub, node)
  /\ Then(<<>>)
  /\ UNCHANGED <<flow, pass, jobs, ghosts>>

RunJob(n) == Enter(n, "job") /\ RunJobNode(n)

(* An event node may also find that its event is gone. *)
RunEvent(n) ==
  /\ Enter(n, "event")
  /\ \/ RunJobNode(n)
     \/ Abort(sub, node) /\ Then(<<>>) /\ UNCHANGED <<flow, pass, jobs, ghosts>>

Reenter(n) == reentered' = IF node[n].active THEN reentered \cup {n} ELSE reentered

(* Skipped, a suspend action, or run: `count' is the callbacks outstanding. *)
RunAction(n) ==
  /\ Enter(n, "action")
  /\ \/ UNCHANGED node
     \/ node' = [node EXCEPT ![n].error = TRUE]
     \/ node' = [node EXCEPT ![n].active = TRUE, ![n].count = @ + 1]
  /\ Then(<<>>)
  /\ Reenter(n)
  /\ UNCHANGED <<flow, ending, pass, jobs, sub, lost, rounds, won>>

(* One wire, to a job or event: the controllers that launch a set of jobs. *)
Managed(n) == Len(Out(n)) = 1 /\ Kind(Out(n)[1].to) \in {"job", "event"}
Manage(n, k) ==
  /\ node' = [node EXCEPT ![n].active = TRUE, ![n].max = k, ![n].count = 0]
  /\ Then(Times(k, Out(n)[1].to, n, Item1.input))
  /\ Reenter(n)
  /\ rounds' = [rounds EXCEPT ![n] = @ + 1]
  /\ won' = [won EXCEPT ![n] = 0]
  /\ UNCHANGED <<flow, ending, pass, jobs, sub, lost>>

RunMultiplex(n) ==
  /\ Enter(n, "multiplex")
  /\ \/ ~Managed(n) /\ Fails(n) /\ Calm
     \/ Managed(n) /\ Then(<<>>) /\ UNCHANGED node /\ Calm     \* no server now
     \/ Managed(n) /\ \E k \in 1..MaxItems : Manage(n, k)
     \/ /\ Managed(n)                                           \* no targets
        /\ Abort(sub, [node EXCEPT ![n].error = TRUE])
        /\ Then(<<>>) /\ UNCHANGED <<flow, pass, jobs, ghosts>>

RunRepeat(n) ==
  /\ Enter(n, "repeat")
  /\ \/ ~Managed(n) /\ Fails(n) /\ Calm
     \/ Managed(n) /\ Manage(n, IF flow.repeat = 0 THEN 1 ELSE flow.repeat)

(* continueWFController: d is the controlled node, m the size of the set. *)
Percentage(a, m) == (a * 100) \div m - (IF <<a, m>> \in RoundsDown THEN 1 ELSE 0)
Met_AllStubs(d, m, J) ==
  Percentage(J[d].ok + J[d].retried, IF m = 0 THEN 1 ELSE m) >= flow.percent
Met(d, m, J) == Percentage(J[d].ok, IF m = 0 THEN 1 ELSE m) >= flow.percent
Continue(d, m, J) ==
  IF Met(d, m, J) THEN Follow(d, NoNode, FALSE, {"continue"}) ELSE <<>>

(* Each item once per wire, in the order of the wires. *)
Unmanaged(n, k) ==
  [i \in 1..(k * Len(Out(n))) |->
     [node |-> Out(n)[((i - 1) \div k) + 1].to, source |-> n, input |-> TRUE, fires |-> TRUE]]

RunSplit(n) ==
  /\ Enter(n, "split")
  /\ \/ Fails(n) /\ Calm           \* no input, no list, empty, or no wire
     \/ /\ Item1.input /\ Out(n) # <<>> /\ ~Managed(n)
        /\ \E k \in 0..MaxItems :
             (k > 0 \/ flow.percent = 0) /\ Then(Unmanaged(n, k))
        /\ node' = [node EXCEPT ![n].active = FALSE]
        /\ Calm
     \/ /\ Item1.input /\ Managed(n) /\ flow.percent = 0    \* an empty list
        /\ Then(Continue(Out(n)[1].to, 0, jobs))
        /\ node' = [node EXCEPT ![n].active = FALSE, ![n].max = 0, ![n].count = 0]
        /\ Reenter(n)
        /\ UNCHANGED <<flow, ending, pass, jobs, sub, lost, rounds, won>>
     \/ Item1.input /\ Managed(n) /\ \E k \in 1..MaxItems : Manage(n, k)

(* The join counts arrivals. *)
RunJoin(n) ==
  /\ Enter(n, "join")
  /\ LET m == IF node[n].active THEN node[n].max ELSE Cardinality(Wires(n))
         c == (IF node[n].active THEN node[n].count ELSE 0) + 1
         Set(active, error) ==
           node' = [node EXCEPT ![n].active = active, ![n].max = m, ![n].count = c,
                                ![n].error = @ \/ error]
     IN  \/ m = 0 /\ Fails(n)
         \/ m > c /\ Set(TRUE, FALSE) /\ Then(<<>>)
         \/ m \in 1..c /\ Len(Out(n)) # 1 /\ Set(FALSE, TRUE) /\ Then(<<>>)
         \/ /\ m \in 1..c /\ Len(Out(n)) = 1
            /\ Set(FALSE, FALSE) /\ Then(Times(1, Out(n)[1].to, n, TRUE))
  /\ Calm

RunDecision(n) ==
  /\ Enter(n, "decision")
  /\ \/ Fails(n) /\ Calm                                  \* no input, or no value
     \/ Item1.input /\ Then(<<>>) /\ UNCHANGED node /\ Calm    \* false
     \/ /\ Item1.input /\ Abort(sub, node)
        /\ Then(<<>>) /\ UNCHANGED <<flow, pass, jobs, ghosts>>
     \/ /\ Item1.input /\ Out(n) # <<>>
        /\ Then(Follow(n, n, TRUE, Conditions)) /\ UNCHANGED node /\ Calm

RunWait(n) ==
  /\ Enter(n, "wait")
  /\ \/ UNCHANGED node      \* it waits already, or has no time to wait
     \/ ~node[n].active
        /\ node' = [node EXCEPT ![n].active = TRUE, ![n].due = FALSE,
                                ![n].input = Item1.input]
  /\ Then(<<>>)
  /\ Calm

-----------------------------------------------------------------------------
(* What happens between two walks. *)

Push(s, ok) ==
  LET n == sub[s].node IN
  IF sub[s].retried THEN [jobs EXCEPT ![n].retried = @ + 1]
  ELSE IF ok THEN [jobs EXCEPT ![n].ok = @ + 1] ELSE [jobs EXCEPT ![n].bad = @ + 1]

(* updateWorkflowController *)
Counts(l) == l # NoNode /\ Kind(l) \in Controlling /\ node[l].active
Reached_Above(l) == node[l].count + 1 > node[l].max
Reached(l) == node[l].count + 1 >= node[l].max
Progress(l) ==
  IF Counts(l) THEN [node EXCEPT ![l].count = @ + 1, ![l].active = ~Reached(l)] ELSE node
AfterProgress(s, J) ==
  LET l == sub[s].launcher IN
  IF Counts(l) /\ Reached(l) THEN Continue(sub[s].node, node[l].max, J) ELSE <<>>

Ignored_Aborted(s) == ~Going
Ignored(s) == sub[s].retried \/ ~Going

(* finishWorkflowJob of a job that is out of activeJobs; `next' runs after the *)
(* controller: the wires that match the result, or the node a user jumps to.   *)
Finish(s, ok, next) ==
  LET S == [sub EXCEPT ![s] = NoSub]
      J == Push(s, ok)
  IN  /\ jobs' = J
      /\ IF Ignored(s)
         THEN sub' = S /\ UNCHANGED <<node, ending, agenda>>
         ELSE IF flow.first_abort /\ ~ok
         THEN Abort(S, node) /\ UNCHANGED agenda
         ELSE /\ sub' = S
              /\ node' = Progress(sub[s].launcher)
              /\ agenda' = AfterProgress(s, J) \o next
              /\ UNCHANGED ending
      /\ won' = [n \in Nodes |-> IF n = sub[s].launcher /\ ok /\ ~sub[s].retried
                                THEN won[n] + 1 ELSE won[n]]
      /\ UNCHANGED <<flow, pass, lost, reentered, rounds>>

(* The job itself runs the actions it is wired to. *)
Matching(s, ok) ==
  LET f == Follow(sub[s].node, NoNode, TRUE, {"complete", IF ok THEN "success" ELSE "error"})
  IN  [i \in DOMAIN f |-> [f[i] EXCEPT !.fires = @ /\ Kind(f[i].node) # "action"]]
Jump(n) == Times(1, n, NoNode, TRUE)

EndSub(s) ==
  /\ Quiet /\ sub[s].phase = "active"
  /\ \E ok \in BOOLEAN : sub' = [sub EXCEPT ![s].phase = "ending", ![s].ok = ok]
  /\ UNCHANGED <<flow, ending, walk, node, jobs, ghosts>>

(* The properties checkRetryJob keeps.  Mutant: the launcher is not among them. *)
RetryOf_NoLauncher(s) ==
  [NoSub EXCEPT !.phase = "active", !.node = sub[s].node,
                !.left = sub[s].left - 1, !.retry = TRUE]
RetryOf(s) ==
  [NoSub EXCEPT !.phase = "active", !.node = sub[s].node, !.launcher = sub[s].launcher,
                !.left = sub[s].left - 1, !.retry = TRUE]

(* checkRetryJob in finishJob.  Aborted jobs may be retried too (retry_ok, force). *)
CheckRetry(s) ==
  /\ Quiet /\ sub[s].phase = "ending"
  /\ \/ sub' = [sub EXCEPT ![s].phase = "closing"]
     \/ /\ ~sub[s].ok /\ sub[s].left > 0 /\ Free # {}
        /\ sub' = [sub EXCEPT
             ![s].phase = "closing", ![s].retried = TRUE,
             ![NewSlot] = RetryOf(s)]
  /\ UNCHANGED <<flow, ending, walk, node, jobs, ghosts>>

FinishSub(s) ==
  /\ Quiet /\ sub[s].phase = "closing"
  /\ \/ Finish(s, sub[s].ok, Matching(s, sub[s].ok))
     \/ \E n \in flow.redirects : Finish(s, sub[s].ok, Jump(n))

(* The callback of the load in replayWorkflowJob. *)
ReplayLoaded(s) ==
  /\ Quiet /\ sub[s].phase = "loading"
  /\ IF phase = "complete"
     THEN sub' = [sub EXCEPT ![s] = NoSub] /\ UNCHANGED <<flow, ending, walk, node, jobs, ghosts>>
     ELSE \/ \E ok \in BOOLEAN : Finish(s, ok, Matching(s, ok))
          \/ /\ IF aborted
                THEN sub' = [sub EXCEPT ![s] = NoSub] /\ UNCHANGED <<node, ending>>
                ELSE Abort([sub EXCEPT ![s] = NoSub], node)
             /\ UNCHANGED <<flow, walk, jobs, ghosts>>

(* api_flush_job_queue deletes queued jobs without finishing them. *)
FlushSub(s) ==
  /\ Quiet /\ Flushable /\ sub[s].phase = "active" /\ ~sub[s].killed
  /\ sub' = [sub EXCEPT ![s] = NoSub]
  /\ lost' = lost \cup ({sub[s].launcher} \ {NoNode})
  /\ UNCHANGED <<flow, ending, walk, node, jobs, reentered, rounds, won>>

(* Mutant: the callback of an action comes again. *)
ActionDone_Again(n) ==
  /\ Quiet /\ Kind(n) = "action" /\ node[n].active
  /\ node' = [node EXCEPT ![n].count = @ - 1]
  /\ UNCHANGED <<flow, ending, walk, jobs, sub, ghosts>>

(* The callback of runJobAction; its tickWorkflow is the next tick. *)
ActionDone(n) ==
  /\ Quiet /\ Kind(n) = "action" /\ node[n].count > 0
  /\ node' = [node EXCEPT ![n].active = FALSE, ![n].count = @ - 1]
  /\ UNCHANGED <<flow, ending, walk, jobs, sub, ghosts>>

(* The time of a wait is over, or its user skipped it. *)
WaitOver(n) ==
  /\ Kind(n) = "wait" /\ node[n].active /\ ~node[n].due
  /\ node' = [node EXCEPT ![n].due = TRUE]
  /\ UNCHANGED <<flow, ending, walk, jobs, sub, ghosts>>

UserAbort ==
  /\ Quiet /\ Going
  /\ Abort(sub, node)
  /\ UNCHANGED <<flow, walk, jobs, ghosts>>

-----------------------------------------------------------------------------
(* tickWorkflow.  A tick that would change nothing is no step. *)
Waiting == \E n \in Nodes : Kind(n) = "wait" /\ node[n].active
Due(n)  ==
  /\ node[n].active
  /\ (Kind(n) = "wait" /\ node[n].due) \/ (Kind(n) = "join" /\ ~Waiting)

TickNodes ==
  /\ Quiet /\ Going /\ Live(sub) = {}
  /\ \E n \in Nodes : Due(n)
  /\ pass' = Nodes
  /\ UNCHANGED <<flow, ending, agenda, node, jobs, sub, ghosts>>

(* tickWFController_wait, tickWFController_join: each looks at the jobs and  *)
(* waits again, which the nodes ticked before it may have started.           *)
TickNode(n) ==
  /\ agenda = <<>> /\ n \in pass
  /\ pass' = pass \ {n}
  /\ \/ /\ Going /\ Kind(n) = "wait" /\ node[n].active /\ node[n].due
        /\ node' = [node EXCEPT ![n].active = FALSE]
        /\ agenda' = Follow(n, n, node[n].input, Conditions)
     \/ /\ Going /\ Kind(n) = "join" /\ node[n].active /\ Live(sub) = {} /\ ~Waiting
        /\ node' = [node EXCEPT ![n].active = FALSE]
        /\ UNCHANGED agenda
     \/ /\ ~(Going /\ Due(n) /\ (Kind(n) = "join" => Live(sub) = {}))
        /\ UNCHANGED <<node, agenda>>
  /\ UNCHANGED <<flow, ending, jobs, sub, lost, reentered, rounds, won>>

Ok(n)  == jobs[n].ok
Bad(n) == jobs[n].bad
Busy_NoLoading == \E n \in Nodes : node[n].active
Busy   == Loading # {} \/ \E n \in Nodes : node[n].active
Result ==
  IF Sum(Bad) = 0 THEN IF \E n \in Nodes : node[n].error THEN "warning" ELSE "ok"
  ELSE IF Sum(Ok) > 0 THEN "warning" ELSE "error"

TickEnd ==
  /\ Quiet /\ phase = "active" /\ Live(sub) = {}
  /\ aborted \/ ~Busy
  /\ result' = IF aborted THEN "abort" ELSE Result
  /\ phase' = "complete" /\ aborted' = FALSE
  /\ UNCHANGED <<flow, walk, node, jobs, sub, ghosts>>

Idle == phase = "complete" /\ Quiet /\ UNCHANGED vars

-----------------------------------------------------------------------------
(* startWorkflow *)
Init ==
  /\ flow \in Flows
  /\ phase = "active" /\ aborted = FALSE /\ result = "none"
  /\ agenda = <<[node |-> flow.start, source |-> NoNode, input |-> TRUE, fires |-> TRUE]>>
  /\ pass = {}
  /\ node = [n \in Nodes |-> [active |-> FALSE, error |-> FALSE, count |-> 0, max |-> 0,
                               due |-> FALSE, input |-> FALSE]]
  /\ jobs = [n \in Nodes |-> [ok |-> 0, bad |-> 0, retried |-> 0]]
  /\ sub = [s \in Slots |-> NoSub]
  /\ lost = {} /\ reentered = {}
  /\ rounds = [n \in Nodes |-> 0] /\ won = [n \in Nodes |-> 0]

RunNode(n) ==
  \/ RunTrigger(n) \/ RunJob(n) \/ RunEvent(n) \/ RunAction(n) \/ RunMultiplex(n)
  \/ RunRepeat(n) \/ RunSplit(n) \/ RunJoin(n) \/ RunDecision(n) \/ RunWait(n)

SubStep(s) ==
  EndSub(s) \/ CheckRetry(s) \/ FinishSub(s) \/ ReplayLoaded(s)

Next ==
  \/ SkipItem \/ TickNodes \/ TickEnd \/ UserAbort \/ Idle
  \/ \E n \in Nodes : RunNode(n) \/ ActionDone(n) \/ WaitOver(n) \/ TickNode(n)
  \/ \E s \in Slots : SubStep(s) \/ FlushSub(s)

Spec == Init /\ [][Next]_vars

(* Walks and ticks go on, jobs and actions end, replays load, time passes. *)
Fairness ==
  /\ WF_vars(SkipItem) /\ WF_vars(TickNodes) /\ WF_vars(TickEnd)
  /\ \A n \in Nodes :
       /\ WF_vars(RunNode(n)) /\ WF_vars(TickNode(n))
       /\ WF_vars(ActionDone(n)) /\ WF_vars(WaitOver(n))
  /\ \A s \in Slots : WF_vars(SubStep(s))

FairSpec == Spec /\ Fairness

-----------------------------------------------------------------------------
(* The shape of the variables. *)
TypeOK ==
  /\ flow \in Flows
  /\ phase \in {"active", "complete"} /\ aborted \in BOOLEAN
  /\ result \in {"none", "ok", "warning", "error", "abort"}
  /\ agenda \in Seq(Item) /\ pass \subseteq Nodes
  /\ node \in [Nodes -> NodeState] /\ jobs \in [Nodes -> Tally]
  /\ sub \in [Slots -> SubJob]
  /\ lost \subseteq Nodes /\ reentered \subseteq Nodes
  /\ rounds \in [Nodes -> Nat] /\ won \in [Nodes -> Nat]

(* What a controller still waits for: its jobs, without those that a retry *)
(* has replaced, and the runs of its node that are still ahead.            *)
Owed(n) == {s \in Slots : sub[s].phase # "none" /\ sub[s].launcher = n /\ ~sub[s].retried}
Ahead(n) == {i \in DOMAIN agenda : agenda[i].source = n /\ agenda[i].fires}

(* A controller never waits for more jobs than it has: retries, replays,     *)
(* launches that fail half way, aborts and second activations included.      *)
(* Otherwise its workflow would never end.  Flushed jobs are the exception.  *)
ControllerFed ==
  \A n \in Nodes \ lost :
    Kind(n) \in Controlling /\ node[n].active
    => Cardinality(Owed(n)) + Cardinality(Ahead(n)) >= node[n].max - node[n].count

(* docs/workflows.md:212: On Continue fires only after all jobs of the controller *)
(* have finished.  The code counts; counting is right if the controller was never *)
(* run again while active.                                                        *)
Completes(n) ==
  Kind(n) \in Controlling /\ node[n].active /\ ~node'[n].active
  /\ phase' = "active" /\ ~aborted'
ContinueAfterOwn == [][\A n \in Nodes \ reentered' : Completes(n) => Owed(n)' = {}]_vars

(* docs/workflows.md:228: the percentage is of the controlled jobs.  The code  *)
(* divides all successes its node ever had by the size of the present set; that *)
(* is right, retries included, for the first set of a node nothing else runs,   *)
(* but that exactly the percentage is not enough where floating point rounds it *)
(* down (29 of 50 at 58%), although docs/workflows.md:225 says "meets or exceeds". *)
Continues == \E i \in DOMAIN agenda' : agenda'[i].source = NoNode /\ ~agenda'[i].input
Alone(n, m) == Cardinality(Wires(m)) = 1 /\ m \notin flow.redirects /\ m # flow.start
Enough(a, m) == \/ a * 100 > flow.percent * m
                \/ a * 100 = flow.percent * m /\ <<a, m>> \notin RoundsDown
ContinueEarned ==
  [][\A n \in Nodes :
       Completes(n) /\ rounds[n] = 1 /\ Alone(n, Out(n)[1].to) /\ Out(Out(n)[1].to) # <<>>
       => (Continues <=> Enough(won'[n], node[n].max))]_vars

(* Once a workflow is aborted every sub-job left is told so, but for retries: *)
(* nothing else is launched by the walk the abort happened in.                *)
AbortReachesJobs ==
  aborted => \A s \in Slots : sub[s].phase = "active" => sub[s].killed \/ sub[s].retry

(* A workflow always ends, unless jobs of a controller were flushed. *)
WorkflowEnds == <>(phase = "complete" \/ lost # {})

Stopped == aborted \/ result = "abort"
Tasks ==
  {<<"job", s>> : s \in Live(sub)} \cup
  (IF Stopped THEN {}
   ELSE {<<"load", s>> : s \in Loading} \cup
        {<<"node", n>> : n \in {m \in Nodes : node[m].active}} \cup
        (IF agenda = <<>> THEN {} ELSE {<<"walk", 1>>}))

Abstract == INSTANCE ForkJoin WITH
  Jobs <- {<<"job", s>> : s \in Slots},
  Others <- {<<"load", s>> : s \in Slots} \cup {<<"node", n>> : n \in Nodes} \cup {<<"walk", 1>>},
  busy <- Tasks, cancelled <- Stopped, ended <- phase = "complete"

(* The engine is a fork-join: nothing starts by itself, nothing is running *)
(* when the workflow ends, nothing runs afterwards.                        *)
ImplementsForkJoin == Abstract!FSpec
=============================================================================
