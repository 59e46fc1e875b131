--------------------------- MODULE WorkflowProofs ---------------------------
EXTENDS Workflow, TLAPS, FiniteSetTheorems

-----------------------------------------------------------------------------
(* What the helpers return. *)

(* The wires of a node are a sequence of wires to nodes. *)
LEMMA OutType ==
  ASSUME TypeOK, NEW n \in Nodes
  PROVE  /\ Out(n) \in Seq(Wire) /\ Len(Out(n)) \in Nat
         /\ DOMAIN Out(n) = 1..Len(Out(n))
         /\ \A i \in DOMAIN Out(n) : Out(n)[i].to \in Nodes
<1>1. flow \in FlowType
  BY FlowAssumption DEF TypeOK
<1>2. Out(n) \in Seq(Wire)
  BY <1>1 DEF FlowType, Out
<1>3. ASSUME NEW w \in Seq(Wire), NEW i \in DOMAIN w PROVE w[i] \in Wire
  OBVIOUS
<1>4. ASSUME NEW i \in DOMAIN Out(n) PROVE Out(n)[i] \in Wire
  BY <1>2, <1>3
<1>5. ASSUME NEW i \in DOMAIN Out(n) PROVE Out(n)[i].to \in Nodes
  BY <1>4 DEF Wire
<1> QED
  BY <1>2, <1>5

(* Only finitely many wires lead to a node: a join counts them. *)
LEMMA WiresFiniteSet ==
  ASSUME TypeOK, NEW n \in Nodes
  PROVE  IsFiniteSet(Wires(n))
<1> DEFINE W(m) == {m} \X {i \in DOMAIN Out(m) : Out(m)[i].to = n}
<1>1. ASSUME NEW m \in Nodes PROVE IsFiniteSet(W(m))
  <2>1. IsFiniteSet(1..Len(Out(m)))
    BY OutType, FS_Interval
  <2>2. IsFiniteSet({i \in DOMAIN Out(m) : Out(m)[i].to = n})
    BY <2>1, OutType, FS_Subset
  <2>3. IsFiniteSet({m})
    BY FS_Singleton
  <2> QED
    BY <2>2, <2>3, FS_Product
<1>2. IsFiniteSet({W(m) : m \in Nodes})
  <2> HIDE DEF W
  <2> DEFINE T == {W(m) : m \in Nodes}
             f == [m \in Nodes |-> W(m)]
  <2>1. f \in Surjection(Nodes, T)
    BY DEF Surjection
  <2> QED
    BY <2>1, FlowAssumption, FS_Surjection
<1>3. IsFiniteSet(UNION {W(m) : m \in Nodes})
  <2> HIDE DEF W
  <2>1. \A x \in {W(m) : m \in Nodes} : IsFiniteSet(x)
    BY <1>1
  <2> QED
    BY <1>2, <2>1, FS_UNION
<1> QED
  BY <1>3 DEF Wires

LEMMA WiresFinite ==
  ASSUME TypeOK, NEW n \in Nodes
  PROVE  Cardinality(Wires(n)) \in Nat
BY WiresFiniteSet, FS_CardinalityType

LEMMA FollowType ==
  ASSUME TypeOK, NEW n \in Nodes, NEW s \in Nodes \cup {NoNode}, NEW i \in BOOLEAN, NEW c
  PROVE  Follow(n, s, i, c) \in Seq(Item)
<1>1. \A j \in DOMAIN Out(n) :
        [node |-> Out(n)[j].to, source |-> s, input |-> i, fires |-> Out(n)[j].on \in c] \in Item
  BY OutType DEF Item
<1> QED
  BY <1>1, OutType DEF Follow

LEMMA TimesType ==
  ASSUME NEW n \in Nodes, NEW s \in Nodes \cup {NoNode}, NEW i \in BOOLEAN, NEW k \in Nat
  PROVE  Times(k, n, s, i) \in Seq(Item)
BY DEF Times, Item

(* A quotient is below the factor that is left. *)
LEMMA Quotient ==
  ASSUME NEW k \in Nat, NEW q \in Int, NEW m \in Nat, k * q < k * m
  PROVE  q < m
<1> SUFFICES ASSUME q >= m PROVE FALSE
  OBVIOUS
<1>1. PICK d \in Nat : q = m + d
  BY q - m \in Nat /\ q = m + (q - m)
<1>2. k * q = k * m + k * d
  BY <1>1
<1>3. k * d >= 0
  OBVIOUS
<1> QED
  BY <1>2, <1>3

(* The items of an unmanaged split stay within the wires of its node. *)
LEMMA UnmanagedIndex ==
  ASSUME TypeOK, NEW n \in Nodes, NEW k \in Nat, NEW i \in 1..(k * Len(Out(n)))
  PROVE  ((i - 1) \div k) + 1 \in DOMAIN Out(n)
<1>1. PICK m \in Nat : m = k * Len(Out(n))
  BY OutType
<1>2. k > 0
  BY <1>1, OutType
<1>3. (i - 1) \div k >= 0 /\ (i - 1) \div k \in Int /\ k * ((i - 1) \div k) <= i - 1
  BY <1>1, <1>2
<1>4. k * ((i - 1) \div k) < k * Len(Out(n))
  <2>1. k * ((i - 1) \div k) \in Int
    BY <1>3
  <2> QED
    BY <1>3, <1>1, <2>1
<1>5. (i - 1) \div k < Len(Out(n))
  BY <1>3, <1>4, Quotient, OutType
<1> QED
  BY <1>3, <1>5, OutType

LEMMA UnmanagedType ==
  ASSUME TypeOK, NEW n \in Nodes, NEW k \in Nat
  PROVE  Unmanaged(n, k) \in Seq(Item)
<1>1. PICK m \in Nat : m = k * Len(Out(n))
  BY OutType
<1>2. ASSUME NEW i \in 1..m
      PROVE  [node |-> Out(n)[((i - 1) \div k) + 1].to, source |-> n,
              input |-> TRUE, fires |-> TRUE] \in Item
  BY <1>1, UnmanagedIndex, OutType DEF Item
<1> QED
  BY <1>1, <1>2 DEF Unmanaged

LEMMA KillType ==
  ASSUME NEW S \in [Slots -> SubJob]
  PROVE  Kill(S) \in [Slots -> SubJob]
BY DEF Kill, SubJob, SubPhases

LEMMA DeactivateType ==
  ASSUME NEW N \in [Nodes -> NodeState]
  PROVE  Deactivate(N) \in [Nodes -> NodeState]
BY DEF Deactivate, NodeState

LEMMA AbortType ==
  ASSUME TypeOK, NEW S \in [Slots -> SubJob], NEW N \in [Nodes -> NodeState], Abort(S, N)
  PROVE  /\ phase' \in {"active", "complete"} /\ aborted' \in BOOLEAN
         /\ result' \in {"none", "ok", "warning", "error", "abort"}
         /\ node' \in [Nodes -> NodeState] /\ sub' \in [Slots -> SubJob]
BY KillType, DeactivateType DEF TypeOK, Abort

(* The head of the agenda is an item, and what is left is an agenda. *)
LEMMA HeadType ==
  ASSUME TypeOK, agenda # <<>>
  PROVE  Item1 \in Item /\ Tail(agenda) \in Seq(Item)
BY DEF TypeOK, Item1

LEMMA ThenType ==
  ASSUME TypeOK, agenda # <<>>, NEW items \in Seq(Item), Then(items)
  PROVE  agenda' \in Seq(Item)
<1>1. \A f, g \in Seq(Item) : f \o g \in Seq(Item)
  OBVIOUS
<1> QED
  BY HeadType, <1>1 DEF Then

LEMMA NothingThenType ==
  ASSUME TypeOK, agenda # <<>>, Then(<<>>)
  PROVE  agenda' \in Seq(Item)
<1>1. <<>> \in Seq(Item)
  OBVIOUS
<1> QED
  BY <1>1, ThenType

-----------------------------------------------------------------------------
(* Each action keeps the types. *)

LEMMA EnterType ==
  ASSUME TypeOK, NEW n \in Nodes, NEW k, Enter(n, k)
  PROVE  /\ agenda # <<>> /\ phase = "active" /\ ~aborted
         /\ Item1.input \in BOOLEAN /\ Item1.source \in Nodes \cup {NoNode}
BY HeadType DEF Enter, Going, Item

LEMMA FailsType ==
  ASSUME TypeOK, NEW n \in Nodes, agenda # <<>>, Fails(n)
  PROVE  node' \in [Nodes -> NodeState] /\ agenda' \in Seq(Item)
<1>1. node' \in [Nodes -> NodeState]
  BY DEF TypeOK, Fails, NodeState
<1> QED
  BY <1>1, NothingThenType DEF Fails

LEMMA CalmType ==
  ASSUME TypeOK, Calm, node' \in [Nodes -> NodeState], agenda' \in Seq(Item)
  PROVE  TypeOK'
BY DEF TypeOK, Calm, ending, ghosts

LEMMA RunTriggerType ==
  ASSUME TypeOK, NEW n \in Nodes, RunTrigger(n)
  PROVE  TypeOK'
<1>1. n \in Nodes /\ Enter(n, "trigger") /\ agenda # <<>> /\ Calm
  BY EnterType DEF RunTrigger
<1>2. CASE Out(n) = <<>>
  BY <1>1, <1>2, FailsType, CalmType DEF RunTrigger
<1>3. CASE Out(n) # <<>>
  <2>1. Follow(n, n, Item1.input, Conditions) \in Seq(Item)
    BY <1>1, EnterType, FollowType
  <2>2. node' = node /\ Then(Follow(n, n, Item1.input, Conditions))
    BY <1>3 DEF RunTrigger
  <2> QED
    BY <1>1, <2>1, <2>2, ThenType, CalmType DEF TypeOK
<1> QED
  BY <1>2, <1>3

LEMMA JobNodeType ==
  ASSUME TypeOK, NEW n \in Nodes, NEW k, Enter(n, k), RunJobNode(n)
  PROVE  TypeOK'
<1>1. agenda # <<>> /\ Item1.source \in Nodes \cup {NoNode}
  BY EnterType
<1>2. agenda' \in Seq(Item)
  BY <1>1, NothingThenType DEF RunJobNode
<1>3. Abort(sub, node) \/ Replay(n) \/ Launch(n)
  BY DEF RunJobNode
<1>4. /\ phase' \in {"active", "complete"} /\ aborted' \in BOOLEAN
      /\ result' \in {"none", "ok", "warning", "error", "abort"}
      /\ node' \in [Nodes -> NodeState] /\ sub' \in [Slots -> SubJob]
  <2>1. CASE Abort(sub, node)
    BY <2>1, AbortType DEF TypeOK
  <2>2. CASE Replay(n)
    <3>1. [NoSub EXCEPT !.phase = "loading", !.node = n, !.launcher = Item1.source] \in SubJob
      BY <1>1 DEF NoSub, SubJob, SubPhases
    <3> QED
      BY <2>2, <3>1 DEF Replay, TypeOK, ending
  <2>3. CASE Launch(n)
    <3>1. flow.retries \in Nat
      BY FlowAssumption DEF TypeOK, FlowType
    <3>2. [NoSub EXCEPT !.phase = "active", !.node = n, !.launcher = Item1.source,
                        !.left = flow.retries] \in SubJob
      BY <1>1, <3>1 DEF NoSub, SubJob, SubPhases
    <3> QED
      BY <2>3, <3>2 DEF Launch, TypeOK, ending
  <2> QED
    BY <1>3, <2>1, <2>2, <2>3
<1> QED
  BY <1>2, <1>4 DEF RunJobNode, TypeOK, ghosts

LEMMA AbortNodeType ==
  ASSUME TypeOK, agenda # <<>>, NEW N \in [Nodes -> NodeState], Abort(sub, N), Then(<<>>),
         UNCHANGED <<flow, pass, jobs, ghosts>>
  PROVE  TypeOK'
<1>1. agenda' \in Seq(Item)
  BY NothingThenType
<1>2. sub \in [Slots -> SubJob]
  BY DEF TypeOK
<1> QED
  BY <1>1, <1>2, AbortType DEF TypeOK, ghosts

LEMMA ReenterType ==
  ASSUME TypeOK, NEW n \in Nodes, Reenter(n)
  PROVE  reentered' \subseteq Nodes
BY DEF Reenter, TypeOK

LEMMA RunActionType ==
  ASSUME TypeOK, NEW n \in Nodes, RunAction(n)
  PROVE  TypeOK'
<1>1. agenda' \in Seq(Item)
  BY EnterType, NothingThenType DEF RunAction
<1>2. node' \in [Nodes -> NodeState]
  <2>1. node \in [Nodes -> NodeState]
    BY DEF TypeOK
  <2>2. CASE node' = [node EXCEPT ![n].error = TRUE]
    BY <2>1, <2>2 DEF NodeState
  <2>3. CASE node' = [node EXCEPT ![n].active = TRUE, ![n].count = @ + 1]
    BY <2>1, <2>3 DEF NodeState
  <2> QED
    BY <2>1, <2>2, <2>3 DEF RunAction
<1>3. reentered' \subseteq Nodes
  BY ReenterType DEF RunAction
<1> QED
  BY <1>1, <1>2, <1>3 DEF RunAction, TypeOK, ending

LEMMA ManageType ==
  ASSUME TypeOK, NEW n \in Nodes, NEW m, Enter(n, m), NEW k \in Nat, Managed(n), Manage(n, k)
  PROVE  TypeOK'
<1>1. Out(n)[1].to \in Nodes
  BY OutType DEF Managed
<1>2. Times(k, Out(n)[1].to, n, Item1.input) \in Seq(Item)
  BY <1>1, EnterType, TimesType
<1>3. agenda' \in Seq(Item)
  BY <1>2, EnterType, ThenType DEF Manage
<1>4. node' \in [Nodes -> NodeState]
  BY DEF Manage, TypeOK, NodeState
<1>5. reentered' \subseteq Nodes /\ rounds' \in [Nodes -> Nat] /\ won' \in [Nodes -> Nat]
  BY ReenterType DEF Manage, TypeOK
<1> QED
  BY <1>3, <1>4, <1>5 DEF Manage, TypeOK, ending

LEMMA NothingType ==
  ASSUME TypeOK, agenda # <<>>, Then(<<>>), node' = node, Calm
  PROVE  TypeOK'
BY NothingThenType, CalmType DEF TypeOK

LEMMA RunMultiplexType ==
  ASSUME TypeOK, NEW n \in Nodes, RunMultiplex(n)
  PROVE  TypeOK'
<1>1. Enter(n, "multiplex") /\ agenda # <<>>
  BY EnterType DEF RunMultiplex
<1>2. CASE Fails(n) /\ Calm
  BY <1>1, <1>2, FailsType, CalmType
<1>3. CASE Then(<<>>) /\ UNCHANGED node /\ Calm
  BY <1>1, <1>3, NothingType
<1>4. ASSUME Managed(n), NEW k \in 1..MaxItems, Manage(n, k) PROVE TypeOK'
  <2>1. k \in Nat
    BY FlowAssumption
  <2> QED
    BY <1>1, <1>4, <2>1, ManageType
<1>5. CASE /\ Abort(sub, [node EXCEPT ![n].error = TRUE]) /\ Then(<<>>)
           /\ UNCHANGED <<flow, pass, jobs, ghosts>>
  <2>1. [node EXCEPT ![n].error = TRUE] \in [Nodes -> NodeState]
    BY DEF TypeOK, NodeState
  <2> QED
    BY <1>1, <1>5, <2>1, AbortNodeType
<1> QED
  BY <1>2, <1>3, <1>4, <1>5 DEF RunMultiplex

LEMMA RunRepeatType ==
  ASSUME TypeOK, NEW n \in Nodes, RunRepeat(n)
  PROVE  TypeOK'
<1>1. Enter(n, "repeat") /\ agenda # <<>>
  BY EnterType DEF RunRepeat
<1>2. CASE Fails(n) /\ Calm
  BY <1>1, <1>2, FailsType, CalmType
<1>3. CASE Managed(n) /\ Manage(n, IF flow.repeat = 0 THEN 1 ELSE flow.repeat)
  <2>1. flow.repeat \in Nat
    BY FlowAssumption DEF TypeOK, FlowType
  <2>2. (IF flow.repeat = 0 THEN 1 ELSE flow.repeat) \in Nat
    BY <2>1
  <2> QED
    BY <1>1, <1>3, <2>2, ManageType
<1> QED
  BY <1>2, <1>3 DEF RunRepeat

LEMMA ContinueType ==
  ASSUME TypeOK, NEW d \in Nodes, NEW m, NEW J
  PROVE  Continue(d, m, J) \in Seq(Item)
<1>1. Follow(d, NoNode, FALSE, {"continue"}) \in Seq(Item)
  BY FollowType
<1>2. <<>> \in Seq(Item)
  OBVIOUS
<1> QED
  BY <1>1, <1>2 DEF Continue

LEMMA RunSplitType ==
  ASSUME TypeOK, NEW n \in Nodes, RunSplit(n)
  PROVE  TypeOK'
<1>1. Enter(n, "split") /\ agenda # <<>>
  BY EnterType DEF RunSplit
<1>0. node \in [Nodes -> NodeState]
  BY DEF TypeOK
<1>2. CASE Fails(n) /\ Calm
  BY <1>1, <1>2, FailsType, CalmType
<1>3. ASSUME NEW k \in 0..MaxItems, Then(Unmanaged(n, k)), Calm,
             node' = [node EXCEPT ![n].active = FALSE]
      PROVE  TypeOK'
  <2>1. k \in Nat
    BY FlowAssumption
  <2>2. agenda' \in Seq(Item)
    BY <1>1, <1>3, <2>1, UnmanagedType, ThenType
  <2>3. node' \in [Nodes -> NodeState]
    BY <1>0, <1>3 DEF NodeState
  <2> QED
    BY <1>3, <2>2, <2>3, CalmType
<1>4. CASE /\ Managed(n) /\ Then(Continue(Out(n)[1].to, 0, jobs))
           /\ node' = [node EXCEPT ![n].active = FALSE, ![n].max = 0, ![n].count = 0]
           /\ Reenter(n)
           /\ UNCHANGED <<flow, ending, pass, jobs, sub, lost, rounds, won>>
  <2>1. Out(n)[1].to \in Nodes
    BY <1>4, OutType DEF Managed
  <2>2. agenda' \in Seq(Item)
    BY <1>1, <1>4, <2>1, ContinueType, ThenType
  <2>3. node' \in [Nodes -> NodeState]
    BY <1>0, <1>4 DEF NodeState
  <2> QED
    BY <1>4, <2>2, <2>3, ReenterType DEF TypeOK, ending
<1>5. ASSUME Managed(n), NEW k \in 1..MaxItems, Manage(n, k) PROVE TypeOK'
  <2>1. k \in Nat
    BY FlowAssumption
  <2> QED
    BY <1>1, <1>5, <2>1, ManageType
<1> QED
  BY <1>2, <1>3, <1>4, <1>5 DEF RunSplit

LEMMA RunJoinType ==
  ASSUME TypeOK, NEW n \in Nodes, RunJoin(n)
  PROVE  TypeOK'
<1> DEFINE m == IF node[n].active THEN node[n].max ELSE Cardinality(Wires(n))
           c == (IF node[n].active THEN node[n].count ELSE 0) + 1
           Set(active, error) ==
             node' = [node EXCEPT ![n].active = active, ![n].max = m, ![n].count = c,
                                  ![n].error = @ \/ error]
<1>1. Enter(n, "join") /\ agenda # <<>> /\ Calm
  BY EnterType DEF RunJoin
<1>2. node \in [Nodes -> NodeState] /\ node[n] \in NodeState
  BY DEF TypeOK
<1>3. m \in Nat /\ c \in Nat
  BY <1>2, WiresFinite DEF NodeState
<1>4. ASSUME NEW a \in BOOLEAN, NEW e \in BOOLEAN, Set(a, e)
      PROVE  node' \in [Nodes -> NodeState]
  <2>1. (node[n].error \/ e) \in BOOLEAN
    OBVIOUS
  <2>2. [node[n] EXCEPT !.active = a, !.max = m, !.count = c, !.error = @ \/ e] \in NodeState
    BY <1>2, <1>3, <2>1 DEF NodeState
  <2> QED
    BY <1>2, <1>4, <2>2
<1>5. CASE Fails(n)
  BY <1>1, <1>5, FailsType, CalmType
<1>6. CASE Set(TRUE, FALSE) /\ Then(<<>>)
  BY <1>1, <1>4, <1>6, NothingThenType, CalmType
<1>7. CASE Set(FALSE, TRUE) /\ Then(<<>>)
  BY <1>1, <1>4, <1>7, NothingThenType, CalmType
<1>8. CASE Len(Out(n)) = 1 /\ Set(FALSE, FALSE) /\ Then(Times(1, Out(n)[1].to, n, TRUE))
  <2>1. Out(n)[1].to \in Nodes
    BY <1>8, OutType
  <2>2. Times(1, Out(n)[1].to, n, TRUE) \in Seq(Item)
    BY <2>1, TimesType
  <2> QED
    BY <1>1, <1>4, <1>8, <2>2, ThenType, CalmType
<1> QED
  BY <1>5, <1>6, <1>7, <1>8 DEF RunJoin

LEMMA RunDecisionType ==
  ASSUME TypeOK, NEW n \in Nodes, RunDecision(n)
  PROVE  TypeOK'
<1>1. Enter(n, "decision") /\ agenda # <<>>
  BY EnterType DEF RunDecision
<1>2. CASE Fails(n) /\ Calm
  BY <1>1, <1>2, FailsType, CalmType
<1>3. CASE Then(<<>>) /\ UNCHANGED node /\ Calm
  BY <1>1, <1>3, NothingType
<1>4. CASE Abort(sub, node) /\ Then(<<>>) /\ UNCHANGED <<flow, pass, jobs, ghosts>>
  BY <1>1, <1>4, AbortNodeType DEF TypeOK
<1>5. CASE Then(Follow(n, n, TRUE, Conditions)) /\ UNCHANGED node /\ Calm
  <2>1. Follow(n, n, TRUE, Conditions) \in Seq(Item)
    BY FollowType
  <2> QED
    BY <1>1, <1>5, <2>1, ThenType, CalmType DEF TypeOK
<1> QED
  BY <1>2, <1>3, <1>4, <1>5 DEF RunDecision

LEMMA RunWaitType ==
  ASSUME TypeOK, NEW n \in Nodes, RunWait(n)
  PROVE  TypeOK'
<1>1. agenda # <<>> /\ Item1.input \in BOOLEAN /\ Calm /\ Then(<<>>)
  BY EnterType DEF RunWait
<1>2. node' \in [Nodes -> NodeState]
  <2>1. node \in [Nodes -> NodeState]
    BY DEF TypeOK
  <2>2. CASE node' = [node EXCEPT ![n].active = TRUE, ![n].due = FALSE,
                                  ![n].input = Item1.input]
    BY <1>1, <2>1, <2>2 DEF NodeState
  <2> QED
    BY <2>1, <2>2 DEF RunWait
<1> QED
  BY <1>1, <1>2, NothingThenType, CalmType

LEMMA RunNodeType ==
  ASSUME TypeOK, NEW n \in Nodes, RunNode(n)
  PROVE  TypeOK'
<1>1. CASE RunJob(n)
  BY <1>1, JobNodeType DEF RunJob
<1>2. CASE RunEvent(n)
  <2>1. Enter(n, "event") /\ agenda # <<>>
    BY <1>2, EnterType DEF RunEvent
  <2> QED
    BY <1>2, <2>1, JobNodeType, AbortNodeType DEF RunEvent, TypeOK
<1> QED
  BY <1>1, <1>2, RunTriggerType, RunActionType, RunMultiplexType, RunRepeatType,
     RunSplitType, RunJoinType, RunDecisionType, RunWaitType DEF RunNode

LEMMA PushType ==
  ASSUME TypeOK, NEW s \in Slots, sub[s].node \in Nodes, NEW ok \in BOOLEAN
  PROVE  Push(s, ok) \in [Nodes -> Tally]
<1>1. jobs \in [Nodes -> Tally]
  BY DEF TypeOK
<1> QED
  BY <1>1 DEF Push, Tally

LEMMA ProgressType ==
  ASSUME TypeOK, NEW l \in Nodes \cup {NoNode}
  PROVE  Progress(l) \in [Nodes -> NodeState]
<1>1. node \in [Nodes -> NodeState]
  BY DEF TypeOK
<1>2. CASE Counts(l)
  <2>1. l \in Nodes
    BY <1>2 DEF Counts
  <2>2. (~Reached(l)) \in BOOLEAN
    OBVIOUS
  <2>3. ASSUME NEW b \in BOOLEAN
        PROVE  [node EXCEPT ![l].count = @ + 1, ![l].active = b] \in [Nodes -> NodeState]
    <3>1. node[l].count + 1 \in Nat
      BY <1>1, <2>1 DEF NodeState
    <3>2. [node[l] EXCEPT !.count = @ + 1, !.active = b] \in NodeState
      BY <1>1, <2>1, <3>1 DEF NodeState
    <3> QED
      BY <1>1, <2>1, <3>2
  <2> QED
    BY <1>2, <2>2, <2>3 DEF Progress
<1> QED
  BY <1>1, <1>2 DEF Progress

LEMMA FinishType ==
  ASSUME TypeOK, NEW s \in Slots, sub[s].node \in Nodes, NEW ok \in BOOLEAN,
         NEW next \in Seq(Item), Finish(s, ok, next)
  PROVE  TypeOK'
<1> DEFINE S == [sub EXCEPT ![s] = NoSub]
<1>1. sub \in [Slots -> SubJob] /\ node \in [Nodes -> NodeState] /\ sub[s].launcher \in Nodes \cup {NoNode}
  BY DEF TypeOK, SubJob
<1>2. S \in [Slots -> SubJob]
  BY <1>1 DEF NoSub, SubJob, SubPhases
<1>3. jobs' \in [Nodes -> Tally]
  BY PushType DEF Finish
<1>4. won' \in [Nodes -> Nat]
  BY DEF Finish, TypeOK
<1>5. AfterProgress(s, Push(s, ok)) \in Seq(Item)
  <2>1. <<>> \in Seq(Item)
    OBVIOUS
  <2> QED
    BY <2>1, ContinueType DEF AfterProgress
<1>6. AfterProgress(s, Push(s, ok)) \o next \in Seq(Item)
  <2>1. \A f, g \in Seq(Item) : f \o g \in Seq(Item)
    OBVIOUS
  <2> QED
    BY <1>5, <2>1
<1>7. /\ phase' \in {"active", "complete"} /\ aborted' \in BOOLEAN
      /\ result' \in {"none", "ok", "warning", "error", "abort"}
      /\ node' \in [Nodes -> NodeState] /\ sub' \in [Slots -> SubJob]
      /\ agenda' \in Seq(Item)
  <2>1. CASE sub' = S /\ UNCHANGED <<node, ending, agenda>>
    BY <1>1, <1>2, <2>1 DEF TypeOK, ending
  <2>2. CASE Abort(S, node) /\ UNCHANGED agenda
    BY <1>1, <1>2, <2>2, AbortType DEF TypeOK
  <2>3. CASE /\ sub' = S /\ node' = Progress(sub[s].launcher)
             /\ agenda' = AfterProgress(s, Push(s, ok)) \o next
             /\ UNCHANGED ending
    BY <1>1, <1>2, <1>6, <2>3, ProgressType DEF TypeOK, ending
  <2> QED
    BY <2>1, <2>2, <2>3 DEF Finish
<1> QED
  BY <1>3, <1>4, <1>7 DEF Finish, TypeOK

LEMMA MatchingType ==
  ASSUME TypeOK, NEW s \in Slots, sub[s].node \in Nodes, NEW ok
  PROVE  Matching(s, ok) \in Seq(Item)
<1> DEFINE f == Follow(sub[s].node, NoNode, TRUE, {"complete", IF ok THEN "success" ELSE "error"})
<1>1. f \in Seq(Item)
  BY FollowType
<1>2. ASSUME NEW g \in Seq(Item)
      PROVE  [i \in DOMAIN g |-> [g[i] EXCEPT !.fires = @ /\ Kind(g[i].node) # "action"]] \in Seq(Item)
  <2>1. ASSUME NEW x \in Item
        PROVE  [x EXCEPT !.fires = @ /\ Kind(x.node) # "action"] \in Item
    <3>1. (x.fires /\ Kind(x.node) # "action") \in BOOLEAN
      OBVIOUS
    <3> QED
      BY <3>1 DEF Item
  <2>2. DOMAIN g = 1..Len(g) /\ Len(g) \in Nat /\ \A i \in DOMAIN g : g[i] \in Item
    OBVIOUS
  <2> QED
    BY <2>1, <2>2
<1> HIDE DEF f
<1>3. Matching(s, ok) = [i \in DOMAIN f |-> [f[i] EXCEPT !.fires = @ /\ Kind(f[i].node) # "action"]]
  BY DEF Matching, f
<1> QED
  BY <1>1, <1>2, <1>3

LEMMA EndSubType ==
  ASSUME TypeOK, NEW s \in Slots, EndSub(s)
  PROVE  TypeOK'
<1>1. PICK ok \in BOOLEAN : sub' = [sub EXCEPT ![s].phase = "ending", ![s].ok = ok]
  BY DEF EndSub
<1>2. sub' \in [Slots -> SubJob]
  <2>1. sub \in [Slots -> SubJob]
    BY DEF TypeOK
  <2> QED
    BY <1>1, <2>1 DEF SubJob, SubPhases
<1> QED
  BY <1>2 DEF EndSub, TypeOK, ending, walk, ghosts

LEMMA CheckRetryType ==
  ASSUME TypeOK, NEW s \in Slots, sub[s].node \in Nodes, CheckRetry(s)
  PROVE  TypeOK'
<1>1. sub \in [Slots -> SubJob]
  BY DEF TypeOK
<1>2. sub' \in [Slots -> SubJob]
  <2>1. CASE sub' = [sub EXCEPT ![s].phase = "closing"]
    BY <1>1, <2>1 DEF SubJob, SubPhases
  <2>2. CASE /\ sub[s].left > 0
             /\ sub' = [sub EXCEPT ![s].phase = "closing", ![s].retried = TRUE,
                                   ![NewSlot] = RetryOf(s)]
    <3>1. sub[s].launcher \in Nodes \cup {NoNode} /\ sub[s].left - 1 \in Nat
      BY <1>1, <2>2 DEF SubJob
    <3>2. RetryOf(s) \in SubJob
      BY <3>1 DEF RetryOf, NoSub, SubJob, SubPhases
    <3>3. [sub EXCEPT ![s].phase = "closing", ![s].retried = TRUE] \in [Slots -> SubJob]
      BY <1>1 DEF SubJob, SubPhases
    <3> QED
      BY <2>2, <3>2, <3>3
  <2> QED
    BY <2>1, <2>2 DEF CheckRetry
<1> QED
  BY <1>2 DEF CheckRetry, TypeOK, ending, walk, ghosts

(* The parts of FinishSub and ReplayLoaded that end a sub-job. *)
LEMMA FinishNextType ==
  ASSUME TypeOK, NEW s \in Slots, sub[s].node \in Nodes,
         NEW ok \in BOOLEAN,
         \/ Finish(s, ok, Matching(s, ok))
         \/ \E n \in flow.redirects : Finish(s, ok, Jump(n))
  PROVE  TypeOK'
<1>1. CASE Finish(s, ok, Matching(s, ok))
  BY <1>1, MatchingType, FinishType
<1>2. ASSUME NEW n \in flow.redirects, Finish(s, ok, Jump(n)) PROVE TypeOK'
  <2>1. n \in Nodes
    BY FlowAssumption DEF TypeOK, FlowType
  <2>2. Jump(n) \in Seq(Item)
    BY <2>1, TimesType DEF Jump
  <2> QED
    BY <1>2, <2>2, FinishType
<1> QED
  BY <1>1, <1>2

LEMMA FinishSubType ==
  ASSUME TypeOK, NEW s \in Slots, sub[s].node \in Nodes, FinishSub(s)
  PROVE  TypeOK'
<1>1. sub[s].ok \in BOOLEAN
  BY DEF TypeOK, SubJob
<1> QED
  BY <1>1, FinishNextType DEF FinishSub

LEMMA ReplayLoadedType ==
  ASSUME TypeOK, NEW s \in Slots, sub[s].node \in Nodes, ReplayLoaded(s)
  PROVE  TypeOK'
<1> DEFINE S == [sub EXCEPT ![s] = NoSub]
<1>1. S \in [Slots -> SubJob] /\ node \in [Nodes -> NodeState]
  BY DEF TypeOK, NoSub, SubJob, SubPhases
<1>2. CASE sub' = S /\ UNCHANGED <<flow, ending, walk, node, jobs, ghosts>>
  BY <1>1, <1>2 DEF TypeOK, ending, walk, ghosts
<1>3. ASSUME NEW ok \in BOOLEAN, Finish(s, ok, Matching(s, ok)) PROVE TypeOK'
  BY <1>3, FinishNextType
<1>4. CASE Abort(S, node) /\ UNCHANGED <<flow, walk, jobs, ghosts>>
  BY <1>1, <1>4, AbortType DEF TypeOK, walk, ghosts
<1> QED
  BY <1>2, <1>3, <1>4 DEF ReplayLoaded

LEMMA FlushSubType ==
  ASSUME TypeOK, NEW s \in Slots, FlushSub(s)
  PROVE  TypeOK'
<1>1. sub' \in [Slots -> SubJob]
  BY DEF FlushSub, TypeOK, NoSub, SubJob, SubPhases
<1>2. lost' \subseteq Nodes
  BY DEF FlushSub, TypeOK, SubJob
<1> QED
  BY <1>1, <1>2 DEF FlushSub, TypeOK, ending, walk, ghosts

LEMMA ActionDoneType ==
  ASSUME TypeOK, NEW n \in Nodes, ActionDone(n)
  PROVE  TypeOK'
<1>1. node' \in [Nodes -> NodeState]
  <2>1. node \in [Nodes -> NodeState]
    BY DEF TypeOK
  <2>2. node[n].count - 1 \in Nat
    BY <2>1 DEF ActionDone, NodeState
  <2> QED
    BY <2>1, <2>2 DEF ActionDone, NodeState
<1> QED
  BY <1>1 DEF ActionDone, TypeOK, ending, walk, ghosts

LEMMA WaitOverType ==
  ASSUME TypeOK, NEW n \in Nodes, WaitOver(n)
  PROVE  TypeOK'
<1>1. node' \in [Nodes -> NodeState]
  BY DEF WaitOver, TypeOK, NodeState
<1> QED
  BY <1>1 DEF WaitOver, TypeOK, ending, walk, ghosts

LEMMA TickNodeType ==
  ASSUME TypeOK, NEW n \in Nodes, TickNode(n)
  PROVE  TypeOK'
<1>1. node \in [Nodes -> NodeState] /\ node[n].input \in BOOLEAN
  BY DEF TypeOK, NodeState
<1>2. node' \in [Nodes -> NodeState]
  BY <1>1 DEF TickNode, NodeState
<1>3. Follow(n, n, node[n].input, Conditions) \in Seq(Item)
  BY <1>1, FollowType
<1>4. agenda' \in Seq(Item) /\ pass' \subseteq Nodes
  BY <1>3 DEF TickNode, TypeOK
<1> QED
  BY <1>2, <1>4 DEF TickNode, TypeOK, ending

-----------------------------------------------------------------------------
(* The invariant: the types; a sub-job has a node; a result of "abort" ends  *)
(* the workflow, and nothing is under way after the end.                     *)

SubsHaveNodes == \A s \in Slots : sub[s].phase # "none" => sub[s].node \in Nodes
Ended ==
  /\ phase = "active" => result # "abort"
  /\ phase = "complete" => ~aborted /\ Tasks = {}
Inv == TypeOK /\ SubsHaveNodes /\ Ended /\ AbortReachesJobs

(* What is to be shown of a step, besides the types. *)
Step == SubsHaveNodes' /\ Ended' /\ AbortReachesJobs' /\ [Abstract!FNext]_(Abstract!fvars)

(* Each sub-job stays, or is one a step may make. *)
SubsKept ==
  \A s \in Slots :
    \/ sub'[s] = sub[s]
    \/ /\ sub'[s].phase = "active" => sub'[s].retry \/ ~aborted
       /\ sub'[s].phase # "none" => sub'[s].node \in Nodes

LEMMA KeptSubs ==
  ASSUME Inv, SubsKept, UNCHANGED ending
  PROVE  SubsHaveNodes' /\ AbortReachesJobs'
BY DEF Inv, SubsKept, SubsHaveNodes, AbortReachesJobs, ending

AllTasks == {<<"job", s>> : s \in Slots} \cup
            ({<<"load", s>> : s \in Slots} \cup {<<"node", n>> : n \in Nodes} \cup {<<"walk", 1>>})

LEMMA TasksType == Tasks \subseteq AllTasks /\ Tasks' \subseteq AllTasks
BY DEF Tasks, Live, Loading, AllTasks

(* A step that changes neither the tasks nor the end is no step of ForkJoin. *)
LEMMA StutterStep ==
  ASSUME Inv, SubsKept, UNCHANGED ending, Tasks' = Tasks
  PROVE  Step
<1>1. Stopped' = Stopped
  BY DEF Stopped, ending
<1>2. UNCHANGED Abstract!fvars
  BY <1>1 DEF Abstract!fvars, ending
<1>3. Ended'
  BY DEF Inv, Ended, ending
<1> QED
  BY <1>2, <1>3, KeptSubs DEF Step

(* A step that ends nothing, while something is under way. *)
LEMMA ProceedStep ==
  ASSUME Inv, SubsKept, UNCHANGED ending, phase = "active", Tasks # {}
  PROVE  Step
<1>1. Stopped' = Stopped
  BY DEF Stopped, ending
<1>2. Abstract!Proceed
  BY <1>1, TasksType DEF Abstract!Proceed, ending, AllTasks
<1>3. Ended'
  BY DEF Inv, Ended, ending
<1> QED
  BY <1>2, <1>3, KeptSubs DEF Step, Abstract!FNext

(* When nothing is under way but what was stopped, the tasks are the jobs. *)
LEMMA SameTasks ==
  ASSUME UNCHANGED ending, Live(sub') = Live(sub),
         Stopped \/ /\ Loading' = Loading
                    /\ \A n \in Nodes : node'[n].active = node[n].active
                    /\ agenda' = <<>> <=> agenda = <<>>
  PROVE  Tasks' = Tasks
<1>1. Stopped' = Stopped
  BY DEF Stopped, ending
<1>2. Live(sub)' = Live(sub)
  BY DEF Live
<1>3. CASE Stopped
  BY <1>1, <1>2, <1>3 DEF Tasks
<1>4. CASE ~Stopped
  <2>1. {m \in Nodes : node[m].active}' = {m \in Nodes : node[m].active}
    BY <1>4
  <2> HIDE DEF Stopped
  <2> QED
    BY <1>1, <1>2, <1>4, <2>1 DEF Tasks
<1> QED
  BY <1>3, <1>4

LEMMA KillPhases ==
  ASSUME NEW S \in [Slots -> SubJob]
  PROVE  \A s \in Slots : /\ Kill(S)[s].phase = S[s].phase /\ Kill(S)[s].node = S[s].node
                          /\ S[s].phase = "active" => Kill(S)[s].killed
BY DEF Kill, SubJob, SubPhases

(* An abort, which may come with the end of one sub-job. *)
LEMMA AbortStep ==
  ASSUME Inv, Going, NEW S \in [Slots -> SubJob], NEW N, Abort(S, N), NEW z,
         \A s \in Slots : S[s] = sub[s] \/ (s = z /\ S[s] = NoSub)
  PROVE  Step
<1>1. phase = "active" /\ ~Stopped
  BY DEF Going, Inv, Ended, Stopped
<1>2. \A s \in Slots : /\ sub'[s].phase = S[s].phase /\ sub'[s].node = S[s].node
                       /\ S[s].phase = "active" => sub'[s].killed
  BY KillPhases DEF Abort
<1>3. Live(sub)' = Live(S)
  BY <1>2 DEF Live
<1>4. SubsHaveNodes'
  BY <1>2 DEF Inv, SubsHaveNodes, NoSub
<1>5. AbortReachesJobs'
  BY <1>2 DEF AbortReachesJobs
<1>6. \A s \in Live(S) : s \in Live(sub)
  BY DEF Live, LivePhases, NoSub
<1>7. CASE Live(S) = {}
  <2>1. phase' = "complete" /\ result' = "abort" /\ ~aborted'
    BY <1>7 DEF Abort
  <2>2. Stopped'
    BY <2>1 DEF Stopped
  <2>3. Tasks' = {}
    BY <1>3, <1>7, <2>2 DEF Tasks
  <2>4. \A s \in Live(sub) : s = z
    BY <1>7 DEF Live
  <2>5. \A t \in Tasks : t \in {<<"job", s>> : s \in Slots} => t = <<"job", z>>
    BY <2>4 DEF Tasks, Live
  <2>6. Abstract!End
    BY <1>1, <2>1, <2>2, <2>3, <2>5 DEF Abstract!End
  <2>7. Ended'
    BY <2>1, <2>3 DEF Ended
  <2> QED
    BY <1>4, <1>5, <2>6, <2>7 DEF Step, Abstract!FNext
<1>8. CASE Live(S) # {}
  <2>1. aborted' /\ phase' = phase /\ result' = result
    BY <1>8 DEF Abort
  <2>2. Stopped'
    BY <2>1 DEF Stopped
  <2>3. Tasks # {}
    BY <1>6, <1>8 DEF Tasks
  <2>4. Abstract!Proceed
    BY <1>1, <2>1, <2>2, <2>3, TasksType DEF Abstract!Proceed, AllTasks
  <2>5. Ended'
    BY <1>1, <2>1 DEF Inv, Ended
  <2> QED
    BY <1>4, <1>5, <2>4, <2>5 DEF Step, Abstract!FNext
<1> QED
  BY <1>7, <1>8

-----------------------------------------------------------------------------
(* Each action takes such a step. *)

LEMMA AbortHere ==
  ASSUME Inv, Going, NEW N, Abort(sub, N)
  PROVE  Step
<1>1. sub \in [Slots -> SubJob]
  BY DEF Inv, TypeOK
<1> QED
  BY <1>1, AbortStep

(* A node runs while the walk is under way. *)
LEMMA WalkStep ==
  ASSUME Inv, Going, agenda # <<>>, SubsKept, UNCHANGED ending
  PROVE  Step
<1>1. phase = "active" /\ ~Stopped
  BY DEF Going, Inv, Ended, Stopped
<1>2. <<"walk", 1>> \in Tasks
  BY <1>1 DEF Tasks
<1> QED
  BY <1>1, <1>2, ProceedStep

LEMMA CalmStep ==
  ASSUME Inv, Going, agenda # <<>>, UNCHANGED <<ending, sub>>
  PROVE  Step
BY WalkStep DEF SubsKept

LEMMA RunJobNodeStep ==
  ASSUME Inv, NEW n \in Nodes, Going, agenda # <<>>, RunJobNode(n)
  PROVE  Step
<1>1. sub \in [Slots -> SubJob]
  BY DEF Inv, TypeOK
<1>2. CASE Abort(sub, node)
  BY <1>2, AbortHere
<1>3. CASE Replay(n)
  <2>1. SubsKept
    BY <1>1, <1>3 DEF Replay, SubsKept, NoSub
  <2> QED
    BY <1>3, <2>1, WalkStep DEF Replay
<1>4. CASE Launch(n)
  <2>1. SubsKept
    BY <1>1, <1>4 DEF Launch, SubsKept, NoSub, Going
  <2> QED
    BY <1>4, <2>1, WalkStep DEF Launch
<1> QED
  BY <1>2, <1>3, <1>4 DEF RunJobNode

LEMMA RunNodeStep ==
  ASSUME Inv, NEW n \in Nodes, RunNode(n)
  PROVE  Step
<1>1. agenda # <<>> /\ Going
  BY DEF RunNode, RunTrigger, RunJob, RunEvent, RunAction, RunMultiplex, RunRepeat, RunSplit,
         RunJoin, RunDecision, RunWait, Enter
<1>2. CASE RunTrigger(n) \/ RunJoin(n) \/ RunWait(n)
  BY <1>1, <1>2, CalmStep DEF RunTrigger, RunJoin, RunWait, Calm
<1>3. CASE RunJob(n) \/ RunEvent(n)
  BY <1>1, <1>3, RunJobNodeStep, AbortHere DEF RunJob, RunEvent
<1>4. CASE RunAction(n)
  BY <1>1, <1>4, CalmStep DEF RunAction
<1>5. ASSUME NEW k, Manage(n, k) PROVE Step
  BY <1>1, <1>5, CalmStep DEF Manage
<1>6. CASE RunMultiplex(n)
  BY <1>1, <1>5, <1>6, CalmStep, AbortHere DEF RunMultiplex, Calm
<1>7. CASE RunRepeat(n)
  BY <1>1, <1>5, <1>7, CalmStep DEF RunRepeat, Calm
<1>8. CASE RunSplit(n)
  BY <1>1, <1>5, <1>8, CalmStep DEF RunSplit, Calm
<1>9. CASE RunDecision(n)
  BY <1>1, <1>9, CalmStep, AbortHere DEF RunDecision, Calm
<1> QED
  BY <1>2, <1>3, <1>4, <1>6, <1>7, <1>8, <1>9 DEF RunNode

(* While a task is left the workflow goes on. *)
LEMMA TaskStep ==
  ASSUME Inv, SubsKept, UNCHANGED ending, Tasks # {}
  PROVE  Step
<1>1. phase = "active"
  BY DEF Inv, Ended, TypeOK
<1> QED
  BY <1>1, ProceedStep

LEMMA LiveStep ==
  ASSUME Inv, SubsKept, UNCHANGED ending, NEW s \in Live(sub)
  PROVE  Step
<1>1. <<"job", s>> \in Tasks
  BY DEF Tasks
<1> QED
  BY <1>1, TaskStep

LEMMA EndSubStep ==
  ASSUME Inv, NEW s \in Slots, EndSub(s)
  PROVE  Step
<1>1. sub \in [Slots -> SubJob] /\ s \in Live(sub)
  BY DEF Inv, TypeOK, EndSub, Live, LivePhases
<1>2. \A t \in Slots : sub'[t].node = sub[t].node /\ (t # s => sub'[t] = sub[t])
  BY <1>1 DEF EndSub, SubJob
<1>3. sub'[s].phase = "ending"
  BY <1>1 DEF EndSub, SubJob
<1>4. sub[s].node \in Nodes
  BY <1>1 DEF Inv, SubsHaveNodes, Live, LivePhases
<1>5. SubsKept
  BY <1>2, <1>3, <1>4 DEF SubsKept
<1> QED
  BY <1>1, <1>5, LiveStep DEF EndSub

LEMMA CheckRetryStep ==
  ASSUME Inv, NEW s \in Slots, CheckRetry(s)
  PROVE  Step
<1>1. sub \in [Slots -> SubJob] /\ s \in Live(sub)
  BY DEF Inv, TypeOK, CheckRetry, Live, LivePhases
<1>2. sub[s].node \in Nodes
  BY <1>1 DEF Inv, SubsHaveNodes, Live, LivePhases
<1>3. SubsKept
  <2>1. CASE sub' = [sub EXCEPT ![s].phase = "closing"]
    <3>1. \A t \in Slots : t # s => sub'[t] = sub[t]
      BY <1>1, <2>1
    <3>2. sub'[s].phase = "closing" /\ sub'[s].node = sub[s].node
      BY <1>1, <2>1 DEF SubJob
    <3> QED
      BY <1>2, <3>1, <3>2 DEF SubsKept
  <2>2. CASE sub' = [sub EXCEPT ![s].phase = "closing", ![s].retried = TRUE,
                                ![NewSlot] = RetryOf(s)]
    <3>1. \A t \in Slots : t # s => sub'[t] = sub[t] \/ sub'[t] = RetryOf(s)
      BY <1>1, <2>2
    <3>2. \/ sub'[s] = RetryOf(s)
          \/ sub'[s].phase = "closing" /\ sub'[s].node = sub[s].node
      BY <1>1, <2>2 DEF SubJob
    <3>3. RetryOf(s).retry /\ RetryOf(s).node = sub[s].node
      BY DEF RetryOf, NoSub
    <3> QED
      BY <1>2, <3>1, <3>2, <3>3 DEF SubsKept
  <2> QED
    BY <2>1, <2>2 DEF CheckRetry
<1> QED
  BY <1>1, <1>3, LiveStep DEF CheckRetry

LEMMA FlushSubStep ==
  ASSUME Inv, NEW s \in Slots, FlushSub(s)
  PROVE  Step
<1>1. sub \in [Slots -> SubJob] /\ s \in Live(sub)
  BY DEF Inv, TypeOK, FlushSub, Live, LivePhases
<1>2. SubsKept
  BY <1>1 DEF FlushSub, SubsKept, NoSub
<1> QED
  BY <1>1, <1>2, LiveStep DEF FlushSub

(* A sub-job is gone, or a replay that was loading. *)
LEMMA GoneStep ==
  ASSUME Inv, NEW s \in Slots, sub[s].phase \in {"closing", "loading"},
         sub' = [sub EXCEPT ![s] = NoSub], UNCHANGED ending
  PROVE  Step
<1>1. sub \in [Slots -> SubJob]
  BY DEF Inv, TypeOK
<1>2. SubsKept
  BY <1>1 DEF SubsKept, NoSub
<1>3. CASE sub[s].phase = "closing"
  <2>1. s \in Live(sub)
    BY <1>3 DEF Live, LivePhases
  <2> QED
    BY <1>2, <2>1, LiveStep
<1>4. CASE sub[s].phase = "loading" /\ Stopped
  <2>1. Live(sub') = Live(sub)
    BY <1>1, <1>4 DEF Live, LivePhases, NoSub
  <2> QED
    BY <1>2, <1>4, <2>1, SameTasks, StutterStep
<1>5. CASE sub[s].phase = "loading" /\ ~Stopped
  <2>1. <<"load", s>> \in Tasks
    BY <1>5 DEF Tasks, Loading
  <2> QED
    BY <1>2, <2>1, TaskStep
<1> QED
  BY <1>3, <1>4, <1>5

LEMMA AbortGone ==
  ASSUME Inv, NEW s \in Slots, Going, NEW N, Abort([sub EXCEPT ![s] = NoSub], N)
  PROVE  Step
<1> DEFINE S == [sub EXCEPT ![s] = NoSub]
<1>1. sub \in [Slots -> SubJob]
  BY DEF Inv, TypeOK
<1>2. S \in [Slots -> SubJob]
  BY <1>1 DEF NoSub, SubJob, SubPhases
<1>3. \A t \in Slots : S[t] = sub[t] \/ (t = s /\ S[t] = NoSub)
  BY <1>1
<1> HIDE DEF S
<1>4. Abort(S, N)
  BY DEF S
<1> QED
  BY <1>2, <1>3, <1>4, AbortStep

LEMMA FinishStep ==
  ASSUME Inv, NEW s \in Slots, sub[s].phase \in {"closing", "loading"},
         NEW ok, NEW next, Finish(s, ok, next)
  PROVE  Step
<1>1. CASE sub' = [sub EXCEPT ![s] = NoSub] /\ UNCHANGED ending
  BY <1>1, GoneStep
<1>2. CASE Going /\ Abort([sub EXCEPT ![s] = NoSub], node)
  BY <1>2, AbortGone
<1> QED
  BY <1>1, <1>2 DEF Finish, Ignored

LEMMA SubStepStep ==
  ASSUME Inv, NEW s \in Slots, SubStep(s)
  PROVE  Step
<1>1. CASE FinishSub(s)
  BY <1>1, FinishStep DEF FinishSub
<1>2. CASE ReplayLoaded(s)
  <2>1. CASE sub' = [sub EXCEPT ![s] = NoSub] /\ UNCHANGED ending
    BY <1>2, <2>1, GoneStep DEF ReplayLoaded
  <2>2. ASSUME NEW ok, Finish(s, ok, Matching(s, ok)) PROVE Step
    BY <1>2, <2>2, FinishStep DEF ReplayLoaded
  <2>3. CASE Going /\ Abort([sub EXCEPT ![s] = NoSub], node)
    BY <2>3, AbortGone
  <2>4. phase \in {"active", "complete"}
    BY DEF Inv, TypeOK
  <2> QED
    BY <1>2, <2>1, <2>2, <2>3, <2>4 DEF ReplayLoaded, Going, ending
<1> QED
  BY <1>1, <1>2, EndSubStep, CheckRetryStep DEF SubStep

(* Nodes change while nothing else does. *)
LEMMA NodeStep ==
  ASSUME Inv, NEW n \in Nodes, UNCHANGED <<ending, sub>>,
         \/ node[n].active
         \/ /\ \A m \in Nodes : node'[m].active = node[m].active
            /\ UNCHANGED agenda
  PROVE  Step
<1>1. SubsKept
  BY DEF SubsKept
<1>2. Live(sub') = Live(sub) /\ Loading' = Loading
  BY DEF Live, Loading
<1>3. CASE Stopped
  BY <1>1, <1>2, <1>3, SameTasks, StutterStep
<1>4. CASE ~Stopped /\ node[n].active
  <2>1. <<"node", n>> \in Tasks
    BY <1>4 DEF Tasks
  <2> QED
    BY <1>1, <2>1, TaskStep
<1>5. CASE (\A m \in Nodes : node'[m].active = node[m].active) /\ UNCHANGED agenda
  BY <1>1, <1>2, <1>5, SameTasks, StutterStep
<1> QED
  BY <1>3, <1>4, <1>5

LEMMA ActionDoneStep ==
  ASSUME Inv, NEW n \in Nodes, ActionDone(n)
  PROVE  Step
<1>1. node \in [Nodes -> NodeState] /\ UNCHANGED <<ending, sub, agenda>>
  BY DEF Inv, TypeOK, ActionDone, walk
<1>2. CASE ~node[n].active
  <2>1. \A m \in Nodes \ {n} : node'[m] = node[m]
    BY <1>1 DEF ActionDone
  <2>2. node'[n].active = FALSE
    BY <1>1 DEF ActionDone, NodeState
  <2>3. node[n].active = FALSE
    BY <1>1, <1>2 DEF NodeState
  <2> QED
    BY <1>1, <2>1, <2>2, <2>3, NodeStep
<1> QED
  BY <1>1, <1>2, NodeStep

LEMMA TickNodeStep ==
  ASSUME Inv, NEW n \in Nodes, TickNode(n)
  PROVE  Step
<1>1. UNCHANGED <<ending, sub>>
  BY DEF TickNode
<1>2. node[n].active \/ UNCHANGED <<node, agenda>>
  BY DEF TickNode
<1> QED
  BY <1>1, <1>2, NodeStep

LEMMA SkipItemStep ==
  ASSUME Inv, SkipItem
  PROVE  Step
<1>1. SubsKept /\ UNCHANGED <<ending, sub>> /\ agenda # <<>>
  BY DEF SkipItem, SubsKept
<1>2. CASE Stopped
  BY <1>1, <1>2, SameTasks, StutterStep
<1>3. CASE ~Stopped
  <2>1. <<"walk", 1>> \in Tasks
    BY <1>1, <1>3 DEF Tasks
  <2> QED
    BY <1>1, <2>1, TaskStep
<1> QED
  BY <1>2, <1>3

LEMMA StillStep ==
  ASSUME Inv, UNCHANGED <<ending, sub, node, agenda>>
  PROVE  Step
<1>1. SubsKept /\ Live(sub') = Live(sub) /\ Loading' = Loading
  BY DEF SubsKept, Live, Loading
<1> QED
  BY <1>1, SameTasks, StutterStep

LEMMA ResultType == Result \in {"ok", "warning", "error"}
BY DEF Result

LEMMA TickEndStep ==
  ASSUME Inv, TickEnd
  PROVE  TypeOK' /\ Step
<1>1. TypeOK'
  BY ResultType DEF Inv, TypeOK, TickEnd, walk, ghosts
<1>2. phase' = "complete" /\ aborted' = FALSE /\ (result' = "abort" <=> aborted)
  BY ResultType DEF TickEnd, Inv, TypeOK
<1>3. Live(sub)' = {} /\ UNCHANGED <<sub, node, agenda>> /\ Live(sub) = {} /\ agenda = <<>>
  BY DEF TickEnd, Live, walk, Quiet
<1>4. aborted \/ (Loading' = {} /\ Loading = {} /\ \A n \in Nodes : ~node[n].active)
  BY DEF TickEnd, Busy, Loading
<1>5. Stopped' <=> Stopped
  BY <1>2 DEF Stopped, Inv, Ended, TickEnd
<1>6. Tasks = {} /\ Tasks' = {}
  <2>1. CASE aborted
    BY <1>2, <1>3, <2>1 DEF Tasks, Stopped
  <2>2. CASE ~aborted
    BY <1>3, <1>4, <2>2 DEF Tasks
  <2> QED
    BY <2>1, <2>2
<1>7. Abstract!End
  <2>1. Stopped' \in {Stopped, TRUE}
    BY <1>5 DEF Stopped
  <2> QED
    BY <1>2, <1>6, <2>1 DEF Abstract!End, TickEnd
<1>8. SubsHaveNodes'
  BY <1>3 DEF Inv, SubsHaveNodes
<1> QED
  BY <1>1, <1>2, <1>6, <1>7, <1>8 DEF Step, Abstract!FNext, Ended, AbortReachesJobs

-----------------------------------------------------------------------------
(* The invariant holds, and every step is one of ForkJoin. *)

LEMMA InvInit == Init => Inv
<1> SUFFICES ASSUME Init PROVE Inv
  OBVIOUS
<1>1. flow.start \in Nodes
  BY FlowAssumption DEF Init, FlowType
<1>2. agenda \in Seq(Item)
  BY <1>1 DEF Init, Item
<1>3. TypeOK
  BY <1>2 DEF Init, TypeOK, NodeState, Tally, SubJob, SubPhases, NoSub
<1> QED
  BY <1>3 DEF Init, Inv, SubsHaveNodes, Ended, AbortReachesJobs, NoSub

LEMMA InvStep ==
  ASSUME Inv, [Next]_vars
  PROVE  Inv' /\ [Abstract!FNext]_(Abstract!fvars)
<1> SUFFICES TypeOK' /\ Step
  BY DEF Step, Inv
<1>1. CASE SkipItem
  <2>1. agenda' \in Seq(Item)
    BY <1>1, NothingThenType DEF SkipItem, Inv
  <2>2. TypeOK'
    BY <1>1, <2>1 DEF SkipItem, Inv, TypeOK, ending, ghosts
  <2> QED
    BY <1>1, <2>2, SkipItemStep
<1>2. CASE TickNodes
  <2>1. TypeOK'
    BY <1>2 DEF TickNodes, Inv, TypeOK, ending, ghosts
  <2> QED
    BY <1>2, <2>1, StillStep DEF TickNodes
<1>3. CASE TickEnd
  BY <1>3, TickEndStep
<1>4. CASE UserAbort
  <2>1. TypeOK'
    BY <1>4, AbortType DEF UserAbort, Inv, TypeOK, walk, ghosts
  <2> QED
    BY <1>4, <2>1, AbortHere DEF UserAbort
<1>5. CASE UNCHANGED vars
  <2>1. TypeOK'
    BY <1>5 DEF vars, Inv, TypeOK
  <2> QED
    BY <1>5, <2>1, StillStep DEF vars, ending
<1>6. ASSUME NEW n \in Nodes, RunNode(n) PROVE TypeOK' /\ Step
  BY <1>6, RunNodeType, RunNodeStep DEF Inv
<1>7. ASSUME NEW n \in Nodes, ActionDone(n) PROVE TypeOK' /\ Step
  BY <1>7, ActionDoneType, ActionDoneStep DEF Inv
<1>8. ASSUME NEW n \in Nodes, WaitOver(n) PROVE TypeOK' /\ Step
  BY <1>8, WaitOverType, NodeStep DEF Inv, WaitOver
<1>9. ASSUME NEW n \in Nodes, TickNode(n) PROVE TypeOK' /\ Step
  BY <1>9, TickNodeType, TickNodeStep DEF Inv
<1>10. ASSUME NEW s \in Slots, SubStep(s) PROVE TypeOK' /\ Step
  <2>1. sub[s].phase # "none" => sub[s].node \in Nodes
    BY DEF Inv, SubsHaveNodes
  <2>2. TypeOK'
    BY <1>10, <2>1, EndSubType, CheckRetryType, FinishSubType, ReplayLoadedType
       DEF SubStep, CheckRetry, FinishSub, ReplayLoaded, Inv
  <2> QED
    BY <1>10, <2>2, SubStepStep
<1>11. ASSUME NEW s \in Slots, FlushSub(s) PROVE TypeOK' /\ Step
  BY <1>11, FlushSubType, FlushSubStep DEF Inv
<1> QED
  BY <1>1, <1>2, <1>3, <1>4, <1>5, <1>6, <1>7, <1>8, <1>9, <1>10, <1>11 DEF Next, Idle

LEMMA InvHolds == Spec => []Inv
<1>1. Inv /\ [Next]_vars => Inv'
  BY InvStep
<1> QED
  BY InvInit, <1>1, PTL DEF Spec

(* Every variable of a workflow keeps its type: the state records of the    *)
(* nodes, the counts of completed jobs, the sub-jobs, the rest of the walk.  *)
THEOREM WorkflowTypeCorrect == Spec => []TypeOK
<1>1. Inv => TypeOK
  BY DEF Inv
<1> QED
  BY <1>1, InvHolds, PTL

(* Every sub-job of an aborted workflow was told to abort, or is the retry of *)
(* one: for every graph, every limit and every order of callbacks.            *)
THEOREM AbortReachesJobsCorrect == Spec => []AbortReachesJobs
<1>1. Inv => AbortReachesJobs
  BY DEF Inv
<1> QED
  BY <1>1, InvHolds, PTL

(* The workflow engine is a fork-join: only what is under way starts something, *)
(* a workflow ends once, when nothing is under way or when it was aborted and   *)
(* its last job is gone, and nothing runs afterwards.                           *)
THEOREM ForkJoinCorrect == Spec => ImplementsForkJoin
<1>1. Init => Abstract!FInit
  <2> SUFFICES ASSUME Init PROVE Abstract!FInit
    OBVIOUS
  <2>1. Live(sub) = {} /\ Loading = {} /\ \A n \in Nodes : ~node[n].active
    BY DEF Init, Live, LivePhases, Loading, NoSub
  <2>2. Tasks \subseteq {<<"walk", 1>>}
    BY <2>1 DEF Tasks
  <2>3. Stopped = FALSE /\ phase # "complete"
    BY DEF Init, Stopped
  <2> QED
    BY <2>2, <2>3 DEF Abstract!FInit
<1>2. Inv /\ [Next]_vars => [Abstract!FNext]_(Abstract!fvars)
  BY InvStep
<1> QED
  BY <1>1, <1>2, InvHolds, PTL DEF Spec, ImplementsForkJoin, Abstract!FSpec
=============================================================================
