------------------------ MODULE WorkflowCountsProofs ------------------------
(***************************************************************************)
(* What the controllers of Workflow count: a controller waits for exactly  *)
(* the jobs it has, and what it decides when they are done is right.       *)
(***************************************************************************)
EXTENDS WorkflowProofs

(* A controller that launches sets of jobs, and the node it launches. *)
Manages(n) == Kind(n) \in Controlling /\ Managed(n)
Own(n) == Out(n)[1].to

(* A run of x that counts for src: a controller runs only its own node, and  *)
(* a node that nothing else runs counts for its controller.                 *)
Fits(src, x) ==
  /\ src \in Nodes /\ Manages(src) => x = Own(src)
  /\ \A n \in Nodes : Manages(n) /\ Alone(n, x) /\ x = Own(n) => src = n

(* A run of x that counts for src is ahead or under way. *)
Expected(src, x) ==
  \/ \E i \in DOMAIN agenda : agenda[i].source = src /\ agenda[i].node = x
  \/ \E s \in Slots : sub[s].phase # "none" /\ sub[s].launcher = src /\ sub[s].node = x

AllFit == \A src \in Nodes \cup {NoNode}, x \in Nodes : Expected(src, x) => Fits(src, x)
SubsRun ==
  \A s \in Slots :
    /\ sub[s].phase # "none" => Kind(sub[s].node) \in {"job", "event"}
    /\ sub[s].phase \in {"active", "ending"} => ~sub[s].retried
ActiveManages ==
  \A n \in Nodes : Kind(n) \in Controlling /\ node[n].active =>
    Going /\ Managed(n) /\ node[n].max > 0
Shape == AllFit /\ SubsRun /\ ActiveManages

(* The jobs a controller still waits for, and their runs that are ahead. *)
Debt(n) == Cardinality(Owed(n)) + Cardinality(Ahead(n))
Bounded ==
  Going => \A n \in Nodes \ reentered : Manages(n) =>
    Debt(n) <= IF node[n].active THEN node[n].max - node[n].count ELSE 0

(* The successes of a set are those of its node, as long as it is the first. *)
FirstSet ==
  \A n \in Nodes : Manages(n) /\ Alone(n, Own(n)) =>
    /\ rounds[n] <= 1 => jobs[Own(n)].ok = won[n]
    /\ rounds[n] = 0 => won[n] = 0 /\ \A x \in Nodes : ~Expected(n, x)

Counting == Shape /\ ControllerFed /\ Bounded /\ FirstSet

-----------------------------------------------------------------------------
(* Which nodes run which. *)

LEMMA OutWire ==
  ASSUME TypeOK, NEW x \in Nodes, NEW i \in DOMAIN Out(x)
  PROVE  <<x, i>> \in Wires(Out(x)[i].to)
BY OutType DEF Wires

LEMMA ManagesType ==
  ASSUME TypeOK, NEW n \in Nodes, Manages(n)
  PROVE  /\ 1 \in DOMAIN Out(n) /\ Own(n) \in Nodes /\ Kind(Own(n)) \in {"job", "event"}
         /\ DOMAIN Out(n) = {1}
BY OutType DEF Manages, Managed, Own

(* A node that is wired to one wire only is wired to one node only. *)
LEMMA OneWire ==
  ASSUME TypeOK, NEW x \in Nodes, NEW n \in Nodes, NEW i \in DOMAIN Out(x),
         Manages(n), Alone(n, Own(n)), Out(x)[i].to = Own(n)
  PROVE  x = n
<1> DEFINE W == Wires(Own(n))
<1>1. <<x, i>> \in W /\ <<n, 1>> \in W
  BY OutWire, ManagesType DEF Own
<1>2. \E w : W = {w}
  <2>1. IsFiniteSet(W)
    BY ManagesType, WiresFiniteSet
  <2> QED
    BY <2>1, FS_Singleton DEF Alone
<1> QED
  BY <1>1, <1>2

(* What a node runs over one of its wires fits, *)
LEMMA FitsOwn ==
  ASSUME TypeOK, NEW x \in Nodes, NEW i \in DOMAIN Out(x)
  PROVE  Fits(x, Out(x)[i].to)
BY OneWire, ManagesType DEF Fits, Own

(* so does what a job runs over its wires, *)
LEMMA FitsNone ==
  ASSUME TypeOK, NEW x \in Nodes, Kind(x) \notin Controlling, NEW i \in DOMAIN Out(x)
  PROVE  Fits(NoNode, Out(x)[i].to)
BY OneWire, FlowAssumption DEF Fits, Manages

(* the node a user jumps to, and the first node. *)
LEMMA FitsJump ==
  ASSUME TypeOK, NEW x \in flow.redirects \cup {flow.start}
  PROVE  Fits(NoNode, x)
BY FlowAssumption DEF Fits, Alone

LEMMA FitsFollow ==
  ASSUME TypeOK, NEW x \in Nodes, NEW src \in {x, NoNode}, NEW input, NEW c,
         src = x \/ Kind(x) \notin Controlling,
         NEW i \in DOMAIN Follow(x, src, input, c)
  PROVE  LET item == Follow(x, src, input, c)[i]
         IN  Fits(item.source, item.node) /\ item.source = src
<1>1. i \in DOMAIN Out(x)
  BY DEF Follow
<1> QED
  BY <1>1, FitsOwn, FitsNone DEF Follow

-----------------------------------------------------------------------------
(* The agenda. *)

Marks(a, n) == {i \in DOMAIN a : a[i].source = n /\ a[i].fires}

LEMMA MarksFinite ==
  ASSUME NEW a \in Seq(Item), NEW n
  PROVE  IsFiniteSet(Marks(a, n)) /\ Cardinality(Marks(a, n)) \in Nat
<1>1. IsFiniteSet(DOMAIN a)
  BY FS_Interval
<1>2. Marks(a, n) \in SUBSET DOMAIN a
  BY DEF Marks
<1> QED
  BY <1>1, <1>2, FS_Subset, FS_CardinalityType

LEMMA MarksNone ==
  ASSUME NEW a, NEW n, \A i \in DOMAIN a : ~(a[i].source = n /\ a[i].fires)
  PROVE  Cardinality(Marks(a, n)) = 0
<1>1. Marks(a, n) = {}
  BY DEF Marks
<1> QED
  BY <1>1, FS_EmptySet

(* Numbers moved by a constant are as many. *)
LEMMA Moved ==
  ASSUME NEW S \in SUBSET Int, IsFiniteSet(S), NEW d \in Int, NEW T \in SUBSET Int,
         \A i \in S : i + d \in T, \A i \in T : i - d \in S
  PROVE  IsFiniteSet(T) /\ Cardinality(T) = Cardinality(S)
<1> DEFINE f == [i \in S |-> i + d]
<1>1. f \in Bijection(S, T)
  <2>1. \A i, j \in S : i + d = j + d => i = j
    OBVIOUS
  <2>2. f \in Injection(S, T)
    BY <2>1 DEF Injection, IsInjective
  <2>3. \A j \in T : j - d \in S /\ j = (j - d) + d
    OBVIOUS
  <2>4. f \in Surjection(S, T)
    BY <2>3 DEF Surjection
  <2> QED
    BY <2>2, <2>4 DEF Bijection
<1>2. ExistsBijection(S, T)
  BY <1>1 DEF ExistsBijection
<1> QED
  BY <1>2, FS_Bijection

LEMMA MarksConcat ==
  ASSUME NEW a \in Seq(Item), NEW b \in Seq(Item), NEW n
  PROVE  Cardinality(Marks(a \o b, n)) = Cardinality(Marks(a, n)) + Cardinality(Marks(b, n))
<1>0. PICK d \in Nat : /\ d = Len(a) /\ DOMAIN a = 1..d
                       /\ DOMAIN b = 1..Len(b) /\ Len(b) \in Nat
  OBVIOUS
<1> DEFINE A == Marks(a, n)
           B == {i + d : i \in Marks(b, n)}
<1>1. Marks(a \o b, n) = A \cup B
  <2>1. DOMAIN (a \o b) = 1..(d + Len(b))
    BY <1>0
  <2>2. \A i \in 1..d : (a \o b)[i] = a[i]
    BY <1>0
  <2>3. \A i \in 1..Len(b) : (a \o b)[i + d] = b[i]
    BY <1>0
  <2>4. ASSUME NEW i \in DOMAIN (a \o b), i \notin 1..d
        PROVE  i - d \in 1..Len(b) /\ i = (i - d) + d
    BY <1>0, <2>1, <2>4
  <2> DEFINE c == a \o b
  <2> HIDE DEF c
  <2>5. ASSUME NEW i \in Marks(c, n) PROVE i \in A \cup B
    <3>1. CASE i \in 1..d
      BY <1>0, <2>2, <2>5, <3>1 DEF Marks, c
    <3>2. CASE i \notin 1..d
      <4>1. i - d \in 1..Len(b) /\ i = (i - d) + d
        BY <2>4, <2>5, <3>2 DEF Marks, c
      <4>2. b[i - d] = c[i]
        BY <2>3, <4>1 DEF c
      <4>3. i - d \in Marks(b, n)
        BY <1>0, <2>5, <4>1, <4>2 DEF Marks
      <4> QED
        BY <4>1, <4>3
    <3> QED
      BY <3>1, <3>2
  <2>6. A \subseteq Marks(c, n)
    BY <1>0, <2>1, <2>2 DEF Marks, c
  <2>7. B \subseteq Marks(c, n)
    BY <1>0, <2>1, <2>3 DEF Marks, c
  <2> QED
    BY <2>5, <2>6, <2>7 DEF c
<1>2. IsFiniteSet(A) /\ IsFiniteSet(Marks(b, n))
  BY MarksFinite
<1>3. IsFiniteSet(B) /\ Cardinality(B) = Cardinality(Marks(b, n))
  <2>1. Marks(b, n) \in SUBSET Int
    BY <1>0 DEF Marks
  <2>2. B \in SUBSET Int /\ \A i \in Marks(b, n) : i + d \in B
    BY <1>0, <2>1
  <2>3. \A i \in B : i - d \in Marks(b, n)
    BY <1>0, <2>1
  <2> HIDE DEF B
  <2> QED
    BY <1>0, <1>2, <2>1, <2>2, <2>3, Moved
<1>4. A \cap B = {}
  BY <1>0 DEF Marks
<1>5. Cardinality(A \cap B) = 0
  BY <1>4, FS_EmptySet
<1>6. Cardinality(A) \in Nat /\ Cardinality(B) \in Nat
  BY <1>2, <1>3, FS_CardinalityType
<1>7. Cardinality(A \cup B) = Cardinality(A) + Cardinality(B) - Cardinality(A \cap B)
  <2> HIDE DEF A, B
  <2> QED
    BY <1>2, <1>3, FS_Union
<1> QED
  BY <1>1, <1>3, <1>5, <1>6, <1>7

(* The head of a sequence counts for its source if it fires. *)
LEMMA MarksHead ==
  ASSUME NEW a \in Seq(Item), a # <<>>, NEW n
  PROVE  Cardinality(Marks(a, n)) =
           Cardinality(Marks(Tail(a), n)) +
             (IF Head(a).source = n /\ Head(a).fires THEN 1 ELSE 0)
<1> DEFINE h == <<Head(a)>>
           t == Tail(a)
<1>1. h \in Seq(Item) /\ t \in Seq(Item) /\ a = h \o t /\ DOMAIN h = {1} /\ h[1] = Head(a)
  OBVIOUS
<1> HIDE DEF h, t
<1>2. Cardinality(Marks(a, n)) = Cardinality(Marks(h, n)) + Cardinality(Marks(t, n))
  BY <1>1, MarksConcat
<1>3. Cardinality(Marks(t, n)) \in Nat
  BY <1>1, MarksFinite
<1>4. CASE Head(a).source = n /\ Head(a).fires
  <2>1. Marks(h, n) = {1}
    BY <1>1, <1>4 DEF Marks
  <2>2. Cardinality(Marks(h, n)) = 1
    BY <2>1, FS_Singleton
  <2> QED
    BY <1>2, <1>3, <1>4, <2>2 DEF t
<1>5. CASE ~(Head(a).source = n /\ Head(a).fires)
  <2>1. Cardinality(Marks(h, n)) = 0
    BY <1>1, <1>5, MarksNone
  <2> QED
    BY <1>2, <1>3, <1>5, <2>1 DEF t
<1> QED
  BY <1>4, <1>5

LEMMA MarksTimes ==
  ASSUME NEW k \in Nat, NEW x, NEW src, NEW input, NEW n
  PROVE  Cardinality(Marks(Times(k, x, src, input), n)) = IF src = n THEN k ELSE 0
<1>1. CASE src = n
  <2>1. Marks(Times(k, x, src, input), n) = 1..k
    BY <1>1 DEF Marks, Times
  <2>2. Cardinality(1..k) = IF 1 > k THEN 0 ELSE k - 1 + 1
    BY FS_Interval
  <2> QED
    BY <1>1, <2>1, <2>2
<1>2. CASE src # n
  BY <1>2, MarksNone DEF Times
<1> QED
  BY <1>1, <1>2

(* What Then leaves are the items it puts first, and items of before. *)
LEMMA ThenItems ==
  ASSUME TypeOK, agenda # <<>>, NEW items \in Seq(Item), Then(items), NEW i \in DOMAIN agenda'
  PROVE  \/ \E j \in DOMAIN items : agenda'[i] = items[j]
         \/ \E j \in DOMAIN agenda : agenda'[i] = agenda[j]
<1> DEFINE t == Tail(agenda)
<1>1. /\ t \in Seq(Item) /\ agenda' = items \o t /\ DOMAIN t = 1..Len(t)
      /\ Len(t) \in Nat /\ Len(items) \in Nat /\ DOMAIN items = 1..Len(items)
      /\ \A j \in 1..Len(t) : j + 1 \in DOMAIN agenda /\ t[j] = agenda[j + 1]
  BY DEF TypeOK, Then
<1> HIDE DEF t
<1>2. i \in 1..(Len(items) + Len(t))
  BY <1>1
<1>3. CASE i \in 1..Len(items)
  BY <1>1, <1>3
<1>4. CASE i \notin 1..Len(items)
  <2>1. i - Len(items) \in 1..Len(t) /\ agenda'[i] = t[i - Len(items)]
    BY <1>1, <1>2, <1>4
  <2> QED
    BY <1>1, <2>1
<1> QED
  BY <1>3, <1>4

(* A walk that does not run a node for c puts its items before those ahead. *)
LEMMA AheadWalk ==
  ASSUME TypeOK, agenda # <<>>, NEW items \in Seq(Item), Then(items), NEW c
  PROVE  Cardinality(Ahead(c)') =
           Cardinality(Ahead(c)) + Cardinality(Marks(items, c))
             - (IF Item1.source = c /\ Item1.fires THEN 1 ELSE 0)
<1> DEFINE t == Tail(agenda)
<1>1. t \in Seq(Item) /\ agenda \in Seq(Item) /\ agenda' = items \o t
  BY DEF TypeOK, Then
<1> HIDE DEF t
<1>2. Ahead(c)' = Marks(items \o t, c) /\ Ahead(c) = Marks(agenda, c)
  BY <1>1 DEF Ahead, Marks
<1>3. Cardinality(Marks(items \o t, c)) = Cardinality(Marks(items, c)) + Cardinality(Marks(t, c))
  BY <1>1, MarksConcat
<1>4. Cardinality(Marks(agenda, c)) =
        Cardinality(Marks(t, c)) + (IF Item1.source = c /\ Item1.fires THEN 1 ELSE 0)
  BY <1>1, MarksHead DEF Item1, t
<1>5. Cardinality(Marks(items, c)) \in Nat /\ Cardinality(Marks(t, c)) \in Nat
  BY <1>1, MarksFinite
<1> QED
  BY <1>2, <1>3, <1>4, <1>5

(* A walk that goes on with what is left. *)
LEMMA NothingWalk ==
  ASSUME TypeOK, agenda # <<>>, Then(<<>>), NEW c
  PROVE  /\ \A i \in DOMAIN agenda' : \E j \in DOMAIN agenda : agenda'[i] = agenda[j]
         /\ Cardinality(Ahead(c)') =
              Cardinality(Ahead(c)) - (IF Item1.source = c /\ Item1.fires THEN 1 ELSE 0)
<1>0. <<>> \in Seq(Item)
  OBVIOUS
<1>1. PICK e \in Seq(Item) : e = <<>>
  BY <1>0, Zenon
<1>2. Then(e) /\ DOMAIN e = {}
  BY <1>1
<1>3. Cardinality(Marks(e, c)) = 0
  BY <1>2, MarksNone
<1>4. Cardinality(Ahead(c)) \in Nat
  <2>1. Ahead(c) = Marks(agenda, c)
    BY DEF Ahead, Marks
  <2> QED
    BY <2>1, MarksFinite DEF TypeOK
<1>5. \A i \in DOMAIN agenda' : \E j \in DOMAIN agenda : agenda'[i] = agenda[j]
  BY <1>2, ThenItems
<1>6. Cardinality(Ahead(c)') =
        Cardinality(Ahead(c)) + Cardinality(Marks(e, c))
          - (IF Item1.source = c /\ Item1.fires THEN 1 ELSE 0)
  BY <1>2, AheadWalk
<1> QED
  BY <1>3, <1>4, <1>5, <1>6

-----------------------------------------------------------------------------
(* The jobs under way. *)

LEMMA OwedFinite ==
  ASSUME NEW n
  PROVE  /\ IsFiniteSet(Owed(n)) /\ Cardinality(Owed(n)) \in Nat
         /\ IsFiniteSet(Owed(n)') /\ Cardinality(Owed(n)') \in Nat
<1>1. Owed(n) \in SUBSET Slots /\ Owed(n)' \in SUBSET Slots
  BY DEF Owed
<1> QED
  BY <1>1, FlowAssumption, FS_Subset, FS_CardinalityType

LEMMA DebtType ==
  ASSUME TypeOK, NEW n
  PROVE  /\ Debt(n) \in Nat /\ Cardinality(Ahead(n)) \in Nat
         /\ agenda' \in Seq(Item) => Debt(n)' \in Nat
<1>1. ASSUME NEW a \in Seq(Item) PROVE Cardinality(Marks(a, n)) \in Nat
  BY MarksFinite
<1>2. Ahead(n) = Marks(agenda, n) /\ Ahead(n)' = Marks(agenda', n)
  BY DEF Ahead, Marks
<1> QED
  BY <1>1, <1>2, OwedFinite DEF TypeOK, Debt

LEMMA OwedSame ==
  ASSUME NEW n,
         \A s \in Slots : /\ sub'[s].phase = "none" <=> sub[s].phase = "none"
                          /\ sub'[s].launcher = sub[s].launcher
                          /\ sub'[s].retried = sub[s].retried
  PROVE  Owed(n)' = Owed(n)
BY DEF Owed

LEMMA OwedNew ==
  ASSUME NEW n, NEW s \in Slots, sub[s].phase = "none",
         sub'[s].phase # "none", ~sub'[s].retried,
         \A t \in Slots \ {s} : sub'[t] = sub[t]
  PROVE  Cardinality(Owed(n)') =
           Cardinality(Owed(n)) + (IF sub'[s].launcher = n THEN 1 ELSE 0)
<1>1. s \notin Owed(n)
  BY DEF Owed
<1>2. CASE sub'[s].launcher = n
  <2>1. Owed(n)' = Owed(n) \cup {s}
    BY <1>2 DEF Owed
  <2> QED
    BY <1>1, <1>2, <2>1, OwedFinite, FS_AddElement
<1>3. CASE sub'[s].launcher # n
  <2>1. Owed(n)' = Owed(n)
    BY <1>3 DEF Owed
  <2> QED
    BY <1>3, <2>1, OwedFinite
<1> QED
  BY <1>2, <1>3

LEMMA OwedGone ==
  ASSUME NEW n, NEW s \in Slots, sub'[s].phase = "none",
         \A t \in Slots \ {s} : sub'[t] = sub[t]
  PROVE  Cardinality(Owed(n)') =
           Cardinality(Owed(n)) - (IF s \in Owed(n) THEN 1 ELSE 0)
<1>1. Owed(n)' = Owed(n) \ {s}
  BY DEF Owed
<1>2. IsFiniteSet(Owed(n)) /\ Cardinality(Owed(n)) \in Nat
  BY OwedFinite
<1>3. Cardinality(Owed(n) \ {s}) =
        IF s \in Owed(n) THEN Cardinality(Owed(n)) - 1 ELSE Cardinality(Owed(n))
  BY <1>2, FS_RemoveElement
<1> QED
  BY <1>1, <1>2, <1>3

LEMMA LessThan == \A a, b \in Nat : a < b => <<a, b>> \in OpToRel(<, Nat)
BY Zenon DEF OpToRel

(* There is a new slot if one is free. *)
LEMMA NewSlotFree ==
  ASSUME Free # {}
  PROVE  NewSlot \in Free
<1>1. Free \subseteq Nat
  BY FlowAssumption DEF Free
<1>2. \E s \in Free : \A t \in Free : ~(<<t, s>> \in OpToRel(<, Nat))
  BY <1>1, NatLessThanWellFounded, WFMin
<1>3. PICK s \in Free : \A t \in Free : ~(<<t, s>> \in OpToRel(<, Nat))
  BY <1>2
<1>4. \A t \in Free : s <= t
  <2>1. \A t \in Free : ~(t < s)
    BY <1>1, <1>3, LessThan, Zenon
  <2> QED
    BY <1>1, <2>1
<1> QED
  BY <1>4 DEF NewSlot

-----------------------------------------------------------------------------
(* What a step does to the counts of a controller: nothing; one of its jobs  *)
(* is done; one is flushed; it launches a set; a split has an empty list.   *)

Same(c) ==
  /\ node'[c].active = node[c].active
  /\ node'[c].max = node[c].max /\ node'[c].count = node[c].count
Done(c) ==
  /\ Debt(c)' = Debt(c) - 1 /\ node'[c].max = node[c].max
  /\ ~node[c].active => ~node'[c].active
  /\ node[c].active => /\ node'[c].count = node[c].count + 1
                       /\ node'[c].active <=> node'[c].count < node[c].max
Begun(c) ==
  /\ Debt(c)' = Debt(c) + node'[c].max /\ node'[c].count = 0 /\ node'[c].active
  /\ node[c].active => c \in reentered'
Emptied(c) ==
  /\ Debt(c)' = Debt(c) /\ ~node'[c].active
  /\ node[c].active => c \in reentered'
Accounts(c) ==
  \/ Debt(c)' = Debt(c) /\ Same(c)
  \/ Done(c)
  \/ Debt(c)' <= Debt(c) /\ Same(c) /\ c \in lost'
  \/ Begun(c)
  \/ Emptied(c)

(* What every step is: new runs fit, and are of sets that have been counted. *)
NewFit(src, x) == Fits(src, x) /\ (src \in Nodes /\ Manages(src) => rounds'[src] > 0)
Regular ==
  /\ flow' = flow /\ (Going' => Going) /\ reentered \subseteq reentered' /\ lost \subseteq lost'
  /\ \A src \in Nodes \cup {NoNode}, x \in Nodes :
       Expected(src, x)' => Expected(src, x) \/ NewFit(src, x)
  /\ SubsRun' /\ ActiveManages'
  /\ Going' => \A c \in Nodes : Manages(c) => Accounts(c)

(* The graph does not change. *)
LEMMA FlowKept ==
  ASSUME flow' = flow
  PROVE  \A n \in Nodes : /\ Kind(n)' = Kind(n) /\ Managed(n)' = Managed(n)
                          /\ Manages(n)' = Manages(n)
BY DEF Kind, Managed, Manages, Out

LEMMA KillKeeps ==
  ASSUME NEW S \in [Slots -> SubJob], NEW s \in Slots
  PROVE  /\ Kill(S)[s].phase = S[s].phase /\ Kill(S)[s].node = S[s].node
         /\ Kill(S)[s].launcher = S[s].launcher /\ Kill(S)[s].retried = S[s].retried
BY DEF Kill, SubJob, SubPhases

LEMMA AbortRegular ==
  ASSUME Inv, Shape, Going, NEW S \in [Slots -> SubJob], NEW N \in [Nodes -> NodeState],
         Abort(S, N), \A s \in Slots : S[s] = sub[s] \/ S[s] = NoSub,
         \A i \in DOMAIN agenda' : \E j \in DOMAIN agenda : agenda'[i] = agenda[j],
         UNCHANGED <<flow, reentered, lost>>
  PROVE  Regular
<1>1. ~Going'
  BY DEF Abort, Going
<1>2. ActiveManages'
  <2>1. \A n \in Nodes : Kind(n) \in Controlling => ~node'[n].active
    BY DEF Abort, Deactivate, Controllers, NodeState
  <2> QED
    BY <2>1, FlowKept DEF ActiveManages
<1>3. \A s \in Slots : sub'[s].phase # "none" =>
        /\ sub'[s].phase = sub[s].phase /\ sub'[s].node = sub[s].node
        /\ sub'[s].launcher = sub[s].launcher /\ sub'[s].retried = sub[s].retried
  BY KillKeeps DEF Abort, NoSub
<1>4. SubsRun'
  BY <1>3 DEF SubsRun, Shape, Kind
<1>5. ASSUME NEW src, NEW x, Expected(src, x)' PROVE Expected(src, x)
  BY <1>3, <1>5 DEF Expected
<1> QED
  BY <1>1, <1>2, <1>4, <1>5 DEF Regular

(* A walk that runs no job. *)
LEMMA WalkRegular ==
  ASSUME Inv, Shape, NEW n \in Nodes, NEW kind, kind \notin {"job", "event"}, Enter(n, kind),
         NEW items \in Seq(Item), Then(items),
         \A i \in DOMAIN items : NewFit(items[i].source, items[i].node),
         UNCHANGED <<flow, ending, sub, lost>>, reentered \subseteq reentered',
         node' \in [Nodes -> NodeState],
         \A c \in Nodes : Kind(c) \in Controlling /\ c # n => Same(c),
         Kind(n) \in Controlling /\ node'[n].active => Managed(n) /\ node'[n].max > 0,
         \A c \in Nodes : Manages(c) =>
           \/ Same(c) /\ Cardinality(Marks(items, c)) = 0
           \/ /\ node[c].active => c \in reentered'
              /\ \/ ~node'[c].active /\ Cardinality(Marks(items, c)) = 0
                 \/ /\ node'[c].active /\ node'[c].count = 0
                    /\ Cardinality(Marks(items, c)) = node'[c].max
  PROVE  Regular
<1>0. TypeOK /\ agenda # <<>> /\ Going /\ Kind(n) = kind /\ Item1.node = n /\ Item1.source \in Nodes \cup {NoNode}
  BY EnterType DEF Inv, Enter
<1>1. Going' /\ \A c \in Nodes : Kind(c)' = Kind(c) /\ Managed(c)' = Managed(c)
  BY <1>0, FlowKept DEF ending, Going
<1>2. ActiveManages'
  BY <1>1 DEF ActiveManages, Shape, Same
<1>3. SubsRun'
  BY <1>1 DEF SubsRun, Shape, Kind
<1>4. ASSUME NEW src, NEW x, Expected(src, x)' PROVE Expected(src, x) \/ NewFit(src, x)
  BY <1>0, <1>4, ThenItems DEF Expected
<1>5. ASSUME NEW c \in Nodes, Manages(c) PROVE Accounts(c)
  <2>1. Item1.source # c
    <3> SUFFICES ASSUME Item1.source = c PROVE FALSE
      OBVIOUS
    <3>1. Expected(c, n)
      BY <1>0 DEF Expected, Item1, TypeOK
    <3>2. n = Own(c)
      BY <1>5, <3>1 DEF Shape, AllFit, Fits
    <3> QED
      BY <1>0, <1>5, <3>2, ManagesType
  <2>2. Cardinality(Ahead(c)') = Cardinality(Ahead(c)) + Cardinality(Marks(items, c))
    BY <1>0, <2>1, AheadWalk, DebtType, MarksFinite
  <2>3. Owed(c)' = Owed(c)
    BY OwedSame
  <2>4. Debt(c)' = Debt(c) + Cardinality(Marks(items, c))
    BY <1>0, <2>2, <2>3, OwedFinite, DebtType, MarksFinite DEF Debt
  <2>5. Debt(c) \in Nat
    BY <1>0, DebtType
  <2> QED
    BY <1>5, <2>4, <2>5 DEF Accounts, Begun, Emptied
<1> QED
  BY <1>0, <1>1, <1>2, <1>3, <1>4, <1>5 DEF Regular

(* A job or a replay is started for the head of the agenda. *)
LEMMA LaunchRegular ==
  ASSUME Inv, Inv', Shape, NEW n \in Nodes, NEW kind \in {"job", "event"}, Enter(n, kind),
         Then(<<>>), Free # {}, UNCHANGED <<flow, ending, node, lost, reentered>>,
         NEW new \in SubJob, sub' = [sub EXCEPT ![NewSlot] = new],
         new.phase \in {"active", "loading"}, new.node = n, new.launcher = Item1.source,
         ~new.retried
  PROVE  Regular
<1>0. TypeOK /\ agenda # <<>> /\ Going /\ Kind(n) = kind /\ Item1.node = n /\ Item1.fires
  BY EnterType DEF Inv, Enter
<1>1. Going' /\ \A c \in Nodes : Kind(c)' = Kind(c) /\ Managed(c)' = Managed(c)
  BY <1>0, FlowKept DEF ending, Going
<1>2. PICK s \in Slots : /\ s = NewSlot /\ sub[s].phase = "none" /\ sub'[s] = new
                        /\ \A t \in Slots \ {s} : sub'[t] = sub[t]
  BY <1>0, NewSlotFree DEF Free, TypeOK
<1>3. ActiveManages'
  BY <1>1 DEF ActiveManages, Shape
<1>4. SubsRun'
  <2>1. ASSUME NEW t \in Slots
        PROVE  /\ sub'[t].phase # "none" => Kind(sub'[t].node) \in {"job", "event"}
               /\ sub'[t].phase \in {"active", "ending"} => ~sub'[t].retried
    BY <1>0, <1>2 DEF SubsRun, Shape
  <2> QED
    BY <2>1 DEF SubsRun, Kind
<1>6. ASSUME NEW src, NEW x, Expected(src, x)' PROVE Expected(src, x)
  <2>1. CASE \E i \in DOMAIN agenda' : agenda'[i].source = src /\ agenda'[i].node = x
    BY <1>0, <2>1, NothingWalk DEF Expected
  <2>2. CASE \E t \in Slots : sub'[t].phase # "none" /\ sub'[t].launcher = src /\ sub'[t].node = x
    <3>1. 1 \in DOMAIN agenda /\ agenda[1] = Item1
      BY <1>0 DEF Item1, TypeOK
    <3> QED
      BY <1>0, <1>2, <2>2, <3>1 DEF Expected
  <2> QED
    BY <1>6, <2>1, <2>2 DEF Expected
<1>7. ASSUME NEW c \in Nodes, Manages(c) PROVE Accounts(c)
  <2>1. Cardinality(Owed(c)') = Cardinality(Owed(c)) + (IF new.launcher = c THEN 1 ELSE 0)
    BY <1>2, OwedNew
  <2>3. Cardinality(Ahead(c)') = Cardinality(Ahead(c)) - (IF new.launcher = c THEN 1 ELSE 0)
    BY <1>0, NothingWalk
  <2>4. Debt(c)' = Debt(c)
    BY <1>0, <2>1, <2>3, OwedFinite, DebtType DEF Debt
  <2> QED
    BY <2>4 DEF Accounts, Same
<1> QED
  BY <1>0, <1>1, <1>3, <1>4, <1>6, <1>7 DEF Regular

(* A walk whose items count for no controller and that leaves them alone. *)
LEMMA PlainRegular ==
  ASSUME Inv, Inv', Shape, NEW n \in Nodes, NEW kind, kind \notin {"job", "event"}, Enter(n, kind),
         NEW items \in Seq(Item), Then(items),
         \A i \in DOMAIN items : /\ Fits(items[i].source, items[i].node)
                                 /\ ~(items[i].source \in Nodes /\ Manages(items[i].source)),
         UNCHANGED <<flow, ending, sub, lost>>, reentered \subseteq reentered',
         \A c \in Nodes : Kind(c) \in Controlling => Same(c)
  PROVE  Regular
<1>1. \A c \in Nodes : Manages(c) => Cardinality(Marks(items, c)) = 0
  BY MarksNone
<1>2. Kind(n) \in Controlling /\ node'[n].active => Managed(n) /\ node'[n].max > 0
  BY DEF Shape, ActiveManages, Same
<1>3. node' \in [Nodes -> NodeState]
  BY DEF Inv, TypeOK
<1>4. \A i \in DOMAIN items : NewFit(items[i].source, items[i].node)
  BY DEF NewFit
<1>5. \A c \in Nodes : Manages(c) => Same(c)
  BY DEF Manages
<1> HIDE DEF Same, Manages, NewFit
<1> QED
  BY <1>1, <1>2, <1>3, <1>4, <1>5, WalkRegular

LEMMA NothingRegular ==
  ASSUME Inv, Inv', Shape, NEW n \in Nodes, NEW kind, kind \notin {"job", "event"}, Enter(n, kind),
         Then(<<>>), UNCHANGED <<flow, ending, sub, lost>>, reentered \subseteq reentered',
         \A c \in Nodes : Kind(c) \in Controlling => Same(c)
  PROVE  Regular
<1>0. <<>> \in Seq(Item)
  OBVIOUS
<1>1. PICK e \in Seq(Item) : e = <<>>
  BY <1>0, Zenon
<1>2. Then(e) /\ \A i \in DOMAIN e : /\ Fits(e[i].source, e[i].node)
                                 /\ ~(e[i].source \in Nodes /\ Manages(e[i].source))
  BY <1>1
<1> QED
  BY <1>2, PlainRegular

LEMMA SameNode ==
  ASSUME node' = node
  PROVE  \A c : Same(c)
BY DEF Same

(* An error mark touches no count. *)
LEMMA FailsRegular ==
  ASSUME Inv, Inv', Shape, NEW n \in Nodes, NEW kind, kind \notin {"job", "event"}, Enter(n, kind),
         Fails(n), Calm
  PROVE  Regular
<1>1. \A c \in Nodes : Same(c)
  BY DEF Fails, Same, Inv, TypeOK, NodeState
<1> QED
  BY <1>1, NothingRegular DEF Fails, Calm, ghosts

LEMMA FollowRegular ==
  ASSUME Inv, Inv', Shape, NEW n \in Nodes, NEW kind \in {"trigger", "decision"}, Enter(n, kind),
         NEW input \in BOOLEAN, Then(Follow(n, n, input, Conditions)), node' = node, Calm
  PROVE  Regular
<1> DEFINE items == Follow(n, n, input, Conditions)
<1>1. TypeOK /\ Kind(n) = kind
  BY DEF Inv, Enter
<1>2. items \in Seq(Item)
  BY <1>1, FollowType
<1>3. \A i \in DOMAIN items : Fits(items[i].source, items[i].node) /\ items[i].source = n
  BY <1>1, FitsFollow
<1>4. ~Manages(n) /\ kind \notin {"job", "event"}
  BY <1>1 DEF Manages, Controlling
<1> HIDE DEF items
<1> QED
  BY <1>2, <1>3, <1>4, SameNode, PlainRegular DEF items, Calm, ghosts

LEMMA RunTriggerRegular ==
  ASSUME Inv, Inv', Shape, NEW n \in Nodes, RunTrigger(n)
  PROVE  Regular
<1>1. Enter(n, "trigger") /\ Item1.input \in BOOLEAN
  BY EnterType DEF RunTrigger, Inv
<1> QED
  BY <1>1, FailsRegular, FollowRegular DEF RunTrigger

LEMMA AbortWalkRegular ==
  ASSUME Inv, Shape, NEW n \in Nodes, NEW kind, Enter(n, kind),
         NEW N \in [Nodes -> NodeState], Abort(sub, N), Then(<<>>),
         UNCHANGED <<flow, pass, jobs, ghosts>>
  PROVE  Regular
<1>1. TypeOK /\ Going /\ agenda # <<>> /\ sub \in [Slots -> SubJob]
  BY DEF Inv, TypeOK, Enter
<1>2. \A i \in DOMAIN agenda' : \E j \in DOMAIN agenda : agenda'[i] = agenda[j]
  BY <1>1, NothingWalk
<1> QED
  BY <1>1, <1>2, AbortRegular DEF ghosts

LEMMA RunJobNodeRegular ==
  ASSUME Inv, Inv', Shape, NEW n \in Nodes, NEW kind \in {"job", "event"}, Enter(n, kind), RunJobNode(n)
  PROVE  Regular
<1>1. TypeOK /\ node \in [Nodes -> NodeState] /\ Item1.source \in Nodes \cup {NoNode}
  BY EnterType DEF Inv, TypeOK
<1>2. CASE Abort(sub, node)
  BY <1>1, <1>2, AbortWalkRegular DEF RunJobNode
<1>3. CASE Replay(n)
  <2> DEFINE new == [NoSub EXCEPT !.phase = "loading", !.node = n, !.launcher = Item1.source]
  <2>1. /\ new \in SubJob /\ new.phase = "loading" /\ new.node = n
        /\ new.launcher = Item1.source /\ ~new.retried
    BY <1>1 DEF NoSub, SubJob, SubPhases
  <2>2. Free # {} /\ sub' = [sub EXCEPT ![NewSlot] = new]
    BY <1>3 DEF Replay
  <2> HIDE DEF new
  <2> QED
    BY <1>3, <2>1, <2>2, LaunchRegular DEF RunJobNode, Replay, ghosts
<1>4. CASE Launch(n)
  <2> DEFINE new == [NoSub EXCEPT !.phase = "active", !.node = n, !.launcher = Item1.source,
                                  !.left = flow.retries]
  <2>1. flow.retries \in Nat
    BY <1>1, FlowAssumption DEF TypeOK, FlowType
  <2>2. /\ new \in SubJob /\ new.phase = "active" /\ new.node = n
        /\ new.launcher = Item1.source /\ ~new.retried
    BY <1>1, <2>1 DEF NoSub, SubJob, SubPhases
  <2>3. Free # {} /\ sub' = [sub EXCEPT ![NewSlot] = new]
    BY <1>4 DEF Launch
  <2> HIDE DEF new
  <2> QED
    BY <1>4, <2>2, <2>3, LaunchRegular DEF RunJobNode, Launch, ghosts
<1> QED
  BY <1>2, <1>3, <1>4 DEF RunJobNode

LEMMA RunActionRegular ==
  ASSUME Inv, Inv', Shape, NEW n \in Nodes, RunAction(n)
  PROVE  Regular
<1>1. Enter(n, "action") /\ Kind(n) = "action" /\ Then(<<>>)
  BY DEF RunAction, Enter
<1>2. \A c \in Nodes : Kind(c) \in Controlling => Same(c)
  BY <1>1 DEF RunAction, Controlling, Same, Inv, TypeOK
<1>3. reentered \subseteq reentered'
  BY DEF RunAction, Reenter
<1> QED
  BY <1>1, <1>2, <1>3, NothingRegular DEF RunAction

LEMMA RunDecisionRegular ==
  ASSUME Inv, Inv', Shape, NEW n \in Nodes, RunDecision(n)
  PROVE  Regular
<1>1. Enter(n, "decision") /\ node \in [Nodes -> NodeState]
  BY DEF RunDecision, Inv, TypeOK
<1>2. CASE Fails(n) /\ Calm
  BY <1>1, <1>2, FailsRegular
<1>3. CASE Then(<<>>) /\ UNCHANGED node /\ Calm
  BY <1>1, <1>3, NothingRegular, SameNode DEF Calm, ghosts
<1>4. CASE Abort(sub, node) /\ Then(<<>>) /\ UNCHANGED <<flow, pass, jobs, ghosts>>
  BY <1>1, <1>4, AbortWalkRegular
<1>5. CASE Then(Follow(n, n, TRUE, Conditions)) /\ UNCHANGED node /\ Calm
  BY <1>1, <1>5, FollowRegular
<1> QED
  BY <1>2, <1>3, <1>4, <1>5 DEF RunDecision

LEMMA RunWaitRegular ==
  ASSUME Inv, Inv', Shape, NEW n \in Nodes, RunWait(n)
  PROVE  Regular
<1>1. Enter(n, "wait") /\ Kind(n) = "wait" /\ Then(<<>>)
  BY DEF RunWait, Enter
<1>2. \A c \in Nodes : Kind(c) \in Controlling => Same(c)
  BY <1>1 DEF RunWait, Controlling, Same, Inv, TypeOK
<1> QED
  BY <1>1, <1>2, NothingRegular DEF RunWait, Calm, ghosts

LEMMA RunJoinRegular ==
  ASSUME Inv, Inv', Shape, NEW n \in Nodes, RunJoin(n)
  PROVE  Regular
<1>1. Enter(n, "join") /\ Kind(n) = "join" /\ TypeOK /\ Calm
  BY DEF RunJoin, Enter, Inv
<1>2. ~Manages(n) /\ \A c \in Nodes : Kind(c) \in Controlling => Same(c)
  BY <1>1 DEF RunJoin, Controlling, Same, TypeOK, Manages, Fails
<1>3. CASE Then(<<>>)
  BY <1>1, <1>2, <1>3, NothingRegular DEF Calm, ghosts
<1>4. CASE Len(Out(n)) = 1 /\ Then(Times(1, Out(n)[1].to, n, TRUE))
  <2> DEFINE items == Times(1, Out(n)[1].to, n, TRUE)
  <2>1. 1 \in DOMAIN Out(n) /\ Out(n)[1].to \in Nodes
    BY <1>1, <1>4, OutType
  <2>2. items \in Seq(Item)
    BY <2>1, TimesType
  <2>3. \A i \in DOMAIN items : items[i].source = n /\ items[i].node = Out(n)[1].to
    BY DEF Times
  <2>4. Fits(n, Out(n)[1].to)
    BY <1>1, <2>1, FitsOwn
  <2> HIDE DEF items
  <2> QED
    BY <1>1, <1>2, <1>4, <2>2, <2>3, <2>4, PlainRegular DEF items, Calm, ghosts
<1> QED
  BY <1>3, <1>4 DEF RunJoin, Fails

LEMMA ManageRegular ==
  ASSUME Inv, Inv', Shape, NEW n \in Nodes, NEW kind \in Controlling, Enter(n, kind),
         NEW k \in Nat \ {0}, Managed(n), Manage(n, k)
  PROVE  Regular
<1> DEFINE items == Times(k, Out(n)[1].to, n, Item1.input)
<1>1. /\ TypeOK /\ Kind(n) = kind /\ Manages(n) /\ kind \notin {"job", "event"}
      /\ node \in [Nodes -> NodeState] /\ node' \in [Nodes -> NodeState]
  BY DEF Inv, Enter, Manages, Controlling, TypeOK
<1>2. 1 \in DOMAIN Out(n) /\ Out(n)[1].to \in Nodes
  BY <1>1, ManagesType DEF Own
<1>3. items \in Seq(Item)
  BY <1>1, <1>2, EnterType, TimesType
<1>4. \A i \in DOMAIN items : items[i].source = n /\ items[i].node = Out(n)[1].to
  BY DEF Times
<1>5. Fits(n, Out(n)[1].to) /\ rounds'[n] > 0
  BY <1>1, <1>2, FitsOwn DEF Manage, TypeOK
<1>6. \A c : Cardinality(Marks(items, c)) = IF n = c THEN k ELSE 0
  BY MarksTimes
<1>7. /\ \A c \in Nodes : c # n => Same(c)
      /\ node'[n].active /\ node'[n].max = k /\ node'[n].count = 0
  BY <1>1 DEF Manage, Same, NodeState
<1>8. reentered \subseteq reentered' /\ (node[n].active => n \in reentered')
  BY DEF Manage, Reenter
<1>9. \A i \in DOMAIN items : NewFit(items[i].source, items[i].node)
  BY <1>4, <1>5 DEF NewFit
<1>10. Then(items) /\ UNCHANGED <<flow, ending, sub, lost>>
  BY DEF Manage
<1> HIDE DEF items, Same, NewFit, Manages, Fits
<1> QED
  BY <1>1, <1>3, <1>6, <1>7, <1>8, <1>9, <1>10, WalkRegular

LEMMA RunMultiplexRegular ==
  ASSUME Inv, Inv', Shape, NEW n \in Nodes, RunMultiplex(n)
  PROVE  Regular
<1>1. Enter(n, "multiplex") /\ "multiplex" \in Controlling /\ node \in [Nodes -> NodeState]
  BY DEF RunMultiplex, Controlling, Inv, TypeOK
<1>2. CASE Fails(n) /\ Calm
  BY <1>1, <1>2, FailsRegular
<1>3. CASE Then(<<>>) /\ UNCHANGED node /\ Calm
  BY <1>1, <1>3, NothingRegular, SameNode DEF Calm, ghosts
<1>4. ASSUME Managed(n), NEW k \in 1..MaxItems, Manage(n, k) PROVE Regular
  <2>1. k \in Nat \ {0}
    BY FlowAssumption
  <2> QED
    BY <1>1, <1>4, <2>1, ManageRegular
<1>5. CASE /\ Abort(sub, [node EXCEPT ![n].error = TRUE]) /\ Then(<<>>)
           /\ UNCHANGED <<flow, pass, jobs, ghosts>>
  <2>1. [node EXCEPT ![n].error = TRUE] \in [Nodes -> NodeState]
    BY <1>1 DEF NodeState
  <2> QED
    BY <1>1, <1>5, <2>1, AbortWalkRegular
<1> QED
  BY <1>2, <1>3, <1>4, <1>5 DEF RunMultiplex

LEMMA RunRepeatRegular ==
  ASSUME Inv, Inv', Shape, NEW n \in Nodes, RunRepeat(n)
  PROVE  Regular
<1>1. Enter(n, "repeat") /\ "repeat" \in Controlling
  BY DEF RunRepeat, Controlling
<1>2. CASE Fails(n) /\ Calm
  BY <1>1, <1>2, FailsRegular
<1>3. CASE Managed(n) /\ Manage(n, IF flow.repeat = 0 THEN 1 ELSE flow.repeat)
  <2>1. (IF flow.repeat = 0 THEN 1 ELSE flow.repeat) \in Nat \ {0}
    BY FlowAssumption DEF Inv, TypeOK, FlowType
  <2> QED
    BY <1>1, <1>3, <2>1, ManageRegular
<1> QED
  BY <1>2, <1>3 DEF RunRepeat

(* What a decision to continue runs. *)
LEMMA ContinueFits ==
  ASSUME TypeOK, NEW n \in Nodes, Manages(n), NEW m, NEW J, NEW i \in DOMAIN Continue(Own(n), m, J)
  PROVE  LET item == Continue(Own(n), m, J)[i]
         IN  Fits(item.source, item.node) /\ item.source = NoNode /\ ~item.input
<1>1. Own(n) \in Nodes /\ Kind(Own(n)) \notin Controlling
  BY ManagesType DEF Controlling
<1> DEFINE f == Follow(Own(n), NoNode, FALSE, {"continue"})
<1>2. Continue(Own(n), m, J) = f /\ i \in DOMAIN f
  <2>1. CASE ~Met(Own(n), m, J)
    <3>1. Continue(Own(n), m, J) = <<>>
      BY <2>1 DEF Continue
    <3> QED
      BY <3>1
  <2>2. CASE Met(Own(n), m, J)
    <3>1. Continue(Own(n), m, J) = f
      BY <2>2 DEF Continue
    <3> HIDE DEF f
    <3> QED
      BY <3>1
  <2> QED
    BY <2>1, <2>2
<1>3. i \in DOMAIN Out(Own(n)) /\ f[i].source = NoNode /\ f[i].node = Out(Own(n))[i].to
  BY <1>2 DEF Follow
<1>4. ~f[i].input
  BY <1>2 DEF Follow
<1>5. Fits(NoNode, Out(Own(n))[i].to)
  BY <1>1, <1>3, FitsNone
<1> HIDE DEF f
<1> QED
  BY <1>2, <1>3, <1>4, <1>5

LEMMA RunSplitRegular ==
  ASSUME Inv, Inv', Shape, NEW n \in Nodes, RunSplit(n)
  PROVE  Regular
<1>1. /\ Enter(n, "split") /\ "split" \in Controlling /\ Kind(n) = "split" /\ TypeOK
      /\ node \in [Nodes -> NodeState] /\ node' \in [Nodes -> NodeState]
  BY DEF RunSplit, Controlling, Inv, TypeOK, Enter
<1>2. CASE Fails(n) /\ Calm
  BY <1>1, <1>2, FailsRegular
<1>3. ASSUME ~Managed(n), NEW k \in 0..MaxItems, Then(Unmanaged(n, k)), Calm,
             node' = [node EXCEPT ![n].active = FALSE]
      PROVE  Regular
  <2> DEFINE items == Unmanaged(n, k)
  <2>1. k \in Nat /\ ~Manages(n)
    BY <1>3, FlowAssumption DEF Manages
  <2>2. items \in Seq(Item)
    BY <1>1, <2>1, UnmanagedType
  <2>3. \A i \in DOMAIN items : items[i].source = n /\ Fits(n, items[i].node)
    BY <1>1, <2>1, UnmanagedIndex, FitsOwn DEF Unmanaged
  <2>4. \A c \in Nodes : Kind(c) \in Controlling => Same(c)
    BY <1>1, <1>3 DEF Shape, ActiveManages, Same, NodeState
  <2> HIDE DEF items
  <2> QED
    BY <1>1, <1>3, <2>1, <2>2, <2>3, <2>4, PlainRegular DEF items, Calm, ghosts
<1>4. CASE /\ Managed(n) /\ Then(Continue(Out(n)[1].to, 0, jobs))
           /\ node' = [node EXCEPT ![n].active = FALSE, ![n].max = 0, ![n].count = 0]
           /\ Reenter(n)
           /\ UNCHANGED <<flow, ending, pass, jobs, sub, lost, rounds, won>>
  <2> DEFINE items == Continue(Own(n), 0, jobs)
  <2>1. Manages(n)
    BY <1>1, <1>4 DEF Manages
  <2>2. items \in Seq(Item)
    BY <1>1, <2>1, ManagesType, ContinueType
  <2>3. \A i \in DOMAIN items : Fits(items[i].source, items[i].node) /\ items[i].source = NoNode
    BY <1>1, <2>1, ContinueFits
  <2>4. \A i \in DOMAIN items : NewFit(items[i].source, items[i].node)
    BY <2>3, FlowAssumption DEF NewFit
  <2>5. \A c \in Nodes : Cardinality(Marks(items, c)) = 0
    BY <2>3, MarksNone, FlowAssumption
  <2>6. /\ \A c \in Nodes : c # n => Same(c)
        /\ ~node'[n].active
    BY <1>1, <1>4 DEF Same, NodeState
  <2>7. reentered \subseteq reentered' /\ (node[n].active => n \in reentered')
    BY <1>4 DEF Reenter
  <2>8. Then(items) /\ UNCHANGED <<flow, ending, sub, lost>>
    BY <1>4 DEF Own
  <2> HIDE DEF items, Same, NewFit, Manages, Fits
  <2> QED
    BY <1>1, <2>2, <2>4, <2>5, <2>6, <2>7, <2>8, WalkRegular
<1>5. ASSUME Managed(n), NEW k \in 1..MaxItems, Manage(n, k) PROVE Regular
  <2>1. k \in Nat \ {0}
    BY FlowAssumption
  <2> QED
    BY <1>1, <1>5, <2>1, ManageRegular
<1> QED
  BY <1>2, <1>3, <1>4, <1>5 DEF RunSplit

LEMMA RunNodeRegular ==
  ASSUME Inv, Inv', Shape, NEW n \in Nodes, RunNode(n)
  PROVE  Regular
<1>1. CASE RunJob(n)
  BY <1>1, RunJobNodeRegular DEF RunJob
<1>2. CASE RunEvent(n)
  <2>1. node \in [Nodes -> NodeState]
    BY DEF Inv, TypeOK
  <2> QED
    BY <1>2, <2>1, RunJobNodeRegular, AbortWalkRegular DEF RunEvent
<1> QED
  BY <1>1, <1>2, RunTriggerRegular, RunActionRegular, RunMultiplexRegular, RunRepeatRegular,
     RunSplitRegular, RunJoinRegular, RunDecisionRegular, RunWaitRegular DEF RunNode

-----------------------------------------------------------------------------
(* Between two walks. *)

(* A step that starts and ends no job. *)
LEMMA QuietRegular ==
  ASSUME Inv, Inv', Shape, UNCHANGED <<flow, ending, reentered, lost>>,
         \A s \in Slots : /\ sub'[s].phase = "none" <=> sub[s].phase = "none"
                          /\ sub'[s].phase \in {"active", "ending"} => sub[s].phase \in {"active", "ending"}
                          /\ sub'[s].node = sub[s].node /\ sub'[s].launcher = sub[s].launcher
                          /\ sub'[s].retried = sub[s].retried,
         \A i \in DOMAIN agenda' :
           (\E j \in DOMAIN agenda : agenda'[i] = agenda[j])
             \/ NewFit(agenda'[i].source, agenda'[i].node),
         Going => \A c \in Nodes : Manages(c) => Cardinality(Ahead(c)') = Cardinality(Ahead(c)),
         \A c \in Nodes : Kind(c) \in Controlling => Same(c)
  PROVE  Regular
<1>1. /\ Going' = Going
      /\ \A c \in Nodes : Kind(c)' = Kind(c) /\ Managed(c)' = Managed(c)
  BY FlowKept DEF ending, Going
<1>2. ActiveManages'
  BY <1>1 DEF ActiveManages, Shape, Same
<1>3. SubsRun'
  BY DEF SubsRun, Shape, Kind
<1>4. ASSUME NEW src, NEW x, Expected(src, x)' PROVE Expected(src, x) \/ NewFit(src, x)
  <2>1. CASE \E i \in DOMAIN agenda' : agenda'[i].source = src /\ agenda'[i].node = x
    BY <2>1 DEF Expected
  <2>2. CASE \E s \in Slots : sub'[s].phase # "none" /\ sub'[s].launcher = src /\ sub'[s].node = x
    BY <2>2 DEF Expected
  <2> QED
    BY <1>4, <2>1, <2>2 DEF Expected
<1>5. ASSUME Going, NEW c \in Nodes, Manages(c) PROVE Accounts(c)
  <2>1. Owed(c)' = Owed(c)
    BY OwedSame
  <2>2. Same(c)
    BY <1>5 DEF Manages
  <2> QED
    BY <1>5, <2>1, <2>2 DEF Accounts, Debt
<1> QED
  BY <1>1, <1>2, <1>3, <1>4, <1>5 DEF Regular

(* A step of a workflow that is over. *)
LEMMA GoneRegular ==
  ASSUME Inv, Shape, ~Going, UNCHANGED <<flow, ending, reentered, node>>, lost \subseteq lost',
         \A s \in Slots : sub'[s] = sub[s] \/ sub'[s] = NoSub,
         \A i \in DOMAIN agenda' : \E j \in DOMAIN agenda : agenda'[i] = agenda[j]
  PROVE  Regular
<1>1. ~Going' /\ \A c \in Nodes : Kind(c)' = Kind(c)
  BY FlowKept DEF ending, Going
<1>2. ActiveManages'
  BY <1>1 DEF ActiveManages, Shape
<1>3. SubsRun'
  BY DEF SubsRun, Shape, Kind, NoSub
<1>4. ASSUME NEW src, NEW x, Expected(src, x)' PROVE Expected(src, x)
  BY <1>4 DEF Expected, NoSub
<1> QED
  BY <1>1, <1>2, <1>3, <1>4 DEF Regular

LEMMA SkipItemRegular ==
  ASSUME Inv, Inv', Shape, SkipItem
  PROVE  Regular
<1>1. /\ TypeOK /\ agenda # <<>> /\ Then(<<>>)
      /\ UNCHANGED <<flow, ending, node, sub, reentered, lost>>
  BY DEF SkipItem, Inv, ghosts
<1>2. /\ \A i \in DOMAIN agenda' : \E j \in DOMAIN agenda : agenda'[i] = agenda[j]
      /\ \A c : Cardinality(Ahead(c)') =
                  Cardinality(Ahead(c)) - (IF Item1.source = c /\ Item1.fires THEN 1 ELSE 0)
  BY <1>1, NothingWalk
<1>3. CASE ~Going
  BY <1>1, <1>2, <1>3, GoneRegular
<1>4. CASE Going
  <2>1. \A c \in Nodes : Cardinality(Ahead(c)') = Cardinality(Ahead(c))
    BY <1>1, <1>2, <1>4, DebtType DEF SkipItem
  <2> QED
    BY <1>1, <1>2, <2>1, SameNode, QuietRegular
<1> QED
  BY <1>3, <1>4

(* A step that changes no job, no agenda and no controller that launches jobs. *)
LEMMA IdleRegular ==
  ASSUME Inv, Inv', Shape, UNCHANGED <<flow, ending, reentered, lost, sub, agenda>>,
         \A c \in Nodes : Kind(c) \in Controlling => Same(c)
  PROVE  Regular
<1>1. \A c : Ahead(c)' = Ahead(c)
  BY DEF Ahead
<1> QED
  BY <1>1, QuietRegular

LEMMA TickEndRegular ==
  ASSUME Inv, Inv', Shape, TickEnd
  PROVE  Regular
<1>1. ~Going' /\ UNCHANGED <<flow, agenda, node, sub, reentered, lost>>
  BY DEF TickEnd, Going, walk, ghosts
<1>2. \A c \in Nodes : Kind(c) \in Controlling => ~node[c].active
  BY DEF TickEnd, Busy, Shape, ActiveManages, Going
<1>3. ActiveManages'
  BY <1>1, <1>2, FlowKept DEF ActiveManages
<1>4. SubsRun'
  BY <1>1 DEF SubsRun, Shape, Kind
<1>5. ASSUME NEW src, NEW x, Expected(src, x)' PROVE Expected(src, x)
  BY <1>1, <1>5 DEF Expected
<1> QED
  BY <1>1, <1>3, <1>4, <1>5 DEF Regular

LEMMA UserAbortRegular ==
  ASSUME Inv, Inv', Shape, UserAbort
  PROVE  Regular
<1>1. sub \in [Slots -> SubJob] /\ node \in [Nodes -> NodeState]
  BY DEF Inv, TypeOK
<1> QED
  BY <1>1, AbortRegular DEF UserAbort, walk, ghosts

LEMMA ActionDoneRegular ==
  ASSUME Inv, Inv', Shape, NEW n \in Nodes, ActionDone(n)
  PROVE  Regular
<1>1. \A c \in Nodes : Kind(c) \in Controlling => Same(c)
  BY DEF ActionDone, Controlling, Same, Inv, TypeOK
<1> QED
  BY <1>1, IdleRegular DEF ActionDone, walk, ghosts

LEMMA WaitOverRegular ==
  ASSUME Inv, Inv', Shape, NEW n \in Nodes, WaitOver(n)
  PROVE  Regular
<1>1. \A c \in Nodes : Kind(c) \in Controlling => Same(c)
  BY DEF WaitOver, Controlling, Same, Inv, TypeOK
<1> QED
  BY <1>1, IdleRegular DEF WaitOver, walk, ghosts

LEMMA TickNodeRegular ==
  ASSUME Inv, Inv', Shape, NEW n \in Nodes, TickNode(n)
  PROVE  Regular
<1>0. TypeOK /\ agenda = <<>> /\ UNCHANGED <<flow, ending, sub, lost, reentered>>
  BY DEF TickNode, Inv
<1>1. \A c \in Nodes : Kind(c) \in Controlling => Same(c)
  BY <1>0 DEF TickNode, Controlling, Same, TypeOK
<1>2. CASE UNCHANGED agenda
  BY <1>0, <1>1, <1>2, IdleRegular
<1>3. CASE Kind(n) = "wait" /\ agenda' = Follow(n, n, node[n].input, Conditions)
  <2>1. ASSUME NEW i \in DOMAIN agenda'
        PROVE  agenda'[i].source = n /\ Fits(agenda'[i].source, agenda'[i].node)
    <3>1. i \in DOMAIN Out(n) /\ agenda'[i].source = n /\ agenda'[i].node = Out(n)[i].to
      BY <1>3, <2>1 DEF Follow
    <3> QED
      BY <1>0, <3>1, FitsOwn
  <2>2. ~Manages(n)
    BY <1>3 DEF Manages, Controlling
  <2>3. \A i \in DOMAIN agenda' : NewFit(agenda'[i].source, agenda'[i].node)
    BY <2>1, <2>2 DEF NewFit
  <2>4. ASSUME NEW c \in Nodes, Manages(c) PROVE Ahead(c)' = {} /\ Ahead(c) = {}
    BY <1>0, <2>1, <2>2, <2>4 DEF Ahead
  <2> QED
    BY <1>0, <1>1, <2>3, <2>4, QuietRegular
<1> QED
  BY <1>2, <1>3 DEF TickNode

LEMMA EndSubRegular ==
  ASSUME Inv, Inv', Shape, NEW s \in Slots, EndSub(s)
  PROVE  Regular
<1>1. \A c : Ahead(c)' = Ahead(c)
  BY DEF Ahead, EndSub, walk
<1>2. sub \in [Slots -> SubJob]
  BY DEF Inv, TypeOK
<1>3. \A t \in Slots : /\ sub'[t].phase = "none" <=> sub[t].phase = "none"
                       /\ sub'[t].phase \in {"active", "ending"} => sub[t].phase \in {"active", "ending"}
                       /\ sub'[t].node = sub[t].node /\ sub'[t].launcher = sub[t].launcher
                       /\ sub'[t].retried = sub[t].retried
  BY <1>2 DEF EndSub, SubJob
<1> QED
  BY <1>1, <1>3, SameNode, QuietRegular DEF EndSub, walk, ghosts

LEMMA CheckRetryRegular ==
  ASSUME Inv, Inv', Shape, NEW s \in Slots, CheckRetry(s)
  PROVE  Regular
<1>0. /\ sub \in [Slots -> SubJob] /\ TypeOK /\ sub[s].phase = "ending" /\ ~sub[s].retried
      /\ UNCHANGED <<flow, ending, agenda, node, reentered, lost>>
  BY DEF Inv, TypeOK, CheckRetry, Shape, SubsRun, walk, ghosts
<1>1. \A c : Ahead(c)' = Ahead(c)
  BY <1>0 DEF Ahead
<1>2. CASE sub' = [sub EXCEPT ![s].phase = "closing"]
  <2>1. \A t \in Slots : /\ sub'[t].phase = "none" <=> sub[t].phase = "none"
                         /\ sub'[t].phase \in {"active", "ending"} => sub[t].phase \in {"active", "ending"}
                         /\ sub'[t].node = sub[t].node /\ sub'[t].launcher = sub[t].launcher
                         /\ sub'[t].retried = sub[t].retried
    BY <1>0, <1>2 DEF SubJob
  <2> QED
    BY <1>0, <1>1, <2>1, SameNode, QuietRegular
<1>3. CASE /\ Free # {}
           /\ sub' = [sub EXCEPT ![s].phase = "closing", ![s].retried = TRUE,
                                 ![NewSlot] = RetryOf(s)]
  <2>1. PICK z \in Slots : z = NewSlot /\ sub[z].phase = "none"
    BY <1>3, NewSlotFree DEF Free
  <2>2. /\ z # s /\ sub'[z].phase = "active" /\ sub'[z].node = sub[s].node
        /\ sub'[z].launcher = sub[s].launcher /\ ~sub'[z].retried
        /\ sub'[s].phase = "closing" /\ sub'[s].node = sub[s].node
        /\ sub'[s].launcher = sub[s].launcher /\ sub'[s].retried
        /\ \A t \in Slots \ {s, z} : sub'[t] = sub[t]
    BY <1>0, <1>3, <2>1 DEF RetryOf, NoSub, SubJob
  <2>3. Going' = Going /\ \A c \in Nodes : Kind(c)' = Kind(c)
    BY <1>0, FlowKept DEF ending, Going
  <2>4. ActiveManages'
    BY <1>0, <2>3, FlowKept DEF ActiveManages, Shape
  <2>5. ASSUME NEW t \in Slots
        PROVE  /\ sub'[t].phase # "none" => Kind(sub'[t].node) \in {"job", "event"}
               /\ sub'[t].phase \in {"active", "ending"} => ~sub'[t].retried
    BY <1>0, <2>2 DEF SubsRun, Shape
  <2>6. SubsRun'
    BY <1>0, <2>5 DEF SubsRun, Kind
  <2>7. ASSUME NEW src, NEW x, Expected(src, x)' PROVE Expected(src, x)
    BY <1>0, <2>2, <2>7 DEF Expected
  <2>8. ASSUME NEW c \in Nodes PROVE Accounts(c)
    <3>1. Cardinality(Owed(c)') = Cardinality(Owed(c))
      <4>1. CASE sub[s].launcher = c
        <5>1. /\ s \in Owed(c) /\ z \notin Owed(c) \ {s}
              /\ Owed(c)' = (Owed(c) \ {s}) \cup {z}
          BY <1>0, <2>1, <2>2, <4>1 DEF Owed
        <5>2. IsFiniteSet(Owed(c)) /\ Cardinality(Owed(c)) \in Nat
          BY OwedFinite
        <5>3. IsFiniteSet(Owed(c) \ {s}) /\ Cardinality(Owed(c) \ {s}) = Cardinality(Owed(c)) - 1
          BY <5>1, <5>2, FS_RemoveElement
        <5>4. Cardinality((Owed(c) \ {s}) \cup {z}) = Cardinality(Owed(c) \ {s}) + 1
          BY <5>1, <5>3, FS_AddElement
        <5> QED
          BY <5>1, <5>2, <5>3, <5>4
      <4>2. CASE sub[s].launcher # c
        <5>1. Owed(c)' = Owed(c)
          BY <2>1, <2>2, <4>2 DEF Owed
        <5> QED
          BY <5>1
      <4> QED
        BY <4>1, <4>2
    <3>2. Same(c)
      BY <1>0, SameNode
    <3> QED
      BY <1>1, <3>1, <3>2 DEF Accounts, Debt
  <2> QED
    BY <1>0, <2>3, <2>4, <2>6, <2>7, <2>8 DEF Regular
<1> QED
  BY <1>2, <1>3 DEF CheckRetry

-----------------------------------------------------------------------------
(* The end of a job. *)

(* An item of the job itself, that counts for no controller. *)
Loose(item) == item.source = NoNode /\ Fits(NoNode, item.node)

LEMMA LooseType ==
  ASSUME NEW a, \A i \in DOMAIN a : Loose(a[i])
  PROVE  /\ \A i \in DOMAIN a : NewFit(a[i].source, a[i].node)
         /\ \A c \in Nodes : Marks(a, c) = {}
BY FlowAssumption DEF Loose, NewFit, Marks

LEMMA LooseConcat ==
  ASSUME NEW a \in Seq(Item), NEW b \in Seq(Item),
         \A i \in DOMAIN a : Loose(a[i]), \A i \in DOMAIN b : Loose(b[i])
  PROVE  a \o b \in Seq(Item) /\ \A i \in DOMAIN (a \o b) : Loose((a \o b)[i])
<1>1. ASSUME NEW i \in DOMAIN (a \o b)
      PROVE  \/ \E j \in DOMAIN a : (a \o b)[i] = a[j]
             \/ \E j \in DOMAIN b : (a \o b)[i] = b[j]
  <2>1. CASE i \in DOMAIN a
    BY <2>1
  <2>2. CASE i \notin DOMAIN a
    <3>1. i - Len(a) \in DOMAIN b /\ (a \o b)[i] = b[i - Len(a)]
      BY <1>1, <2>2
    <3> QED
      BY <3>1
  <2> QED
    BY <2>1, <2>2
<1>2. a \o b \in Seq(Item)
  OBVIOUS
<1> DEFINE c == a \o b
<1> HIDE DEF c
<1>3. \A i \in DOMAIN c : Loose(c[i])
  BY <1>1 DEF c
<1> QED
  BY <1>2, <1>3 DEF c

LEMMA ContinueLoose ==
  ASSUME TypeOK, NEW n \in Nodes, Manages(n), NEW m, NEW J
  PROVE  \A i \in DOMAIN Continue(Own(n), m, J) : Loose(Continue(Own(n), m, J)[i])
BY ContinueFits DEF Loose

(* What a job runs when it is over. *)
LEMMA MatchingLoose ==
  ASSUME TypeOK, NEW x \in Nodes, Kind(x) \notin Controlling, NEW s \in Slots, sub[s].node = x, NEW ok
  PROVE  \A i \in DOMAIN Matching(s, ok) : Loose(Matching(s, ok)[i]) /\ Matching(s, ok)[i].input
<1> DEFINE f == Follow(x, NoNode, TRUE, {"complete", IF ok THEN "success" ELSE "error"})
           g == Matching(s, ok)
<1>1. g = [i \in DOMAIN f |-> [f[i] EXCEPT !.fires = @ /\ Kind(f[i].node) # "action"]]
  BY DEF Matching
<1>2. ASSUME NEW i \in DOMAIN f
      PROVE  /\ f[i].source = NoNode /\ f[i].input /\ i \in DOMAIN Out(x) /\ f[i].node = Out(x)[i].to
             /\ f[i] \in [node : {Out(x)[i].to}, source : {NoNode}, input : {TRUE}, fires : BOOLEAN]
  BY <1>2 DEF Follow
<1>3. ASSUME NEW i \in DOMAIN f
      PROVE  g[i].source = NoNode /\ g[i].input /\ g[i].node = Out(x)[i].to
  <2> DEFINE e == f[i]
  <2>1. e \in [node : {Out(x)[i].to}, source : {NoNode}, input : {TRUE}, fires : BOOLEAN]
    BY <1>2
  <2>2. g[i] = [e EXCEPT !.fires = @ /\ Kind(e.node) # "action"]
    BY <1>1
  <2> HIDE DEF e, g
  <2> QED
    BY <2>1, <2>2
<1>4. DOMAIN g = DOMAIN f
  BY <1>1
<1>5. ASSUME NEW i \in DOMAIN f PROVE Fits(NoNode, Out(x)[i].to)
  BY <1>2, FitsNone
<1> HIDE DEF f, g
<1>6. \A i \in DOMAIN g : Loose(g[i]) /\ g[i].input
  BY <1>3, <1>4, <1>5 DEF Loose
<1> QED
  BY <1>6 DEF g

LEMMA JumpLoose ==
  ASSUME TypeOK, NEW x \in flow.redirects
  PROVE  /\ Jump(x) \in Seq(Item)
         /\ \A i \in DOMAIN Jump(x) : Loose(Jump(x)[i]) /\ Jump(x)[i].input
<1>1. x \in Nodes /\ Fits(NoNode, x)
  BY FitsJump, FlowAssumption DEF TypeOK, FlowType
<1>2. Jump(x) \in Seq(Item)
  BY <1>1, TimesType DEF Jump
<1>3. \A i \in DOMAIN Jump(x) : Loose(Jump(x)[i]) /\ Jump(x)[i].input
  BY <1>1 DEF Jump, Times, Loose
<1> QED
  BY <1>2, <1>3

(* The controller of a job is its own, or does not count. *)
LEMMA CountsOwn ==
  ASSUME Inv, Shape, NEW s \in Slots, sub[s].phase # "none", Counts(sub[s].launcher)
  PROVE  /\ sub[s].launcher \in Nodes /\ Manages(sub[s].launcher)
         /\ sub[s].node = Own(sub[s].launcher)
<1> DEFINE l == sub[s].launcher
           x == sub[s].node
<1>1. l \in Nodes /\ x \in Nodes
  BY DEF Counts, Inv, TypeOK, SubJob, SubsHaveNodes
<1>2. Manages(l)
  BY <1>1 DEF Counts, Shape, ActiveManages, Manages
<1>3. Expected(l, x)
  BY DEF Expected
<1>4. Fits(l, x)
  BY <1>1, <1>3 DEF Shape, AllFit
<1> HIDE DEF l, x
<1>5. x = Own(l)
  BY <1>1, <1>2, <1>4 DEF Fits
<1> QED
  BY <1>1, <1>2, <1>5 DEF l, x

(* The controller of a job counts it. *)
LEMMA ProgressSame ==
  ASSUME TypeOK, NEW l, NEW c \in Nodes, node' = Progress(l)
  PROVE  /\ node'[c].max = node[c].max
         /\ c # l \/ ~Counts(l) => Same(c)
         /\ c = l /\ Counts(l) => /\ node'[c].count = node[c].count + 1
                                  /\ node'[c].active <=> node'[c].count < node[c].max
<1>1. node \in [Nodes -> NodeState] /\ node[c].count \in Nat /\ node[c].max \in Nat
  BY DEF TypeOK, NodeState
<1>2. CASE Counts(l)
  <2>1. node' = [node EXCEPT ![l].count = @ + 1, ![l].active = ~Reached(l)]
    BY <1>2 DEF Progress
  <2> QED
    BY <1>1, <1>2, <2>1 DEF Reached, Same, NodeState
<1>3. CASE ~Counts(l)
  BY <1>3 DEF Progress, Same
<1> QED
  BY <1>2, <1>3

LEMMA FinishRegular ==
  ASSUME Inv, Inv', Shape, NEW s \in Slots, sub[s].phase # "none", agenda = <<>>,
         NEW ok \in BOOLEAN, NEW next \in Seq(Item), \A i \in DOMAIN next : Loose(next[i]),
         Finish(s, ok, next)
  PROVE  Regular
<1> DEFINE S == [sub EXCEPT ![s] = NoSub]
           l == sub[s].launcher
<1>0. /\ TypeOK /\ sub \in [Slots -> SubJob] /\ node \in [Nodes -> NodeState]
      /\ S \in [Slots -> SubJob] /\ \A t \in Slots : S[t] = sub[t] \/ S[t] = NoSub
      /\ UNCHANGED <<flow, lost, reentered>>
  BY DEF Inv, TypeOK, Finish, SubJob, NoSub, SubPhases
<1>1. CASE ~Going /\ Ignored(s)
  BY <1>0, <1>1, GoneRegular DEF Finish
<1>2. CASE ~Ignored(s) /\ flow.first_abort /\ ~ok
  <2>1. Going /\ Abort(S, node) /\ UNCHANGED agenda
    BY <1>2 DEF Finish, Ignored
  <2> HIDE DEF S
  <2> QED
    BY <1>0, <2>1, AbortRegular
<1>3. CASE Going /\ UNCHANGED ending /\ sub' = S
           /\ (\/ sub[s].retried /\ node' = node /\ agenda' = agenda
               \/ ~sub[s].retried /\ node' = Progress(l) /\ agenda' = AfterProgress(s, Push(s, ok)) \o next)
  <2>1. Going' = Going /\ \A c \in Nodes : Kind(c)' = Kind(c) /\ Managed(c)' = Managed(c)
    BY <1>0, <1>3, FlowKept DEF ending, Going
  <2>2. \A i \in DOMAIN agenda' : Loose(agenda'[i])
    <3>1. CASE agenda' = agenda
      BY <3>1
    <3>2. CASE agenda' = AfterProgress(s, Push(s, ok)) \o next
      <4> DEFINE a == AfterProgress(s, Push(s, ok))
      <4>1. a \in Seq(Item) /\ \A i \in DOMAIN a : Loose(a[i])
        <5>1. CASE Counts(l) /\ Reached(l)
          <6>1. l \in Nodes /\ Manages(l) /\ sub[s].node = Own(l) /\ Own(l) \in Nodes
            BY <1>0, <5>1, CountsOwn, ManagesType
          <6>2. a = Continue(Own(l), node[l].max, Push(s, ok))
            BY <5>1, <6>1 DEF AfterProgress
          <6> HIDE DEF a, l
          <6> QED
            BY <1>0, <6>1, <6>2, ContinueType, ContinueLoose
        <5>2. CASE ~(Counts(l) /\ Reached(l))
          <6>1. a = <<>>
            BY <5>2 DEF AfterProgress
          <6> HIDE DEF a
          <6> QED
            BY <6>1
        <5> QED
          BY <5>1, <5>2
      <4> HIDE DEF a
      <4> QED
        BY <3>2, <4>1, LooseConcat DEF a
    <3> QED
      BY <1>3, <3>1, <3>2
  <2>3. /\ \A i \in DOMAIN agenda' : NewFit(agenda'[i].source, agenda'[i].node)
        /\ \A c \in Nodes : Marks(agenda', c) = {}
    BY <2>2, LooseType
  <2>4. ASSUME NEW c \in Nodes PROVE Ahead(c)' = {} /\ Ahead(c) = {}
    BY <2>3 DEF Ahead, Marks
  <2>5. ASSUME NEW c \in Nodes
        PROVE  /\ node'[c].max = node[c].max
               /\ c # l \/ ~Counts(l) \/ sub[s].retried => Same(c)
               /\ c = l /\ Counts(l) /\ ~sub[s].retried =>
                    /\ node'[c].count = node[c].count + 1
                    /\ node'[c].active <=> node'[c].count < node[c].max
    <3>1. CASE sub[s].retried /\ node' = node
      BY <3>1, SameNode
    <3>2. CASE ~sub[s].retried /\ node' = Progress(l)
      BY <1>0, <3>2, ProgressSame
    <3> QED
      BY <1>3, <3>1, <3>2
  <2>6. ActiveManages'
    <3>1. \A c \in Nodes : node'[c].active => node[c].active
      BY <2>5 DEF Same, Counts
    <3> QED
      BY <2>1, <2>5, <3>1 DEF ActiveManages, Shape
  <2>7. SubsRun'
    BY <1>0, <1>3 DEF SubsRun, Shape, Kind, NoSub
  <2>8. ASSUME NEW src, NEW x, Expected(src, x)' PROVE Expected(src, x) \/ NewFit(src, x)
    <3>1. CASE \E i \in DOMAIN agenda' : agenda'[i].source = src /\ agenda'[i].node = x
      BY <2>3, <3>1
    <3>2. CASE \E t \in Slots : sub'[t].phase # "none" /\ sub'[t].launcher = src /\ sub'[t].node = x
      BY <1>0, <1>3, <3>2 DEF Expected, NoSub
    <3> QED
      BY <2>8, <3>1, <3>2 DEF Expected
  <2>9. ASSUME NEW c \in Nodes, Manages(c) PROVE Accounts(c)
    <3>1. Cardinality(Owed(c)') = Cardinality(Owed(c)) - (IF s \in Owed(c) THEN 1 ELSE 0)
      BY <1>0, <1>3, OwedGone DEF NoSub
    <3>2. s \in Owed(c) <=> c = l /\ ~sub[s].retried
      BY DEF Owed
    <3>3. Debt(c)' = Debt(c) - (IF s \in Owed(c) THEN 1 ELSE 0)
      <4>1. Ahead(c) = {} /\ Ahead(c)' = {}
        BY <2>4
      <4>2. Cardinality(Ahead(c)) = 0 /\ Cardinality(Ahead(c)') = 0
        BY <4>1, FS_EmptySet
      <4>3. Cardinality(Owed(c)) \in Nat
        BY OwedFinite
      <4>4. Debt(c) = Cardinality(Owed(c)) /\ Debt(c)' = Cardinality(Owed(c)')
        BY <4>2, <4>3, OwedFinite DEF Debt
      <4> QED
        BY <3>1, <4>4
    <3>4. CASE s \notin Owed(c)
      <4>1. Same(c)
        BY <2>5, <3>2, <3>4
      <4>2. Debt(c) \in Nat
        BY <1>0, DebtType
      <4> QED
        BY <3>3, <3>4, <4>1, <4>2 DEF Accounts
    <3>5. CASE s \in Owed(c)
      <4>1. Counts(l) <=> node[c].active
        BY <2>9, <3>2, <3>5, FlowAssumption DEF Counts, Manages
      <4>2. Done(c)
        BY <2>5, <3>2, <3>3, <3>5, <4>1 DEF Done, Same
      <4> QED
        BY <4>2 DEF Accounts
    <3> QED
      BY <3>4, <3>5
  <2> QED
    BY <1>0, <2>1, <2>6, <2>7, <2>8, <2>9 DEF Regular
<1> QED
  BY <1>1, <1>2, <1>3 DEF Finish, Ignored

(* The items a job that is over may run. *)
LEMMA NextLoose ==
  ASSUME Inv, Shape, NEW s \in Slots, sub[s].phase # "none", NEW ok \in BOOLEAN
  PROVE  /\ Matching(s, ok) \in Seq(Item)
         /\ \A i \in DOMAIN Matching(s, ok) : Loose(Matching(s, ok)[i]) /\ Matching(s, ok)[i].input
<1>1. /\ TypeOK /\ sub[s].node \in Nodes /\ Kind(sub[s].node) \in {"job", "event"}
  BY DEF Inv, SubsHaveNodes, Shape, SubsRun
<1>2. Kind(sub[s].node) \notin Controlling
  BY <1>1 DEF Controlling
<1> QED
  BY <1>1, <1>2, MatchingType, MatchingLoose

LEMMA FinishSubRegular ==
  ASSUME Inv, Inv', Shape, NEW s \in Slots, FinishSub(s)
  PROVE  Regular
<1>1. TypeOK /\ sub[s].phase # "none" /\ sub[s].ok \in BOOLEAN /\ agenda = <<>>
  BY DEF Inv, TypeOK, SubJob, FinishSub, Quiet
<1>2. CASE Finish(s, sub[s].ok, Matching(s, sub[s].ok))
  BY <1>1, <1>2, NextLoose, FinishRegular
<1>3. ASSUME NEW n \in flow.redirects, Finish(s, sub[s].ok, Jump(n)) PROVE Regular
  BY <1>1, <1>3, JumpLoose, FinishRegular
<1> QED
  BY <1>2, <1>3 DEF FinishSub

LEMMA ReplayLoadedRegular ==
  ASSUME Inv, Inv', Shape, NEW s \in Slots, ReplayLoaded(s)
  PROVE  Regular
<1> DEFINE S == [sub EXCEPT ![s] = NoSub]
<1>1. /\ TypeOK /\ sub[s].phase # "none" /\ agenda = <<>> /\ phase \in {"active", "complete"}
      /\ aborted \in BOOLEAN /\ node \in [Nodes -> NodeState] /\ S \in [Slots -> SubJob]
      /\ \A t \in Slots : S[t] = sub[t] \/ S[t] = NoSub
  BY DEF Inv, TypeOK, SubJob, SubPhases, NoSub, ReplayLoaded, Quiet
<1> HIDE DEF S
<1>2. CASE /\ ~Going /\ sub' = S /\ UNCHANGED <<flow, ending, agenda, node, reentered, lost>>
  BY <1>1, <1>2, GoneRegular
<1>3. ASSUME NEW ok \in BOOLEAN, Finish(s, ok, Matching(s, ok)) PROVE Regular
  BY <1>1, <1>3, NextLoose, FinishRegular
<1>4. CASE Going /\ Abort(S, node) /\ UNCHANGED <<flow, walk, jobs, ghosts>>
  BY <1>1, <1>4, AbortRegular DEF walk, ghosts
<1> QED
  BY <1>1, <1>2, <1>3, <1>4 DEF ReplayLoaded, Going, walk, ghosts, S

LEMMA FlushSubRegular ==
  ASSUME Inv, Inv', Shape, NEW s \in Slots, FlushSub(s)
  PROVE  Regular
<1>1. /\ sub \in [Slots -> SubJob] /\ TypeOK /\ sub' = [sub EXCEPT ![s] = NoSub]
      /\ UNCHANGED <<flow, ending, agenda, node, reentered>> /\ lost \subseteq lost'
      /\ (sub[s].launcher # NoNode => sub[s].launcher \in lost')
  BY DEF Inv, TypeOK, FlushSub, walk
<1>2. /\ Going' = Going
      /\ \A c \in Nodes : Kind(c)' = Kind(c) /\ Managed(c)' = Managed(c)
  BY <1>1, FlowKept DEF ending, Going
<1>3. ActiveManages'
  BY <1>1, <1>2 DEF ActiveManages, Shape
<1>4. SubsRun'
  BY <1>1 DEF SubsRun, Shape, Kind, NoSub
<1>5. ASSUME NEW src, NEW x, Expected(src, x)' PROVE Expected(src, x)
  BY <1>1, <1>5 DEF Expected, NoSub
<1>6. ASSUME NEW c \in Nodes PROVE Accounts(c)
  <2>1. Cardinality(Owed(c)') = Cardinality(Owed(c)) - (IF s \in Owed(c) THEN 1 ELSE 0)
    BY <1>1, OwedGone DEF NoSub
  <2>2. Ahead(c)' = Ahead(c)
    BY <1>1 DEF Ahead
  <2>3. Debt(c)' = Debt(c) - (IF s \in Owed(c) THEN 1 ELSE 0) /\ Debt(c) \in Nat
    BY <1>1, <2>1, <2>2, OwedFinite, DebtType DEF Debt
  <2>4. s \in Owed(c) => c \in lost'
    BY <1>1, <1>6, FlowAssumption DEF Owed
  <2>5. Same(c)
    BY <1>1, SameNode
  <2> QED
    BY <2>3, <2>4, <2>5 DEF Accounts
<1> QED
  BY <1>1, <1>2, <1>3, <1>4, <1>5, <1>6 DEF Regular

LEMMA RegularStep ==
  ASSUME Inv, Inv', Shape, [Next]_vars
  PROVE  Regular
<1>1. CASE UNCHANGED vars
  BY <1>1, IdleRegular, SameNode DEF vars, ending
<1>2. CASE TickNodes
  BY <1>2, IdleRegular, SameNode DEF TickNodes, ghosts
<1>3. ASSUME NEW n \in Nodes, RunNode(n) \/ ActionDone(n) \/ WaitOver(n) \/ TickNode(n)
      PROVE  Regular
  BY <1>3, RunNodeRegular, ActionDoneRegular, WaitOverRegular, TickNodeRegular
<1>4. ASSUME NEW s \in Slots, SubStep(s) \/ FlushSub(s) PROVE Regular
  BY <1>4, EndSubRegular, CheckRetryRegular, FinishSubRegular, ReplayLoadedRegular,
     FlushSubRegular DEF SubStep
<1> QED
  BY <1>1, <1>2, <1>3, <1>4, SkipItemRegular, TickEndRegular, UserAbortRegular DEF Next, Idle

-----------------------------------------------------------------------------
(* What the steps do to the successes. *)

BeginSet(n) ==
  /\ jobs' = jobs /\ rounds' = [rounds EXCEPT ![n] = @ + 1] /\ won' = [won EXCEPT ![n] = 0]
EndJob(s, ok) ==
  /\ sub[s].phase # "none" /\ jobs' = Push(s, ok) /\ rounds' = rounds
  /\ won' = [n \in Nodes |-> IF n = sub[s].launcher /\ ok /\ ~sub[s].retried
                            THEN won[n] + 1 ELSE won[n]]
Tallied ==
  \/ UNCHANGED <<jobs, rounds, won>>
  \/ \E n \in Nodes : BeginSet(n)
  \/ \E s \in Slots, ok \in BOOLEAN : EndJob(s, ok)

LEMMA RunNodeTallied ==
  ASSUME NEW n \in Nodes, RunNode(n)
  PROVE  UNCHANGED <<jobs, rounds, won>> \/ BeginSet(n)
<1>1. ASSUME NEW k, Manage(n, k) PROVE BeginSet(n)
  BY <1>1 DEF Manage, BeginSet
<1>2. CASE RunMultiplex(n) \/ RunRepeat(n) \/ RunSplit(n)
  BY <1>1, <1>2 DEF RunMultiplex, RunRepeat, RunSplit, Calm, ghosts
<1>3. CASE RunTrigger(n) \/ RunJob(n) \/ RunEvent(n) \/ RunAction(n) \/ RunJoin(n)
           \/ RunDecision(n) \/ RunWait(n)
  BY <1>3 DEF RunTrigger, RunJob, RunEvent, RunJobNode, RunAction, RunJoin, RunDecision,
              RunWait, Calm, ghosts
<1> QED
  BY <1>2, <1>3 DEF RunNode

LEMMA TalliedStep ==
  ASSUME Inv, [Next]_vars
  PROVE  Tallied
<1>1. CASE SkipItem \/ TickNodes \/ TickEnd \/ UserAbort \/ Idle \/ UNCHANGED vars
  BY <1>1 DEF SkipItem, TickNodes, TickEnd, UserAbort, Idle, vars, ghosts, Tallied
<1>2. ASSUME NEW n \in Nodes, RunNode(n) PROVE Tallied
  BY <1>2, RunNodeTallied DEF Tallied
<1>3. ASSUME NEW n \in Nodes, ActionDone(n) \/ WaitOver(n) \/ TickNode(n) PROVE Tallied
  BY <1>3 DEF ActionDone, WaitOver, TickNode, ghosts, Tallied
<1>4. ASSUME NEW s \in Slots, NEW ok \in BOOLEAN, NEW next, sub[s].phase # "none", Finish(s, ok, next)
      PROVE  Tallied
  BY <1>4 DEF Finish, EndJob, Tallied
<1>5. ASSUME NEW s \in Slots, FinishSub(s) PROVE Tallied
  BY <1>4, <1>5 DEF FinishSub, Inv, TypeOK, SubJob
<1>6. ASSUME NEW s \in Slots, ReplayLoaded(s) PROVE Tallied
  BY <1>4, <1>6 DEF ReplayLoaded, ghosts, Tallied
<1>7. ASSUME NEW s \in Slots, EndSub(s) \/ CheckRetry(s) \/ FlushSub(s) PROVE Tallied
  BY <1>7 DEF EndSub, CheckRetry, FlushSub, ghosts, Tallied
<1> QED
  BY <1>1, <1>2, <1>3, <1>5, <1>6, <1>7 DEF Next, SubStep

-----------------------------------------------------------------------------
(* The counts stay right. *)

LEMMA FitsKept ==
  ASSUME flow' = flow, NEW src, NEW x
  PROVE  /\ Fits(src, x)' <=> Fits(src, x)
         /\ \A n \in Nodes : Own(n)' = Own(n) /\ Alone(n, x)' = Alone(n, x)
<1>1. \A n : Out(n)' = Out(n) /\ Kind(n)' = Kind(n) /\ Managed(n)' = Managed(n)
  BY DEF Out, Kind, Managed
<1>2. \A n : Manages(n)' = Manages(n) /\ Own(n)' = Own(n)
  BY <1>1 DEF Manages, Own
<1>3. Wires(x)' = Wires(x)
  BY <1>1 DEF Wires
<1>4. \A n : Alone(n, x)' = Alone(n, x)
  BY <1>3 DEF Alone
<1> QED
  BY <1>2, <1>4 DEF Fits

LEMMA ShapeStep ==
  ASSUME Shape, Regular
  PROVE  Shape'
<1>1. ASSUME NEW src \in Nodes \cup {NoNode}, NEW x \in Nodes, Expected(src, x)'
      PROVE  Fits(src, x)'
  <2>1. Fits(src, x)
    BY <1>1 DEF Regular, NewFit, Shape, AllFit
  <2> QED
    BY <2>1, FitsKept DEF Regular
<1> QED
  BY <1>1 DEF Shape, AllFit, Regular

LEMMA CountsType ==
  ASSUME TypeOK, TypeOK', NEW n \in Nodes
  PROVE  /\ Debt(n) \in Nat /\ Debt(n)' \in Nat
         /\ node[n].count \in Nat /\ node[n].max \in Nat
         /\ node'[n].count \in Nat /\ node'[n].max \in Nat
<1>1. agenda' \in Seq(Item)
  BY DEF TypeOK
<1>2. Debt(n) \in Nat /\ Debt(n)' \in Nat
  BY <1>1, DebtType
<1>3. node[n] \in NodeState /\ node'[n] \in NodeState
  BY DEF TypeOK
<1> QED
  BY <1>2, <1>3 DEF NodeState

(* No controller waits for more jobs than it has. *)
LEMMA FedStep ==
  ASSUME Inv, Inv', ControllerFed, Regular
  PROVE  ControllerFed'
<1> SUFFICES ASSUME NEW n \in Nodes \ lost', Kind(n)' \in Controlling, node'[n].active
             PROVE  Debt(n)' >= node'[n].max - node'[n].count
  BY DEF ControllerFed, Debt
<1>1. /\ Going' /\ Manages(n) /\ Kind(n) \in Controlling /\ n \notin lost
  BY FlowKept DEF Regular, ActiveManages, Manages
<1>2. Accounts(n)
  BY <1>1 DEF Regular
<1>3. node[n].active => Debt(n) >= node[n].max - node[n].count
  BY <1>1 DEF ControllerFed, Debt
<1>4. /\ Debt(n) \in Nat /\ Debt(n)' \in Nat
      /\ node[n].count \in Nat /\ node[n].max \in Nat
      /\ node'[n].count \in Nat /\ node'[n].max \in Nat
  BY CountsType DEF Inv
<1>5. CASE Same(n) /\ Debt(n)' = Debt(n)
  BY <1>3, <1>5 DEF Same
<1>6. CASE Done(n)
  BY <1>3, <1>4, <1>6 DEF Done
<1>7. CASE Begun(n)
  BY <1>4, <1>7 DEF Begun
<1> QED
  BY <1>2, <1>5, <1>6, <1>7 DEF Accounts, Emptied

(* No controller has more jobs than it waits for. *)
LEMMA BoundedStep ==
  ASSUME Inv, Inv', Bounded, Regular
  PROVE  Bounded'
<1> SUFFICES ASSUME Going', NEW n \in Nodes \ reentered', Manages(n)'
             PROVE  Debt(n)' <= IF node'[n].active THEN node'[n].max - node'[n].count ELSE 0
  BY DEF Bounded
<1>1. Going /\ Manages(n) /\ n \notin reentered
  BY FlowKept DEF Regular
<1>2. Accounts(n)
  BY <1>1 DEF Regular
<1>3. Debt(n) <= IF node[n].active THEN node[n].max - node[n].count ELSE 0
  BY <1>1 DEF Bounded
<1>4. /\ Debt(n) \in Nat /\ Debt(n)' \in Nat
      /\ node[n].count \in Nat /\ node[n].max \in Nat
      /\ node'[n].count \in Nat /\ node'[n].max \in Nat
  BY CountsType DEF Inv
<1>5. CASE Same(n) /\ Debt(n)' <= Debt(n)
  BY <1>3, <1>4, <1>5 DEF Same
<1>6. CASE Done(n)
  BY <1>3, <1>4, <1>6 DEF Done
<1>7. CASE Begun(n)
  BY <1>3, <1>4, <1>7 DEF Begun
<1>8. CASE Emptied(n)
  BY <1>3, <1>4, <1>8 DEF Emptied
<1>9. Debt(n)' = Debt(n) => Debt(n)' <= Debt(n)
  BY <1>4
<1> QED
  BY <1>2, <1>5, <1>6, <1>7, <1>8, <1>9 DEF Accounts

LEMMA FirstSetStep ==
  ASSUME Inv, Inv', Shape, FirstSet, Regular, Tallied
  PROVE  FirstSet'
<1> SUFFICES ASSUME NEW c \in Nodes, Manages(c)', Alone(c, Own(c))'
             PROVE  /\ rounds'[c] <= 1 => jobs'[Own(c)].ok = won'[c]
                    /\ rounds'[c] = 0 => won'[c] = 0 /\ \A x \in Nodes : ~Expected(c, x)'
  <2>1. \A c \in Nodes : Own(c)' = Own(c)
    BY FitsKept DEF Regular
  <2> QED
    BY <2>1 DEF FirstSet
<1>1. Manages(c) /\ Alone(c, Own(c)) /\ Own(c) \in Nodes
  <2>1. flow' = flow
    BY DEF Regular
  <2>2. Manages(c)' = Manages(c)
    BY <2>1, FlowKept
  <2>3. Own(c)' = Own(c)
    BY <2>1, FitsKept
  <2>4. Alone(c, Own(c))' = Alone(c, Own(c))
    BY <2>1, <2>3 DEF Alone, Wires, Out
  <2> QED
    BY <2>2, <2>4, ManagesType DEF Inv
<1>2. /\ rounds \in [Nodes -> Nat] /\ won \in [Nodes -> Nat] /\ jobs \in [Nodes -> Tally]
      /\ rounds' \in [Nodes -> Nat] /\ won' \in [Nodes -> Nat]
  BY DEF Inv, TypeOK
<1>3. /\ rounds[c] <= 1 => jobs[Own(c)].ok = won[c]
      /\ rounds[c] = 0 => won[c] = 0 /\ \A x \in Nodes : ~Expected(c, x)
  BY <1>1 DEF FirstSet
<1>4. rounds'[c] = 0 => rounds[c] = 0
  BY <1>2 DEF Tallied, BeginSet, EndJob
<1>5. ASSUME rounds'[c] = 0, NEW x \in Nodes, Expected(c, x)' PROVE FALSE
  BY <1>1, <1>3, <1>4, <1>5 DEF Regular, NewFit
<1>6. CASE UNCHANGED <<jobs, rounds, won>>
  BY <1>3, <1>5, <1>6
<1>7. ASSUME NEW n \in Nodes, BeginSet(n)
      PROVE  /\ rounds'[c] <= 1 => jobs'[Own(c)].ok = won'[c]
             /\ rounds'[c] = 0 => won'[c] = 0
  BY <1>2, <1>3, <1>7 DEF BeginSet
<1>8. ASSUME NEW s \in Slots, NEW ok \in BOOLEAN, EndJob(s, ok)
      PROVE  /\ rounds'[c] <= 1 => jobs'[Own(c)].ok = won'[c]
             /\ rounds'[c] = 0 => won'[c] = 0
  <2> DEFINE l == sub[s].launcher
             x == sub[s].node
  <2>1. l \in Nodes \cup {NoNode} /\ x \in Nodes /\ Expected(l, x)
    BY <1>8 DEF Inv, TypeOK, SubJob, SubsHaveNodes, EndJob, Expected
  <2>2. Fits(l, x)
    BY <2>1 DEF Shape, AllFit
  <2>3. l = c <=> x = Own(c)
    <3> HIDE DEF l, x
    <3> QED
      BY <1>1, <2>2 DEF Fits
  <2>4. won'[c] = IF l = c /\ ok /\ ~sub[s].retried THEN won[c] + 1 ELSE won[c]
    BY <1>8 DEF EndJob
  <2>5. jobs'[Own(c)].ok = IF x = Own(c) /\ ok /\ ~sub[s].retried THEN jobs[Own(c)].ok + 1
                           ELSE jobs[Own(c)].ok
    BY <1>1, <1>2, <1>8 DEF EndJob, Push, Tally
  <2>6. rounds' = rounds
    BY <1>8 DEF EndJob
  <2>7. rounds[c] = 0 => l # c
    BY <1>3, <2>1
  <2> HIDE DEF l, x
  <2> QED
    BY <1>3, <2>3, <2>4, <2>5, <2>6, <2>7
<1> QED
  BY <1>5, <1>6, <1>7, <1>8 DEF Tallied

LEMMA CountingInit == Init => Counting
<1> SUFFICES ASSUME Init PROVE Counting
  OBVIOUS
<1>0. TypeOK
  BY InvInit DEF Inv
<1>1. /\ \A n \in Nodes : ~node[n].active
      /\ \A s \in Slots : sub[s].phase = "none"
      /\ \A i \in DOMAIN agenda : agenda[i].source = NoNode /\ agenda[i].node = flow.start
      /\ \A n \in Nodes : jobs[n].ok = 0 /\ won[n] = 0
  BY DEF Init, NoSub
<1>2. AllFit
  BY <1>0, <1>1, FitsJump DEF AllFit, Expected
<1>3. Shape
  BY <1>1, <1>2 DEF Shape, SubsRun, ActiveManages
<1>4. ASSUME NEW n \in Nodes PROVE Debt(n) = 0
  <2>1. Owed(n) = {} /\ Ahead(n) = {}
    BY <1>1, FlowAssumption DEF Owed, Ahead
  <2> QED
    BY <2>1, FS_EmptySet DEF Debt
<1>5. ControllerFed
  BY <1>1 DEF ControllerFed
<1>6. Bounded
  BY <1>1, <1>4 DEF Bounded
<1>7. FirstSet
  BY <1>0, <1>1, ManagesType, FlowAssumption DEF FirstSet, Expected
<1> QED
  BY <1>3, <1>5, <1>6, <1>7 DEF Counting

LEMMA CountingStep ==
  ASSUME Inv, Inv', Counting, [Next]_vars
  PROVE  Counting'
<1>1. Shape /\ Regular /\ Tallied
  BY RegularStep, TalliedStep DEF Counting
<1> QED
  BY <1>1, ShapeStep, FedStep, BoundedStep, FirstSetStep DEF Counting

LEMMA CountingHolds == Spec => [](Inv /\ Counting)
<1>1. Inv /\ Counting /\ [Next]_vars => (Inv /\ Counting)'
  BY InvStep, CountingStep
<1>2. Init => Inv /\ Counting
  BY InvInit, CountingInit
<1> QED
  BY <1>1, <1>2, PTL DEF Spec

(* A controller never waits for more jobs than it has: for every graph, every  *)
(* limit and every order of callbacks, with retries, replays, launches that    *)
(* fail half way, aborts and second activations.                               *)
THEOREM ControllerFedCorrect == Spec => []ControllerFed
<1>1. Inv /\ Counting => ControllerFed
  BY DEF Counting
<1> QED
  BY <1>1, CountingHolds, PTL

(* A controller goes on only when every one of its jobs is done, unless it was *)
(* run again while it was active.                                              *)
THEOREM ContinueAfterOwnCorrect == Spec => ContinueAfterOwn
<1>1. ASSUME Inv, Inv', Counting, [Next]_vars, NEW n \in Nodes \ reentered', Completes(n)
      PROVE  Owed(n)' = {}
  <2>1. /\ Going' /\ Manages(n) /\ node[n].active /\ ~node'[n].active
    BY <1>1 DEF Counting, Shape, ActiveManages, Manages, Completes, Going
  <2>2. Regular
    BY <1>1, RegularStep DEF Counting
  <2>3. Accounts(n) /\ Going /\ n \notin reentered
    BY <2>1, <2>2 DEF Regular
  <2>4. Done(n)
    BY <1>1, <2>1, <2>3 DEF Accounts, Same, Begun, Emptied
  <2>5. Debt(n) <= node[n].max - node[n].count
    BY <1>1, <2>1, <2>3 DEF Counting, Bounded
  <2>6. /\ Debt(n) \in Nat /\ Debt(n)' \in Nat
        /\ node[n].count \in Nat /\ node[n].max \in Nat
        /\ node'[n].count \in Nat /\ node'[n].max \in Nat
    BY <1>1, CountsType DEF Inv
  <2>7. Debt(n)' = 0
    BY <2>1, <2>4, <2>5, <2>6 DEF Done
  <2>8. IsFiniteSet(Owed(n)') /\ Cardinality(Owed(n)') = 0
    <3>1. Cardinality(Owed(n)') \in Nat /\ Cardinality(Ahead(n)') \in Nat
      <4>1. agenda' \in Seq(Item) /\ Ahead(n)' = Marks(agenda', n)
        BY <1>1 DEF Inv, TypeOK, Ahead, Marks
      <4> QED
        BY <4>1, MarksFinite, OwedFinite
    <3> QED
      BY <2>7, <3>1, OwedFinite DEF Debt
  <2> QED
    BY <2>8, FS_EmptySet
<1>2. Inv /\ Counting /\ (Inv /\ Counting)' /\ [Next]_vars
      => [\A n \in Nodes \ reentered' : Completes(n) => Owed(n)' = {}]_vars
  BY <1>1
<1> QED
  BY <1>2, CountingHolds, PTL DEF Spec, ContinueAfterOwn

-----------------------------------------------------------------------------
(* What a controller decides. *)

(* A set ends with its last job, or it is a list that is empty now. *)
LastJob(n) ==
  /\ rounds' = rounds
  /\ \E next \in Seq(Item) :
      /\ \A i \in DOMAIN next : next[i].input
      /\ agenda' = Continue(Own(n), node[n].max, jobs') \o next
EmptyList(n) ==
  /\ agenda # <<>> /\ flow.percent = 0
  /\ agenda' = Continue(Own(n), 0, jobs) \o Tail(agenda)

LEMMA AbortCompletes ==
  ASSUME NEW S, NEW N, Abort(S, N), NEW n
  PROVE  ~Completes(n)
BY DEF Abort, Completes

LEMMA SameCompletes ==
  ASSUME NEW n, Kind(n) \in Controlling => Same(n)
  PROVE  ~Completes(n)
BY DEF Same, Completes

LEMMA FinishCompletes ==
  ASSUME Inv, Shape, NEW s \in Slots, sub[s].phase # "none", NEW ok,
         NEW next \in Seq(Item), \A i \in DOMAIN next : next[i].input,
         Finish(s, ok, next), NEW n \in Nodes, Completes(n)
  PROVE  LastJob(n)
<1> DEFINE l == sub[s].launcher
<1>1. TypeOK /\ sub[s].phase # "none"
  BY DEF Inv
<1>2. ~Same(n) /\ ~\E S, N : Abort(S, N)
  BY SameCompletes, AbortCompletes
<1>3. node' # node
  BY <1>2, SameNode
<1>4. ~Ignored(s) /\ node' = Progress(l) /\ agenda' = AfterProgress(s, Push(s, ok)) \o next
  BY <1>2, <1>3 DEF Finish
<1>5. n = l /\ Counts(l)
  BY <1>1, <1>2, <1>4, ProgressSame
<1>6. sub[s].node = Own(n)
  BY <1>1, <1>5, CountsOwn
<1>7. Reached(l)
  <2>1. node'[n].active = ~Reached(l)
    BY <1>4, <1>5 DEF Progress, Inv, TypeOK, NodeState
  <2> QED
    BY <2>1 DEF Completes
<1>8. AfterProgress(s, Push(s, ok)) = Continue(Own(n), node[n].max, Push(s, ok))
  BY <1>5, <1>6, <1>7 DEF AfterProgress
<1>9. jobs' = Push(s, ok) /\ rounds' = rounds
  BY DEF Finish
<1> QED
  BY <1>4, <1>8, <1>9 DEF LastJob

LEMMA RunNodeCompletes ==
  ASSUME Inv, Shape, NEW x \in Nodes, RunNode(x), NEW n \in Nodes, Completes(n)
  PROVE  EmptyList(n)
<1>0. node \in [Nodes -> NodeState] /\ (Kind(n) \in Controlling /\ ~Same(n))
  BY SameCompletes DEF Inv, TypeOK
<1>1. ~\E S, N : Abort(S, N)
  BY AbortCompletes
<1>2. node' # node
  BY <1>0, SameNode
<1>3. ASSUME NEW y \in Nodes, Fails(y) PROVE FALSE
  BY <1>0, <1>3 DEF Fails, Same, NodeState
<1>4. ASSUME NEW y \in Nodes, NEW k, Manage(y, k) PROVE FALSE
  <2>1. node' = [node EXCEPT ![y].active = TRUE, ![y].max = k, ![y].count = 0]
    BY <1>4 DEF Manage
  <2> QED
    BY <1>0, <2>1 DEF Completes, NodeState
<1>5. ASSUME Kind(x) \notin Controlling, \A y \in Nodes \ {x} : node'[y] = node[y] PROVE FALSE
  BY <1>0, <1>5 DEF Same
<1>6. CASE RunTrigger(x) \/ RunJob(x) \/ RunEvent(x) \/ RunDecision(x)
  BY <1>1, <1>2, <1>3, <1>6 DEF RunTrigger, RunJob, RunEvent, RunJobNode, RunDecision, Launch, Replay
<1>7. CASE RunAction(x)
  <2>1. Kind(x) \notin Controlling /\ \A y \in Nodes \ {x} : node'[y] = node[y]
    BY <1>0, <1>7 DEF RunAction, Enter, Controlling
  <2> QED
    BY <1>5, <2>1
<1>8. CASE RunJoin(x)
  <2>1. Kind(x) \notin Controlling /\ \A y \in Nodes \ {x} : node'[y] = node[y]
    BY <1>0, <1>8 DEF RunJoin, Enter, Controlling, Fails
  <2> QED
    BY <1>5, <2>1
<1>9. CASE RunWait(x)
  <2>1. Kind(x) \notin Controlling /\ \A y \in Nodes \ {x} : node'[y] = node[y]
    BY <1>0, <1>9 DEF RunWait, Enter, Controlling
  <2> QED
    BY <1>5, <2>1
<1>10. CASE RunMultiplex(x) \/ RunRepeat(x)
  BY <1>1, <1>2, <1>3, <1>4, <1>10 DEF RunMultiplex, RunRepeat
<1>11. CASE RunSplit(x)
  <2>1. CASE ~Managed(x) /\ node' = [node EXCEPT ![x].active = FALSE]
    <3>1. Kind(x) = "split"
      BY <1>11 DEF RunSplit, Enter
    <3>2. ~node[x].active
      BY <2>1, <3>1 DEF Shape, ActiveManages, Controlling
    <3> QED
      BY <1>0, <2>1, <3>2 DEF Same, NodeState
  <2>2. CASE /\ flow.percent = 0 /\ Then(Continue(Out(x)[1].to, 0, jobs))
             /\ node' = [node EXCEPT ![x].active = FALSE, ![x].max = 0, ![x].count = 0]
    <3>1. n = x
      BY <1>0, <2>2 DEF Same
    <3> QED
      BY <1>11, <2>2, <3>1 DEF EmptyList, Then, Own, RunSplit, Enter
  <2> QED
    BY <1>3, <1>4, <1>11, <2>1, <2>2 DEF RunSplit
<1> QED
  BY <1>6, <1>7, <1>8, <1>9, <1>10, <1>11 DEF RunNode

LEMMA CompletesStep ==
  ASSUME Inv, Shape, [Next]_vars, NEW n \in Nodes, Completes(n)
  PROVE  LastJob(n) \/ EmptyList(n)
<1>0. /\ node \in [Nodes -> NodeState] /\ TypeOK
      /\ Kind(n) \in Controlling /\ ~Same(n) /\ node' # node /\ ~\E S, N : Abort(S, N)
  BY SameCompletes, AbortCompletes, SameNode DEF Inv, TypeOK
<1>1. CASE SkipItem \/ TickNodes \/ TickEnd \/ UserAbort \/ Idle \/ UNCHANGED vars
  BY <1>0, <1>1 DEF SkipItem, TickNodes, TickEnd, UserAbort, Idle, vars
<1>2. ASSUME NEW x \in Nodes, RunNode(x) PROVE EmptyList(n)
  BY <1>2, RunNodeCompletes
<1>3. ASSUME NEW x \in Nodes, ActionDone(x) \/ WaitOver(x) \/ TickNode(x) PROVE FALSE
  <2>1. Kind(x) \notin Controlling \/ node' = node
    BY <1>3 DEF ActionDone, WaitOver, TickNode, Controlling
  <2>2. \A y \in Nodes \ {x} : node'[y] = node[y]
    BY <1>0, <1>3 DEF ActionDone, WaitOver, TickNode
  <2> QED
    BY <1>0, <2>1, <2>2 DEF Same
<1>4. ASSUME NEW s \in Slots, FinishSub(s) PROVE LastJob(n)
  <2>1. sub[s].phase # "none" /\ sub[s].ok \in BOOLEAN
    BY <1>4 DEF FinishSub, Inv, TypeOK, SubJob
  <2>2. CASE Finish(s, sub[s].ok, Matching(s, sub[s].ok))
    BY <2>1, <2>2, NextLoose, FinishCompletes
  <2>3. ASSUME NEW x \in flow.redirects, Finish(s, sub[s].ok, Jump(x)) PROVE LastJob(n)
    BY <1>0, <2>1, <2>3, JumpLoose, FinishCompletes
  <2> QED
    BY <1>4, <2>2, <2>3 DEF FinishSub
<1>5. ASSUME NEW s \in Slots, ReplayLoaded(s) PROVE LastJob(n)
  <2>1. sub[s].phase # "none"
    BY <1>5 DEF ReplayLoaded
  <2>2. PICK ok \in BOOLEAN : Finish(s, ok, Matching(s, ok))
    BY <1>0, <1>5 DEF ReplayLoaded
  <2> QED
    BY <2>1, <2>2, NextLoose, FinishCompletes
<1>6. ASSUME NEW s \in Slots, EndSub(s) \/ CheckRetry(s) \/ FlushSub(s) PROVE FALSE
  BY <1>0, <1>6 DEF EndSub, CheckRetry, FlushSub
<1> QED
  BY <1>1, <1>2, <1>3, <1>4, <1>5, <1>6 DEF Next, SubStep

(* A quotient reaches a number if the product is reached. *)
LEMMA QuotientReaches ==
  ASSUME NEW a \in Nat, NEW m \in Nat \ {0}, NEW p \in Nat
  PROVE  a \div m >= p <=> a >= p * m
<1>1. PICK q \in Nat, r \in 0..(m - 1) : q = a \div m /\ a = m * q + r
  OBVIOUS
<1>2. CASE q >= p
  <2>1. PICK d \in Nat : q = p + d
    BY <1>2, q - p \in Nat /\ q = p + (q - p)
  <2>2. m * q = p * m + m * d /\ m * d \in Nat /\ p * m \in Nat
    BY <2>1
  <2> QED
    BY <1>1, <1>2, <2>2
<1>3. CASE q < p
  <2>1. PICK d \in Nat : p = q + 1 + d
    BY <1>3, p - q - 1 \in Nat /\ p = q + 1 + (p - q - 1)
  <2>2. p * m = m * q + m + m * d /\ m * d \in Nat /\ m * q \in Nat
    BY <2>1
  <2> QED
    BY <1>1, <1>3, <2>2
<1> QED
  BY <1>2, <1>3

(* The percentage reaches the limit if there were enough successes. *)
LEMMA PercentageEnough ==
  ASSUME NEW a \in Nat, NEW m \in Nat \ {0}, flow.percent \in Nat
  PROVE  Percentage(a, m) >= flow.percent <=> Enough(a, m)
<1>1. PICK b \in Nat : b = a * 100
  OBVIOUS
<1>2. PICK p \in Nat : p = flow.percent
  OBVIOUS
<1>3. PICK q \in Nat : q = b \div m
  BY <1>1
<1>4. q >= p <=> b >= p * m
  BY <1>3, QuotientReaches
<1>5. CASE <<a, m>> \in RoundsDown
  <2>1. b % m = 0
    BY <1>1, <1>5, FlowAssumption
  <2>2. b = m * q
    BY <1>1, <1>3, <2>1
  <2>3. q >= p + 1 <=> b >= (p + 1) * m
    BY <1>3, QuotientReaches
  <2>4. b > p * m <=> b >= (p + 1) * m
    <3>1. p * m \in Nat /\ (p + 1) * m = p * m + m /\ m * p = p * m
      OBVIOUS
    <3>2. b > p * m => q >= p /\ q # p
      BY <1>1, <1>4, <2>2, <3>1
    <3> QED
      BY <1>1, <1>3, <2>3, <3>1, <3>2
  <2>5. Percentage(a, m) = q - 1
    BY <1>1, <1>3, <1>5 DEF Percentage
  <2>6. Enough(a, m) <=> b > p * m
    BY <1>1, <1>2, <1>5 DEF Enough
  <2>7. q - 1 >= p <=> q >= p + 1
    BY <1>2, <1>3
  <2> QED
    BY <1>2, <2>3, <2>4, <2>5, <2>6, <2>7
<1>6. CASE <<a, m>> \notin RoundsDown
  <2>1. Percentage(a, m) = q
    BY <1>1, <1>3, <1>6 DEF Percentage
  <2>2. Enough(a, m) <=> b >= p * m
    <3>1. p * m \in Nat /\ b \in Nat
      BY <1>1
    <3> QED
      BY <1>1, <1>2, <1>6, <3>1 DEF Enough
  <2> QED
    BY <1>2, <1>4, <2>1, <2>2
<1> QED
  BY <1>5, <1>6

(* The walk continues if the percentage is met. *)
LEMMA ContinuesMet ==
  ASSUME TypeOK, NEW d \in Nodes, Out(d) # <<>>, NEW m, NEW J, NEW next \in Seq(Item),
         agenda' = Continue(d, m, J) \o next
  PROVE  /\ Met(d, m, J) => Continues
         /\ ~Met(d, m, J) /\ (\A i \in DOMAIN next : next[i].input) => ~Continues
<1> DEFINE f == Continue(d, m, J)
<1>1. f \in Seq(Item)
  BY ContinueType
<1>2. CASE Met(d, m, J)
  <2>1. f = Follow(d, NoNode, FALSE, {"continue"})
    BY <1>2 DEF Continue
  <2>2. 1 \in DOMAIN f /\ f[1].source = NoNode /\ ~f[1].input
    BY <2>1, OutType DEF Follow
  <2> HIDE DEF f
  <2>3. 1 \in DOMAIN agenda' /\ agenda'[1] = f[1]
    BY <1>1, <2>2 DEF f
  <2> QED
    BY <1>2, <2>2, <2>3 DEF Continues
<1>3. CASE ~Met(d, m, J)
  <2>1. f = <<>>
    BY <1>3 DEF Continue
  <2>2. agenda' = next
    BY <2>1
  <2> QED
    BY <1>3, <2>2 DEF Continues
<1> QED
  BY <1>2, <1>3

(* The percentage a controller checks is that of its own jobs, for the first    *)
(* set of a node that nothing else runs: On Continue runs if and only if enough *)
(* of them succeeded, retried jobs counted once.  Which percentages floating    *)
(* point rounds down is a constant.                                             *)
THEOREM ContinueEarnedCorrect == Spec => ContinueEarned
<1>1. ASSUME Inv, Inv', Counting, Counting', [Next]_vars, NEW n \in Nodes, Completes(n),
             rounds[n] = 1, Alone(n, Out(n)[1].to), Out(Out(n)[1].to) # <<>>
      PROVE  Continues <=> Enough(won'[n], node[n].max)
  <2> DEFINE d == Own(n)
  <2>1. /\ TypeOK /\ Manages(n) /\ d \in Nodes /\ Alone(n, d) /\ Out(d) # <<>>
        /\ flow.percent \in Nat /\ node[n].max \in Nat \ {0} /\ won'[n] \in Nat
    <3>1. Manages(n) /\ node[n].max > 0
      BY <1>1 DEF Counting, Shape, ActiveManages, Manages, Completes
    <3>2. flow.percent \in Nat
      <4>1. flow \in FlowType
        BY <1>1, FlowAssumption DEF Inv, TypeOK
      <4>2. flow.percent \in 0..100
        BY <4>1, Zenon DEF FlowType
      <4> QED
        BY <4>2
    <3>3. TypeOK /\ won'[n] \in Nat /\ node[n].max \in Nat
      BY <1>1, CountsType DEF Inv, TypeOK
    <3> QED
      BY <1>1, <3>1, <3>2, <3>3, ManagesType DEF Own
  <2>2. CASE LastJob(n)
    <3>1. PICK next \in Seq(Item) :
            /\ \A i \in DOMAIN next : next[i].input
            /\ agenda' = Continue(d, node[n].max, jobs') \o next
      BY <2>2 DEF LastJob
    <3>2. Continues <=> Met(d, node[n].max, jobs')
      <4> HIDE DEF d
      <4> QED
        BY <2>1, <3>1, ContinuesMet
    <3>3. jobs'[d].ok = won'[n]
      <4>1. Regular /\ flow' = flow
        BY <1>1, RegularStep DEF Counting, Regular
      <4>2. Manages(n)' /\ Alone(n, Own(n))' /\ Own(n)' = Own(n)
        <5>1. Manages(n)' = Manages(n)
          BY <4>1, FlowKept
        <5>2. Own(n)' = Own(n)
          BY <4>1, FitsKept
        <5>3. Alone(n, Own(n))' = Alone(n, Own(n))
          BY <4>1, <5>2 DEF Alone, Wires, Out
        <5> QED
          BY <2>1, <5>1, <5>2, <5>3
      <4>3. rounds'[n] <= 1
        BY <1>1, <2>2 DEF LastJob
      <4> QED
        BY <1>1, <4>2, <4>3 DEF Counting, FirstSet
    <3>4. Met(d, node[n].max, jobs') <=> Enough(won'[n], node[n].max)
      <4>1. Met(d, node[n].max, jobs') <=> Percentage(won'[n], node[n].max) >= flow.percent
        BY <2>1, <3>3 DEF Met
      <4> QED
        BY <2>1, <4>1, PercentageEnough
    <3> QED
      BY <3>2, <3>4
  <2>3. CASE EmptyList(n)
    <3>1. Tail(agenda) \in Seq(Item)
      BY <2>1, <2>3, HeadType DEF EmptyList
    <3>2. Met(d, 0, jobs)
      <4>1. PICK b \in Nat : b = jobs[d].ok
        BY <1>1, <2>1 DEF Inv, TypeOK, Tally
      <4>2. b % 1 = 0 /\ (b * 100) \div 1 \in Nat
        BY <4>1
      <4>3. <<b, 1>> \notin RoundsDown
        BY <4>2, FlowAssumption
      <4>4. Percentage(jobs[d].ok, 1) >= 0
        <5>1. PICK q \in Nat : q = (b * 100) \div 1
          BY <4>2
        <5>2. Percentage(b, 1) = q - 0
          BY <4>3, <5>1 DEF Percentage
        <5> QED
          BY <4>1, <5>2
      <4> QED
        BY <2>3, <4>4 DEF EmptyList, Met
    <3>3. Continues
      <4> HIDE DEF d
      <4>1. agenda' = Continue(d, 0, jobs) \o Tail(agenda)
        BY <2>3 DEF EmptyList, d
      <4> QED
        BY <2>1, <3>1, <3>2, <4>1, ContinuesMet
    <3>4. Enough(won'[n], node[n].max)
      <4>1. node[n].max \in Nat \ {0} /\ flow.percent = 0 /\ won'[n] * 100 \in Nat
        BY <2>1, <2>3 DEF EmptyList
      <4>2. won'[n] * 100 = 0 => won'[n] = 0
        BY <2>1
      <4>3. 0 % node[n].max = 0
        BY <4>1
      <4>4. won'[n] = 0 => <<won'[n], node[n].max>> \notin RoundsDown
        BY <4>3, FlowAssumption
      <4> QED
        BY <2>1, <4>1, <4>2, <4>4 DEF Enough
    <3> QED
      BY <3>3, <3>4
  <2> QED
    BY <1>1, <2>2, <2>3, CompletesStep DEF Counting
<1>2. Inv /\ Counting /\ (Inv /\ Counting)' /\ [Next]_vars
      => [\A n \in Nodes :
            Completes(n) /\ rounds[n] = 1 /\ Alone(n, Out(n)[1].to) /\ Out(Out(n)[1].to) # <<>>
            => (Continues <=> Enough(won'[n], node[n].max))]_vars
  BY <1>1
<1> QED
  BY <1>2, CountingHolds, PTL DEF Spec, ContinueEarned
=============================================================================
