-------------------------- MODULE ConductorsProofs --------------------------
(***************************************************************************)
(* Theorems about Conductors, for every value of its constants: the types, *)
(* that every conductor that does not lead will elect or was told of a     *)
(* primary, that two do not lead at once, and the abstract office.         *)
(***************************************************************************)
EXTENDS Conductors, SequenceTheorems, WellFoundedInduction, TLAPS

TimerSeq == Seq(SUBSET Conductor)

(* What Await makes of the timers, for any set of busy conductors. *)
Trim(ts, B) == [c \in Conductor |-> [i \in DOMAIN ts[c] |-> ts[c][i] \cap B]]

LEMMA NoneEmpty ==
  ASSUME NEW S, NEW s \in Seq(S)
  PROVE  s # <<>> <=> DOMAIN s # {}
<1>1. Len(s) \in Nat /\ DOMAIN s = 1..Len(s)
  BY LenProperties
<1>2. ASSUME s # <<>> PROVE 1 \in DOMAIN s
  <2>1. Len(s) \in Nat \ {0} BY <1>2, EmptySeq
  <2>. QED BY <1>1, <2>1
<1>3. ASSUME s = <<>> PROVE DOMAIN s = {}
  <2>1. Len(s) = 0 BY <1>3, EmptySeq
  <2>. QED BY <1>1, <2>1
<1>. QED BY <1>2, <1>3

LEMMA TrimType ==
  ASSUME NEW ts \in [Conductor -> TimerSeq], NEW B
  PROVE  /\ Trim(ts, B) \in [Conductor -> TimerSeq]
         /\ \A c \in Conductor : ts[c] # <<>> <=> Trim(ts, B)[c] # <<>>
<1>. SUFFICES ASSUME NEW c \in Conductor
              PROVE  /\ Trim(ts, B)[c] \in TimerSeq
                     /\ ts[c] # <<>> <=> Trim(ts, B)[c] # <<>>
  BY DEF Trim
<1>1. ts[c] \in Seq(SUBSET Conductor) BY DEF TimerSeq
<1>. DEFINE t == Trim(ts, B)[c]
<1>2. t = [i \in DOMAIN ts[c] |-> ts[c][i] \cap B] BY DEF Trim
<1>3. DOMAIN ts[c] = 1..Len(ts[c]) /\ Len(ts[c]) \in Nat BY <1>1, LenProperties
<1>4. \A i \in 1..Len(ts[c]) : ts[c][i] \in SUBSET Conductor BY <1>1, ElementOfSeq
<1>5. t \in [1..Len(ts[c]) -> SUBSET Conductor] BY <1>2, <1>3, <1>4
<1>6. t \in Seq(SUBSET Conductor) BY <1>3, <1>5, SeqDef
<1>7. DOMAIN t = DOMAIN ts[c] BY <1>2
<1>. HIDE DEF t
<1>8. ts[c] # <<>> <=> t # <<>> BY <1>1, <1>6, <1>7, NoneEmpty
<1>. QED BY <1>6, <1>8 DEF t, TimerSeq

LEMMA FrontType ==
  ASSUME NEW S, NEW s \in Seq(S) PROVE Front(s) \in Seq(S)
<1>1. Len(s) \in Nat BY LenProperties
<1>2. \A i \in 1..(Len(s) - 1) : s[i] \in S BY <1>1, ElementOfSeq
<1>. QED BY <1>1, <1>2, SubSeqProperties DEF Front

LEMMA RemoveAtType ==
  ASSUME NEW S, NEW s \in Seq(S), NEW i \in DOMAIN s PROVE RemoveAt(s, i) \in Seq(S)
<1>1. Len(s) \in Nat /\ i \in 1..Len(s) BY LenProperties
<1>2. \A j \in 1..Len(s) : s[j] \in S BY ElementOfSeq
<1>3. SubSeq(s, 1, i - 1) \in Seq(S) BY <1>1, <1>2, SubSeqProperties
<1>4. SubSeq(s, i + 1, Len(s)) \in Seq(S) BY <1>1, <1>2, SubSeqProperties
<1>. QED BY <1>3, <1>4, ConcatProperties DEF RemoveAt

-----------------------------------------------------------------------------
(* What the timers are after arming, disarming or neither. *)
TimersTyped == timers \in [Conductor -> TimerSeq] /\ handle \in [Conductor -> BOOLEAN]

LEMMA KeepStep ==
  ASSUME TimersTyped, KeepTimers
  PROVE  TimersTyped' /\ \A d \in Conductor : timers[d] # <<>> => timers'[d] # <<>>
<1>1. timers' = Trim(timers, Busy') BY DEF KeepTimers, Await, Trim
<1>. QED BY <1>1, TrimType DEF TimersTyped, KeepTimers

LEMMA ArmStep ==
  ASSUME TimersTyped, NEW c \in Conductor, Arm(c)
  PROVE  /\ TimersTyped' /\ timers'[c] # <<>>
         /\ \A d \in Conductor : timers[d] # <<>> => timers'[d] # <<>>
<1>. DEFINE b == IF Timely THEN Busy' ELSE {}
            ts == [timers EXCEPT ![c] = Append(timers[c], b)]
<1>1. timers' = Trim(ts, Busy') BY DEF Arm, Await, Trim
<1>2. b \in SUBSET Conductor BY DEF Busy
<1>3. timers[c] \in Seq(SUBSET Conductor) BY DEF TimersTyped, TimerSeq
<1>. HIDE DEF b
<1>4. Append(timers[c], b) \in Seq(SUBSET Conductor) /\ Append(timers[c], b) # <<>>
  BY <1>2, <1>3, AppendProperties
<1>5. ts \in [Conductor -> TimerSeq] BY <1>4 DEF TimersTyped, TimerSeq
<1>6. \A d \in Conductor : d # c => ts[d] = timers[d] BY DEF TimersTyped
<1>7. ts[c] # <<>> BY <1>4 DEF TimersTyped
<1>. HIDE DEF ts
<1>8. /\ timers' \in [Conductor -> TimerSeq]
      /\ \A d \in Conductor : ts[d] # <<>> <=> timers'[d] # <<>>
  BY <1>1, <1>5, TrimType
<1>9. handle' \in [Conductor -> BOOLEAN] BY DEF Arm, TimersTyped
<1>. QED BY <1>6, <1>7, <1>8, <1>9 DEF TimersTyped

LEMMA DisarmStep ==
  ASSUME TimersTyped, NEW c \in Conductor, Disarm(c)
  PROVE  /\ TimersTyped'
         /\ \A d \in Conductor \ {c} : timers[d] # <<>> => timers'[d] # <<>>
<1>. DEFINE s == IF handle[c] /\ timers[c] # <<>> THEN Front(timers[c]) ELSE timers[c]
            ts == [timers EXCEPT ![c] = s]
<1>1. timers' = Trim(ts, Busy') BY DEF Disarm, Await, Trim
<1>2. s \in TimerSeq BY FrontType DEF TimersTyped, TimerSeq
<1>. HIDE DEF s
<1>3. ts \in [Conductor -> TimerSeq] /\ \A d \in Conductor \ {c} : ts[d] = timers[d]
  BY <1>2 DEF TimersTyped
<1>. HIDE DEF ts
<1>4. handle' \in [Conductor -> BOOLEAN] BY DEF Disarm, TimersTyped
<1>. QED BY <1>1, <1>3, <1>4, TrimType DEF TimersTyped

LEMMA ElectStep ==
  ASSUME TimersTyped, NEW c \in Conductor, ElectMaster(c)
  PROVE  /\ TimersTyped'
         /\ \A d \in Conductor \ {c} : timers[d] # <<>> => timers'[d] # <<>>
<1>. DEFINE ts == [timers EXCEPT ![c] = Tail(timers[c])]
<1>1. timers' = Trim(ts, Busy') BY DEF ElectMaster, Await, Trim
<1>2. Tail(timers[c]) \in TimerSeq
  BY HeadTailProperties DEF ElectMaster, TimersTyped, TimerSeq
<1>3. ts \in [Conductor -> TimerSeq] /\ \A d \in Conductor \ {c} : ts[d] = timers[d]
  BY <1>2 DEF TimersTyped
<1>. HIDE DEF ts
<1>. QED BY <1>1, <1>3, TrimType DEF TimersTyped, ElectMaster

-----------------------------------------------------------------------------
(* The elections that wait for answers are sequences of records, and an     *)
(* answer does not end one.                                                 *)
ElectionsTyped == elections \in [Conductor -> Seq(Election)]

LEMMA ReplaceStep ==
  ASSUME ElectionsTyped, NEW c \in Conductor, NEW i \in DOMAIN elections[c],
         NEW e \in Election,
         elections' = [elections EXCEPT ![c] = [elections[c] EXCEPT ![i] = e]]
  PROVE  ElectionsTyped' /\ \A d \in Conductor : elections[d] # <<>> => elections'[d] # <<>>
<1>. DEFINE s == [elections[c] EXCEPT ![i] = e]
<1>1. elections[c] \in Seq(Election) BY DEF ElectionsTyped
<1>2. i \in 1..Len(elections[c]) BY <1>1, LenProperties
<1>3. s \in Seq(Election) BY <1>1, <1>2, ExceptSeq
<1>4. DOMAIN s = DOMAIN elections[c] OBVIOUS
<1>. HIDE DEF s
<1>5. s # <<>> <=> elections[c] # <<>> BY <1>1, <1>3, <1>4, NoneEmpty
<1>6. elections' = [elections EXCEPT ![c] = s] BY DEF s
<1>. QED BY <1>3, <1>5, <1>6 DEF ElectionsTyped

LEMMA RegisterStep ==
  ASSUME ElectionsTyped, NEW c \in Conductor, NEW i, NEW d, Register(c, i, d)
  PROVE  ElectionsTyped' /\ \A p \in Conductor : elections[p] # <<>> => elections'[p] # <<>>
<1>. DEFINE old == elections[c][i]
            e == [asking |-> old.asking \ {d},
                  online |-> old.online \cup
                    (IF role[d] \in {"backup", "starting"} THEN {d} ELSE {}),
                  found  |-> old.found \/ role[d] = "primary"]
<1>1. i \in DOMAIN elections[c] /\ d \in old.asking BY DEF Register
<1>2. elections[c] \in Seq(Election) BY DEF ElectionsTyped
<1>3. old \in Election BY <1>1, <1>2, LenProperties, ElementOfSeq
<1>4. d \in Conductor BY <1>1, <1>3 DEF Election
<1>5. e \in Election BY <1>3, <1>4 DEF Election
<1>6. elections' = [elections EXCEPT ![c] = [elections[c] EXCEPT ![i] = e]]
  BY DEF Register, ElectionsTyped
<1>. HIDE DEF e, old
<1>. QED BY <1>1, <1>5, <1>6, ReplaceStep

LEMMA RegisterLostStep ==
  ASSUME ElectionsTyped, NEW c \in Conductor, NEW i, NEW d, RegisterLost(c, i, d)
  PROVE  ElectionsTyped' /\ \A p \in Conductor : elections[p] # <<>> => elections'[p] # <<>>
<1>. DEFINE old == elections[c][i]
            e == [old EXCEPT !.asking = old.asking \ {d}]
<1>1. i \in DOMAIN elections[c] BY DEF RegisterLost
<1>2. elections[c] \in Seq(Election) BY DEF ElectionsTyped
<1>3. old \in Election BY <1>1, <1>2, LenProperties, ElementOfSeq
<1>4. e \in Election BY <1>3 DEF Election
<1>5. elections' = [elections EXCEPT ![c] = [elections[c] EXCEPT ![i] = e]]
  BY DEF RegisterLost, ElectionsTyped
<1>. HIDE DEF e, old
<1>. QED BY <1>1, <1>4, <1>5, ReplaceStep

LEMMA EndedStep ==
  ASSUME ElectionsTyped, NEW c \in Conductor, NEW i \in DOMAIN elections[c], Ended(c, i)
  PROVE  ElectionsTyped' /\ \A d \in Conductor \ {c} : elections'[d] = elections[d]
<1>1. RemoveAt(elections[c], i) \in Seq(Election) BY RemoveAtType DEF ElectionsTyped
<1>2. elections' = [elections EXCEPT ![c] = RemoveAt(elections[c], i)] BY DEF Ended
<1>. QED BY <1>1, <1>2 DEF ElectionsTyped

-----------------------------------------------------------------------------
(* The inductive invariant: a primary that is referred to has a socket, so  *)
(* an election that stops for it leaves a socket behind.                    *)
NetTyped ==
  /\ link \in [Conductor -> [Conductor -> Links]]
  /\ sockets \in [Conductor -> SUBSET Conductor]
  /\ masterSocket \in [Conductor -> Conductor \cup {NoConductor}]
  /\ parked \in [Conductor -> BOOLEAN]

FaultsTyped == faults \in [crash: 0..MaxCrashes, drop: 0..MaxDrops, lost: 0..MaxLost]

RoleTyped == role \in [Conductor -> Roles]

MasterIsSocket ==
  \A c \in Conductor : masterSocket[c] # NoConductor => masterSocket[c] \in sockets[c]

(* All of it that does not speak of the bounds. *)
Core ==
  /\ RoleTyped /\ ElectionsTyped /\ TimersTyped /\ NetTyped
  /\ MasterIsSocket /\ SomeoneElects

Inv == Core /\ FaultsTyped

LEMMA InvImpliesTypeOK == Inv => TypeOK
BY DEF Inv, Core, RoleTyped, ElectionsTyped, TimersTyped, TimerSeq, NetTyped, FaultsTyped, TypeOK

LEMMA InitInv == Init => Inv
<1>. SUFFICES ASSUME Init PROVE Inv OBVIOUS
<1>1. <<>> \in Seq(Election) /\ <<>> \in TimerSeq BY EmptySeq DEF TimerSeq
<1>2. RoleTyped /\ ElectionsTyped /\ TimersTyped
  BY <1>1 DEF Init, RoleTyped, Roles, ElectionsTyped, TimersTyped
<1>3. NetTyped BY DEF Init, NetTyped, Links
<1>4. MasterIsSocket /\ SomeoneElects BY DEF Init, MasterIsSocket, SomeoneElects
<1>5. FaultsTyped BY BoundAssumption DEF Init, FaultsTyped
<1>. QED BY <1>2, <1>3, <1>4, <1>5 DEF Inv, Core

LEMMA ExitStep ==
  ASSUME Core, NEW c \in Conductor, Exit(c) PROVE Core'
<1>1. RoleTyped' BY DEF Exit, Core, RoleTyped, Roles
<1>2. ElectionsTyped'
  <2>1. <<>> \in Seq(Election) BY EmptySeq
  <2>. QED BY <2>1 DEF Exit, Core, ElectionsTyped
<1>3. TimersTyped' /\ \A d \in Conductor \ {c} : timers[d] # <<>> => timers'[d] # <<>>
  <2>. DEFINE ts == [timers EXCEPT ![c] = <<>>]
  <2>1. <<>> \in TimerSeq BY EmptySeq DEF TimerSeq
  <2>2. ts \in [Conductor -> TimerSeq] /\ \A d \in Conductor \ {c} : ts[d] = timers[d]
    BY <2>1 DEF Core, TimersTyped
  <2>3. timers' = Trim(ts, Busy') BY DEF Exit, Await, Trim
  <2>4. handle' \in [Conductor -> BOOLEAN] BY DEF Exit, Core, TimersTyped
  <2>. HIDE DEF ts
  <2>. QED BY <2>2, <2>3, <2>4, TrimType DEF TimersTyped
<1>4. NetTyped'
  <2>1. \A l \in Links : Broken(l) \in Links BY DEF Broken, Links
  <2>2. link' \in [Conductor -> [Conductor -> Links]]
    BY <2>1 DEF Exit, Core, NetTyped, Links
  <2>. QED BY <2>2 DEF Exit, Core, NetTyped
<1>5. MasterIsSocket' BY DEF Exit, Core, MasterIsSocket, NetTyped
<1>6. SomeoneElects'
  <2>. SUFFICES ASSUME NEW d \in Conductor, role'[d] = "backup"
                PROVE  sockets'[d] # {} \/ timers'[d] # <<>> \/ elections'[d] # <<>> \/ parked'[d]
    BY DEF SomeoneElects
  <2>1. d # c BY DEF Exit, Core, RoleTyped
  <2>2. role[d] = "backup" BY <2>1 DEF Exit, Core, RoleTyped
  <2>3. sockets'[d] = sockets[d] /\ elections'[d] = elections[d] /\ parked'[d] = parked[d]
    BY <2>1 DEF Exit, Core, NetTyped, ElectionsTyped
  <2>. QED BY <1>3, <2>1, <2>2, <2>3 DEF Core, SomeoneElects
<1>. QED BY <1>1, <1>2, <1>3, <1>4, <1>5, <1>6 DEF Core

-----------------------------------------------------------------------------
(* A step of c leaves every other backup what makes it elect. *)
OthersKept(c) ==
  \A d \in Conductor \ {c} :
    /\ role'[d] = "backup" => role[d] = "backup"
    /\ sockets[d] # {} => sockets'[d] # {}
    /\ timers[d] # <<>> => timers'[d] # <<>>
    /\ elections[d] # <<>> => elections'[d] # <<>>
    /\ parked[d] => parked'[d]

Elects(c) ==
  role[c] = "backup" =>
    sockets[c] # {} \/ timers[c] # <<>> \/ elections[c] # <<>> \/ parked[c]

LEMMA ElectsStep ==
  ASSUME SomeoneElects, NEW c \in Conductor, OthersKept(c), Elects(c)' PROVE SomeoneElects'
<1>. SUFFICES ASSUME NEW d \in Conductor PROVE Elects(d)' BY DEF SomeoneElects, Elects
<1>1. CASE d = c BY <1>1
<1>2. CASE d # c BY <1>2 DEF OthersKept, SomeoneElects, Elects
<1>. QED BY <1>1, <1>2

(* The steps that touch the timers, and neither sockets nor connections. *)
LEMMA StartStep ==
  ASSUME Core, NEW c \in Conductor, Start(c) PROVE Core'
<1>1. TimersTyped' /\ timers'[c] # <<>> /\ \A d \in Conductor : timers[d] # <<>> => timers'[d] # <<>>
  BY ArmStep DEF Start, Core
<1>2. RoleTyped' BY DEF Start, Core, RoleTyped, Roles
<1>3. ElectionsTyped' /\ NetTyped' /\ MasterIsSocket'
  BY DEF Start, Core, ElectionsTyped, NetTyped, MasterIsSocket
<1>4. OthersKept(c) BY <1>1 DEF OthersKept, Start, Core, RoleTyped
<1>5. Elects(c)' BY <1>1 DEF Elects
<1>. QED BY <1>1, <1>2, <1>3, <1>4, <1>5, ElectsStep DEF Core

LEMMA ElectMasterStep ==
  ASSUME Core, NEW c \in Conductor, ElectMaster(c) PROVE Core'
<1>. DEFINE e == [asking |-> Conductor \ {c}, online |-> {}, found |-> FALSE]
<1>1. TimersTyped' /\ \A d \in Conductor \ {c} : timers[d] # <<>> => timers'[d] # <<>>
  BY ElectStep DEF Core
<1>2. elections[c] \in Seq(Election) BY DEF Core, ElectionsTyped
<1>3. e \in Election BY DEF Election
<1>4. elections' = [elections EXCEPT ![c] = Append(elections[c], e)] BY DEF ElectMaster
<1>. HIDE DEF e
<1>5. Append(elections[c], e) \in Seq(Election) /\ Append(elections[c], e) # <<>>
  BY <1>2, <1>3, AppendProperties
<1>6. /\ ElectionsTyped' /\ elections'[c] # <<>>
      /\ \A d \in Conductor \ {c} : elections'[d] = elections[d]
  BY <1>4, <1>5 DEF Core, ElectionsTyped
<1>7. RoleTyped' /\ NetTyped' /\ MasterIsSocket'
  BY DEF ElectMaster, Core, RoleTyped, NetTyped, MasterIsSocket
<1>8. OthersKept(c) BY <1>1, <1>6 DEF OthersKept, ElectMaster
<1>9. Elects(c)' BY <1>6 DEF Elects
<1>. QED BY <1>1, <1>6, <1>7, <1>8, <1>9, ElectsStep DEF Core

LEMMA StartupDoneStep ==
  ASSUME Core, NEW c \in Conductor, StartupDone(c) PROVE Core'
<1>1. TimersTyped' /\ \A d \in Conductor : timers[d] # <<>> => timers'[d] # <<>>
  BY KeepStep DEF StartupDone, Core
<1>2. RoleTyped' /\ role'[c] = "primary"
  BY DEF StartupDone, Core, RoleTyped, Roles
<1>3. ElectionsTyped' /\ NetTyped' /\ MasterIsSocket'
  BY DEF StartupDone, Core, ElectionsTyped, NetTyped, MasterIsSocket
<1>4. OthersKept(c) BY <1>1 DEF OthersKept, StartupDone, Core, RoleTyped
<1>5. Elects(c)' BY <1>2 DEF Elects
<1>. QED BY <1>1, <1>2, <1>3, <1>4, <1>5, ElectsStep DEF Core

(* The answers of an election, and its end. *)
LEMMA AnswerStep ==
  ASSUME Core, NEW c \in Conductor, NEW i, NEW d, Register(c, i, d) \/ RegisterLost(c, i, d)
  PROVE  Core'
<1>1. TimersTyped' /\ \A p \in Conductor : timers[p] # <<>> => timers'[p] # <<>>
  BY KeepStep DEF Register, RegisterLost, Core
<1>2. ElectionsTyped' /\ \A p \in Conductor : elections[p] # <<>> => elections'[p] # <<>>
  BY RegisterStep, RegisterLostStep DEF Core
<1>3. UNCHANGED <<role, link, sockets, masterSocket, parked>> BY DEF Register, RegisterLost
<1>4. RoleTyped' /\ NetTyped' /\ MasterIsSocket'
  BY <1>3 DEF Core, RoleTyped, NetTyped, MasterIsSocket
<1>5. OthersKept(c) BY <1>1, <1>2, <1>3 DEF OthersKept
<1>6. Elects(c)' BY <1>1, <1>2, <1>3 DEF Elects, Core, SomeoneElects
<1>. QED BY <1>1, <1>2, <1>4, <1>5, <1>6, ElectsStep DEF Core

LEMMA ElectionStopsStep ==
  ASSUME Core, NEW c \in Conductor, NEW i, ElectionStops(c, i) PROVE Core'
<1>1. TimersTyped' /\ \A d \in Conductor : timers[d] # <<>> => timers'[d] # <<>>
  BY KeepStep DEF ElectionStops, Core
<1>2. ElectionsTyped' /\ \A d \in Conductor \ {c} : elections'[d] = elections[d]
  BY EndedStep DEF ElectionStops, Core
<1>3. UNCHANGED <<role, link, sockets, masterSocket>> BY DEF ElectionStops
<1>4. elections[c][i].found \in BOOLEAN
  <2>1. elections[c] \in Seq(Election) /\ i \in DOMAIN elections[c]
    BY DEF ElectionStops, Core, ElectionsTyped
  <2>2. elections[c][i] \in Election BY <2>1, LenProperties, ElementOfSeq
  <2>. QED BY <2>2 DEF Election
<1>5. NetTyped' BY <1>3, <1>4 DEF ElectionStops, Core, NetTyped
<1>6. RoleTyped' /\ MasterIsSocket' BY <1>3 DEF Core, RoleTyped, MasterIsSocket
<1>7. OthersKept(c) BY <1>1, <1>2, <1>3 DEF OthersKept, ElectionStops, Core, NetTyped
<1>8. Elects(c)'
  <2>1. CASE elections[c][i].found
    <3>1. parked'[c] BY <2>1 DEF ElectionStops, Core, NetTyped
    <3>. QED BY <3>1 DEF Elects
  <2>2. CASE masterSocket[c] # NoConductor
    <3>1. sockets'[c] # {} BY <1>3, <2>2 DEF Core, MasterIsSocket
    <3>. QED BY <3>1 DEF Elects
  <2>. QED BY <2>1, <2>2 DEF ElectionStops
<1>. QED BY <1>1, <1>2, <1>5, <1>6, <1>7, <1>8, ElectsStep DEF Core

LEMMA StepAsideStep ==
  ASSUME Core, NEW c \in Conductor, NEW i, StepAside(c, i) PROVE Core'
<1>1. TimersTyped' /\ timers'[c] # <<>> /\ \A d \in Conductor : timers[d] # <<>> => timers'[d] # <<>>
  BY ArmStep DEF StepAside, Core
<1>2. ElectionsTyped' /\ \A d \in Conductor \ {c} : elections'[d] = elections[d]
  BY EndedStep DEF StepAside, Undecided, Core
<1>3. UNCHANGED <<role, link, sockets, masterSocket, parked>> BY DEF StepAside
<1>4. RoleTyped' /\ NetTyped' /\ MasterIsSocket'
  BY <1>3 DEF Core, RoleTyped, NetTyped, MasterIsSocket
<1>5. OthersKept(c) BY <1>1, <1>2, <1>3 DEF OthersKept
<1>6. Elects(c)' BY <1>1 DEF Elects
<1>. QED BY <1>1, <1>2, <1>4, <1>5, <1>6, ElectsStep DEF Core

LEMMA WinStep ==
  ASSUME Core, NEW c \in Conductor, NEW i, Win(c, i) PROVE Core'
<1>1. TimersTyped' /\ \A d \in Conductor \ {c} : timers[d] # <<>> => timers'[d] # <<>>
  BY DisarmStep DEF Win, BecomeMaster, Core
<1>2. ElectionsTyped' /\ \A d \in Conductor \ {c} : elections'[d] = elections[d]
  BY EndedStep DEF Win, Wins, Undecided, Core
<1>3. RoleTyped' /\ role'[c] = "starting" /\ \A d \in Conductor \ {c} : role'[d] = role[d]
  BY DEF Win, BecomeMaster, Core, RoleTyped, Roles
<1>4. NetTyped' BY DEF Win, BecomeMaster, Core, NetTyped, Links
<1>5. MasterIsSocket' BY DEF Win, Core, MasterIsSocket
<1>6. OthersKept(c) BY <1>1, <1>2, <1>3 DEF OthersKept, Win
<1>7. Elects(c)' BY <1>3 DEF Elects
<1>. QED BY <1>1, <1>2, <1>3, <1>4, <1>5, <1>6, <1>7, ElectsStep DEF Core

-----------------------------------------------------------------------------
(* The steps of a connection. *)
LEMMA LinkStep ==
  ASSUME Core, NEW m \in Conductor, NEW p \in Conductor, NEW l \in Links,
         link' = [link EXCEPT ![m][p] = l],
         UNCHANGED <<role, elections, timers, handle, sockets, masterSocket, parked>>
  PROVE  Core'
<1>1. NetTyped' BY DEF Core, NetTyped
<1>. QED BY <1>1 DEF Core, RoleTyped, ElectionsTyped, TimersTyped, MasterIsSocket, SomeoneElects

LEMMA ReceiveNewMasterStep ==
  ASSUME Core, NEW m \in Conductor, NEW p \in Conductor, ReceiveNewMaster(m, p) PROVE Core'
<1>1. CASE Exit(p) BY <1>1, ExitStep
<1>2. CASE ~Exit(p)
  <2>1. TimersTyped' /\ \A d \in Conductor \ {p} : timers[d] # <<>> => timers'[d] # <<>>
    BY <1>2, DisarmStep DEF ReceiveNewMaster, Core
  <2>2. UNCHANGED <<role, elections>> BY <1>2 DEF ReceiveNewMaster
  <2>3. NetTyped'
    <3>1. link' = [link EXCEPT ![m][p] = "open"] BY <1>2 DEF ReceiveNewMaster
    <3>2. link' \in [Conductor -> [Conductor -> Links]] BY <3>1 DEF Core, NetTyped, Links
    <3>3. sockets' = [sockets EXCEPT ![p] = sockets[p] \cup {m}] BY <1>2 DEF ReceiveNewMaster
    <3>4. sockets' \in [Conductor -> SUBSET Conductor] BY <3>3 DEF Core, NetTyped
    <3>5. masterSocket' \in [Conductor -> Conductor \cup {NoConductor}]
      BY <1>2 DEF ReceiveNewMaster, Core, NetTyped
    <3>6. parked' \in [Conductor -> BOOLEAN] BY <1>2 DEF ReceiveNewMaster, Core, NetTyped
    <3>. QED BY <3>2, <3>4, <3>5, <3>6 DEF NetTyped
  <2>4. /\ sockets'[p] = sockets[p] \cup {m} /\ masterSocket'[p] = m
        /\ \A d \in Conductor \ {p} : /\ sockets'[d] = sockets[d]
                                      /\ masterSocket'[d] = masterSocket[d]
                                      /\ parked'[d] = parked[d]
    BY <1>2 DEF ReceiveNewMaster, Core, NetTyped
  <2>5. MasterIsSocket' BY <2>4 DEF Core, MasterIsSocket
  <2>6. RoleTyped' /\ ElectionsTyped' BY <2>2 DEF Core, RoleTyped, ElectionsTyped
  <2>7. OthersKept(p) BY <2>1, <2>2, <2>4 DEF OthersKept
  <2>8. Elects(p)' BY <2>4 DEF Elects
  <2>. QED BY <2>1, <2>3, <2>5, <2>6, <2>7, <2>8, ElectsStep DEF Core
<1>. QED BY <1>1, <1>2

LEMMA LostMasterStep ==
  ASSUME Core, NEW p \in Conductor, NEW m \in Conductor, LostMaster(p, m) PROVE Core'
<1>1. TimersTyped' /\ timers'[p] # <<>> /\ \A d \in Conductor : timers[d] # <<>> => timers'[d] # <<>>
  BY ArmStep DEF LostMaster, Core
<1>2. UNCHANGED <<role, elections>> BY DEF LostMaster
<1>3. NetTyped' BY DEF LostMaster, Core, NetTyped
<1>4. /\ masterSocket'[p] = NoConductor
      /\ \A d \in Conductor \ {p} : /\ sockets'[d] = sockets[d]
                                    /\ masterSocket'[d] = masterSocket[d]
                                    /\ parked'[d] = parked[d]
  BY DEF LostMaster, Core, NetTyped
<1>5. MasterIsSocket' BY <1>4 DEF Core, MasterIsSocket
<1>6. RoleTyped' /\ ElectionsTyped' BY <1>2 DEF Core, RoleTyped, ElectionsTyped
<1>7. OthersKept(p) BY <1>1, <1>2, <1>4 DEF OthersKept
<1>8. Elects(p)' BY <1>1 DEF Elects
<1>. QED BY <1>1, <1>3, <1>5, <1>6, <1>7, <1>8, ElectsStep DEF Core

-----------------------------------------------------------------------------
LEMMA FaultsStep ==
  ASSUME FaultsTyped, [Next]_vars PROVE FaultsTyped'
<1>1. \A n \in {MaxCrashes, MaxDrops, MaxLost} : n \in Nat BY BoundAssumption
<1>2. CASE UNCHANGED faults BY <1>2 DEF FaultsTyped
<1>3. CASE faults.crash > 0 /\ faults' = [faults EXCEPT !.crash = faults.crash - 1]
  BY <1>1, <1>3 DEF FaultsTyped
<1>4. CASE faults.drop > 0 /\ faults' = [faults EXCEPT !.drop = faults.drop - 1]
  BY <1>1, <1>4 DEF FaultsTyped
<1>5. CASE faults.lost > 0 /\ faults' = [faults EXCEPT !.lost = faults.lost - 1]
  BY <1>1, <1>5 DEF FaultsTyped
<1>6. \/ UNCHANGED faults
      \/ faults.crash > 0 /\ faults' = [faults EXCEPT !.crash = faults.crash - 1]
      \/ faults.drop > 0 /\ faults' = [faults EXCEPT !.drop = faults.drop - 1]
      \/ faults.lost > 0 /\ faults' = [faults EXCEPT !.lost = faults.lost - 1]
  <2>1. CASE UNCHANGED vars BY <2>1 DEF vars
  <2>2. CASE Next
    <3>. PICK c \in Conductor :
           \/ Start(c) \/ ElectMaster(c) \/ StartupDone(c) \/ Relinquish(c) \/ Crash(c)
           \/ \E i \in 1..MaxElections :
                \/ ElectionStops(c, i) \/ StepAside(c, i) \/ Win(c, i) \/ WinTwice(c, i)
                \/ \E d \in Conductor : Register(c, i, d) \/ RegisterLost(c, i, d)
           \/ \E p \in Conductor :
                \/ Connect(c, p) \/ ReceiveNewMaster(c, p) \/ Drop(c, p)
                \/ Disconnected(c, p) \/ LostMaster(c, p)
      BY <2>2 DEF Next
    <3>. QED
      BY DEF Start, ElectMaster, StartupDone, Relinquish, Crash, ElectionStops, StepAside,
             Win, WinTwice, Register, RegisterLost, Connect, ReceiveNewMaster, Drop,
             Disconnected, LostMaster
  <2>. QED BY <2>1, <2>2
<1>. QED BY <1>2, <1>3, <1>4, <1>5, <1>6

LEMMA CoreStep ==
  ASSUME Core, [Next]_vars PROVE Core'
<1>1. CASE UNCHANGED vars
  BY <1>1 DEF vars, Core, RoleTyped, ElectionsTyped, TimersTyped, NetTyped, MasterIsSocket,
              SomeoneElects
<1>2. ASSUME NEW c \in Conductor, Start(c) PROVE Core' BY <1>2, StartStep
<1>3. ASSUME NEW c \in Conductor, ElectMaster(c) PROVE Core' BY <1>3, ElectMasterStep
<1>4. ASSUME NEW c \in Conductor, StartupDone(c) PROVE Core' BY <1>4, StartupDoneStep
<1>5. ASSUME NEW c \in Conductor, Relinquish(c) \/ Crash(c) PROVE Core'
  BY <1>5, ExitStep DEF Relinquish, Crash
<1>6. ASSUME NEW c \in Conductor, NEW i, NEW d, Register(c, i, d) \/ RegisterLost(c, i, d)
      PROVE  Core'
  BY <1>6, AnswerStep
<1>7. ASSUME NEW c \in Conductor, NEW i, ElectionStops(c, i) PROVE Core'
  BY <1>7, ElectionStopsStep
<1>8. ASSUME NEW c \in Conductor, NEW i, StepAside(c, i) PROVE Core' BY <1>8, StepAsideStep
<1>9. ASSUME NEW c \in Conductor, NEW i, Win(c, i) PROVE Core' BY <1>9, WinStep
<1>10. ASSUME NEW c \in Conductor, NEW i, WinTwice(c, i) PROVE Core'
  BY <1>10, ExitStep DEF WinTwice
<1>11. ASSUME NEW m \in Conductor, NEW p \in Conductor,
              Connect(m, p) \/ Disconnected(m, p) \/ Drop(m, p)
       PROVE  Core'
  <2>. DEFINE l == IF Connect(m, p) THEN "hello"
                   ELSE IF Disconnected(m, p) THEN "retry" ELSE Broken(link[m][p])
  <2>1. l \in Links BY DEF Links, Core, NetTyped, Broken
  <2>2. link' = [link EXCEPT ![m][p] = l]
    BY <1>11 DEF Connect, Disconnected, Drop
  <2>3. UNCHANGED <<role, elections, timers, handle, sockets, masterSocket, parked>>
    BY <1>11 DEF Connect, Disconnected, Drop
  <2>. HIDE DEF l
  <2>. QED BY <2>1, <2>2, <2>3, LinkStep
<1>12. ASSUME NEW m \in Conductor, NEW p \in Conductor, ReceiveNewMaster(m, p) PROVE Core'
  BY <1>12, ReceiveNewMasterStep
<1>13. ASSUME NEW p \in Conductor, NEW m \in Conductor, LostMaster(p, m) PROVE Core'
  BY <1>13, LostMasterStep
<1>. QED
  BY <1>1, <1>2, <1>3, <1>4, <1>5, <1>6, <1>7, <1>8, <1>9, <1>10, <1>11, <1>12, <1>13
  DEF Next

(* Inv is inductive: it holds at every state of every behaviour. *)
THEOREM ConductorsInvariant == Spec => []Inv
<1>1. Inv /\ [Next]_vars => Inv' BY CoreStep, FaultsStep DEF Inv
<1>. QED BY <1>1, InitInv, PTL DEF Spec

(* The variables keep their shape, whatever fails: an election holds only    *)
(* answers of members, and no bound on the faults is overrun.               *)
THEOREM ConductorsTypeCorrect == Spec => []TypeOK
BY ConductorsInvariant, InvImpliesTypeOK, PTL

(* However elections, lost answers, connections and crashes interleave, a    *)
(* running conductor that does not lead holds something that will make it    *)
(* elect, or stopped because it was told of a primary (electMaster).         *)
THEOREM SomeoneAlwaysElects == Spec => []SomeoneElects
<1>1. Inv => SomeoneElects BY DEF Inv, Core
<1>. QED BY <1>1, ConductorsInvariant, PTL

-----------------------------------------------------------------------------
(* The order of an election is total: every set of candidates has a winner. *)

(* The order of the numbers, as a relation. *)
LEMMA LessThan == \A a, b \in Nat : a < b => <<a, b>> \in OpToRel(<, Nat)
BY Zenon DEF OpToRel

(* Every set of numbers that is not empty has a smallest one. *)
LEMMA Smallest ==
  ASSUME NEW T \in SUBSET Nat, T # {} PROVE \E n \in T : \A m \in T : n <= m
<1>1. PICK n \in T : \A m \in T : ~(<<m, n>> \in OpToRel(<, Nat))
  <2>1. \E n \in T : \A m \in T : ~(<<m, n>> \in OpToRel(<, Nat))
    BY NatLessThanWellFounded, WFMin
  <2>. QED BY <2>1
<1>2. \A m \in T : ~(m < n) BY <1>1, LessThan, Zenon
<1>. QED BY <1>2

(* The position of c is where it occurs first. *)
LEMMA PositionFirst ==
  ASSUME NEW s \in Seq(Conductor), NEW c, \E i \in DOMAIN s : s[i] = c
  PROVE  Position(c, s) \in 1..Len(s) /\ s[Position(c, s)] = c
<1>1. DOMAIN s = 1..Len(s) /\ Len(s) \in Nat BY LenProperties
<1>. DEFINE T == {i \in DOMAIN s : s[i] = c}
<1>2. PICK n \in T : \A m \in T : n <= m
  <2>1. T \in SUBSET Nat /\ T # {} BY <1>1
  <2>. HIDE DEF T
  <2>. QED BY <2>1, Smallest
<1>3. \A j \in 1..(n - 1) : s[j] # c BY <1>1, <1>2
<1>. QED BY <1>1, <1>3 DEF Position

LEMMA RankNat == \A c \in Conductor : Rank(c) \in Nat
<1>. SUFFICES ASSUME NEW c \in Conductor PROVE Rank(c) \in Nat OBVIOUS
<1>1. Len(Preferred) \in Nat /\ Len(Alphabet) \in Nat BY ConductorAssumption, LenProperties
<1>2. Position(c, Alphabet) \in 1..Len(Alphabet) BY ConductorAssumption, PositionFirst
<1>3. CASE \E i \in DOMAIN Preferred : Preferred[i] = c
  <2>1. Position(c, Preferred) \in 1..Len(Preferred)
    BY <1>3, ConductorAssumption, PositionFirst
  <2>. QED BY <1>1, <1>3, <2>1 DEF Rank
<1>4. CASE ~\E i \in DOMAIN Preferred : Preferred[i] = c BY <1>1, <1>2, <1>4 DEF Rank
<1>. QED BY <1>3, <1>4

(* No two conductors have the same rank. *)
LEMMA RankInjective ==
  ASSUME NEW c \in Conductor, NEW d \in Conductor, Rank(c) = Rank(d) PROVE c = d
<1>. DEFINE Named(x) == \E i \in DOMAIN Preferred : Preferred[i] = x
<1>1. Len(Preferred) \in Nat /\ Len(Alphabet) \in Nat BY ConductorAssumption, LenProperties
<1>2. \A x \in {c, d} : /\ Position(x, Alphabet) \in 1..Len(Alphabet)
                        /\ Alphabet[Position(x, Alphabet)] = x
  BY ConductorAssumption, PositionFirst
<1>3. \A x \in {c, d} : Named(x) => /\ Position(x, Preferred) \in 1..Len(Preferred)
                                    /\ Preferred[Position(x, Preferred)] = x
  BY ConductorAssumption, PositionFirst
<1>4. \A x \in {c, d} : Named(x) => Rank(x) = Position(x, Preferred) BY DEF Rank
<1>5. \A x \in {c, d} : ~Named(x) => Rank(x) = Len(Preferred) + Position(x, Alphabet)
  BY DEF Rank
<1>. HIDE DEF Named
<1>6. CASE Named(c) /\ Named(d)
  <2>1. Position(c, Preferred) = Position(d, Preferred) BY <1>4, <1>6
  <2>. QED BY <1>3, <1>6, <2>1
<1>7. CASE ~Named(c) /\ ~Named(d)
  <2>. DEFINE a == Position(c, Alphabet)
              b == Position(d, Alphabet)
  <2>1. a \in Nat /\ b \in Nat BY <1>1, <1>2
  <2>2. Len(Preferred) + a = Len(Preferred) + b BY <1>5, <1>7
  <2>. HIDE DEF a, b
  <2>3. a = b BY <1>1, <2>1, <2>2
  <2>4. Position(c, Alphabet) = Position(d, Alphabet) BY <2>3 DEF a, b
  <2>. QED BY <1>2, <2>4
<1>8. \A x, y \in {c, d} : Named(x) /\ ~Named(y) => Rank(x) < Rank(y)
  BY <1>1, <1>2, <1>3, <1>4, <1>5
<1>. QED BY <1>6, <1>7, <1>8, RankNat

Beats(c, d) == Rank(c) < Rank(d)

(* The winner beats every other candidate. *)
LEMMA WinnerBeats ==
  ASSUME NEW S \in SUBSET Conductor, S # {}
  PROVE  Winner(S) \in S /\ \A d \in S : d # Winner(S) => Beats(Winner(S), d)
<1>. DEFINE T == {Rank(c) : c \in S}
<1>1. PICK n \in T : \A m \in T : n <= m
  <2>1. T \in SUBSET Nat /\ T # {} BY RankNat
  <2>. HIDE DEF T
  <2>. QED BY <2>1, Smallest
<1>2. \E c \in S : \A d \in S : Rank(c) <= Rank(d) BY <1>1
<1>3. Winner(S) \in S /\ \A d \in S : Rank(Winner(S)) <= Rank(d) BY <1>2 DEF Winner
<1>. HIDE DEF T
<1>. SUFFICES ASSUME NEW d \in S, d # Winner(S) PROVE Beats(Winner(S), d)
  BY <1>3
<1>4. Rank(Winner(S)) # Rank(d) BY <1>3, RankInjective
<1>5. Rank(Winner(S)) \in Nat /\ Rank(d) \in Nat BY <1>3, RankNat
<1>. QED BY <1>3, <1>4, <1>5 DEF Beats

-----------------------------------------------------------------------------
(* When a timer goes off, nobody it was armed during is still electing or   *)
(* starting up.                                                             *)

(* Every one of these timers waits for c. *)
AllHold(ts, c) == \A i \in DOMAIN ts : c \in ts[i]

Having(c) == {x \in SUBSET Conductor : c \in x}

LEMMA HoldType ==
  ASSUME NEW c, NEW ts \in TimerSeq PROVE AllHold(ts, c) <=> ts \in Seq(Having(c))
<1>1. ts \in Seq(SUBSET Conductor) BY DEF TimerSeq
<1>2. DOMAIN ts = 1..Len(ts) /\ Len(ts) \in Nat BY <1>1, LenProperties
<1>3. \A i \in 1..Len(ts) : ts[i] \in SUBSET Conductor BY <1>1, ElementOfSeq
<1>4. ASSUME AllHold(ts, c) PROVE ts \in Seq(Having(c))
  <2>1. \A i \in 1..Len(ts) : ts[i] \in Having(c) BY <1>2, <1>3, <1>4 DEF AllHold, Having
  <2>2. ts = [i \in 1..Len(ts) |-> ts[i]] BY <1>1, LenProperties, SeqDef
  <2>3. ts \in [1..Len(ts) -> Having(c)] BY <2>1, <2>2
  <2>. QED BY <1>2, <2>3, SeqDef
<1>5. ASSUME ts \in Seq(Having(c)) PROVE AllHold(ts, c)
  <2>1. \A i \in 1..Len(ts) : ts[i] \in Having(c) BY <1>5, ElementOfSeq
  <2>. QED BY <1>2, <2>1 DEF AllHold, Having
<1>. QED BY <1>4, <1>5

LEMMA TrimHold ==
  ASSUME NEW ts \in [Conductor -> TimerSeq], NEW B, NEW c \in B, NEW d \in Conductor,
         AllHold(ts[d], c)
  PROVE  AllHold(Trim(ts, B)[d], c)
BY DEF Trim, AllHold

(* A timer that waits for a conductor goes on doing so while that one is busy. *)
TimersKept ==
  \A d \in Conductor : \A c \in Busy' : AllHold(timers[d], c) => AllHold(timers'[d], c)

(* Nobody but x arms one. *)
NoneArmed(x) == \A d \in Conductor \ {x} : timers[d] = <<>> => timers'[d] = <<>>

(* The timers of x change to ts, those of the others stay. *)
LEMMA ChangeKept ==
  ASSUME TimersTyped, NEW x \in Conductor, NEW ts \in TimerSeq,
         timers' = Trim([timers EXCEPT ![x] = ts], Busy'),
         \A c \in Busy' : AllHold(timers[x], c) => AllHold(ts, c)
  PROVE  TimersKept /\ NoneArmed(x)
<1>. DEFINE tt == [timers EXCEPT ![x] = ts]
<1>1. /\ tt \in [Conductor -> TimerSeq] /\ tt[x] = ts
      /\ \A d \in Conductor : d # x => tt[d] = timers[d]
  BY DEF TimersTyped
<1>2. timers' = Trim(tt, Busy') OBVIOUS
<1>. HIDE DEF tt
<1>0. NoneArmed(x)
  <2>1. \A d \in Conductor : tt[d] = <<>> => timers'[d] = <<>> BY <1>1, <1>2, TrimType
  <2>. QED BY <1>1, <2>1 DEF NoneArmed
<1>. SUFFICES ASSUME NEW d \in Conductor, NEW c \in Busy', AllHold(timers[d], c)
              PROVE  AllHold(timers'[d], c)
  BY <1>0 DEF TimersKept
<1>3. AllHold(tt[d], c)
  <2>1. CASE d = x BY <1>1, <2>1
  <2>2. CASE d # x BY <1>1, <2>2
  <2>. QED BY <2>1, <2>2
<1>4. AllHold(Trim(tt, Busy')[d], c) BY <1>1, <1>3, TrimHold
<1>. QED BY <1>2, <1>4

LEMMA KeepKept ==
  ASSUME TimersTyped, KeepTimers PROVE TimersKept /\ \A x \in Conductor : NoneArmed(x)
<1>1. timers' = Trim(timers, Busy') BY DEF KeepTimers, Await, Trim
<1>2. \A x \in Conductor : NoneArmed(x) BY <1>1, TrimType DEF TimersTyped, NoneArmed
<1>. SUFFICES ASSUME NEW d \in Conductor, NEW c \in Busy', AllHold(timers[d], c)
              PROVE  AllHold(timers'[d], c)
  BY <1>2 DEF TimersKept
<1>3. AllHold(Trim(timers, Busy')[d], c) BY TrimHold DEF TimersTyped
<1>. QED BY <1>1, <1>3

(* If Timely, a new timer waits for everyone who is busy. *)
LEMMA ArmKept ==
  ASSUME TimersTyped, Timely, NEW x \in Conductor, Arm(x)
  PROVE  /\ TimersKept /\ NoneArmed(x)
         /\ timers[x] = <<>> => \A c \in Busy' : AllHold(timers'[x], c)
<1>. DEFINE ts == Append(timers[x], Busy')
<1>1. timers' = Trim([timers EXCEPT ![x] = ts], Busy') BY DEF Arm, Await, Trim
<1>2. Busy' \in SUBSET Conductor BY DEF Busy
<1>3. timers[x] \in TimerSeq /\ timers[x] \in Seq(SUBSET Conductor) BY DEF TimersTyped, TimerSeq
<1>4. ts \in TimerSeq BY <1>2, <1>3, AppendProperties DEF TimerSeq
<1>5. ASSUME NEW c \in Busy', AllHold(timers[x], c) PROVE AllHold(ts, c)
  <2>1. timers[x] \in Seq(Having(c)) BY <1>3, <1>5, HoldType
  <2>2. Busy' \in Having(c) BY <1>2 DEF Having
  <2>3. ts \in Seq(Having(c)) BY <2>1, <2>2, AppendProperties
  <2>. QED BY <1>4, <2>3, HoldType
<1>. HIDE DEF ts
<1>6. TimersKept /\ NoneArmed(x) BY <1>1, <1>4, <1>5, ChangeKept
<1>7. ASSUME timers[x] = <<>>, NEW c \in Busy' PROVE AllHold(timers'[x], c)
  <2>1. DOMAIN timers[x] = {} BY <1>3, <1>7, NoneEmpty
  <2>2. AllHold(timers[x], c) BY <2>1 DEF AllHold
  <2>. QED BY <1>6, <2>2 DEF TimersKept
<1>. QED BY <1>6, <1>7

LEMMA DisarmKept ==
  ASSUME TimersTyped, NEW x \in Conductor, Disarm(x) PROVE TimersKept /\ NoneArmed(x)
<1>. DEFINE ts == IF handle[x] /\ timers[x] # <<>> THEN Front(timers[x]) ELSE timers[x]
<1>1. timers' = Trim([timers EXCEPT ![x] = ts], Busy') BY DEF Disarm, Await, Trim
<1>2. timers[x] \in TimerSeq BY DEF TimersTyped
<1>3. ts \in TimerSeq BY <1>2, FrontType DEF TimerSeq
<1>4. ASSUME NEW c \in Busy', AllHold(timers[x], c) PROVE AllHold(ts, c)
  <2>1. timers[x] \in Seq(Having(c)) BY <1>2, <1>4, HoldType
  <2>2. ts \in Seq(Having(c)) BY <2>1, FrontType
  <2>. QED BY <1>3, <2>2, HoldType
<1>. HIDE DEF ts
<1>. QED BY <1>1, <1>3, <1>4, ChangeKept

LEMMA ElectKept ==
  ASSUME TimersTyped, NEW x \in Conductor, ElectMaster(x) PROVE TimersKept /\ NoneArmed(x)
<1>. DEFINE ts == Tail(timers[x])
<1>1. timers' = Trim([timers EXCEPT ![x] = ts], Busy') BY DEF ElectMaster, Await, Trim
<1>2. timers[x] \in TimerSeq /\ timers[x] # <<>> BY DEF TimersTyped, ElectMaster
<1>3. ts \in TimerSeq BY <1>2, HeadTailProperties DEF TimerSeq
<1>4. ASSUME NEW c \in Busy', AllHold(timers[x], c) PROVE AllHold(ts, c)
  <2>1. timers[x] \in Seq(Having(c)) BY <1>2, <1>4, HoldType
  <2>2. ts \in Seq(Having(c)) BY <1>2, <2>1, HeadTailProperties
  <2>. QED BY <1>3, <2>2, HoldType
<1>. HIDE DEF ts
<1>. QED BY <1>1, <1>3, <1>4, ChangeKept

LEMMA ExitKept ==
  ASSUME TimersTyped, NEW x \in Conductor, Exit(x)
  PROVE  TimersKept /\ NoneArmed(x) /\ timers'[x] = <<>>
<1>1. timers' = Trim([timers EXCEPT ![x] = <<>>], Busy') BY DEF Exit, Await, Trim
<1>2. <<>> \in TimerSeq /\ DOMAIN <<>> = {} BY EmptySeq, NoneEmpty DEF TimerSeq
<1>3. \A c \in Busy' : AllHold(<<>>, c) BY <1>2 DEF AllHold
<1>4. TimersKept /\ NoneArmed(x) BY <1>1, <1>2, <1>3, ChangeKept
<1>5. timers'[x] = <<>>
  <2>. DEFINE tt == [timers EXCEPT ![x] = <<>>]
  <2>1. tt \in [Conductor -> TimerSeq] /\ tt[x] = <<>> BY <1>2 DEF TimersTyped
  <2>. HIDE DEF tt
  <2>2. Trim(tt, Busy')[x] = <<>> BY <2>1, TrimType
  <2>. QED BY <1>1, <2>2 DEF tt
<1>. QED BY <1>4, <1>5

-----------------------------------------------------------------------------
(* Why two conductors do not lead at once. *)

Runs(c) == ToSet(elections[c])

(* d is down, or cannot hold an election before c is through. *)
Held(d, c) ==
  \/ role[d] = "down"
  \/ role[d] = "backup" /\ Runs(d) = {} /\ AllHold(timers[d], c)

(* Candidate d did not answer election e, which has not found a primary. *)
Missed(e, d) == d \notin e.asking /\ d \notin e.online /\ ~e.found

Follower(c) == role[c] \in {"down", "backup"}

(* A conductor that is down does nothing, and nobody is sending it a hello. *)
DownIsIdle ==
  \A c \in Conductor : role[c] = "down" =>
    /\ Runs(c) = {} /\ timers[c] = <<>> /\ sockets[c] = {}
    /\ \A m \in Conductor : link[m][c] # "hello"

(* Whoever an election has missed does not get in its way: it was down when  *)
(* it was asked, and the timer it armed since waits for the election.       *)
MissedWaits ==
  \A c, d \in Conductor : c # d =>
    \A e \in Runs(c) : Missed(e, d) => Held(d, c)

(* A candidate that an election has met and that ranks lower follows, and    *)
(* has not missed the conductor that holds the election.                    *)
OnlineFollows ==
  \A c, d \in Conductor : c # d =>
    \A e \in Runs(c) : d \in e.online /\ ~e.found /\ Beats(c, d) =>
      Follower(d) /\ \A f \in Runs(d) : ~Missed(f, c)

(* While c leads, the others follow, and each of their elections has still   *)
(* to ask c, has found a primary or has met c, which ranks higher.  During   *)
(* its start-up nobody ranks higher but who is down or waits for it.        *)
LeaderAlone ==
  \A c, d \in Conductor : c # d /\ Leading(c) =>
    /\ Follower(d)
    /\ \A f \in Runs(d) : c \in f.asking \/ f.found \/ (c \in f.online /\ Beats(c, d))
    /\ role[c] = "starting" => Beats(c, d) \/ Held(d, c)

Lead == DownIsIdle /\ MissedWaits /\ OnlineFollows /\ LeaderAlone

LEMMA LeadImpliesOne == Lead => AtMostOneLeading
BY DEF Lead, LeaderAlone, AtMostOneLeading, Follower, Leading

LEMMA NoRuns == ToSet(<<>>) = {}
<1>1. DOMAIN <<>> = {} BY EmptySeq, NoneEmpty
<1>. QED BY <1>1 DEF ToSet

LEMMA InitLead == Init => Lead
<1>. SUFFICES ASSUME Init PROVE Lead OBVIOUS
<1>1. \A c \in Conductor : Runs(c) = {} BY NoRuns DEF Init, Runs
<1>2. DownIsIdle BY <1>1 DEF Init, DownIsIdle
<1>. QED BY <1>1, <1>2
  DEF Init, Lead, MissedWaits, OnlineFollows, LeaderAlone, Leading

-----------------------------------------------------------------------------
(* What a step of x leaves alone. *)

OthersStay(x) ==
  /\ NoneArmed(x)
  /\ \A d \in Conductor \ {x} :
       role'[d] = role[d] /\ elections'[d] = elections[d] /\ sockets'[d] = sockets[d]

HelloToUp ==
  \A m, d \in Conductor : link'[m][d] = "hello" => link[m][d] = "hello" \/ role'[d] # "down"

LEMMA DownStep ==
  ASSUME DownIsIdle, NEW x \in Conductor, OthersStay(x), HelloToUp,
         role'[x] = "down" => /\ Runs(x)' = {} /\ timers'[x] = <<>> /\ sockets'[x] = {}
                              /\ \A m \in Conductor : link'[m][x] # "hello"
  PROVE  DownIsIdle'
<1>. SUFFICES ASSUME NEW c \in Conductor, role'[c] = "down"
              PROVE  /\ Runs(c)' = {} /\ timers'[c] = <<>> /\ sockets'[c] = {}
                     /\ \A m \in Conductor : link'[m][c] # "hello"
  BY DEF DownIsIdle
<1>1. CASE c = x BY <1>1
<1>2. CASE c # x
  <2>1. role[c] = "down" BY <1>2 DEF OthersStay
  <2>. QED BY <1>2, <2>1 DEF OthersStay, NoneArmed, HelloToUp, DownIsIdle, Runs
<1>. QED BY <1>1, <1>2

(* Whoever waits for a conductor that is still busy goes on waiting. *)
HeldKept == \A d \in Conductor : \A c \in Busy' : Held(d, c) => Held(d, c)'

LEMMA HeldStep ==
  ASSUME TimersKept, NEW x \in Conductor, OthersStay(x),
         \A c \in Busy' : Held(x, c) => Held(x, c)'
  PROVE  HeldKept
<1>. SUFFICES ASSUME NEW d \in Conductor, NEW c \in Busy', Held(d, c) PROVE Held(d, c)'
  BY DEF HeldKept
<1>1. CASE d = x BY <1>1
<1>2. CASE d # x
  <2>1. role'[d] = role[d] /\ Runs(d)' = Runs(d) BY <1>2 DEF OthersStay, Runs
  <2>2. AllHold(timers[d], c) => AllHold(timers'[d], c) BY DEF TimersKept
  <2>. QED BY <2>1, <2>2 DEF Held
<1>. QED BY <1>1, <1>2

(* What runs or starts up is busy. *)
LEMMA RunningIsBusy ==
  \A c \in Conductor : Runs(c)' # {} \/ role'[c] = "starting" => c \in Busy'
BY NoRuns DEF Runs, Busy

(* Nobody begins to elect or to lead. *)
Calm ==
  \A c \in Conductor :
    /\ Runs(c)' \subseteq Runs(c)
    /\ role'[c] \in {role[c], "down"} \/ (role[c] = "down" /\ role'[c] = "backup")

LEMMA CalmStep ==
  ASSUME Lead, DownIsIdle', HeldKept, Calm PROVE Lead'
<1>1. MissedWaits'
  <2>. SUFFICES ASSUME NEW c \in Conductor, NEW d \in Conductor, c # d,
                       NEW e \in Runs(c)', Missed(e, d)
                PROVE  Held(d, c)'
    BY DEF MissedWaits, Missed
  <2>1. e \in Runs(c) /\ c \in Busy' BY RunningIsBusy DEF Calm
  <2>2. Held(d, c) BY <2>1 DEF Lead, MissedWaits
  <2>. QED BY <2>1, <2>2 DEF HeldKept
<1>2. OnlineFollows'
  <2>. SUFFICES ASSUME NEW c \in Conductor, NEW d \in Conductor, c # d,
                       NEW e \in Runs(c)', d \in e.online, ~e.found, Beats(c, d)
                PROVE  Follower(d)' /\ \A f \in Runs(d)' : ~Missed(f, c)
    BY DEF OnlineFollows, Missed, Beats, Rank, Position
  <2>1. e \in Runs(c) BY DEF Calm
  <2>2. Follower(d) /\ \A f \in Runs(d) : ~Missed(f, c)
    BY <2>1 DEF Lead, OnlineFollows
  <2>. QED BY <2>2 DEF Calm, Follower
<1>3. LeaderAlone'
  <2>. SUFFICES ASSUME NEW c \in Conductor, NEW d \in Conductor, c # d, Leading(c)'
                PROVE  /\ Follower(d)'
                       /\ \A f \in Runs(d)' :
                            c \in f.asking \/ f.found \/ (c \in f.online /\ Beats(c, d))
                       /\ role'[c] = "starting" => Beats(c, d) \/ Held(d, c)'
    BY DEF LeaderAlone, Beats, Rank, Position
  <2>1. Leading(c) /\ role'[c] = role[c] BY DEF Calm, Leading
  <2>2. /\ Follower(d)
        /\ \A f \in Runs(d) : c \in f.asking \/ f.found \/ (c \in f.online /\ Beats(c, d))
        /\ role[c] = "starting" => Beats(c, d) \/ Held(d, c)
    BY <2>1 DEF Lead, LeaderAlone
  <2>3. role'[c] = "starting" => Beats(c, d) \/ Held(d, c)'
    BY <2>1, <2>2, RunningIsBusy DEF HeldKept
  <2>. QED BY <2>2, <2>3 DEF Calm, Follower
<1>. QED BY <1>1, <1>2, <1>3 DEF Lead

-----------------------------------------------------------------------------
(* The steps in which nobody begins to elect or to lead. *)

LEMMA ExitLead ==
  ASSUME Core, Lead, NEW x \in Conductor, Exit(x) PROVE Lead'
<1>1. TimersKept /\ NoneArmed(x) /\ timers'[x] = <<>> BY ExitKept DEF Core
<1>2. role'[x] = "down" /\ sockets'[x] = {} /\ elections'[x] = <<>>
  BY DEF Exit, Core, RoleTyped, NetTyped, ElectionsTyped
<1>3. Runs(x)' = {} BY <1>2, NoRuns DEF Runs
<1>4. OthersStay(x)
  BY <1>1 DEF Exit, Core, RoleTyped, NetTyped, ElectionsTyped, OthersStay
<1>5. \A m, d \in Conductor : link'[m][d] = "hello" => link[m][d] = "hello" /\ d # x
  BY DEF Exit, Broken
<1>6. HelloToUp BY <1>5 DEF HelloToUp
<1>7. DownIsIdle' BY <1>1, <1>2, <1>3, <1>4, <1>5, <1>6, DownStep DEF Lead
<1>8. HeldKept BY <1>1, <1>2, <1>4, HeldStep DEF Held
<1>9. Calm BY <1>2, <1>3, <1>4 DEF Calm, OthersStay, Runs
<1>. QED BY <1>7, <1>8, <1>9, CalmStep

LEMMA StartLead ==
  ASSUME Core, Lead, Timely, NEW x \in Conductor, Start(x) PROVE Lead'
<1>1. /\ TimersKept /\ NoneArmed(x)
      /\ timers[x] = <<>> => \A c \in Busy' : AllHold(timers'[x], c)
  BY ArmKept DEF Core, Start
<1>2. role[x] = "down" /\ role'[x] = "backup" /\ elections'[x] = elections[x]
  BY DEF Start, Core, RoleTyped
<1>3. Runs(x) = {} /\ timers[x] = <<>> BY <1>2 DEF Lead, DownIsIdle
<1>4. Runs(x)' = {} BY <1>2, <1>3 DEF Runs
<1>5. OthersStay(x) BY <1>1 DEF Start, Core, RoleTyped, OthersStay
<1>6. HelloToUp BY DEF Start, HelloToUp
<1>7. DownIsIdle' BY <1>2, <1>5, <1>6, DownStep DEF Lead
<1>8. HeldKept BY <1>1, <1>2, <1>3, <1>4, <1>5, HeldStep DEF Held
<1>9. Calm BY <1>2, <1>4, <1>5 DEF Calm, OthersStay, Runs
<1>. QED BY <1>7, <1>8, <1>9, CalmStep

(* What an ended election leaves of the others. *)
LEMMA EndedRuns ==
  ASSUME ElectionsTyped, NEW c \in Conductor, NEW i \in DOMAIN elections[c], Ended(c, i)
  PROVE  /\ Runs(c)' \subseteq Runs(c) /\ elections[c][i] \in Runs(c)
         /\ \A d \in Conductor \ {c} : elections'[d] = elections[d]
<1>. DEFINE s == elections[c]
            t == RemoveAt(s, i)
<1>1. s \in Seq(Election) BY DEF ElectionsTyped
<1>2. DOMAIN s = 1..Len(s) /\ Len(s) \in Nat BY <1>1, LenProperties
<1>3. s \in Seq(ToSet(s))
  <2>1. \A j \in 1..Len(s) : s[j] \in ToSet(s) BY <1>2 DEF ToSet
  <2>2. s = [j \in 1..Len(s) |-> s[j]] BY <1>1, LenProperties, SeqDef
  <2>. HIDE DEF s
  <2>3. s \in [1..Len(s) -> ToSet(s)] BY <2>1, <2>2
  <2>. QED BY <1>2, <2>3, SeqDef
<1>4. t \in Seq(ToSet(s)) BY <1>3, RemoveAtType
<1>5. elections'[c] = t /\ \A d \in Conductor \ {c} : elections'[d] = elections[d]
  BY DEF Ended, ElectionsTyped
<1>6. s[i] \in ToSet(s) BY DEF ToSet
<1>. HIDE DEF t
<1>7. ToSet(t) \subseteq ToSet(s)
  <2>1. DOMAIN t = 1..Len(t) BY <1>4, LenProperties
  <2>2. \A j \in 1..Len(t) : t[j] \in ToSet(s) BY <1>4, ElementOfSeq
  <2>. QED BY <2>1, <2>2 DEF ToSet
<1>. QED BY <1>5, <1>6, <1>7 DEF Runs

(* Whoever holds an election is up, and is not held back. *)
LEMMA RunnerIsUp ==
  ASSUME DownIsIdle, NEW c \in Conductor, Runs(c) # {}
  PROVE  role[c] # "down" /\ \A d : ~Held(c, d)
BY DEF DownIsIdle, Held

(* An election stops, or its conductor steps aside. *)
LEMMA OverLead ==
  ASSUME Core, Lead, NEW c \in Conductor, NEW i \in DOMAIN elections[c], Ended(c, i),
         UNCHANGED <<role, link, sockets>>, TimersKept, NoneArmed(c)
  PROVE  Lead'
<1>1. /\ Runs(c)' \subseteq Runs(c) /\ Runs(c) # {}
      /\ \A d \in Conductor \ {c} : elections'[d] = elections[d]
  BY EndedRuns DEF Core
<1>2. role[c] # "down" /\ \A d : ~Held(c, d) BY <1>1, RunnerIsUp DEF Lead
<1>3. OthersStay(c) BY <1>1 DEF OthersStay
<1>4. HelloToUp BY DEF HelloToUp
<1>5. DownIsIdle' BY <1>2, <1>3, <1>4, DownStep DEF Lead
<1>6. HeldKept BY <1>2, <1>3, HeldStep
<1>7. Calm BY <1>1 DEF Calm, Runs
<1>. QED BY <1>5, <1>6, <1>7, CalmStep

LEMMA ElectionStopsLead ==
  ASSUME Core, Lead, NEW c \in Conductor, NEW i, ElectionStops(c, i) PROVE Lead'
<1>1. TimersKept /\ NoneArmed(c) BY KeepKept DEF Core, ElectionStops
<1>. QED BY <1>1, OverLead DEF ElectionStops

LEMMA StepAsideLead ==
  ASSUME Core, Lead, Timely, NEW c \in Conductor, NEW i, StepAside(c, i) PROVE Lead'
<1>1. TimersKept /\ NoneArmed(c) BY ArmKept DEF Core, StepAside
<1>. QED BY <1>1, OverLead DEF StepAside, Undecided

(* The timers and the connections of x change. *)
LEMMA SocketLead ==
  ASSUME Core, Lead, NEW x \in Conductor, role[x] # "down", UNCHANGED <<role, elections>>,
         \A d \in Conductor \ {x} : sockets'[d] = sockets[d], TimersKept, NoneArmed(x), HelloToUp
  PROVE  Lead'
<1>1. OthersStay(x) BY DEF OthersStay
<1>2. DownIsIdle' BY <1>1, DownStep DEF Lead
<1>3. HeldKept
  <2>1. ASSUME NEW c \in Busy', Held(x, c) PROVE Held(x, c)'
    <3>1. AllHold(timers[x], c) => AllHold(timers'[x], c) BY DEF TimersKept
    <3>. QED BY <2>1, <3>1 DEF Held, Runs
  <2>. QED BY <1>1, <2>1, HeldStep
<1>4. Calm BY DEF Calm, Runs
<1>. QED BY <1>2, <1>3, <1>4, CalmStep

LEMMA LostMasterLead ==
  ASSUME Core, Lead, Timely, NEW p \in Conductor, NEW m \in Conductor, LostMaster(p, m)
  PROVE  Lead'
<1>1. TimersKept /\ NoneArmed(p) BY ArmKept DEF Core, LostMaster
<1>2. role[p] # "down" BY DEF LostMaster, Lead, DownIsIdle
<1>3. /\ UNCHANGED <<role, elections>> /\ HelloToUp
      /\ \A d \in Conductor \ {p} : sockets'[d] = sockets[d]
  BY DEF LostMaster, HelloToUp, Core, NetTyped
<1>. QED BY <1>1, <1>2, <1>3, SocketLead

LEMMA ReceiveNewMasterLead ==
  ASSUME Core, Lead, NEW m \in Conductor, NEW p \in Conductor, ReceiveNewMaster(m, p)
  PROVE  Lead'
<1>1. CASE Exit(p) BY <1>1, ExitLead
<1>2. CASE ~Exit(p)
  <2>1. TimersKept /\ NoneArmed(p) BY <1>2, DisarmKept DEF Core, ReceiveNewMaster
  <2>2. role[p] # "down" BY DEF ReceiveNewMaster, Lead, DownIsIdle
  <2>3. UNCHANGED <<role, elections>> /\ \A d \in Conductor \ {p} : sockets'[d] = sockets[d]
    BY <1>2 DEF ReceiveNewMaster, Core, NetTyped
  <2>4. link' = [link EXCEPT ![m][p] = "open"] BY <1>2 DEF ReceiveNewMaster
  <2>5. HelloToUp BY <2>4 DEF HelloToUp, Core, NetTyped
  <2>. QED BY <2>1, <2>2, <2>3, <2>5, SocketLead
<1>. QED BY <1>1, <1>2

(* A connection changes, and nothing else. *)
LEMMA LinkLead ==
  ASSUME Core, Lead, UNCHANGED <<role, elections, timers, sockets>>, HelloToUp
  PROVE  Lead'
<1>1. TimersKept BY DEF TimersKept
<1>2. DownIsIdle' BY DEF Lead, DownIsIdle, HelloToUp, Runs
<1>3. HeldKept BY DEF HeldKept, Held, Runs
<1>4. Calm BY DEF Calm, Runs
<1>. QED BY <1>2, <1>3, <1>4, CalmStep

-----------------------------------------------------------------------------
(* The steps that make a conductor elect, meet a candidate, or lead. *)

(* The elections of c after a step, if the others keep theirs. *)
NewRun(c, e) ==
  /\ Runs(c)' \subseteq Runs(c) \cup {e}
  /\ \A d \in Conductor \ {c} : Runs(d)' = Runs(d)
  /\ Runs(c)' # {}

(* A conductor begins an election or learns one more answer: the rest of     *)
(* Lead follows from what the new record says of every other conductor.     *)
LEMMA NewRunStep ==
  ASSUME Lead, DownIsIdle', HeldKept, UNCHANGED role,
         NEW c \in Conductor, NEW e, NewRun(c, e), e.found \in BOOLEAN,
         \A d \in Conductor \ {c} :
           /\ Missed(e, d) => Held(d, c) /\ Runs(d) = {}
           /\ d \in e.online /\ ~e.found /\ Beats(c, d) =>
                Follower(d) /\ \A f \in Runs(d) : ~Missed(f, c)
           /\ Leading(d) => d \in e.asking \/ e.found \/ (d \in e.online /\ Beats(d, c))
  PROVE  Lead'
<1>1. MissedWaits'
  <2>. SUFFICES ASSUME NEW a \in Conductor, NEW d \in Conductor, a # d,
                       NEW f \in Runs(a)', Missed(f, d)
                PROVE  Held(d, a)'
    BY DEF MissedWaits, Missed
  <2>1. a \in Busy' BY RunningIsBusy
  <2>2. Held(d, a)
    <3>1. CASE f \in Runs(a) BY <3>1 DEF Lead, MissedWaits
    <3>2. CASE f \notin Runs(a)
      <4>1. a = c /\ f = e BY <3>2 DEF NewRun
      <4>. QED BY <4>1
    <3>. QED BY <3>1, <3>2
  <2>. QED BY <2>1, <2>2 DEF HeldKept
<1>2. OnlineFollows'
  <2>. SUFFICES ASSUME NEW a \in Conductor, NEW d \in Conductor, a # d,
                       NEW f \in Runs(a)', d \in f.online, ~f.found, Beats(a, d)
                PROVE  Follower(d)' /\ \A g \in Runs(d)' : ~Missed(g, a)
    BY DEF OnlineFollows, Missed, Beats, Rank, Position
  <2>1. Follower(d)' <=> Follower(d) BY DEF Follower
  <2>2. CASE f \notin Runs(a)
    <3>1. a = c /\ f = e BY <2>2 DEF NewRun
    <3>2. Follower(d) /\ \A g \in Runs(d) : ~Missed(g, a) BY <3>1
    <3>. QED BY <2>1, <3>1, <3>2 DEF NewRun
  <2>3. CASE f \in Runs(a)
    <3>1. Follower(d) /\ \A g \in Runs(d) : ~Missed(g, a) BY <2>3 DEF Lead, OnlineFollows
    <3>2. CASE d # c BY <2>1, <3>1, <3>2 DEF NewRun
    <3>3. CASE d = c
      <4>1. a # c /\ Runs(a) # {} BY <2>3, <3>3
      <4>2. ~Missed(e, a) BY <4>1
      <4>. QED BY <2>1, <3>1, <3>3, <4>2 DEF NewRun
    <3>. QED BY <3>2, <3>3
  <2>. QED BY <2>2, <2>3
<1>3. LeaderAlone'
  <2>. SUFFICES ASSUME NEW a \in Conductor, NEW d \in Conductor, a # d, Leading(a)'
                PROVE  /\ Follower(d)'
                       /\ \A f \in Runs(d)' :
                            a \in f.asking \/ f.found \/ (a \in f.online /\ Beats(a, d))
                       /\ role'[a] = "starting" => Beats(a, d) \/ Held(d, a)'
    BY DEF LeaderAlone, Beats, Rank, Position
  <2>1. Leading(a) /\ role'[a] = role[a] BY DEF Leading
  <2>2. /\ Follower(d)
        /\ \A f \in Runs(d) : a \in f.asking \/ f.found \/ (a \in f.online /\ Beats(a, d))
        /\ role[a] = "starting" => Beats(a, d) \/ Held(d, a)
    BY <2>1 DEF Lead, LeaderAlone
  <2>3. role'[a] = "starting" => Beats(a, d) \/ Held(d, a)'
    BY <2>1, <2>2, RunningIsBusy DEF HeldKept
  <2>4. ASSUME NEW f \in Runs(d)'
        PROVE  a \in f.asking \/ f.found \/ (a \in f.online /\ Beats(a, d))
    <3>1. CASE f \in Runs(d) BY <2>2, <3>1
    <3>2. CASE f \notin Runs(d)
      <4>1. d = c /\ f = e BY <3>2 DEF NewRun
      <4>. QED BY <2>1, <4>1
    <3>. QED BY <3>1, <3>2
  <2>. QED BY <2>2, <2>3, <2>4 DEF Follower
<1>. QED BY <1>1, <1>2, <1>3 DEF Lead

LEMMA ElectMasterLead ==
  ASSUME Core, Lead, NEW c \in Conductor, ElectMaster(c) PROVE Lead'
<1>. DEFINE e == [asking |-> Conductor \ {c}, online |-> {}, found |-> FALSE]
            s == elections[c]
<1>1. TimersKept /\ NoneArmed(c) BY ElectKept DEF Core
<1>2. role[c] # "down" BY DEF ElectMaster, Lead, DownIsIdle
<1>3. /\ UNCHANGED <<role, link, sockets>> /\ elections'[c] = Append(s, e)
      /\ \A d \in Conductor \ {c} : elections'[d] = elections[d]
  BY DEF ElectMaster, Core, ElectionsTyped
<1>4. \A d : ~Held(c, d)
  <2>1. timers[c] \in Seq(SUBSET Conductor) /\ timers[c] # <<>> /\ Head(timers[c]) = {}
    BY DEF ElectMaster, Core, TimersTyped, TimerSeq
  <2>2. 1 \in DOMAIN timers[c] /\ timers[c][1] = {}
    <3>1. Len(timers[c]) \in Nat \ {0} /\ DOMAIN timers[c] = 1..Len(timers[c])
      BY <2>1, EmptySeq, LenProperties
    <3>. QED BY <2>1, <3>1
  <2>. QED BY <1>2, <2>2 DEF Held, AllHold
<1>5. OthersStay(c) BY <1>1, <1>3 DEF OthersStay
<1>6. HelloToUp BY <1>3 DEF HelloToUp
<1>7. DownIsIdle' BY <1>2, <1>3, <1>5, <1>6, DownStep DEF Lead
<1>8. HeldKept BY <1>1, <1>4, <1>5, HeldStep
<1>9. NewRun(c, e)
  <2>1. s \in Seq(Election) /\ e \in Election BY DEF Core, ElectionsTyped, Election
  <2>. HIDE DEF s, e
  <2>. DEFINE t == Append(s, e)
  <2>2. /\ t \in Seq(Election) /\ Len(t) = Len(s) + 1 /\ t[Len(s) + 1] = e
        /\ \A j \in 1..Len(s) : t[j] = s[j]
    BY <2>1, AppendProperties
  <2>3. Len(s) \in Nat /\ DOMAIN s = 1..Len(s) BY <2>1, LenProperties
  <2>4. DOMAIN t = 1..(Len(s) + 1) BY <2>2, LenProperties
  <2>5. \A j \in DOMAIN t : j \in DOMAIN s \/ j = Len(s) + 1 BY <2>3, <2>4
  <2>6. Len(s) + 1 \in DOMAIN t BY <2>3, <2>4
  <2>. HIDE DEF t
  <2>7. ToSet(t) \subseteq ToSet(s) \cup {e} BY <2>2, <2>3, <2>5 DEF ToSet
  <2>8. e \in ToSet(t) BY <2>2, <2>6 DEF ToSet
  <2>9. elections'[c] = t BY <1>3 DEF t, s, e
  <2>10. s = elections[c] BY DEF s
  <2>. QED BY <1>3, <2>7, <2>8, <2>9, <2>10 DEF NewRun, Runs
<1>. DEFINE OK(d) ==
       /\ Missed(e, d) => Held(d, c) /\ Runs(d) = {}
       /\ d \in e.online /\ ~e.found /\ Beats(c, d) =>
            Follower(d) /\ \A f \in Runs(d) : ~Missed(f, c)
       /\ Leading(d) => d \in e.asking \/ e.found \/ (d \in e.online /\ Beats(d, c))
<1>10. ASSUME NEW d \in Conductor \ {c} PROVE OK(d) BY DEF Missed
<1>11. e.found \in BOOLEAN OBVIOUS
<1>. HIDE DEF e
<1>. QED BY <1>3, <1>7, <1>8, <1>9, <1>10, <1>11, NewRunStep

LEMMA RegisterLead ==
  ASSUME Core, Lead, NEW c \in Conductor, NEW i, NEW d, Register(c, i, d) PROVE Lead'
<1>. DEFINE s == elections[c]
            old == s[i]
            e == [asking |-> old.asking \ {d},
                  online |-> old.online \cup
                    (IF role[d] \in {"backup", "starting"} THEN {d} ELSE {}),
                  found  |-> old.found \/ role[d] = "primary"]
<1>1. TimersKept /\ NoneArmed(c) BY KeepKept DEF Core, Register
<1>2. s \in Seq(Election) /\ i \in DOMAIN s /\ d \in old.asking
  BY DEF Register, Core, ElectionsTyped
<1>3. old \in Election /\ old \in Runs(c) /\ d \in Conductor
  <2>1. old \in Election BY <1>2, LenProperties, ElementOfSeq
  <2>. QED BY <1>2, <2>1 DEF Runs, ToSet, Election
<1>4. role[c] # "down" /\ \A x : ~Held(c, x) BY <1>3, RunnerIsUp DEF Lead
<1>5. /\ UNCHANGED <<role, link, sockets>> /\ elections'[c] = [s EXCEPT ![i] = e]
      /\ \A x \in Conductor \ {c} : elections'[x] = elections[x]
  BY DEF Register, Core, ElectionsTyped
<1>6. OthersStay(c) BY <1>1, <1>5 DEF OthersStay
<1>7. HelloToUp BY <1>5 DEF HelloToUp
<1>8. DownIsIdle' BY <1>4, <1>5, <1>6, <1>7, DownStep DEF Lead
<1>9. HeldKept BY <1>1, <1>4, <1>6, HeldStep
<1>10. NewRun(c, e)
  <2>. HIDE DEF e, old
  <2>1. ToSet([s EXCEPT ![i] = e]) \subseteq ToSet(s) \cup {e} BY DEF ToSet
  <2>2. e \in ToSet([s EXCEPT ![i] = e]) BY <1>2 DEF ToSet
  <2>. QED BY <1>5, <2>1, <2>2 DEF NewRun, Runs
<1>11. role[d] \in Roles /\ old.found \in BOOLEAN /\ e.found \in BOOLEAN
  BY <1>3 DEF Core, RoleTyped, Election
<1>12. \A x : Missed(e, x) => Missed(old, x) \/ x = d BY <1>11 DEF Missed
<1>13. Missed(e, d) => role[d] = "down" BY <1>11 DEF Missed, Roles
<1>14. d # c /\ role[d] = "starting" => Beats(d, c)
  <2>. SUFFICES ASSUME d # c, role[d] = "starting" PROVE Beats(d, c) OBVIOUS
  <2>1. Leading(d) BY DEF Leading
  <2>2. Beats(d, c) \/ Held(c, d) BY <1>3, <2>1 DEF Lead, LeaderAlone
  <2>. QED BY <1>4, <2>2
<1>15. ASSUME NEW x \in Conductor \ {c}, Missed(e, x) PROVE Held(x, c) /\ Runs(x) = {}
  <2>1. Held(x, c)
    <3>1. CASE Missed(old, x) BY <1>3, <3>1 DEF Lead, MissedWaits
    <3>2. CASE x = d BY <1>13, <1>15, <3>2 DEF Held
    <3>. QED BY <1>12, <1>15, <3>1, <3>2
  <2>. QED BY <2>1 DEF Held, Lead, DownIsIdle
<1>16. ASSUME NEW x \in Conductor \ {c}, x \in e.online, ~e.found, Beats(c, x)
       PROVE  Follower(x) /\ \A f \in Runs(x) : ~Missed(f, c)
  <2>1. CASE x \in old.online
    BY <1>3, <1>16, <2>1 DEF Lead, OnlineFollows
  <2>2. CASE x \notin old.online
    <3>1. x = d /\ role[x] \in {"backup", "starting"} BY <1>16, <2>2
    <3>2. role[x] # "starting"
      <4>1. Rank(c) \in Nat /\ Rank(x) \in Nat BY RankNat
      <4>. QED BY <1>14, <1>16, <3>1, <4>1 DEF Beats
    <3>3. ASSUME NEW f \in Runs(x), Missed(f, c) PROVE FALSE
      <4>1. Held(c, x) BY <3>3 DEF Lead, MissedWaits
      <4>. QED BY <1>4, <4>1
    <3>. QED BY <3>1, <3>2, <3>3 DEF Follower
  <2>. QED BY <2>1, <2>2
<1>17. ASSUME NEW x \in Conductor \ {c}, Leading(x)
       PROVE  x \in e.asking \/ e.found \/ (x \in e.online /\ Beats(x, c))
  <2>1. x \in old.asking \/ old.found \/ (x \in old.online /\ Beats(x, c))
    BY <1>3, <1>17 DEF Lead, LeaderAlone
  <2>2. CASE x = d
    <3>1. role[d] = "primary" \/ (role[d] = "starting" /\ Beats(d, c))
      BY <1>14, <1>17, <2>2 DEF Leading
    <3>. QED BY <2>2, <3>1
  <2>3. CASE x # d BY <2>1, <2>3
  <2>. QED BY <2>2, <2>3
<1>. HIDE DEF e, old, s
<1>. QED BY <1>5, <1>8, <1>9, <1>10, <1>11, <1>15, <1>16, <1>17, NewRunStep

(* The winner of an election outranks whom it met, and whom it missed waits. *)
LEMMA WinLead ==
  ASSUME Core, Lead, NEW c \in Conductor, NEW i, Win(c, i) PROVE Lead'
<1>. DEFINE e == elections[c][i]
<1>1. TimersKept /\ NoneArmed(c) BY DisarmKept DEF Core, Win, BecomeMaster
<1>2. i \in DOMAIN elections[c] /\ e.asking = {} /\ ~e.found /\ Winner(e.online \cup {c}) = c
  BY DEF Win, Wins, Undecided
<1>3. /\ Runs(c)' \subseteq Runs(c) /\ e \in Runs(c)
      /\ \A d \in Conductor \ {c} : elections'[d] = elections[d]
  BY <1>2, EndedRuns DEF Core, Win
<1>4. role[c] # "down" /\ \A d : ~Held(c, d) BY <1>3, RunnerIsUp DEF Lead
<1>5. role'[c] = "starting" /\ \A d \in Conductor \ {c} : role'[d] = role[d]
  BY DEF Win, BecomeMaster, Core, RoleTyped
<1>6. OthersStay(c) BY <1>1, <1>3, <1>5 DEF OthersStay, Win
<1>7. HelloToUp BY DEF HelloToUp, Win, BecomeMaster, Core, NetTyped
<1>8. DownIsIdle' BY <1>5, <1>6, <1>7, DownStep DEF Lead
<1>9. HeldKept BY <1>1, <1>4, <1>6, HeldStep
<1>10. e.online \cup {c} \in SUBSET Conductor
  <2>1. elections[c] \in Seq(Election) BY DEF Core, ElectionsTyped
  <2>2. e \in Election BY <1>2, <2>1, LenProperties, ElementOfSeq
  <2>. QED BY <2>2 DEF Election
<1>11. \A d \in e.online : d # c => Beats(c, d) BY <1>2, <1>10, WinnerBeats
<1>. HIDE DEF e
(* What the election says of the others. *)
<1>12. ASSUME NEW d \in Conductor \ {c}
       PROVE  \/ Held(d, c) /\ Runs(d) = {} /\ Follower(d)
              \/ Beats(c, d) /\ Follower(d) /\ \A f \in Runs(d) : ~Missed(f, c)
  <2>1. CASE d \in e.online
    BY <1>2, <1>3, <1>11, <2>1 DEF Lead, OnlineFollows
  <2>2. CASE d \notin e.online
    <3>1. Missed(e, d) BY <1>2, <2>2 DEF Missed
    <3>2. Held(d, c) BY <1>3, <3>1 DEF Lead, MissedWaits
    <3>. QED BY <3>2 DEF Held, Follower, Lead, DownIsIdle
  <2>. QED BY <2>1, <2>2
<1>13. \A d \in Conductor : Runs(d)' \subseteq Runs(d) BY <1>3 DEF Runs
<1>14. MissedWaits'
  <2>. SUFFICES ASSUME NEW a \in Conductor, NEW d \in Conductor, a # d,
                       NEW f \in Runs(a)', Missed(f, d)
                PROVE  Held(d, a)'
    BY DEF MissedWaits, Missed
  <2>1. f \in Runs(a) /\ a \in Busy' BY <1>13, RunningIsBusy
  <2>2. Held(d, a) BY <2>1 DEF Lead, MissedWaits
  <2>. QED BY <1>9, <2>1, <2>2 DEF HeldKept
<1>15. OnlineFollows'
  <2>. SUFFICES ASSUME NEW a \in Conductor, NEW d \in Conductor, a # d,
                       NEW f \in Runs(a)', d \in f.online, ~f.found, Beats(a, d)
                PROVE  Follower(d)' /\ \A g \in Runs(d)' : ~Missed(g, a)
    BY DEF OnlineFollows, Missed, Beats, Rank, Position
  <2>1. f \in Runs(a) BY <1>13
  <2>2. Follower(d) /\ \A g \in Runs(d) : ~Missed(g, a)
    BY <2>1 DEF Lead, OnlineFollows
  <2>3. d # c
    <3>1. SUFFICES ASSUME d = c PROVE FALSE OBVIOUS
    <3>2. Beats(c, a) BY <1>12, <2>1, <3>1
    <3>3. Rank(a) \in Nat /\ Rank(c) \in Nat BY RankNat
    <3>. QED BY <3>1, <3>2, <3>3 DEF Beats
  <2>4. Follower(d)' BY <1>5, <2>2, <2>3 DEF Follower
  <2>. QED BY <1>13, <2>2, <2>4
<1>16. LeaderAlone'
  <2>. SUFFICES ASSUME NEW a \in Conductor, NEW d \in Conductor, a # d, Leading(a)'
                PROVE  /\ Follower(d)'
                       /\ \A f \in Runs(d)' :
                            a \in f.asking \/ f.found \/ (a \in f.online /\ Beats(a, d))
                       /\ role'[a] = "starting" => Beats(a, d) \/ Held(d, a)'
    BY DEF LeaderAlone, Beats, Rank, Position
  <2>1. a = c
    <3>1. SUFFICES ASSUME a # c PROVE FALSE OBVIOUS
    <3>2. Leading(a) BY <1>5, <3>1 DEF Leading
    <3>3. Follower(a) BY <1>12, <3>1
    <3>. QED BY <3>2, <3>3 DEF Leading, Follower
  <2>2. Follower(d)' BY <1>5, <1>12, <2>1 DEF Follower
  <2>3. a \in Busy' BY <1>5, <2>1, RunningIsBusy
  <2>4. CASE Held(d, c) /\ Runs(d) = {}
    <3>1. Held(d, a)' BY <1>9, <2>1, <2>3, <2>4 DEF HeldKept
    <3>2. Runs(d)' = {} BY <1>13, <2>4
    <3>. QED BY <2>2, <3>1, <3>2
  <2>5. CASE Beats(c, d) /\ \A f \in Runs(d) : ~Missed(f, c)
    BY <1>13, <2>1, <2>2, <2>5 DEF Missed
  <2>. QED BY <1>12, <2>1, <2>4, <2>5
<1>. QED BY <1>8, <1>14, <1>15, <1>16 DEF Lead

LEMMA StartupDoneLead ==
  ASSUME Core, Lead, NEW c \in Conductor, StartupDone(c) PROVE Lead'
<1>1. TimersKept /\ NoneArmed(c) BY KeepKept DEF Core, StartupDone
<1>2. /\ role[c] = "starting" /\ role'[c] = "primary"
      /\ UNCHANGED <<elections, sockets, link>>
      /\ \A d \in Conductor \ {c} : role'[d] = role[d]
  BY DEF StartupDone, Core, RoleTyped
<1>3. OthersStay(c) BY <1>1, <1>2 DEF OthersStay
<1>4. HelloToUp BY <1>2 DEF HelloToUp
<1>5. DownIsIdle' BY <1>2, <1>3, <1>4, DownStep DEF Lead
<1>6. HeldKept BY <1>1, <1>2, <1>3, HeldStep DEF Held
<1>7. \A d \in Conductor : Runs(d)' = Runs(d) BY <1>2 DEF Runs
<1>8. \A d \in Conductor : Follower(d) => Follower(d)' BY <1>2 DEF Follower
<1>9. \A d \in Conductor : Leading(d)' => Leading(d) BY <1>2 DEF Leading
<1>10. MissedWaits'
  <2>. SUFFICES ASSUME NEW a \in Conductor, NEW d \in Conductor, a # d,
                       NEW f \in Runs(a)', Missed(f, d)
                PROVE  Held(d, a)'
    BY DEF MissedWaits, Missed
  <2>1. f \in Runs(a) /\ a \in Busy' BY <1>7, RunningIsBusy
  <2>2. Held(d, a) BY <2>1 DEF Lead, MissedWaits
  <2>. QED BY <1>6, <2>1, <2>2 DEF HeldKept
<1>11. OnlineFollows'
  <2>. SUFFICES ASSUME NEW a \in Conductor, NEW d \in Conductor, a # d,
                       NEW f \in Runs(a)', d \in f.online, ~f.found, Beats(a, d)
                PROVE  Follower(d)' /\ \A g \in Runs(d)' : ~Missed(g, a)
    BY DEF OnlineFollows, Missed, Beats, Rank, Position
  <2>1. Follower(d) /\ \A g \in Runs(d) : ~Missed(g, a)
    BY <1>7 DEF Lead, OnlineFollows
  <2>. QED BY <1>7, <1>8, <2>1
<1>12. LeaderAlone'
  <2>. SUFFICES ASSUME NEW a \in Conductor, NEW d \in Conductor, a # d, Leading(a)'
                PROVE  /\ Follower(d)'
                       /\ \A f \in Runs(d)' :
                            a \in f.asking \/ f.found \/ (a \in f.online /\ Beats(a, d))
                       /\ role'[a] = "starting" => Beats(a, d) \/ Held(d, a)'
    BY DEF LeaderAlone, Beats, Rank, Position
  <2>1. /\ Follower(d)
        /\ \A f \in Runs(d) : a \in f.asking \/ f.found \/ (a \in f.online /\ Beats(a, d))
        /\ role[a] = "starting" => Beats(a, d) \/ Held(d, a)
    BY <1>9 DEF Lead, LeaderAlone
  <2>2. role'[a] = "starting" => Beats(a, d) \/ Held(d, a)'
    BY <1>2, <1>6, <2>1, RunningIsBusy DEF HeldKept
  <2>. QED BY <1>7, <1>8, <2>1, <2>2
<1>. QED BY <1>5, <1>10, <1>11, <1>12 DEF Lead

-----------------------------------------------------------------------------
LEMMA LeadStep ==
  ASSUME Inv, Lead, Timely, (faults.lost = MaxLost)', [Next]_vars PROVE Lead'
<1>. Core BY DEF Inv
<1>1. CASE UNCHANGED vars
  <2>1. HelloToUp /\ UNCHANGED <<role, elections, timers, sockets>>
    BY <1>1 DEF vars, HelloToUp
  <2>. QED BY <2>1, LinkLead
<1>2. ASSUME NEW c \in Conductor, Start(c) PROVE Lead' BY <1>2, StartLead
<1>3. ASSUME NEW c \in Conductor, ElectMaster(c) PROVE Lead' BY <1>3, ElectMasterLead
<1>4. ASSUME NEW c \in Conductor, StartupDone(c) PROVE Lead' BY <1>4, StartupDoneLead
<1>5. ASSUME NEW c \in Conductor, Relinquish(c) \/ Crash(c) PROVE Lead'
  BY <1>5, ExitLead DEF Relinquish, Crash
<1>6. ASSUME NEW c \in Conductor, NEW i, NEW d, Register(c, i, d) PROVE Lead'
  BY <1>6, RegisterLead
<1>7. ASSUME NEW c \in Conductor, NEW i, NEW d, RegisterLost(c, i, d) PROVE Lead'
  <2>1. faults.lost \in 0..MaxLost /\ MaxLost \in Nat BY BoundAssumption DEF Inv, FaultsTyped
  <2>2. faults'.lost = faults.lost - 1 BY <1>7 DEF RegisterLost, Inv, FaultsTyped
  <2>. QED BY <2>1, <2>2
<1>8. ASSUME NEW c \in Conductor, NEW i, ElectionStops(c, i) PROVE Lead'
  BY <1>8, ElectionStopsLead
<1>9. ASSUME NEW c \in Conductor, NEW i, StepAside(c, i) PROVE Lead' BY <1>9, StepAsideLead
<1>10. ASSUME NEW c \in Conductor, NEW i, Win(c, i) PROVE Lead' BY <1>10, WinLead
<1>11. ASSUME NEW c \in Conductor, NEW i, WinTwice(c, i) PROVE Lead'
  BY <1>11, ExitLead DEF WinTwice
<1>12. ASSUME NEW m \in Conductor, NEW p \in Conductor,
              Connect(m, p) \/ Disconnected(m, p) \/ Drop(m, p)
       PROVE  Lead'
  <2>1. UNCHANGED <<role, elections, timers, sockets>>
    BY <1>12 DEF Connect, Disconnected, Drop
  <2>2. HelloToUp
    BY <1>12, <2>1 DEF Connect, Disconnected, Drop, Broken, Up, HelloToUp, Core, NetTyped
  <2>. QED BY <2>1, <2>2, LinkLead
<1>13. ASSUME NEW m \in Conductor, NEW p \in Conductor, ReceiveNewMaster(m, p) PROVE Lead'
  BY <1>13, ReceiveNewMasterLead
<1>14. ASSUME NEW p \in Conductor, NEW m \in Conductor, LostMaster(p, m) PROVE Lead'
  BY <1>14, LostMasterLead
<1>. QED
  BY <1>1, <1>2, <1>3, <1>4, <1>5, <1>6, <1>7, <1>8, <1>9, <1>10, <1>11, <1>12, <1>13, <1>14
  DEF Next

(* If elections and start-ups end before the next timer goes off, then as    *)
(* long as register calls between running conductors arrive, two conductors  *)
(* do not lead at once: for any number of them, any preference, and whatever *)
(* crashes, restarts and breaks (electMaster, becomeMaster).                *)
THEOREM OneLeads == Timely => (Spec /\ Answered => []AtMostOneLeading)
<1>. SUFFICES ASSUME Timely PROVE Spec /\ Answered => []AtMostOneLeading OBVIOUS
<1>1. Init => Lead BY InitLead
<1>2. Inv /\ Lead /\ (faults.lost = MaxLost)' /\ [Next]_vars => Lead' BY LeadStep
<1>3. Lead => AtMostOneLeading BY LeadImpliesOne
<1>. QED BY <1>1, <1>2, <1>3, ConductorsInvariant, PTL DEF Spec, Answered

(* Where they always arrive, AtMostOneLeading is an invariant.               *)
THEOREM OneAlwaysLeads == Timely /\ MaxLost = 0 => (Spec => []AtMostOneLeading)
<1>. SUFFICES ASSUME Timely, MaxLost = 0 PROVE Spec => []AtMostOneLeading OBVIOUS
<1>1. Inv => faults.lost = MaxLost BY DEF Inv, FaultsTyped
<1>2. Spec => Answered BY <1>1, ConductorsInvariant, PTL DEF Answered
<1>. QED BY <1>2, OneLeads, PTL

-----------------------------------------------------------------------------
(* The election implements the abstract office. *)

(* A step changes what one conductor is, along these lines. *)
Moves(x) ==
  /\ \A d \in Conductor \ {x} : role'[d] = role[d]
  /\ \/ role'[x] \in {role[x], "down"}
     \/ role[x] = "down" /\ role'[x] = "backup"
     \/ role[x] # "primary" /\ role'[x] = "starting"
     \/ role[x] = "starting" /\ role'[x] = "primary"

LEMMA ExitMoves ==
  ASSUME RoleTyped, NEW x \in Conductor, Exit(x) PROVE Moves(x)
BY DEF RoleTyped, Exit, Moves

LEMMA MovesStep ==
  ASSUME RoleTyped, [Next]_vars PROVE UNCHANGED role \/ \E x \in Conductor : Moves(x)
<1>1. CASE UNCHANGED vars BY <1>1 DEF vars
<1>2. ASSUME NEW c \in Conductor, Start(c) PROVE Moves(c)
  BY <1>2 DEF Start, RoleTyped, Moves
<1>3. ASSUME NEW c \in Conductor, StartupDone(c) PROVE Moves(c)
  BY <1>3 DEF StartupDone, RoleTyped, Moves
<1>4. ASSUME NEW c \in Conductor, NEW i, Win(c, i) PROVE Moves(c)
  BY <1>4 DEF Win, BecomeMaster, RoleTyped, Moves
<1>5. ASSUME NEW c \in Conductor, NEW i, WinTwice(c, i) PROVE Moves(c)
  BY <1>5, ExitMoves DEF WinTwice
<1>6. ASSUME NEW c \in Conductor, Relinquish(c) \/ Crash(c) PROVE Moves(c)
  BY <1>6, ExitMoves DEF Relinquish, Crash
<1>7. ASSUME NEW m \in Conductor, NEW p \in Conductor, ReceiveNewMaster(m, p)
      PROVE  UNCHANGED role \/ Moves(p)
  BY <1>7, ExitMoves DEF ReceiveNewMaster
<1>8. ASSUME NEW c \in Conductor, NEW i, NEW d,
             \/ ElectMaster(c) \/ ElectionStops(c, i) \/ StepAside(c, i)
             \/ Register(c, i, d) \/ RegisterLost(c, i, d)
             \/ Connect(c, d) \/ Drop(c, d) \/ Disconnected(c, d) \/ LostMaster(c, d)
      PROVE  UNCHANGED role
  BY <1>8 DEF ElectMaster, ElectionStops, StepAside, Register, RegisterLost, Connect, Drop,
              Disconnected, LostMaster
<1>. QED BY <1>1, <1>2, <1>3, <1>4, <1>5, <1>6, <1>7, <1>8 DEF Next

(* Who leads is the leader. *)
LEMMA LeaderLeads ==
  AtMostOneLeading => /\ \A c \in Conductor : Leading(c) => Leader = c
                      /\ (\A c \in Conductor : ~Leading(c)) => Leader = NoConductor
BY DEF AtMostOneLeading, Leader

LEMMA LeadershipStep ==
  ASSUME Inv, AtMostOneLeading, AtMostOneLeading', [Next]_vars
  PROVE  [Office!LNext]_<<Leader, \E c \in Conductor : role[c] = "primary">>
<1>. DEFINE Ready == \E c \in Conductor : role[c] = "primary"
<1>. RoleTyped BY DEF Inv, Core
<1>0. NoConductor \notin Conductor BY ConductorAssumption
<1>1. /\ \A c \in Conductor : Leading(c) => Leader = c
      /\ (\A c \in Conductor : ~Leading(c)) => Leader = NoConductor
  BY LeaderLeads
<1>2. /\ \A c \in Conductor : Leading(c)' => Leader' = c
      /\ (\A c \in Conductor : ~Leading(c)') => Leader' = NoConductor
  BY DEF AtMostOneLeading, Leader
<1>3. CASE UNCHANGED role
  <2>1. (Leader' = Leader) /\ (Ready' <=> Ready) BY <1>3 DEF Leader, Leading
  <2>. QED BY <2>1
<1>4. ASSUME NEW x \in Conductor, Moves(x)
      PROVE  [Office!LNext]_<<Leader, Ready>>
  <2>0. \A d \in Conductor \ {x} : role'[d] = role[d] BY <1>4 DEF Moves
  <2>1. CASE role'[x] = "down" /\ Leading(x)
    <3>1. \A d \in Conductor : ~Leading(d)'
      BY <2>0, <2>1 DEF Leading, AtMostOneLeading
    <3>2. Leader # NoConductor /\ Leader' = NoConductor BY <1>0, <1>1, <1>2, <2>1, <3>1
    <3>3. ~Ready' BY <3>1 DEF Leading
    <3>. QED BY <3>2, <3>3 DEF Office!LNext, Office!Leave
  <2>2. CASE ~Leading(x) /\ role'[x] = "starting"
    <3>1. Leading(x)' BY <2>2 DEF Leading
    <3>2. \A d \in Conductor : ~Leading(d)
      BY <2>0, <2>2, <3>1 DEF Leading, AtMostOneLeading
    <3>3. Leader = NoConductor /\ Leader' = x BY <1>1, <1>2, <3>1, <3>2
    <3>4. ~Ready BY <3>2 DEF Leading
    <3>5. ~Ready' BY <2>0, <2>2, <3>4
    <3>. QED BY <3>3, <3>4, <3>5 DEF Office!LNext, Office!Take
  <2>3. CASE role[x] = "starting" /\ role'[x] = "primary"
    <3>1. Leading(x) /\ Leading(x)' BY <2>3 DEF Leading
    <3>2. Leader = x /\ Leader' = x BY <1>1, <1>2, <3>1
    <3>3. ~Ready
      <4>1. SUFFICES ASSUME NEW d \in Conductor, role[d] = "primary" PROVE FALSE OBVIOUS
      <4>2. Leading(d) BY <4>1 DEF Leading
      <4>3. d = x BY <3>1, <4>2 DEF AtMostOneLeading
      <4>. QED BY <2>3, <4>1, <4>3
    <3>4. Ready' BY <2>3
    <3>. QED BY <1>0, <3>2, <3>3, <3>4 DEF Office!LNext, Office!Begin
  <2>4. CASE /\ Leading(x)' <=> Leading(x)
             /\ role'[x] = "primary" <=> role[x] = "primary"
    <3>1. \A d \in Conductor : Leading(d)' <=> Leading(d) BY <2>0, <2>4 DEF Leading
    <3>2. Leader' = Leader
      <4>1. CASE \A d \in Conductor : ~Leading(d) BY <1>1, <1>2, <3>1, <4>1
      <4>2. CASE \E d \in Conductor : Leading(d) BY <1>1, <1>2, <3>1, <4>2
      <4>. QED BY <4>1, <4>2
    <3>3. Ready' <=> Ready BY <2>0, <2>4
    <3>. QED BY <3>2, <3>3
  <2>. QED BY <1>4, <2>1, <2>2, <2>3, <2>4 DEF Moves, Leading
<1>. QED BY <1>3, <1>4, MovesStep

LEMMA InitLeadership == Init => Office!LInit
<1>1. Init => Leader = NoConductor BY DEF Init, Leader, Leading
<1>2. Init => ~\E c \in Conductor : role[c] = "primary" BY DEF Init
<1>. QED BY <1>1, <1>2 DEF Office!LInit

(* The election fills the office of primary conductor as Failover takes for   *)
(* granted, under the same two conditions: nobody becomes primary before the  *)
(* last primary has ended its process, and no primary starts up twice        *)
(* (electMaster, becomeMaster).                                              *)
THEOREM LeadershipCorrect == Timely /\ MaxLost = 0 => (Spec => ImplementsLeadership)
<1>. SUFFICES ASSUME Timely, MaxLost = 0 PROVE Spec => ImplementsLeadership OBVIOUS
<1>1. Inv /\ AtMostOneLeading /\ AtMostOneLeading' /\ [Next]_vars
        => [Office!LNext]_<<Leader, \E c \in Conductor : role[c] = "primary">>
  BY LeadershipStep
<1>2. Spec => []AtMostOneLeading BY OneAlwaysLeads
<1>. QED
  BY <1>1, <1>2, InitLeadership, ConductorsInvariant, PTL
  DEF Spec, ImplementsLeadership, Office!LSpec
=============================================================================
