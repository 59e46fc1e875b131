----------------------------- MODULE Conductors -----------------------------
(***************************************************************************)
(* The election of the primary conductor: lib/multi.js, with the socket    *)
(* handlers of lib/comm.js.  The code calls the primary `master'.          *)
(*                                                                         *)
(* Every conductor is one JavaScript event loop, so a step of this module  *)
(* is one callback of one conductor: a timer, the answer to a register     *)
(* call, a socket that opens, closes or receives a message, the end of the *)
(* storage start-up in becomeMaster.  The member list is the same          *)
(* everywhere and does not change; what the sockets carry after the hello  *)
(* (the job synchronisation) is not in this module.                        *)
(***************************************************************************)
EXTENDS Naturals, Sequences, FiniteSets, SequencesExt

CONSTANTS
  Conductor,     \* masterData.masters
  NoConductor,
  Alphabet,      \* the conductors sorted by hostname
  Preferred,     \* multi.preferred_conductors
  Timely,        \* TRUE: electing and starting up take less than master_timeout_sec
  Prompt,        \* TRUE: a broken connection is noticed before an election starts or is won,
                 \*   or a primary relinquishes
  MaxElections,  \* bound: elections of one conductor that overlap
  MaxTimers,     \* bound: election timers of one conductor that are armed
  MaxCrashes,    \* bound: crashes
  MaxDrops,      \* bound: connections that break while both ends are up
  MaxLost,       \* bound: register calls that fail though the candidate is up
  MaxFaults      \* bound: all of these together

ASSUME BoundAssumption ==
  /\ {MaxElections, MaxTimers, MaxCrashes, MaxDrops, MaxLost, MaxFaults} \subseteq Nat
  /\ Timely \in BOOLEAN /\ Prompt \in BOOLEAN

ASSUME ConductorAssumption ==
  /\ NoConductor \notin Conductor
  /\ Alphabet \in Seq(Conductor)
  /\ \A c \in Conductor : \E i \in DOMAIN Alphabet : Alphabet[i] = c
  /\ \A c \in Conductor : Conductor # {c}
  /\ Preferred \in Seq(Conductor)

VARIABLES
  role,          \* what each conductor is: see Roles
  elections,     \* the runs of electMaster that still wait for answers
  timers,        \* the armed election timers, oldest first
  handle,        \* TRUE: this.electionTimer refers to the last armed timer
  link,          \* link[m][p]: the PeerSocket of m to its peer p
  sockets,       \* accepted sockets that are flagged `master', by their owner
  masterSocket,  \* this.masterSocket
  parked,        \* ghost: the last election ended because it found a primary
  faults         \* what is left of the bounds on faults

vars == <<role, elections, timers, handle, link, sockets, masterSocket, parked, faults>>

(* `starting' is a conductor in the asynchronous part of becomeMaster, where *)
(* this.master is still false.                                              *)
Roles == {"down", "backup", "starting", "primary"}

(* A PeerSocket waits to connect, has connected and sent the hello, or the  *)
(* hello was handled; `gone' is such a connection that is broken, before    *)
(* the PeerSocket notices.                                                  *)
Links == {"none", "retry", "hello", "open", "gone"}

Election == [asking: SUBSET Conductor, online: SUBSET Conductor, found: BOOLEAN]

Up(c) == role[c] # "down"
Leading(c) == role[c] \in {"starting", "primary"}

(* Both ends of every connection agree that it is there or not. *)
Noticed ==
  \A m, p \in Conductor : link[m][p] # "gone" /\ (m \in sockets[p] => link[m][p] = "open")

(* Conductors in an election or in their start-up. *)
Busy == {c \in Conductor : elections[c] # <<>> \/ role[c] = "starting"}

(* indexOf: where c occurs first. *)
Position(c, s) == CHOOSE i \in DOMAIN s : s[i] = c /\ \A j \in 1..(i - 1) : s[j] # c

(* Mutant: the preferred list is ignored. *)
Rank_Alphabetical(c) == Position(c, Alphabet)

(* The order of an election: preferred conductors first, then by hostname. *)
Rank(c) ==
  IF \E i \in DOMAIN Preferred : Preferred[i] = c
  THEN Position(c, Preferred)
  ELSE Len(Preferred) + Position(c, Alphabet)

Winner(online) == CHOOSE c \in online : \A d \in online : Rank(c) <= Rank(d)

Superiors(c) ==
  {Preferred[i] : i \in {j \in DOMAIN Preferred : \A k \in 1..j : Preferred[k] # c}}

-----------------------------------------------------------------------------
(* Timers.  A timer carries the conductors whose election or start-up was   *)
(* under way when it was armed: if Timely, it cannot go off before they are *)
(* through.  Timers all have the same length and go off in their order.     *)

Await(ts) == [c \in Conductor |-> [i \in DOMAIN ts[c] |-> ts[c][i] \cap Busy']]

(* setTimeout forgets a timer this.electionTimer may still refer to. *)
Arm(c) ==
  /\ Len(timers[c]) < MaxTimers
  /\ timers' = Await([timers EXCEPT ![c] = Append(@, IF Timely THEN Busy' ELSE {})])
  /\ handle' = [handle EXCEPT ![c] = TRUE]

(* clearTimeout reaches the last timer only. *)
Disarm(c) ==
  /\ timers' = Await([timers EXCEPT ![c] =
                        IF handle[c] /\ timers[c] # <<>> THEN Front(timers[c]) ELSE timers[c]])
  /\ handle' = [handle EXCEPT ![c] = FALSE]

KeepTimers == timers' = Await(timers) /\ UNCHANGED handle

(* An unanswered hello is lost: nothing but a new connection shows it. *)
Broken(l) == CASE l = "hello" -> "retry" [] l = "open" -> "gone" [] OTHER -> l

(* The process ends, and with it its end of every connection. *)
Exit(c) ==
  /\ role' = [role EXCEPT ![c] = "down"]
  /\ elections' = [elections EXCEPT ![c] = <<>>]
  /\ timers' = Await([timers EXCEPT ![c] = <<>>])
  /\ handle' = [handle EXCEPT ![c] = FALSE]
  /\ link' = [m \in Conductor |-> [p \in Conductor |->
       IF m = c THEN "none"
       ELSE IF p = c THEN Broken(link[m][p]) ELSE link[m][p]]]
  /\ sockets' = [sockets EXCEPT ![c] = {}]
  /\ masterSocket' = [masterSocket EXCEPT ![c] = NoConductor]
  /\ parked' = [parked EXCEPT ![c] = FALSE]

-----------------------------------------------------------------------------
Init ==
  /\ role = [c \in Conductor |-> "down"]
  /\ elections = [c \in Conductor |-> <<>>]
  /\ timers = [c \in Conductor |-> <<>>]
  /\ handle = [c \in Conductor |-> FALSE]
  /\ link = [m \in Conductor |-> [p \in Conductor |-> "none"]]
  /\ sockets = [c \in Conductor |-> {}]
  /\ masterSocket = [c \in Conductor |-> NoConductor]
  /\ parked = [c \in Conductor |-> FALSE]
  /\ faults = [crash |-> MaxCrashes, drop |-> MaxDrops, lost |-> MaxLost]

(* becomeMaster, up to its first await: it opens a socket to every peer at   *)
(* once.  A second call while the first is starting up replaces the sockets; *)
(* the peers keep the ones they have accepted.                              *)
BecomeMaster(c) ==
  /\ role' = [role EXCEPT ![c] = "starting"]
  /\ link' = [link EXCEPT ![c] = [p \in Conductor |->
       IF p = c THEN "none" ELSE IF link[c][p] = "open" THEN "open" ELSE "retry"]]
  /\ Disarm(c)

(* multiSetup of a new process. *)
Start(c) ==
  /\ role[c] = "down"
  /\ role' = [role EXCEPT ![c] = "backup"]
  /\ UNCHANGED elections
  /\ Arm(c)
  /\ UNCHANGED <<link, sockets, masterSocket, parked, faults>>

(* The election timer goes off and electMaster contacts the others. *)
ElectMaster(c) ==
  /\ timers[c] # <<>> /\ Head(timers[c]) = {}
  /\ Prompt => Noticed
  /\ Len(elections[c]) < MaxElections
  /\ elections' = [elections EXCEPT ![c] =
       Append(@, [asking |-> Conductor \ {c}, online |-> {}, found |-> FALSE])]
  /\ UNCHANGED role
  /\ timers' = Await([timers EXCEPT ![c] = Tail(@)])
  /\ UNCHANGED <<handle, link, sockets, masterSocket, parked, faults>>

(* Candidate d answers the register call of election i, or is down. *)
Register(c, i, d) ==
  /\ i \in DOMAIN elections[c] /\ d \in elections[c][i].asking
  /\ elections' = [elections EXCEPT ![c][i] =
       [asking |-> @.asking \ {d},
        online |-> @.online \cup (IF role[d] \in {"backup", "starting"} THEN {d} ELSE {}),
        found  |-> @.found \/ role[d] = "primary"]]
  /\ UNCHANGED role
  /\ KeepTimers
  /\ UNCHANGED <<link, sockets, masterSocket, parked, faults>>

FaultsLeft ==
  faults.crash + faults.drop + faults.lost + MaxFaults > MaxCrashes + MaxDrops + MaxLost

(* The register call fails although the candidate is up. *)
RegisterLost(c, i, d) ==
  /\ i \in DOMAIN elections[c] /\ d \in elections[c][i].asking
  /\ Up(d) /\ faults.lost > 0 /\ FaultsLeft
  /\ elections' = [elections EXCEPT ![c][i].asking = @ \ {d}]
  /\ faults' = [faults EXCEPT !.lost = @ - 1]
  /\ UNCHANGED role
  /\ KeepTimers
  /\ UNCHANGED <<link, sockets, masterSocket, parked>>

(* Mutant: an election goes on although it has found a primary. *)
Undecided_IgnoresFound(c, i) ==
  /\ i \in DOMAIN elections[c] /\ elections[c][i].asking = {}
  /\ masterSocket[c] = NoConductor

(* All answers are in: this election is decided by rank... *)
Undecided(c, i) ==
  /\ i \in DOMAIN elections[c] /\ elections[c][i].asking = {}
  /\ ~elections[c][i].found /\ masterSocket[c] = NoConductor

Wins(c, i) == Undecided(c, i) /\ Winner(elections[c][i].online \cup {c}) = c

Ended(c, i) == elections' = [elections EXCEPT ![c] = RemoveAt(@, i)]

(* ...it has found a primary, or one has contacted this conductor, *)
ElectionStops(c, i) ==
  /\ i \in DOMAIN elections[c] /\ elections[c][i].asking = {}
  /\ elections[c][i].found \/ masterSocket[c] # NoConductor
  /\ Ended(c, i)
  /\ parked' = [parked EXCEPT ![c] = elections[c][i].found]
  /\ UNCHANGED role
  /\ KeepTimers
  /\ UNCHANGED <<link, sockets, masterSocket, faults>>

(* Mutant: the loser of an election does not hold another one. *)
StepAside_GivesUp(c, i) ==
  /\ Undecided(c, i) /\ ~Wins(c, i)
  /\ Ended(c, i)
  /\ UNCHANGED role
  /\ KeepTimers
  /\ UNCHANGED <<link, sockets, masterSocket, parked, faults>>

(* it is outranked and will hold another election, *)
StepAside(c, i) ==
  /\ Undecided(c, i) /\ ~Wins(c, i)
  /\ Ended(c, i)
  /\ UNCHANGED role
  /\ Arm(c)
  /\ UNCHANGED <<link, sockets, masterSocket, parked, faults>>

(* Mutant: becomeMaster does not ask whether this conductor is primary. *)
Win_Again(c, i) ==
  /\ Wins(c, i)
  /\ Prompt => Noticed
  /\ Ended(c, i)
  /\ BecomeMaster(c)
  /\ UNCHANGED <<sockets, masterSocket, parked, faults>>

(* or it wins. *)
Win(c, i) ==
  /\ Wins(c, i) /\ role[c] # "primary"
  /\ Prompt => Noticed
  /\ Ended(c, i)
  /\ BecomeMaster(c)
  /\ UNCHANGED <<sockets, masterSocket, parked, faults>>

(* "Attempting to become primary twice.  Emergency shutdown." *)
WinTwice(c, i) ==
  /\ Wins(c, i) /\ role[c] = "primary"
  /\ Exit(c)
  /\ UNCHANGED faults

(* The storage is set up and its records are loaded: this.master = true.  (If *)
(* becomeMaster ran twice, this comes twice; the second end is left out.)      *)
StartupDone(c) ==
  /\ role[c] = "starting"
  /\ role' = [role EXCEPT ![c] = "primary"]
  /\ UNCHANGED elections
  /\ KeepTimers
  /\ UNCHANGED <<link, sockets, masterSocket, parked, faults>>

-----------------------------------------------------------------------------
(* A PeerSocket of m connects to p and says hello. *)
Connect(m, p) ==
  /\ link[m][p] = "retry" /\ Up(p) /\ m \notin sockets[p]
  /\ link' = [link EXCEPT ![m][p] = "hello"]
  /\ UNCHANGED <<role, elections, timers, handle, sockets, masterSocket, parked, faults>>

(* p handles the hello of m: it shuts down if it is primary, else m is its  *)
(* primary from now on.                                                     *)
ReceiveNewMaster(m, p) ==
  /\ link[m][p] = "hello"
  /\ UNCHANGED faults
  /\ \/ role[p] = "primary" /\ Exit(p)
     \/ /\ role[p] # "primary"
        /\ link' = [link EXCEPT ![m][p] = "open"]
        /\ sockets' = [sockets EXCEPT ![p] = @ \cup {m}]
        /\ masterSocket' = [masterSocket EXCEPT ![p] = m]
        /\ parked' = [parked EXCEPT ![p] = FALSE]
        /\ UNCHANGED <<role, elections>>
        /\ Disarm(p)

(* The connection of m to p breaks. *)
Drop(m, p) ==
  /\ link[m][p] \in {"hello", "open"} /\ faults.drop > 0 /\ FaultsLeft
  /\ link' = [link EXCEPT ![m][p] = Broken(@)]
  /\ faults' = [faults EXCEPT !.drop = @ - 1]
  /\ UNCHANGED <<role, elections, timers, handle, sockets, masterSocket, parked>>

(* Mutant: a broken connection is given up. *)
Disconnected_ForGood(m, p) ==
  /\ link[m][p] = "gone"
  /\ link' = [link EXCEPT ![m][p] = "none"]
  /\ UNCHANGED <<role, elections, timers, handle, sockets, masterSocket, parked, faults>>

(* m notices (close event or ping timeout) and will connect again. *)
Disconnected(m, p) ==
  /\ link[m][p] = "gone"
  /\ link' = [link EXCEPT ![m][p] = "retry"]
  /\ UNCHANGED <<role, elections, timers, handle, sockets, masterSocket, parked, faults>>

(* Mutant: the loss of the primary calls no election. *)
LostMaster_NoElection(p, m) ==
  /\ m \in sockets[p] /\ link[m][p] # "open"
  /\ sockets' = [sockets EXCEPT ![p] = @ \ {m}]
  /\ masterSocket' = [masterSocket EXCEPT ![p] = NoConductor]
  /\ UNCHANGED <<role, elections>>
  /\ KeepTimers
  /\ UNCHANGED <<link, parked, faults>>

(* p notices that the socket of m has closed; whatever p is by now, it      *)
(* forgets its primary and arms a timer.                                    *)
LostMaster(p, m) ==
  /\ m \in sockets[p] /\ link[m][p] # "open"
  /\ sockets' = [sockets EXCEPT ![p] = @ \ {m}]
  /\ masterSocket' = [masterSocket EXCEPT ![p] = NoConductor]
  /\ UNCHANGED <<role, elections>>
  /\ Arm(p)
  /\ UNCHANGED <<link, parked, faults>>

(* checkPeerRelinquish: a peer that is preferred to c, and has been         *)
(* connected for relinquish_min_age (long after its hello), makes c         *)
(* restart; the new process is a Start.                                     *)
Relinquish(c) ==
  /\ role[c] = "primary"
  /\ Prompt => Noticed
  /\ \E p \in Superiors(c) : link[c][p] \in {"open", "gone"}
  /\ Exit(c)
  /\ UNCHANGED faults

(* The process dies, or is stopped, or its start-up as primary fails. *)
Crash(c) ==
  /\ Up(c) /\ faults.crash > 0 /\ FaultsLeft
  /\ faults' = [faults EXCEPT !.crash = @ - 1]
  /\ Exit(c)

Next ==
  \E c \in Conductor :
    \/ Start(c) \/ ElectMaster(c) \/ StartupDone(c) \/ Relinquish(c) \/ Crash(c)
    \/ \E i \in 1..MaxElections :
         \/ ElectionStops(c, i) \/ StepAside(c, i) \/ Win(c, i) \/ WinTwice(c, i)
         \/ \E d \in Conductor : Register(c, i, d) \/ RegisterLost(c, i, d)
    \/ \E p \in Conductor :
         \/ Connect(c, p) \/ ReceiveNewMaster(c, p) \/ Drop(c, p)
         \/ Disconnected(c, p) \/ LostMaster(c, p)

Spec == Init /\ [][Next]_vars

(* Timers go off, calls are answered, a socket that can connect does, what  *)
(* is sent on it arrives and a broken one is noticed; a start-up ends, and  *)
(* the check of every minute sees an aged peer.  Processes need not start.  *)
Fairness ==
  \A c \in Conductor :
    /\ WF_vars(ElectMaster(c)) /\ WF_vars(StartupDone(c)) /\ WF_vars(Relinquish(c))
    /\ WF_vars(\E i \in 1..MaxElections :
         \/ ElectionStops(c, i) \/ StepAside(c, i) \/ Win(c, i) \/ WinTwice(c, i))
    /\ \A p \in Conductor :
         /\ WF_vars(\E i \in 1..MaxElections : Register(c, i, p))
         /\ WF_vars(Connect(c, p)) /\ WF_vars(ReceiveNewMaster(c, p))
         /\ WF_vars(Disconnected(c, p)) /\ WF_vars(LostMaster(c, p))

FairSpec == Spec /\ Fairness

-----------------------------------------------------------------------------
(* The shape of the variables. *)
TypeOK ==
  /\ role \in [Conductor -> Roles]
  /\ elections \in [Conductor -> Seq(Election)]
  /\ timers \in [Conductor -> Seq(SUBSET Conductor)]
  /\ handle \in [Conductor -> BOOLEAN]
  /\ link \in [Conductor -> [Conductor -> Links]]
  /\ sockets \in [Conductor -> SUBSET Conductor]
  /\ masterSocket \in [Conductor -> Conductor \cup {NoConductor}]
  /\ parked \in [Conductor -> BOOLEAN]
  /\ faults \in [crash: 0..MaxCrashes, drop: 0..MaxDrops, lost: 0..MaxLost]

(* If elections and start-ups are shorter than the election timeout and     *)
(* register calls between running conductors arrive, two conductors never   *)
(* lead at once, not even while becomeMaster waits for the storage: crashes *)
(* and restarts at any moment included (electMaster, becomeMaster).         *)
AtMostOneLeading ==
  \A c, d \in Conductor : Leading(c) /\ Leading(d) => c = d

(* A running conductor that does not lead has a socket whose loss will make *)
(* it elect, a timer or an election; if it has none of them, it was told of *)
(* a primary and stopped (electMaster, lostMaster, receiveNewMaster).       *)
SomeoneElects ==
  \A c \in Conductor :
    role[c] = "backup" =>
      sockets[c] # {} \/ timers[c] # <<>> \/ elections[c] # <<>> \/ parked[c]

(* Whatever fails, a cluster with a running conductor gets a primary, or a  *)
(* conductor that waits for a primary it was told of (electMaster).         *)
ElectionSettles ==
  (\E c \in Conductor : Up(c)) ~>
    \/ \E c \in Conductor : role[c] = "primary" \/ parked[c]
    \/ \A c \in Conductor : ~Up(c)

(* What the next two properties except.  A register call to a running        *)
(* conductor fails: then two conductors may win, one shuts down, and a third  *)
(* that was told of it waits for it.  Or a primary ends while somebody who    *)
(* was told of it waits for its hello: that one arms no timer but still       *)
(* answers, and if it ranks first nobody else ever wins.                      *)
Misled == \E c \in Conductor : parked[c] /\ \A m \in Conductor : role[m] # "primary"
Answered == [](faults.lost = MaxLost)
NobodyMisled == []~Misled

(* But for these, every backup ends up on the socket of a primary that has    *)
(* finished its start-up, over crashes, restarts and broken connections: no   *)
(* election is the last one and fruitless, and a broken connection is made    *)
(* again (setupPeer, PeerSocket).  Checked with Timely and Prompt, which the  *)
(* code does not ensure for a half-open connection.                           *)
EveryoneFollows ==
  Answered /\ NobodyMisled =>
    \A c \in Conductor :
      <>[](role[c] = "backup") =>
        <>[](\E m \in sockets[c] : role[m] = "primary")

(* But for these, leadership returns to the preferred conductor once it stays *)
(* up, whoever was elected before or crashes meanwhile (checkPeerRelinquish   *)
(* with the ranking of elections); under the same assumptions.                *)
PreferredLeads ==
  Preferred # <<>> /\ Answered /\ NobodyMisled =>
    (<>[]Up(Preferred[1]) => <>[](role[Preferred[1]] = "primary"))

Leader ==
  IF \E c \in Conductor : Leading(c) THEN CHOOSE c \in Conductor : Leading(c) ELSE NoConductor

Office == INSTANCE Leadership WITH
  Node   <- Conductor,
  Nobody <- NoConductor,
  leader <- Leader,
  ready  <- \E c \in Conductor : role[c] = "primary"

(* Under the conditions of AtMostOneLeading the election fills the office of *)
(* primary as Failover assumes: nobody takes it before the last holder is    *)
(* gone, and who holds it starts up once and leaves by ending its process    *)
(* (becomeMaster, multiShutdown).                                           *)
ImplementsLeadership == Office!LSpec
=============================================================================
