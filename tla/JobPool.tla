------------------------------ MODULE JobPool -------------------------------
(***************************************************************************)
(* What the job engine promises of the jobs that share a queue key: a pool *)
(* of at most Limit[k] running jobs, which every job enters at most once   *)
(* unless it is sent back to wait, and which it never re-enters once it    *)
(* has begun to end.  JobQueue implements this module.                     *)
(***************************************************************************)
EXTENDS Integers, FiniteSets

CONSTANTS Ids, Keys, Limit   \* Limit[k] = 0: no limit

VARIABLES phase, key
pvars == <<phase, key>>

Phases == {"none", "waiting", "running", "ending", "done"}

Members(k) == {i \in Ids : phase[i] = "running" /\ key[i] = k}
Room(k)    == Limit[k] = 0 \/ Cardinality(Members(k)) < Limit[k]

PInit == phase = [i \in Ids |-> "none"] /\ key \in [Ids -> Keys]

(* A new job waits, runs at once if there is room, or is refused. *)
Arrive(i, k) ==
  /\ phase[i] = "none"
  /\ key' = [key EXCEPT ![i] = k]
  /\ \E p \in {"waiting", "running", "ending"} :
       /\ p = "running" => Room(k)
       /\ phase' = [phase EXCEPT ![i] = p]

Begin(i) ==
  /\ phase[i] = "waiting" /\ Room(key[i])
  /\ phase' = [phase EXCEPT ![i] = "running"] /\ UNCHANGED key

Requeue(i) ==
  /\ phase[i] = "running"
  /\ phase' = [phase EXCEPT ![i] = "waiting"] /\ UNCHANGED key

End(i) ==
  /\ phase[i] \in {"waiting", "running"}
  /\ phase' = [phase EXCEPT ![i] = "ending"] /\ UNCHANGED key

Close(i) ==
  /\ phase[i] = "ending"
  /\ phase' = [phase EXCEPT ![i] = "done"] /\ UNCHANGED key

Drop(S) ==
  /\ \A i \in S : phase[i] = "waiting"
  /\ phase' = [i \in Ids |-> IF i \in S THEN "done" ELSE phase[i]] /\ UNCHANGED key

PNext ==
  \/ \E i \in Ids, k \in Keys : Arrive(i, k)
  \/ \E i \in Ids : Begin(i) \/ Requeue(i) \/ End(i) \/ Close(i)
  \/ \E S \in SUBSET Ids : Drop(S)

PSpec == PInit /\ [][PNext]_pvars

(* At most Limit[k] members of a pool run at any time. *)
Bounded == \A k \in Keys : Limit[k] > 0 => Cardinality(Members(k)) <= Limit[k]

=============================================================================
