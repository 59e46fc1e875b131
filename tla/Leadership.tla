----------------------------- MODULE Leadership -----------------------------
(***************************************************************************)
(* What the election promises of the office of primary conductor: it has   *)
(* at most one holder, who starts up before it acts, and nobody takes it   *)
(* before the last holder is gone.  Conductors implements this module;     *)
(* Failover takes it for granted (Vacant).                                 *)
(***************************************************************************)
CONSTANTS Node, Nobody

VARIABLES
  leader,   \* who holds the office, or Nobody
  ready     \* the holder has finished its start-up

LInit == leader = Nobody /\ ready = FALSE

Take(c) == leader = Nobody /\ leader' = c /\ UNCHANGED ready

Begin == leader # Nobody /\ ~ready /\ ready' = TRUE /\ UNCHANGED leader

Leave == leader # Nobody /\ leader' = Nobody /\ ready' = FALSE

LNext == (\E c \in Node : Take(c)) \/ Begin \/ Leave

LSpec == LInit /\ [][LNext]_<<leader, ready>>
=============================================================================
