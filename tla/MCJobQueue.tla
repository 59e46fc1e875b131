----------------------------- MODULE MCJobQueue -----------------------------
(* Constants for model checking JobQueue.  The numbers are given in each .cfg. *)
EXTENDS JobQueue, TLC
CONSTANTS e1, e2, k1, k2, s1, s2,
          nAmount, nQueue, nRate, nServer, nRetries

MCOneKey   == [e \in Events |-> k1]
MCTargets  == [e \in Events |-> Servers]
MCPassing  == [e \in Events |-> {s1}]
MCWeight   == [e \in Events |-> IF e = e1 THEN 1 ELSE 2]
MCAmount   == [k \in Keys |-> nAmount]
MCQueueMax == [k \in Keys |-> nQueue]
MCRate     == [k \in Keys |-> nRate]
MCServer   == [s \in Servers |-> nServer]
MCRetries  == [e \in Events |-> nRetries]
=============================================================================
