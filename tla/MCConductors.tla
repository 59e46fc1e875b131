---------------------------- MODULE MCConductors ----------------------------
(* Constants for model checking Conductors.  The numbers are in each .cfg. *)
EXTENDS Conductors
CONSTANTS c1, c2, c3

MCTwo       == <<c1, c2>>
MCThree     == <<c1, c2, c3>>
MCNoneFirst == <<>>
MCLastFirst == <<c2>>
=============================================================================
