------------------------------- MODULE ForkJoin -------------------------------
(***************************************************************************)
(* What a workflow promises, without its nodes: some things are busy, jobs *)
(* and others; only what is busy makes other things busy; the whole ends   *)
(* once, when nothing is busy or, if it was cancelled, when no job is left; *)
(* and after the end nothing is ever busy again.                           *)
(***************************************************************************)
CONSTANTS Jobs, Others

VARIABLES
  busy,       \* the jobs and other things under way
  cancelled,  \* somebody or something aborted the whole
  ended

fvars == <<busy, cancelled, ended>>

FInit == busy \subseteq Others /\ cancelled = FALSE /\ ended = FALSE

Proceed ==
  /\ ~ended /\ busy # {}
  /\ busy' \subseteq Jobs \cup Others
  /\ cancelled' \in {cancelled, TRUE}
  /\ UNCHANGED ended

(* The end of the last job may itself be what cancels the rest. *)
End ==
  /\ ~ended
  /\ cancelled' \in {cancelled, TRUE}
  /\ \/ busy = {}
     \/ cancelled' /\ \A j, k \in busy \cap Jobs : j = k
  /\ busy' = {} /\ ended' = TRUE

FNext == Proceed \/ End

FSpec == FInit /\ [][FNext]_fvars
=============================================================================
