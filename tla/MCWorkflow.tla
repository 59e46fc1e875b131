----------------------------- MODULE MCWorkflow -----------------------------
(* The workflows and constants for model checking Workflow. *)
EXTENDS Workflow, TLC
CONSTANTS na, nb, nc, nd, ne

Base(kinds, wires) ==
  [kind |-> [n \in Nodes |-> IF n \in DOMAIN kinds THEN kinds[n] ELSE "job"],
   out |-> [n \in Nodes |-> IF n \in DOMAIN wires THEN wires[n] ELSE <<>>],
   start |-> na, repeat |-> 2, percent |-> 100, replays |-> {}, redirects |-> {},
   first_abort |-> FALSE, retries |-> 0]
To(n) == [to |-> n, on |-> "none"]
On(n, c1) == [to |-> n, on |-> c1]

(* A repeated job; its success runs an action through a decision. *)
Repeated ==
  [Base(na :> "trigger" @@ nb :> "repeat" @@ nd :> "decision" @@ ne :> "action",
        na :> <<To(nb)>> @@ nb :> <<To(nc)>> @@ nc :> <<On(nd, "continue"), On(nd, "error")>>
        @@ nd :> <<To(ne)>>) EXCEPT !.retries = 1, !.percent = 50]

(* The job before a controller and a second wire run the controller twice. *)
Again ==
  [Base(na :> "trigger" @@ nb :> "job" @@ nc :> "repeat" @@ nd :> "event" @@ ne :> "job",
        na :> <<To(nb), To(nc)>> @@ nb :> <<On(nc, "complete")>> @@ nc :> <<To(nd)>>
        @@ nd :> <<On(ne, "continue")>>) EXCEPT !.percent = 0]

(* So does this one with a split, whose second list may be empty. *)
SplitAgain ==
  [Again EXCEPT !.kind[nc] = "split", !.out[nd] = <<>>]

(* Two paths, one with a wait, meet in a join. *)
Joined ==
  [Base(na :> "trigger" @@ nb :> "wait" @@ nc :> "job" @@ nd :> "join" @@ ne :> "event",
        na :> <<To(nb), To(nc)>> @@ nb :> <<To(nd)>> @@ nc :> <<On(nd, "success")>>
        @@ nd :> <<To(ne)>>) EXCEPT !.first_abort = TRUE]

(* Replayed jobs of a repeat, then a multiplex. *)
Replayed ==
  [Base(na :> "trigger" @@ nb :> "repeat" @@ nc :> "event" @@ nd :> "multiplex" @@ ne :> "job",
        na :> <<To(nb)>> @@ nb :> <<To(nc)>> @@ nc :> <<On(nd, "continue")>> @@ nd :> <<To(ne)>>)
   EXCEPT !.replays = {nc}]

(* Two replays meet in a join. *)
ReplayJoined ==
  [Base(na :> "trigger" @@ nb :> "job" @@ nc :> "job" @@ nd :> "join" @@ ne :> "job",
        na :> <<To(nb), To(nc)>> @@ nb :> <<On(nd, "complete")>> @@ nc :> <<On(nd, "complete")>>
        @@ nd :> <<To(ne)>>) EXCEPT !.replays = {nb, nc}]

(* A split that manages its jobs, then one that does not. *)
Splits ==
  [Base(na :> "trigger" @@ nb :> "split" @@ nc :> "job" @@ nd :> "split" @@ ne :> "action",
        na :> <<To(nb)>> @@ nb :> <<To(nc)>> @@ nc :> <<On(nd, "complete"), On(ne, "continue")>>
        @@ nd :> <<To(ne)>>) EXCEPT !.percent = 0]

(* A failing job is run again after a wait, up to the limit; a jump leaves the loop. *)
Loop ==
  [Base(na :> "job" @@ nb :> "wait" @@ nc :> "job" @@ nd :> "join" @@ ne :> "multiplex",
        na :> <<On(nb, "error"), On(nd, "success")>> @@ nb :> <<To(na), To(nd)>>
        @@ nc :> <<On(nd, "complete")>>)
   EXCEPT !.redirects = {nc}]

(* The smallest set that a percentage of doubles is wrong for. *)
MCRoundsDown == {<<29, 50>>}

MCFlows == {Repeated, Again, Joined, Replayed, ReplayJoined, Splits, SplitAgain, Loop}
MCOnce  == {Again}
=============================================================================
