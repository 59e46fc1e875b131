----------------------------- MODULE MCSchedule -----------------------------
(* Three events for model checking Schedule. *)
EXTENDS Schedule, TLC

Plain == [triggers |-> <<>>, every |-> 0, ranges |-> {}, blackouts |-> {}, precision |-> {},
          plugin |-> FALSE, startup |-> FALSE, activities |-> {}]

(* Every other one of the minutes but 3; it may be edited. *)
Report == [Plain EXCEPT !.triggers = <<[type |-> "schedule", minutes |-> Minutes]>>,
                        !.every = 2, !.blackouts = {<<3, 3>>}, !.startup = TRUE]
(* Every third second, in minutes of two, from the middle of minute 2 on. *)
Poll == [Plain EXCEPT !.triggers = <<[type |-> "interval", start |-> 5, duration |-> 3]>>,
                      !.activities = {"event_create"}]
(* Once, if a plugin agrees. *)
Once == [Plain EXCEPT !.triggers = <<[type |-> "single", at |-> 3]>>, !.plugin = TRUE,
                      !.ranges = {<<2, 4>>}]
MCSetup == "report" :> Report @@ "poll" :> Poll @@ "once" :> Once
=============================================================================
