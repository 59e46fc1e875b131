------------------------------ MODULE MCAlerts ------------------------------
(* The invocations of Alerts as model values. *)
EXTENDS Alerts
CONSTANTS i1, i2, i3
=============================================================================
