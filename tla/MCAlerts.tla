------------------------------ MODULE MCAlerts ------------------------------
(***************************************************************************)
(* Instances of Alerts for TLC: a target-price alert and a percent-drop    *)
(* alert on a product whose best price moves between 1 and 2 or vanishes.  *)
(***************************************************************************)
EXTENDS Alerts

CONSTANTS a1, a2, j1, x1

TargetOf == [a \in Alert |-> IF a = a1 THEN 1 ELSE 0]
DropOf == [a \in Alert |-> IF a = a1 THEN 0 ELSE 50]
=============================================================================
