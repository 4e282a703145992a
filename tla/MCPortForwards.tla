----------------------------- MODULE MCPortForwards -----------------------------
(* A small instance of PortForwards for TLC: two jobs, one of them the panel's, *)
(* which has a second port to move to.                                          *)
EXTENDS PortForwards

TwoJobs == <<"mlflow", "kagent-ui">>
TwoRanges == [k \in {"mlflow", "kagent-ui"} |-> IF k = "mlflow" THEN {1} ELSE {2, 3}]
=============================================================================
