----------------------------- MODULE MCHandover -----------------------------
(* Small instances of Handover for TLC.                                    *)
EXTENDS Handover, TLC

CONSTANTS a, b, release1, release2, task1, task2

\* One process of each of two deployments.
TwoDeployments == (a :> release1) @@ (b :> release2)
TwoTasks == (a :> task1) @@ (b :> task2)

OneDeployment == a :> release1
OneTask == a :> task1
=============================================================================
