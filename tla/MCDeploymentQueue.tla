-------------------------- MODULE MCDeploymentQueue --------------------------
(* DeploymentQueue on small instances. *)
EXTENDS DeploymentQueue, TLC

CONSTANTS p1, p2, w1, w2, w3, w4

\* Two processes: each with one or two calls of reserve.
OwnerOfTwo == (w1 :> p1) @@ (w3 :> p2)
OwnerOfThree == (w1 :> p1) @@ (w2 :> p1) @@ (w3 :> p2)
OwnerOfFour == OwnerOfThree @@ (w4 :> p2)
=============================================================================
