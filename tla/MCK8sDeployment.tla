--------------------------- MODULE MCK8sDeployment ---------------------------
(* One flow, or two, and two images. *)
EXTENDS K8sDeployment, TLC

CONSTANTS f1, f2, a, b, p1, p2

OneFlow   == {f1}
TwoFlows  == {f1, f2}
TwoImages == {a, b}
TwoPods   == {p1, p2}
All       == {"request", "delete", "touch"}
Nothing   == {}
=============================================================================
