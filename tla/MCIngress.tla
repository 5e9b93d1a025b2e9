------------------------------ MODULE MCIngress ------------------------------
(* A small instance of Ingress. *)
EXTENDS Ingress, TLC

CONSTANTS p1, p2, d1
MCProcs == {p1, p2}
MCDeliveries == {d1}
MCSymmetry == Permutations(MCProcs)
=============================================================================
