---------------------------- MODULE MCMembership ----------------------------
(* A small instance of Membership. *)
EXTENDS Membership, TLC

CONSTANTS o, a, g1, g2, c1, c2, p1, p2, p3
MCUsers == {o, a}
MCGuests == {g1, g2}
MCChans == {c1, c2}
MCProcs == {p1, p2, p3}
MCSymmetry == Permutations(MCGuests) \cup Permutations(MCChans) \cup Permutations(MCProcs)
=============================================================================
