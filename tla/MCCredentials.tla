---------------------------- MODULE MCCredentials ---------------------------
(* A small instance of Credentials. *)
EXTENDS Credentials, TLC

CONSTANTS p1, p2, t1, t2
MCProcs == {p1, p2}
MCTickets == {t1, t2}
MCSymmetry == Permutations(MCProcs) \cup Permutations(MCTickets)
=============================================================================
