------------------------------ MODULE MCSockets ------------------------------
(* Instances of Sockets for TLC.                                            *)
EXTENDS Sockets

CONSTANTS k1, k2

TwoSockets == {k1, k2}
OneSocket  == {k1}

=============================================================================
