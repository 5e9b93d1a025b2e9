------------------------------ MODULE MCDapLink ------------------------------
(* Instances of DapLink for TLC.                                            *)
EXTENDS DapLink

CONSTANTS c1, s1, s2, a1

\* A request and the relay's rejoin, on the same channel.
OneChannel == {c1}
OneSender  == {s1}
OneJoiner  == {s2}
OneAsker   == {a1}
AllToOne   == [p \in {s1, s2} |-> c1]

=============================================================================
