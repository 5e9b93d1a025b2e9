---------------------------- MODULE MCRelayOutbox ----------------------------
(* Instances of RelayOutbox for TLC.                                        *)
EXTENDS RelayOutbox

CONSTANTS c1, m1, m2, m3

\* Three envelopes in one channel: a queue can hold two behind a sender.
OneChannel   == {c1}
ThreeInOne   == {m1, m2, m3}
ThreeInOneOf == [m \in ThreeInOne |-> c1]
TwoInOne     == {m1, m2}
TwoInOneOf   == [m \in TwoInOne |-> c1]

\* Envelopes differ by nothing but their names, so it is enough to name them in
\* the order in which Outbound takes them, and those it never takes last.
\* (SYMMETRY would be unsound for liveness.)
NamedInOrder == /\ m2 \in admitted => m1 \in admitted
                /\ m3 \in admitted => m2 \in admitted
OrderedSpec == Init /\ [][Next /\ NamedInOrder']_vars /\ Fairness

\* An environment in which nothing ever fails: the hub connects once and stays,
\* and takes each frame.
CalmNext ==
  \/ \E m \in Envelopes : Request(m)
  \/ \E p \in Procs : SendOk(p) \/ NextQueued(p) \/ QueueEmpty(p) \/ Exit(p)
  \/ Pump
  \/ (Connect \/ AnnounceOnline) /\ RelayRests
CalmSpec == Init /\ [][CalmNext]_vars /\ Fairness
            /\ \A p \in Procs : WF_vars(SendOk(p))

=============================================================================
