----------------------------- MODULE MCHistory -----------------------------
(* A small instance of History: two senders race past a cap of 0 in one        *)
(* channel.                                                                    *)
EXTENDS History, TLC

CONSTANTS s1, s2, e1, e2, e3
MCChans == {1, 2}
MCKept == {2}
MCCaps == {1, 2}   \* an inbox of two that is over-full, or fits
MCIds == {e1, e2, e3}
MCChanOf == [e \in MCIds |-> 1]
MCSenders == {s1, s2}
MCMarks == {-1, 1, 5}   \* below all, one there may be, above all
MCSymmetry == Permutations(MCIds) \cup Permutations(MCSenders)
=============================================================================
