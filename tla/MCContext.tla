----------------------------- MODULE MCContext -----------------------------
(* Instances of Context for TLC.  One address is like another: the safety runs *)
(* use their symmetry.                                                         *)
EXTENDS Context, TLC

CONSTANTS w1, w2, p1, o1, o2, q1, q2, q3, q4, q5, q6

TwoWorkers  == {w1, w2}
OnePoster   == {p1}
OneObject   == {o1}
TwoObjects  == {o1, o2}
FourQueues  == {q1, q2, q3, q4}
SixQueues   == {q1, q2, q3, q4, q5, q6}

Symmetry == Permutations(Workers) \cup Permutations(Objects) \cup Permutations(Queues)
=============================================================================
