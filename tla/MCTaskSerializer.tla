------------------------- MODULE MCTaskSerializer -------------------------
(* Instances of TaskSerializer for TLC: two io threads that post from outside *)
(* and two Context threads whose tasks may post to their own object once.     *)
EXTENDS TaskSerializer

CONSTANTS p1, p2, w1, w2

MCPosters == {p1, p2}
MCWorkers == {w1, w2}

\* Every thread posts, one io thread twice.
MCBudget == [t \in MCPosters \cup MCWorkers |-> IF t = p1 THEN 2 ELSE 1]

\* Enough for one task to throw while another waits.
MCSmallBudget == [t \in MCPosters \cup MCWorkers |-> IF t = w2 THEN 0 ELSE 1]
=============================================================================
