----------------------------- MODULE FifoQueue -----------------------------
(***************************************************************************)
(* What the users of LockFreeQueue take it for: a queue that delivers every *)
(* accepted value once and in the order of acceptance.                      *)
(***************************************************************************)
EXTENDS Naturals, Sequences

CONSTANT Values

VARIABLES
    accepted,       \* the values pushed, in order
    delivered       \* the values popped, in order

vars == <<accepted, delivered>>

Init == accepted = <<>> /\ delivered = <<>>

Enqueue(v) ==
    /\ accepted' = Append(accepted, v)
    /\ UNCHANGED delivered

Dequeue ==
    /\ Len(delivered) < Len(accepted)
    /\ delivered' = Append(delivered, accepted[Len(delivered) + 1])
    /\ UNCHANGED accepted

Next == Dequeue \/ \E v \in Values : Enqueue(v)

Spec == Init /\ [][Next]_vars

\* Consumers that keep asking.
Delivering == WF_vars(Dequeue)
=============================================================================
