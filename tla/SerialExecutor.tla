--------------------------- MODULE SerialExecutor ---------------------------
(***************************************************************************)
(* What README.md promises of a SerializeObject, without saying how: the   *)
(* tasks posted to one object are run one at a time, in the order in which *)
(* they were accepted, each exactly once.  TaskSerializer.tla is shown to   *)
(* implement this module; that every task is run in the end is stated there. *)
(***************************************************************************)
EXTENDS Naturals, Sequences

CONSTANT Clients        \* whoever posts: io threads, the tasks themselves

VARIABLES
    submitted,          \* the clients of the accepted tasks, in acceptance order
    started,            \* how many of them have been started
    running             \* is the last one started still running?

vars == <<submitted, started, running>>

Init ==
    /\ submitted = <<>>
    /\ started = 0
    /\ running = FALSE

Submit(c) ==
    /\ submitted' = Append(submitted, c)
    /\ UNCHANGED <<started, running>>

Start ==
    /\ ~running
    /\ started < Len(submitted)
    /\ started' = started + 1
    /\ running' = TRUE
    /\ UNCHANGED submitted

Finish ==
    /\ running
    /\ running' = FALSE
    /\ UNCHANGED <<submitted, started>>

Next ==
    \/ \E c \in Clients : Submit(c)
    \/ Start
    \/ Finish

Spec == Init /\ [][Next]_vars
=============================================================================
