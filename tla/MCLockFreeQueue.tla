-------------------------- MODULE MCLockFreeQueue --------------------------
(* Ways to use LockFreeQueue: pointers with one producer and two consumers,     *)
(* producers that only meet each other, and a queue of tasks.                  *)
EXTENDS LockFreeQueue
CONSTANTS p1, p2, p3, c1, c2
AllProducers == {p1, p2, p3}
TwoConsumers == {c1, c2}
Setup(ts, n, s) == [threads |-> ts, pushes |-> n, steals |-> s]
\* Pointers with two consumers, pushes alone, tasks with the one consumer
\* TaskSerializer::Run demands.
SafeSetups   == {Setup({p1, c1, c2}, 3, FALSE), Setup({p1, p2, p3}, 1, FALSE),
                 Setup({p1, c1}, 3, TRUE)}
\* The task queue of a SerializeObject.
TaskSetups   == {Setup({p1, p2, c1}, 1, TRUE)}
=============================================================================
