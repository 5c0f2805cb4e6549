---------------------------- MODULE RWLockObject ----------------------------
(***************************************************************************)
(* Core/lock/RWLockObject.h: the readers/writer lock around the maps of     *)
(* Base/ObjectManager.h, made of one mutex and two condition variables.     *)
(*                                                                          *)
(* Everything between taking _mtx and giving it back (at the end of the     *)
(* function or by waiting) is one step.  A waiting thread is notified, or   *)
(* wakes up spuriously as the standard allows; then it takes _mtx again and *)
(* tests its condition.                                                     *)
(*                                                                          *)
(* The names of the specification begin with Lock: MCBase extends this module *)
(* beside AwaitTask.                                                        *)
(***************************************************************************)
EXTENDS Integers, FiniteSets

CONSTANTS
    Threads,
    Calls           \* bound: LockRead and LockWrite calls of each thread

ASSUME ThreadsAssumption == IsFiniteSet(Threads)
ASSUME CallsAssumption   == Calls \in Nat

VARIABLES
    st,             \* where each thread is
    readerCount, writerCount, writerActive,
    calls           \* [Threads -> Nat]: calls so far

lockVars == <<st, readerCount, writerCount, writerActive, calls>>

\* rwait, wwait: in _readerCV, _writerCV; rwoken, wwoken: about to test again.
States == {"idle", "rwait", "rwoken", "reading", "wwait", "wwoken", "writing"}

In(s)   == {t \in Threads : st[t] = s}
Writers == In("wwait") \cup In("wwoken") \cup In("writing")

TypeOK ==
    /\ st \in [Threads -> States]
    /\ readerCount \in Nat /\ writerCount \in Nat
    /\ writerActive \in BOOLEAN
    /\ calls \in [Threads -> Nat]

LockInit ==
    /\ st = [t \in Threads |-> "idle"]
    /\ readerCount = 0 /\ writerCount = 0 /\ writerActive = FALSE
    /\ calls = [t \in Threads |-> 0]

-----------------------------------------------------------------------------
MutMayRead == ~writerActive

\* The condition LockRead waits for.
MayRead == writerCount = 0

\* Tests the condition: goes on as a reader or (back) into _readerCV.
TryRead(t) ==
    /\ st' = [st EXCEPT ![t] = IF MayRead THEN "reading" ELSE "rwait"]
    /\ readerCount' = IF MayRead THEN readerCount + 1 ELSE readerCount
    /\ UNCHANGED <<writerCount, writerActive>>

Call(t) ==
    /\ st[t] = "idle"
    /\ calls[t] < Calls
    /\ calls' = [calls EXCEPT ![t] = @ + 1]

LockRead(t) == Call(t) /\ TryRead(t)

WakeRead(t) == st[t] = "rwoken" /\ TryRead(t) /\ UNCHANGED calls

MutMayWrite == ~writerActive

\* The condition LockWrite waits for.
MayWrite == readerCount = 0 /\ ~writerActive

\* As TryRead; count is _writerCount with this writer in it.
TryWrite(t, count) ==
    /\ st' = [st EXCEPT ![t] = IF MayWrite THEN "writing" ELSE "wwait"]
    /\ writerCount' = count
    /\ writerActive' = (writerActive \/ MayWrite)
    /\ UNCHANGED readerCount

MutLockWrite(t) == Call(t) /\ TryWrite(t, writerCount)

LockWrite(t) == Call(t) /\ TryWrite(t, writerCount + 1)

WakeWrite(t) == st[t] = "wwoken" /\ TryWrite(t, writerCount) /\ UNCHANGED calls

\* A wakeup without a notification.
Spurious(t) ==
    /\ st[t] \in {"rwait", "wwait"}
    /\ st' = [st EXCEPT ![t] = IF st[t] = "rwait" THEN "rwoken" ELSE "wwoken"]
    /\ UNCHANGED <<readerCount, writerCount, writerActive, calls>>

\* _writerCV.notify_one(): nobody is there, or any one of those who are wakes up.
NotifyWriter(s, waiting) ==
    IF waiting = {} THEN st' = s
    ELSE \E u \in waiting : st' = [s EXCEPT ![u] = "wwoken"]

\* _readerCV.notify_all()
NotifyReaders(s) ==
    st' = [u \in Threads |-> IF s[u] = "rwait" THEN "rwoken" ELSE s[u]]

MutLastReader == readerCount = 0

\* --_readerCount == 0
LastReader == readerCount - 1 = 0

UnLockRead(t) ==
    LET left == [st EXCEPT ![t] = "idle"] IN
    /\ st[t] = "reading"
    /\ readerCount' = readerCount - 1
    /\ IF LastReader THEN NotifyWriter(left, In("wwait")) ELSE st' = left
    /\ UNCHANGED <<writerCount, writerActive, calls>>

MutWritersRemain == writerCount > 0

\* --_writerCount > 0
WritersRemain == writerCount - 1 > 0

UnLockWrite(t) ==
    LET left == [st EXCEPT ![t] = "idle"] IN
    /\ st[t] = "writing"
    /\ writerActive' = FALSE
    /\ writerCount' = writerCount - 1
    /\ IF WritersRemain THEN NotifyWriter(left, In("wwait")) ELSE NotifyReaders(left)
    /\ UNCHANGED <<readerCount, calls>>

-----------------------------------------------------------------------------
\* What a thread does once it is inside one of the functions or holds the lock.
LockStep(t) == WakeRead(t) \/ WakeWrite(t) \/ UnLockRead(t) \/ UnLockWrite(t)

LockNext == \E t \in Threads :
    LockRead(t) \/ LockWrite(t) \/ Spurious(t) \/ LockStep(t)

LockSpec == LockInit /\ [][LockNext]_lockVars

\* Woken threads get the mutex and holders give the lock back; nobody has to call
\* and nobody has to wake up spuriously.
LockFairness == \A t \in Threads : WF_lockVars(LockStep(t))

-----------------------------------------------------------------------------
(* Properties                                                               *)

\* A writer is alone with the object: between LockWrite and ~WriteObject no other
\* thread is between LockRead and ~ReadObject or LockWrite and ~WriteObject.
Exclusion ==
    \A t, u \in Threads :
        st[t] = "writing" /\ st[u] \in {"reading", "writing"} => t = u

\* No lost wakeup: if the lock is free for a writer in _writerCV, a notified writer
\* is on its way (to take the lock and notify the next one when it leaves); nobody
\* is left in _readerCV when no writer wants the lock.
NoLostWakeup ==
    /\ In("wwait") # {} /\ MayWrite => In("wwoken") # {}
    /\ In("rwait") # {} => ~MayRead

\* _readerCount and _writerCount are exactly the readers and the writers, those
\* that wait included, so neither ever goes below zero.
CountsExact ==
    /\ readerCount = Cardinality(In("reading"))
    /\ writerCount = Cardinality(Writers)
    /\ writerActive = (In("writing") # {})

\* A writer that has announced itself is never overtaken by a reader.
Overtaken(t) == st[t] \in {"idle", "rwoken"} /\ st'[t] = "reading"
WritersFirst ==
    [][\A t \in Threads : Overtaken(t) => In("wwait") \cup In("wwoken") = {}]_lockVars

\* Whoever waits for the lock gets it, when the threads make finitely many calls.
EveryoneServed ==
    \A t \in Threads : st[t] \notin {"idle", "reading", "writing"}
                            ~> st[t] \in {"reading", "writing"}
=============================================================================
