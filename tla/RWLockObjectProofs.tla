------------------------- MODULE RWLockObjectProofs -------------------------
(***************************************************************************)
(* Theorems about RWLockObject, for any number of threads and calls.  The   *)
(* three invariants support each other: the counters are exact, therefore   *)
(* the conditions of LockRead and LockWrite mean what they say, therefore a *)
(* writer is alone and whoever must be notified is.                         *)
(***************************************************************************)
EXTENDS RWLockObject, FiniteSetTheorems, TLAPS

IInv == TypeOK /\ CountsExact /\ Exclusion /\ NoLostWakeup

USE ThreadsAssumption, CallsAssumption

\* What the counters say about the sets of threads they count.
LEMMA Counted ==
    ASSUME TypeOK, CountsExact
    PROVE  /\ IsFiniteSet(In("reading")) /\ IsFiniteSet(Writers)
           /\ readerCount = 0 <=> In("reading") = {}
           /\ writerCount = 0 <=> Writers = {}
<1>1. In("reading") \in SUBSET Threads /\ Writers \in SUBSET Threads
  BY DEF In, Writers
<1>2. IsFiniteSet(In("reading")) /\ IsFiniteSet(Writers)
  BY <1>1, FS_Subset
<1> QED
  BY <1>2, FS_EmptySet DEF CountsExact

\* A thread that starts or stops reading changes the number of readers by one.
LEMMA Readers ==
    ASSUME TypeOK, CountsExact, NEW t \in Threads
    PROVE  /\ t \notin In("reading") => Cardinality(In("reading") \cup {t}) = readerCount + 1
           /\ t \in In("reading") => /\ Cardinality(In("reading") \ {t}) = readerCount - 1
                                     /\ readerCount - 1 \in Nat
<1>1. IsFiniteSet(In("reading"))
  BY Counted
<1>2. Cardinality(In("reading") \ {t}) \in Nat
  BY <1>1, FS_RemoveElement, FS_CardinalityType
<1> QED
  BY <1>1, <1>2, FS_AddElement, FS_RemoveElement DEF CountsExact, TypeOK

\* The same of writers.
LEMMA WritersCounted ==
    ASSUME TypeOK, CountsExact, NEW t \in Threads
    PROVE  /\ t \notin Writers => Cardinality(Writers \cup {t}) = writerCount + 1
           /\ t \in Writers => /\ Cardinality(Writers \ {t}) = writerCount - 1
                               /\ writerCount - 1 \in Nat
<1>1. IsFiniteSet(Writers)
  BY Counted
<1>2. Cardinality(Writers \ {t}) \in Nat
  BY <1>1, FS_RemoveElement, FS_CardinalityType
<1> QED
  BY <1>1, <1>2, FS_AddElement, FS_RemoveElement DEF CountsExact, TypeOK

LEMMA InitIInv == LockInit => IInv
<1> SUFFICES ASSUME LockInit PROVE IInv
  OBVIOUS
<1>1. In("reading") = {} /\ Writers = {} /\ In("writing") = {} /\ In("wwait") = {}
      /\ In("rwait") = {}
  BY DEF LockInit, In, Writers
<1>2. TypeOK
  BY DEF LockInit, TypeOK, States
<1>3. CountsExact
  BY <1>1, FS_EmptySet DEF LockInit, CountsExact
<1>4. Exclusion /\ NoLostWakeup
  BY <1>1 DEF LockInit, Exclusion, NoLostWakeup
<1> QED
  BY <1>2, <1>3, <1>4 DEF IInv

-----------------------------------------------------------------------------
\* LockRead and WakeRead: a thread that is neither reading nor a writer tests
\* the condition of LockRead.
LEMMA TryReadKeeps ==
    ASSUME IInv, NEW t \in Threads, st[t] \in {"idle", "rwoken"},
           TryRead(t), calls' \in [Threads -> Nat]
    PROVE  IInv'
<1> USE DEF IInv
<1>1. TypeOK'
  <2>1. st' \in [Threads -> States]
    BY DEF TryRead, TypeOK, States
  <2>2. readerCount' \in Nat /\ writerCount' \in Nat /\ writerActive' \in BOOLEAN
    BY DEF TryRead, TypeOK
  <2> QED
    BY <2>1, <2>2 DEF TypeOK
<1>2. Writers' = Writers /\ In("writing")' = In("writing")
      /\ In("wwait")' = In("wwait") /\ In("wwoken")' = In("wwoken")
  BY DEF TryRead, TypeOK, In, Writers
<1>3. CASE MayRead
  <2>1. In("reading")' = In("reading") \cup {t} /\ t \notin In("reading")
    BY <1>3 DEF TryRead, TypeOK, In
  <2>2. readerCount' = readerCount + 1 /\ writerCount' = writerCount
        /\ writerActive' = writerActive
    BY <1>3 DEF TryRead
  <2>3. CountsExact'
    BY <1>2, <2>1, <2>2, Readers DEF CountsExact
  <2>4. In("writing") = {}
    BY <1>3, Counted DEF MayRead, Writers
  <2>5. Exclusion'
    BY <2>4, <1>2 DEF Exclusion, In
  <2>6. In("rwait")' = {}
    BY <1>3 DEF NoLostWakeup, TryRead, TypeOK, In
  <2>7. NoLostWakeup'
    BY <2>2, <2>6, <1>1 DEF NoLostWakeup, MayWrite, TypeOK
  <2> QED
    BY <1>1, <2>3, <2>5, <2>7
<1>4. CASE ~MayRead
  <2>1. In("reading")' = In("reading")
    BY <1>4 DEF TryRead, TypeOK, In
  <2>2. readerCount' = readerCount /\ writerCount' = writerCount
        /\ writerActive' = writerActive
    BY <1>4 DEF TryRead
  <2>3. CountsExact'
    BY <1>2, <2>1, <2>2 DEF CountsExact
  <2>4. Exclusion'
    BY <2>1, <1>2 DEF Exclusion, In
  <2>5. NoLostWakeup'
    BY <1>2, <1>4, <2>2 DEF NoLostWakeup, MayWrite, MayRead
  <2> QED
    BY <1>1, <2>3, <2>4, <2>5
<1> QED
  BY <1>3, <1>4

\* LockWrite (count is one more) and WakeWrite (the thread is counted already).
LEMMA TryWriteKeeps ==
    ASSUME IInv, NEW t \in Threads, NEW count, TryWrite(t, count),
           calls' \in [Threads -> Nat],
           \/ st[t] = "idle" /\ count = writerCount + 1
           \/ st[t] = "wwoken" /\ count = writerCount
    PROVE  IInv'
<1> USE DEF IInv
<1>1. TypeOK'
  <2>1. st' \in [Threads -> States]
    BY DEF TryWrite, TypeOK, States
  <2>2. writerActive' \in BOOLEAN
    BY DEF TryWrite
  <2>3. readerCount' \in Nat /\ writerCount' \in Nat
    BY DEF TryWrite, TypeOK
  <2> QED
    BY <2>1, <2>2, <2>3 DEF TypeOK
<1>2. In("reading")' = In("reading") /\ In("rwait")' = In("rwait")
      /\ readerCount' = readerCount /\ writerCount' = count
  BY DEF TryWrite, TypeOK, In
<1>3. Writers' = Writers \cup {t}
  BY DEF TryWrite, TypeOK, In, Writers
<1>4. Cardinality(Writers') = count
  <2>1. CASE st[t] = "idle"
    BY <2>1, <1>3, WritersCounted DEF In, Writers
  <2>2. CASE st[t] = "wwoken"
    <3>1. Writers' = Writers
      BY <1>3, <2>2 DEF In, Writers
    <3> QED
      BY <2>2, <3>1 DEF CountsExact
  <2> QED
    BY <2>1, <2>2
<1>5. count # 0
  <2>1. CASE st[t] = "idle"
    BY <2>1 DEF TypeOK
  <2>2. CASE st[t] = "wwoken"
    BY <2>2, Counted DEF In, Writers
  <2> QED
    BY <2>1, <2>2
<1>6. CASE MayWrite
  <2>1. In("writing")' = In("writing") \cup {t}
    BY <1>6 DEF TryWrite, TypeOK, In
  <2>2. writerActive' = TRUE
    BY <1>6 DEF TryWrite, TypeOK
  <2>3. CountsExact'
    BY <1>2, <1>4, <2>1, <2>2 DEF CountsExact
  <2>4. In("reading") = {} /\ In("writing") = {}
    BY <1>6, Counted DEF MayWrite, CountsExact
  <2>5. Exclusion'
    BY <1>2, <2>1, <2>4 DEF Exclusion, In
  <2>6. NoLostWakeup'
    BY <1>2, <1>5, <2>2 DEF NoLostWakeup, MayWrite, MayRead
  <2> QED
    BY <1>1, <2>3, <2>5, <2>6
<1>7. CASE ~MayWrite
  <2>1. In("writing")' = In("writing")
    BY <1>7 DEF TryWrite, TypeOK, In
  <2>2. writerActive' = writerActive
    BY <1>7 DEF TryWrite, TypeOK
  <2>3. CountsExact'
    BY <1>2, <1>4, <2>1, <2>2 DEF CountsExact
  <2>4. Exclusion'
    BY <1>2, <2>1 DEF Exclusion, In
  <2>5. NoLostWakeup'
    BY <1>2, <1>5, <1>7, <2>2 DEF NoLostWakeup, MayWrite, MayRead
  <2> QED
    BY <1>1, <2>3, <2>4, <2>5
<1> QED
  BY <1>6, <1>7

LEMMA SpuriousKeeps ==
    ASSUME IInv, NEW t \in Threads, Spurious(t)
    PROVE  IInv'
<1> USE DEF IInv
<1>1. TypeOK'
  BY DEF Spurious, TypeOK, States
<1>2. In("reading")' = In("reading") /\ In("writing")' = In("writing")
      /\ Writers' = Writers
  BY DEF Spurious, TypeOK, In, Writers
<1>3. CountsExact' /\ Exclusion'
  BY <1>2 DEF Spurious, CountsExact, Exclusion, In
<1>4. In("rwait")' \subseteq In("rwait") /\ In("wwait")' \subseteq In("wwait")
      /\ In("wwoken") \subseteq In("wwoken")'
  BY DEF Spurious, TypeOK, In
<1>5. NoLostWakeup'
  BY <1>4 DEF Spurious, NoLostWakeup, MayRead, MayWrite
<1> QED
  BY <1>1, <1>3, <1>5

-----------------------------------------------------------------------------
\* The two ways of waking up others, when thread t has gone back to idle.
LEMMA NotifyKeeps ==
    ASSUME TypeOK, NEW t \in Threads, NEW left, left = [st EXCEPT ![t] = "idle"],
           st[t] \in {"reading", "writing"},
           NotifyWriter(left, In("wwait")) \/ NotifyReaders(left) \/ st' = left
    PROVE  /\ st' \in [Threads -> States]
           /\ In("reading")' = In("reading") \ {t}
           /\ In("writing")' = In("writing") \ {t}
           /\ Writers' = Writers \ {t}
<1>1. CASE \E u \in In("wwait") : st' = [left EXCEPT ![u] = "wwoken"]
  <2> PICK u \in In("wwait") : st' = [left EXCEPT ![u] = "wwoken"]
    BY <1>1
  <2>1. u # t /\ u \in Threads
    BY DEF In
  <2>2. st' = [v \in Threads |-> IF v = u THEN "wwoken" ELSE IF v = t THEN "idle" ELSE st[v]]
    BY <2>1 DEF TypeOK
  <2> QED
    BY <2>1, <2>2 DEF In, Writers, States, TypeOK
<1>2. CASE NotifyReaders(left)
  BY <1>2 DEF NotifyReaders, In, Writers, States, TypeOK
<1>3. CASE st' = left
  BY <1>3 DEF In, Writers, States, TypeOK
<1> QED
  BY <1>1, <1>2, <1>3 DEF NotifyWriter

\* notify_one, or nothing at all: nobody starts to wait, and a waiting writer that
\* is notified is on its way.
LEMMA WakesOne ==
    ASSUME TypeOK, NEW t \in Threads, NEW left, left = [st EXCEPT ![t] = "idle"],
           st[t] \in {"reading", "writing"},
           NotifyWriter(left, In("wwait")) \/ st' = left
    PROVE  /\ In("rwait")' \subseteq In("rwait") /\ In("wwait")' \subseteq In("wwait")
           /\ NotifyWriter(left, In("wwait")) /\ In("wwait") # {} => In("wwoken")' # {}
<1>1. CASE \E u \in In("wwait") : st' = [left EXCEPT ![u] = "wwoken"]
  <2> PICK u \in In("wwait") : st' = [left EXCEPT ![u] = "wwoken"]
    BY <1>1
  <2>1. u # t /\ u \in Threads
    BY DEF In
  <2>2. st' = [v \in Threads |-> IF v = u THEN "wwoken" ELSE IF v = t THEN "idle" ELSE st[v]]
    BY <2>1 DEF TypeOK
  <2> QED
    BY <2>1, <2>2 DEF In
<1>2. CASE st' = left /\ ~(\E u \in In("wwait") : st' = [left EXCEPT ![u] = "wwoken"])
  BY <1>2 DEF NotifyWriter, In, TypeOK
<1> QED
  BY <1>1, <1>2 DEF NotifyWriter

\* ~ReadObject.
LEMMA UnLockReadKeeps ==
    ASSUME IInv, NEW t \in Threads, UnLockRead(t)
    PROVE  IInv'
<1> DEFINE left == [st EXCEPT ![t] = "idle"]
<1> USE DEF IInv
<1>1. t \in In("reading") /\ t \notin Writers /\ st[t] = "reading"
  BY DEF UnLockRead, In, Writers
<1>2. /\ st' \in [Threads -> States]
      /\ In("reading")' = In("reading") \ {t}
      /\ In("writing")' = In("writing")
      /\ Writers' = Writers
  BY <1>1, NotifyKeeps DEF UnLockRead, Writers
<1>3. readerCount' = readerCount - 1 /\ readerCount - 1 \in Nat
      /\ writerCount' = writerCount /\ writerActive' = writerActive /\ calls' = calls
  BY <1>1, Readers DEF UnLockRead
<1>4. TypeOK'
  BY <1>2, <1>3 DEF TypeOK
<1>5. CountsExact'
  BY <1>1, <1>2, <1>3, Readers DEF CountsExact
<1>6. Exclusion'
  BY <1>2 DEF Exclusion, In
<1>7. In("rwait")' \subseteq In("rwait") /\ In("wwait")' \subseteq In("wwait")
  BY <1>1, WakesOne DEF UnLockRead
<1>8. LastReader /\ In("wwait") # {} => In("wwoken")' # {}
  BY <1>1, WakesOne DEF UnLockRead
<1>9. NoLostWakeup'
  BY <1>3, <1>7, <1>8 DEF NoLostWakeup, MayRead, MayWrite, LastReader
<1> QED
  BY <1>4, <1>5, <1>6, <1>9

\* ~WriteObject.
LEMMA UnLockWriteKeeps ==
    ASSUME IInv, NEW t \in Threads, UnLockWrite(t)
    PROVE  IInv'
<1> DEFINE left == [st EXCEPT ![t] = "idle"]
<1> USE DEF IInv
<1>1. t \in Writers /\ t \in In("writing") /\ t \notin In("reading") /\ st[t] = "writing"
  BY DEF UnLockWrite, In, Writers
<1>2. /\ st' \in [Threads -> States]
      /\ In("reading")' = In("reading")
      /\ In("writing")' = In("writing") \ {t}
      /\ Writers' = Writers \ {t}
  <2>1. NotifyWriter(left, In("wwait")) \/ NotifyReaders(left)
    BY DEF UnLockWrite
  <2> QED
    BY <1>1, <2>1, NotifyKeeps
<1>3. writerCount' = writerCount - 1 /\ writerCount - 1 \in Nat
      /\ readerCount' = readerCount /\ writerActive' = FALSE /\ calls' = calls
  BY <1>1, WritersCounted DEF UnLockWrite
<1>4. TypeOK'
  BY <1>2, <1>3 DEF TypeOK
<1>5. In("writing")' = {}
  BY <1>1, <1>2 DEF Exclusion, In
<1>6. CountsExact'
  BY <1>1, <1>2, <1>3, <1>5, WritersCounted DEF CountsExact
<1>7. Exclusion'
  BY <1>2 DEF Exclusion, In
<1>8. ASSUME WritersRemain PROVE NoLostWakeup'
  <2>1. writerCount' # 0
    BY <1>3, <1>8 DEF WritersRemain
  <2>2. In("wwait")' \subseteq In("wwait") /\ (In("wwait") # {} => In("wwoken")' # {})
    BY <1>1, <1>8, WakesOne DEF UnLockWrite
  <2> QED
    BY <2>1, <2>2 DEF NoLostWakeup, MayRead
<1>9. ASSUME ~WritersRemain PROVE NoLostWakeup'
  <2>1. writerCount' = 0
    BY <1>3, <1>9 DEF WritersRemain, TypeOK
  <2>2. Writers' = {}
    <3>1. IsFiniteSet(Writers \ {t})
      BY Counted, FS_RemoveElement
    <3>2. Cardinality(Writers \ {t}) = 0
      BY <1>1, <1>3, <2>1, WritersCounted
    <3> QED
      BY <1>2, <3>1, <3>2, FS_EmptySet
  <2>3. In("rwait")' = {}
    BY <1>1, <1>9 DEF UnLockWrite, NotifyReaders, In, TypeOK
  <2> QED
    BY <2>2, <2>3 DEF NoLostWakeup, Writers
<1> QED
  BY <1>4, <1>6, <1>7, <1>8, <1>9

-----------------------------------------------------------------------------
LEMMA NextKeeps == IInv /\ [LockNext]_lockVars => IInv'
<1> SUFFICES ASSUME IInv, [LockNext]_lockVars PROVE IInv'
  OBVIOUS
<1>1. ASSUME NEW t \in Threads, LockRead(t) PROVE IInv'
  BY <1>1, TryReadKeeps DEF LockRead, Call, IInv, TypeOK
<1>2. ASSUME NEW t \in Threads, WakeRead(t) PROVE IInv'
  BY <1>2, TryReadKeeps DEF WakeRead, IInv, TypeOK
<1>3. ASSUME NEW t \in Threads, LockWrite(t) PROVE IInv'
  BY <1>3, TryWriteKeeps DEF LockWrite, Call, IInv, TypeOK
<1>4. ASSUME NEW t \in Threads, WakeWrite(t) PROVE IInv'
  BY <1>4, TryWriteKeeps DEF WakeWrite, IInv, TypeOK
<1>5. CASE UNCHANGED lockVars
  BY <1>5 DEF lockVars, IInv, TypeOK, CountsExact, Exclusion, NoLostWakeup, In, Writers,
              MayRead, MayWrite
<1> QED
  BY <1>1, <1>2, <1>3, <1>4, <1>5, SpuriousKeeps, UnLockReadKeeps, UnLockWriteKeeps
    DEF LockNext, LockStep

LEMMA Inductive == LockSpec => []IInv
  BY InitIInv, NextKeeps, PTL DEF LockSpec

\* The counters and the waiting states of the lock keep their types: neither
\* _readerCount nor _writerCount ever falls below zero.
THEOREM TypeCorrect == LockSpec => []TypeOK
  BY Inductive, PTL DEF IInv

\* A writer between LockWrite and ~WriteObject is alone with the object, whatever
\* threads are notified, wake up spuriously or overtake a notified one.
THEOREM WriterAlone == LockSpec => []Exclusion
  BY Inductive, PTL DEF IInv

\* No notification is missing: no writer waits for a lock that is free without a
\* notified writer on its way, no reader waits when there is no writer.
THEOREM NobodyForgotten == LockSpec => []NoLostWakeup
  BY Inductive, PTL DEF IInv

\* _readerCount and _writerCount count the readers and the writers exactly.
THEOREM CountersExact == LockSpec => []CountsExact
  BY Inductive, PTL DEF IInv

\* A reader is let in only when no writer waits or is about to test again.
THEOREM WritersGoFirst == LockSpec => WritersFirst
<1> DEFINE First == \A t \in Threads :
                Overtaken(t) => In("wwait") \cup In("wwoken") = {}
<1>1. ASSUME IInv, [LockNext]_lockVars PROVE [First]_lockVars
  <2> SUFFICES ASSUME LockNext, NEW t \in Threads, Overtaken(t)
               PROVE  Writers = {}
    BY <1>1 DEF Writers
  <2> USE DEF IInv
  <2> PICK u \in Threads : LockRead(u) \/ LockWrite(u) \/ Spurious(u) \/ LockStep(u)
    BY DEF LockNext
  <2>1. CASE TryRead(u)
    <3>1. MayRead \/ st'[t] = st[t] \/ st'[t] = "rwait"
      BY <2>1, <1>1 DEF TryRead, TypeOK
    <3>2. MayRead
      BY <3>1 DEF Overtaken
    <3> QED
      BY <3>2, <1>1, Counted DEF MayRead
  <2>2. CASE TryWrite(u, writerCount) \/ TryWrite(u, writerCount + 1) \/ Spurious(u)
    BY <2>2, <1>1 DEF TryWrite, Spurious, Overtaken, TypeOK
  <2>3. CASE UnLockRead(u) \/ UnLockWrite(u)
    <3>1. t \in In("reading")
      BY <2>3, <1>1, NotifyKeeps DEF UnLockRead, UnLockWrite, In, Overtaken
    <3> QED
      BY <3>1 DEF In, Overtaken
  <2> QED
    BY <2>1, <2>2, <2>3 DEF LockRead, LockWrite, WakeRead, WakeWrite, LockStep
<1> QED
  BY <1>1, Inductive, PTL DEF LockSpec, WritersFirst
=============================================================================
