------------------------ MODULE TaskSerializerProofs ------------------------
(***************************************************************************)
(* For any number of posting threads, Context threads, posts and exceptions *)
(* at most one thread is inside Run of a SerializeObject.  The inductive    *)
(* invariant is OneToken: the right to run the object is a token,           *)
(* created by the one fetch_add that turns _taskCount from 0 to 1 and kept   *)
(* until a fetch_sub leaves nothing; while it exists _taskCount >= 1, so no  *)
(* second fetch_add can return 1.                                           *)
(***************************************************************************)
EXTENDS TaskSerializer, FiniteSetTheorems, TLAPS

\* The nodes a Run still has to pop are all counted in _size.
BatchCounted ==
    \A w \in Workers :
        /\ wpc[w] = "loop" => wsize[w] - wdone[w] <= size
        /\ wpc[w] = "exec" => wsize[w] - wdone[w] <= size + 1

IInv == TypeOK /\ OneToken /\ BatchCounted

\* The initial state has the types of TaskSerializer.h's members and no token.
LEMMA InitIInv == Init => IInv
BY BudgetAssumption DEF Init, IInv, TypeOK, OneToken, BatchCounted, SerialExecution,
    Active, Scheduling, PostPC, RunPC, Threads

\* Every step of Post and Run keeps the types.
LEMMA NextTypeOK == TypeOK /\ BatchCounted /\ [Next]_vars => TypeOK'
<1> SUFFICES ASSUME TypeOK, BatchCounted, [Next]_vars PROVE TypeOK'
  OBVIOUS
<1> USE DEF TypeOK, PostPC, RunPC
<1>1. ASSUME NEW t \in Threads, PostPush(t) PROVE TypeOK'
  BY <1>1 DEF PostPush, MayPost
<1>2. ASSUME NEW t \in Threads, PostSize(t) PROVE TypeOK'
  BY <1>2 DEF PostSize
<1>3. ASSUME NEW t \in Threads, PostCount(t) PROVE TypeOK'
  BY <1>3 DEF PostCount
<1>4. ASSUME NEW t \in Threads, PostSchedule(t) PROVE TypeOK'
  BY <1>4 DEF PostSchedule
<1>5. ASSUME NEW w \in Workers, Take(w) PROVE TypeOK'
  BY <1>5 DEF Take
<1>6. ASSUME NEW w \in Workers, RunSize(w) PROVE TypeOK'
  BY <1>6 DEF RunSize
<1>7. ASSUME NEW w \in Workers, RunPop(w) PROVE TypeOK'
  BY <1>7 DEF RunPop, BatchCounted
<1>8. ASSUME NEW w \in Workers, RunTask(w) PROVE TypeOK'
  BY <1>8 DEF RunTask
<1>9. ASSUME NEW w \in Workers, TaskThrows(w) PROVE TypeOK'
  BY <1>9, ThrowsAssumption DEF TaskThrows
<1>10. ASSUME NEW w \in Workers, RunEnd(w) PROVE TypeOK'
  BY <1>10 DEF RunEnd, AfterRun
<1>11. ASSUME NEW w \in Workers, Resched(w) PROVE TypeOK'
  BY <1>11 DEF Resched
<1>12. CASE UNCHANGED vars
  BY <1>12 DEF vars
<1> QED
  BY <1>1, <1>2, <1>3, <1>4, <1>5, <1>6, <1>7, <1>8, <1>9, <1>10, <1>11, <1>12
    DEF Next, PostStep, RunStep

\* Only the worker that holds the token pops, so what its batch counted stays.
LEMMA NextBatchCounted ==
    TypeOK /\ OneToken /\ BatchCounted /\ [Next]_vars => BatchCounted'
<1> SUFFICES ASSUME TypeOK, OneToken, BatchCounted, [Next]_vars
             PROVE  BatchCounted'
  OBVIOUS
<1> USE DEF TypeOK, BatchCounted, PostPC, RunPC
<1>1. ASSUME NEW t \in Threads, PostPush(t) PROVE BatchCounted'
  BY <1>1 DEF PostPush, MayPost
<1>2. ASSUME NEW t \in Threads, PostSize(t) PROVE BatchCounted'
  BY <1>2 DEF PostSize
<1>3. ASSUME NEW t \in Threads, PostCount(t) PROVE BatchCounted'
  BY <1>3 DEF PostCount
<1>4. ASSUME NEW t \in Threads, PostSchedule(t) PROVE BatchCounted'
  BY <1>4 DEF PostSchedule
<1>5. ASSUME NEW w \in Workers, Take(w) PROVE BatchCounted'
  BY <1>5 DEF Take
<1>6. ASSUME NEW w \in Workers, RunSize(w) PROVE BatchCounted'
  BY <1>6 DEF RunSize
<1>7. ASSUME NEW w \in Workers, RunPop(w) PROVE BatchCounted'
  <2>1. \A v \in Workers : wpc[v] # "idle" => v = w
    BY <1>7 DEF RunPop, OneToken, SerialExecution, Active
  <2> QED
    BY <1>7, <2>1 DEF RunPop
<1>8. ASSUME NEW w \in Workers, RunTask(w) PROVE BatchCounted'
  BY <1>8 DEF RunTask
<1>9. ASSUME NEW w \in Workers, TaskThrows(w) PROVE BatchCounted'
  BY <1>9 DEF TaskThrows
<1>10. ASSUME NEW w \in Workers, RunEnd(w) PROVE BatchCounted'
  BY <1>10 DEF RunEnd
<1>11. ASSUME NEW w \in Workers, Resched(w) PROVE BatchCounted'
  BY <1>11 DEF Resched
<1>12. CASE UNCHANGED vars
  BY <1>12 DEF vars
<1> QED
  BY <1>1, <1>2, <1>3, <1>4, <1>5, <1>6, <1>7, <1>8, <1>9, <1>10, <1>11, <1>12
    DEF Next, PostStep, RunStep

\* No step creates a second token or leaves a token behind with _taskCount < 1.
LEMMA NextOneToken == TypeOK /\ OneToken /\ [Next]_vars => OneToken'
<1> SUFFICES ASSUME TypeOK, OneToken, [Next]_vars PROVE OneToken'
  OBVIOUS
<1> USE DEF TypeOK, OneToken, SerialExecution, Active, Scheduling, PostPC, RunPC
<1>1. ASSUME NEW t \in Threads, PostPush(t) PROVE OneToken'
  BY <1>1 DEF PostPush, MayPost
<1>2. ASSUME NEW t \in Threads, PostSize(t) PROVE OneToken'
  BY <1>2 DEF PostSize
<1>3. ASSUME NEW t \in Threads, PostCount(t) PROVE OneToken'
  <2>1. CASE taskCount = 0
    \* The fetch_add returns 1: there was no token, now t has it.
    <3>1. /\ ctx = 0
          /\ \A s \in Threads : ~Scheduling(s)
          /\ \A w \in Workers : ~Active(w)
      BY <2>1
    <3>2. /\ taskCount' = 1
          /\ ppc' = [ppc EXCEPT ![t] = "schedule"]
          /\ UNCHANGED <<ctx, wpc>>
      BY <1>3, <2>1 DEF PostCount, FirstTask
    <3> QED
      BY <3>1, <3>2
  <2>2. CASE taskCount # 0
    \* t only leaves Post; a token there may be keeps a count of at least 1.
    <3>1. taskCount + 1 # 1
      BY <2>2
    <3>2. /\ taskCount' = taskCount + 1
          /\ ppc' = [ppc EXCEPT ![t] = "idle"]
          /\ UNCHANGED <<ctx, wpc>>
      BY <1>3, <3>1 DEF PostCount, FirstTask
    <3> QED
      BY <3>2
  <2> QED
    BY <2>1, <2>2
<1>4. ASSUME NEW t \in Threads, PostSchedule(t) PROVE OneToken'
  \* The token moves from t into the Context.
  <2>1. /\ taskCount >= 1
        /\ ctx = 0
        /\ \A w \in Workers : ~Active(w)
        /\ \A s \in Threads : Scheduling(s) => s = t
    BY <1>4 DEF PostSchedule
  <2>2. /\ ctx' = 1
        /\ ppc' = [ppc EXCEPT ![t] = "idle"]
        /\ UNCHANGED <<taskCount, wpc>>
    BY <1>4, <2>1 DEF PostSchedule
  <2> QED
    BY <2>1, <2>2
<1>5. ASSUME NEW w \in Workers, Take(w) PROVE OneToken'
  \* The token moves from the Context to w.
  <2>1. /\ ctx = 1
        /\ taskCount >= 1
        /\ \A s \in Threads : ~Scheduling(s)
        /\ \A v \in Workers : ~Active(v)
    BY <1>5 DEF Take
  <2>2. /\ ctx' = 0
        /\ wpc' = [wpc EXCEPT ![w] = "taken"]
        /\ UNCHANGED <<taskCount, ppc>>
    BY <1>5, <2>1 DEF Take
  <2> QED
    BY <2>1, <2>2
<1>6. ASSUME NEW w \in Workers, RunSize(w) PROVE OneToken'
  BY <1>6 DEF RunSize
<1>7. ASSUME NEW w \in Workers, RunPop(w) PROVE OneToken'
  BY <1>7 DEF RunPop
<1>8. ASSUME NEW w \in Workers, RunTask(w) PROVE OneToken'
  BY <1>8 DEF RunTask
<1>9. ASSUME NEW w \in Workers, TaskThrows(w) PROVE OneToken'
  BY <1>9 DEF TaskThrows
<1>10. ASSUME NEW w \in Workers, RunEnd(w) PROVE OneToken'
  \* w holds the token and gives it up only when nothing remains.
  <2>1. /\ ctx = 0
        /\ \A s \in Threads : ~Scheduling(s)
        /\ \A v \in Workers : Active(v) => v = w
    BY <1>10 DEF RunEnd
  <2>2. UNCHANGED <<ctx, ppc>>
    BY <1>10 DEF RunEnd
  <2>3. CASE TasksRemain(AfterRun(wdone[w]))
    <3>1. wpc' = [wpc EXCEPT ![w] = "resched"] /\ taskCount' > 0
      BY <1>10, <2>3 DEF RunEnd, TasksRemain
    <3>2. taskCount' \in Int
      BY <1>10 DEF RunEnd, AfterRun
    <3> QED
      BY <2>1, <2>2, <3>1, <3>2
  <2>4. CASE ~TasksRemain(AfterRun(wdone[w]))
    <3>1. wpc' = [wpc EXCEPT ![w] = "idle"]
      BY <1>10, <2>4 DEF RunEnd
    <3>2. \A v \in Workers : ~Active(v)'
      BY <2>1, <3>1
    <3> QED
      BY <2>1, <2>2, <3>2
  <2> QED
    BY <2>3, <2>4
<1>11. ASSUME NEW w \in Workers, Resched(w) PROVE OneToken'
  \* The token moves from w back into the Context.
  <2>1. /\ ctx = 0
        /\ taskCount >= 1
        /\ \A s \in Threads : ~Scheduling(s)
        /\ \A v \in Workers : Active(v) => v = w
    BY <1>11 DEF Resched
  <2>2. /\ ctx' = 1
        /\ wpc' = [wpc EXCEPT ![w] = "idle"]
        /\ UNCHANGED <<taskCount, ppc>>
    BY <1>11, <2>1 DEF Resched
  <2> QED
    BY <2>1, <2>2
<1>12. CASE UNCHANGED vars
  BY <1>12 DEF vars
<1> QED
  BY <1>1, <1>2, <1>3, <1>4, <1>5, <1>6, <1>7, <1>8, <1>9, <1>10, <1>11, <1>12
    DEF Next, PostStep, RunStep

LEMMA Inductive == Spec => []IInv
<1>1. IInv /\ [Next]_vars => IInv'
  BY NextTypeOK, NextBatchCounted, NextOneToken DEF IInv
<1> QED
  BY InitIInv, <1>1, PTL DEF Spec

\* The members of TaskSerializer and the locals of Post and Run keep their types
\* in every reachable state; in particular GetSize() is never negative.
THEOREM TypeCorrect == Spec => []TypeOK
BY Inductive, PTL DEF IInv

\* The token discipline holds in every reachable state.
THEOREM TokenUnique == Spec => []OneToken
BY Inductive, PTL DEF IInv

\* README.md "Context-Based Execution": no two threads are ever inside Run of the
\* same object, whatever the number of threads, posts and exceptions.
THEOREM RunsSerially == Spec => []SerialExecution
<1>1. OneToken => SerialExecution
  BY DEF OneToken
<1> QED
  BY TokenUnique, <1>1, PTL
-----------------------------------------------------------------------------
(* Run always finds a task.                                                 *)

\* Threads between the link of their node and their _size.fetch_add.
Unsized == {t \in Threads : ppc[t] = "linked"}

\* _size is the length of the queue minus the nodes not counted yet.
SizeExact == size + Cardinality(Unsized) = QueueLen

LEMMA UnsizedFinite == IsFiniteSet(Unsized) /\ Cardinality(Unsized) \in Nat
<1>1. IsFiniteSet(Unsized)
  BY ThreadsAssumption, FS_Subset DEF Unsized
<1> QED
  BY <1>1, FS_CardinalityType

\* A link adds one node and one uncounted thread, a fetch_add takes the thread
\* away, a Pop takes one off both sides.
LEMMA NextSizeExact ==
    TypeOK /\ TypeOK' /\ SizeExact /\ [Next]_vars => SizeExact'
<1> SUFFICES ASSUME TypeOK, TypeOK', SizeExact, [Next]_vars PROVE SizeExact'
  OBVIOUS
<1>t. /\ ppc \in [Threads -> PostPC]
      /\ links \in Seq(Threads)
      /\ popped \in Nat
      /\ size \in Nat
  BY DEF TypeOK
<1>c. Cardinality(Unsized) \in Nat /\ Len(links) \in Nat
  BY <1>t, UnsizedFinite
<1> USE DEF SizeExact, QueueLen
<1>1. ASSUME NEW t \in Threads, PostPush(t) PROVE SizeExact'
  <2>1. t \notin Unsized /\ Unsized' = Unsized \cup {t}
    BY <1>1, <1>t DEF PostPush, MayPost, Unsized, PostPC
  <2>2. Cardinality(Unsized') = Cardinality(Unsized) + 1
    BY <2>1, UnsizedFinite, FS_AddElement
  <2>3. Len(links') = Len(links) + 1 /\ UNCHANGED <<popped, size>>
    BY <1>1, <1>t DEF PostPush
  <2> QED
    BY <1>t, <1>c, <2>2, <2>3
<1>2. ASSUME NEW t \in Threads, PostSize(t) PROVE SizeExact'
  <2>1. t \in Unsized /\ Unsized' = Unsized \ {t}
    BY <1>2, <1>t DEF PostSize, Unsized, PostPC
  <2>2. Cardinality(Unsized') = Cardinality(Unsized) - 1
    BY <2>1, UnsizedFinite, FS_RemoveElement
  <2>3. size' = size + 1 /\ UNCHANGED <<links, popped>>
    BY <1>2 DEF PostSize
  <2> QED
    BY <1>t, <1>c, <2>2, <2>3
<1>3. ASSUME NEW t \in Threads, PostCount(t) \/ PostSchedule(t) PROVE SizeExact'
  <2>1. /\ ppc[t] # "linked"
        /\ \E pc \in {"schedule", "idle"} : ppc' = [ppc EXCEPT ![t] = pc]
        /\ UNCHANGED <<links, popped, size>>
    BY <1>3 DEF PostCount, PostSchedule
  <2>2. Unsized' = Unsized
    BY <2>1, <1>t DEF Unsized, PostPC
  <2> QED
    BY <2>1, <2>2
<1>4. ASSUME NEW w \in Workers, RunPop(w) PROVE SizeExact'
  <2>1. /\ popped' = popped + 1
        /\ size' = size - 1
        /\ UNCHANGED <<links, ppc>>
    BY <1>4 DEF RunPop
  <2>2. Unsized' = Unsized
    BY <2>1 DEF Unsized
  <2> QED
    BY <1>t, <1>c, <2>1, <2>2
<1>5. ASSUME UNCHANGED <<links, popped, size, ppc>> PROVE SizeExact'
  BY <1>5 DEF Unsized
<1>6. ASSUME NEW w \in Workers,
             \/ Take(w) \/ RunSize(w) \/ RunTask(w)
             \/ TaskThrows(w) \/ RunEnd(w) \/ Resched(w)
      PROVE  UNCHANGED <<links, popped, size, ppc>>
  BY <1>6 DEF Take, RunSize, RunTask, TaskThrows, RunEnd, Resched
<1> QED
  BY <1>1, <1>2, <1>3, <1>4, <1>5, <1>6 DEF Next, PostStep, RunStep, vars

\* Run's Pop never fails: the else branch of TaskSerializer::Run, which would
\* destroy an AnyTask with an uninitialised pointer, is unreachable.
THEOREM RunAlwaysPops == Spec => []PopNeverEmpty
<1>1. Init => SizeExact
  <2>1. ASSUME Init PROVE Unsized = {}
    BY <2>1 DEF Init, Unsized
  <2> QED
    BY <2>1, FS_EmptySet DEF Init, SizeExact, QueueLen
<1>2. IInv /\ SizeExact => PopNeverEmpty
  <2> SUFFICES ASSUME IInv, SizeExact, NEW w \in Workers,
                      wpc[w] = "loop", wdone[w] < wsize[w]
               PROVE  QueueLen > 0
    BY DEF PopNeverEmpty
  <2>1. size > 0
    BY DEF IInv, TypeOK, BatchCounted
  <2> QED
    BY <2>1, UnsizedFinite DEF SizeExact, IInv, TypeOK
<1> QED
  BY <1>1, <1>2, NextSizeExact, Inductive, PTL DEF Spec, IInv

-----------------------------------------------------------------------------
(* _taskCount accounts for every task, and no task is left behind.          *)

LEMMA UncountedFinite == IsFiniteSet(Uncounted) /\ Cardinality(Uncounted) \in Nat
<1>1. IsFiniteSet(Uncounted)
  BY ThreadsAssumption, FS_Subset DEF Uncounted
<1> QED
  BY <1>1, FS_CardinalityType

\* A link adds a node nobody counted, the fetch_add counts it, a Pop moves it into
\* the batch of the one Run there is, and that Run's fetch_sub or the exception
\* that leaves it settles the batch.
LEMMA NextCountExact ==
    TypeOK /\ OneToken /\ CountExact /\ [Next]_vars => CountExact'
<1> SUFFICES ASSUME TypeOK, OneToken, CountExact, [Next]_vars PROVE CountExact'
  OBVIOUS
<1>t. /\ ppc \in [Threads -> PostPC] /\ wpc \in [Workers -> RunPC]
      /\ wdone \in [Workers -> Nat]
      /\ links \in Seq(Threads) /\ Len(links) \in Nat
      /\ popped \in Nat /\ leaked \in Nat /\ taskCount \in Int
  BY DEF TypeOK
<1>c. Cardinality(Uncounted) \in Nat
  BY UncountedFinite
<1>s. \A v, w \in Workers : wpc[v] # "idle" /\ wpc[w] # "idle" => v = w
  BY DEF OneToken, SerialExecution, Active
<1>o. Outstanding \in Int
  BY <1>t, <1>c DEF Outstanding, QueueLen
<1> USE DEF CountExact
<1>1. ASSUME NEW t \in Threads, PostPush(t) PROVE CountExact'
  <2>1. t \notin Uncounted /\ Uncounted' = Uncounted \cup {t}
    BY <1>1, <1>t DEF PostPush, MayPost, Uncounted, PostPC
  <2>2. Cardinality(Uncounted') = Cardinality(Uncounted) + 1
    BY <2>1, UncountedFinite, FS_AddElement
  <2>3. Len(links') = Len(links) + 1
    BY <1>1, <1>t DEF PostPush
  <2>4. UNCHANGED <<popped, leaked, taskCount, wpc, wdone>>
    BY <1>1 DEF PostPush
  <2>o. Outstanding' = Outstanding
    BY <1>t, <1>c, <2>2, <2>3, <2>4 DEF Outstanding, QueueLen
  <2> QED
    BY <1>t, <1>o, <2>o, <2>2, <2>3, <2>4
<1>2. ASSUME NEW t \in Threads, PostCount(t) PROVE CountExact'
  <2>1. /\ ppc[t] = "sized"
        /\ \E pc \in {"schedule", "idle"} : ppc' = [ppc EXCEPT ![t] = pc]
    BY <1>2 DEF PostCount
  <2>2. t \in Uncounted /\ Uncounted' = Uncounted \ {t}
    BY <2>1, <1>t DEF Uncounted, PostPC
  <2>3. Cardinality(Uncounted') = Cardinality(Uncounted) - 1
    BY <2>2, UncountedFinite, FS_RemoveElement
  <2>4. taskCount' = taskCount + 1 /\ UNCHANGED <<links, popped, leaked, wpc, wdone>>
    BY <1>2 DEF PostCount
  <2>o. Outstanding' = Outstanding + 1
    BY <1>t, <1>c, <2>3, <2>4 DEF Outstanding, QueueLen
  <2>5. \A w \in Workers : /\ wpc'[w] = wpc[w] /\ wdone'[w] = wdone[w]
                            /\ wdone[w] \in Int
    BY <1>t, <2>4
  <2>6. taskCount' = taskCount + 1
    BY <2>4
  <2> HIDE DEF CountExact
  <2>7. ASSUME NEW w \in Workers, wpc'[w] = "loop"
        PROVE  taskCount' = Outstanding' + wdone'[w]
    <3>1. taskCount = Outstanding + wdone[w]
      BY <2>5, <2>7 DEF CountExact
    <3> QED
      BY <3>1, <2>o, <2>5, <2>6, <1>o
  <2>8. ASSUME NEW w \in Workers, wpc'[w] = "exec"
        PROVE  taskCount' = Outstanding' + wdone'[w] + 1
    <3>1. taskCount = Outstanding + wdone[w] + 1
      BY <2>5, <2>8 DEF CountExact
    <3> QED
      BY <3>1, <2>o, <2>5, <2>6, <1>o
  <2>9. (\A w \in Workers : wpc'[w] \notin {"loop", "exec"}) => taskCount' = Outstanding'
    BY <2>o, <2>5, <2>6 DEF CountExact
  <2> QED
    BY <2>7, <2>8, <2>9 DEF CountExact
<1>3. ASSUME NEW t \in Threads, PostSize(t) \/ PostSchedule(t) PROVE CountExact'
  <2>1. \/ ppc[t] = "linked" /\ ppc' = [ppc EXCEPT ![t] = "sized"]
        \/ ppc[t] = "schedule" /\ ppc' = [ppc EXCEPT ![t] = "idle"]
    BY <1>3 DEF PostSize, PostSchedule
  <2>2. Uncounted' = Uncounted
    BY <2>1, <1>t DEF Uncounted, PostPC
  <2>3. UNCHANGED <<links, popped, leaked, taskCount, wpc, wdone>>
    BY <1>3 DEF PostSize, PostSchedule
  <2>o. Outstanding' = Outstanding
    BY <2>2, <2>3 DEF Outstanding, QueueLen
  <2> QED
    BY <1>t, <1>o, <2>o, <2>2, <2>3
<1>w. ASSUME UNCHANGED ppc PROVE Uncounted' = Uncounted
  BY <1>w DEF Uncounted
<1>4. ASSUME NEW w \in Workers, Take(w) PROVE CountExact'
  <2>1. wpc[w] = "idle" /\ wpc' = [wpc EXCEPT ![w] = "taken"]
    BY <1>4 DEF Take
  <2>2. UNCHANGED <<links, popped, leaked, taskCount, wdone, ppc>>
    BY <1>4 DEF Take
  <2>o. Outstanding' = Outstanding
    BY <1>w, <2>2 DEF Outstanding, QueueLen
  <2> QED
    BY <1>t, <1>o, <2>o, <2>1, <2>2 DEF RunPC
<1>5. ASSUME NEW w \in Workers, RunSize(w) PROVE CountExact'
  <2>1. /\ wpc[w] = "taken" /\ wpc' = [wpc EXCEPT ![w] = "loop"]
        /\ wdone' = [wdone EXCEPT ![w] = 0]
    BY <1>5 DEF RunSize
  <2>2. UNCHANGED <<links, popped, leaked, taskCount, ppc>>
    BY <1>5 DEF RunSize
  <2>3. \A v \in Workers : v # w => wpc[v] = "idle"
    BY <1>s, <2>1
  <2>4. taskCount = Outstanding
    BY <2>1, <2>3
  <2>o. Outstanding' = Outstanding
    BY <1>w, <2>2 DEF Outstanding, QueueLen
  <2> QED
    BY <1>t, <1>o, <2>o, <2>1, <2>2, <2>3, <2>4
<1>6. ASSUME NEW w \in Workers, RunPop(w) PROVE CountExact'
  <2>1. /\ wpc[w] = "loop" /\ wpc' = [wpc EXCEPT ![w] = "exec"]
        /\ popped' = popped + 1
    BY <1>6 DEF RunPop
  <2>2. UNCHANGED <<links, leaked, taskCount, ppc, wdone>>
    BY <1>6 DEF RunPop
  <2>3. \A v \in Workers : v # w => wpc[v] = "idle"
    BY <1>s, <2>1
  <2>o. Outstanding' = Outstanding - 1
    BY <1>t, <1>c, <1>w, <2>1, <2>2 DEF Outstanding, QueueLen
  <2> QED
    BY <1>t, <1>o, <2>o, <2>1, <2>2, <2>3
<1>7. ASSUME NEW w \in Workers, RunTask(w) PROVE CountExact'
  <2>1. /\ wpc[w] = "exec" /\ wpc' = [wpc EXCEPT ![w] = "loop"]
        /\ wdone' = [wdone EXCEPT ![w] = wdone[w] + 1]
    BY <1>7 DEF RunTask
  <2>2. UNCHANGED <<links, popped, leaked, taskCount, ppc>>
    BY <1>7 DEF RunTask
  <2>3. \A v \in Workers : v # w => wpc[v] = "idle"
    BY <1>s, <2>1
  <2>o. Outstanding' = Outstanding
    BY <1>w, <2>2 DEF Outstanding, QueueLen
  <2>4. wdone[w] \in Int /\ taskCount = Outstanding + (wdone[w] + 1)
    BY <1>t, <1>o, <2>1
  <2>5. wpc'[w] = "loop" /\ taskCount' = Outstanding' + wdone'[w]
    BY <1>t, <2>o, <2>1, <2>2, <2>4
  <2> QED
    BY <1>t, <2>1, <2>3, <2>5
<1>8. ASSUME NEW w \in Workers, TaskThrows(w) PROVE CountExact'
  <2>1. /\ wpc[w] = "exec" /\ wpc' = [wpc EXCEPT ![w] = "idle"]
        /\ leaked' = leaked + wdone[w] + 1
    BY <1>8 DEF TaskThrows
  <2>2. UNCHANGED <<links, popped, taskCount, ppc, wdone>>
    BY <1>8 DEF TaskThrows
  <2>3. \A v \in Workers : wpc'[v] = "idle"
    BY <1>s, <1>t, <2>1
  <2>o. Outstanding' = Outstanding + wdone[w] + 1
    BY <1>t, <1>c, <1>w, <2>1, <2>2 DEF Outstanding, QueueLen
  <2>4. taskCount = Outstanding + wdone[w] + 1
    BY <2>1
  <2> QED
    BY <2>o, <2>2, <2>3, <2>4
<1>9. ASSUME NEW w \in Workers, RunEnd(w) PROVE CountExact'
  <2>1. /\ wpc[w] = "loop" /\ taskCount' = taskCount - wdone[w]
        /\ \E pc \in {"resched", "idle"} : wpc' = [wpc EXCEPT ![w] = pc]
    BY <1>9 DEF RunEnd, AfterRun
  <2>2. UNCHANGED <<links, popped, leaked, ppc, wdone>>
    BY <1>9 DEF RunEnd
  <2>3. \A v \in Workers : wpc'[v] \in {"resched", "idle"}
    BY <1>s, <1>t, <2>1
  <2>o. Outstanding' = Outstanding
    BY <1>w, <2>2 DEF Outstanding, QueueLen
  <2>4. wdone[w] \in Int /\ taskCount = Outstanding + wdone[w]
    BY <1>t, <2>1
  <2>5. taskCount' = Outstanding'
    BY <1>o, <2>o, <2>1, <2>4
  <2> QED
    BY <2>3, <2>5
<1>10. ASSUME NEW w \in Workers, Resched(w) PROVE CountExact'
  <2>1. wpc[w] = "resched" /\ wpc' = [wpc EXCEPT ![w] = "idle"]
    BY <1>10 DEF Resched
  <2>2. UNCHANGED <<links, popped, leaked, taskCount, wdone, ppc>>
    BY <1>10 DEF Resched
  <2>o. Outstanding' = Outstanding
    BY <1>w, <2>2 DEF Outstanding, QueueLen
  <2> QED
    BY <1>t, <1>o, <2>o, <2>1, <2>2 DEF RunPC
<1>11. CASE UNCHANGED vars
  BY <1>11, <1>w DEF vars, Outstanding, QueueLen
<1> QED
  BY <1>1, <1>2, <1>3, <1>4, <1>5, <1>6, <1>7, <1>8, <1>9, <1>10, <1>11
    DEF Next, PostStep, RunStep

\* The count of a SerializeObject is what the queue, the Run in progress, the posts
\* in progress and the exceptions of the past make it, in every reachable state.
THEOREM TaskCountExact == Spec => []CountExact
<1>1. Init => CountExact
  <2>1. ASSUME Init PROVE Uncounted = {}
    BY <2>1 DEF Init, Uncounted
  <2> QED
    BY <2>1, FS_EmptySet DEF Init, CountExact, Outstanding, QueueLen
<1> QED
  BY <1>1, NextCountExact, Inductive, PTL DEF Spec, IInv

\* While nothing has thrown, nothing leaked and a positive count has a token: in
\* the Context, with the poster that got 1 back, or with a worker.
Awake ==
    throws = 0 =>
        /\ leaked = 0
        /\ taskCount >= 1 => \/ ctx >= 1
                             \/ \E t \in Threads : Scheduling(t)
                             \/ \E w \in Workers : Active(w)

\* Only a RunEnd that finds nothing remaining drops the token, and the fetch_add
\* that ends a phase with no token gets 1 back.
LEMMA NextAwake == TypeOK /\ Awake /\ [Next]_vars => Awake'
<1> SUFFICES ASSUME TypeOK, Awake, [Next]_vars PROVE Awake'
  OBVIOUS
<1> USE DEF TypeOK, Awake, Scheduling, Active, PostPC, RunPC
<1>1. ASSUME NEW t \in Threads, PostPush(t) PROVE Awake'
  BY <1>1 DEF PostPush, MayPost
<1>2. ASSUME NEW t \in Threads, PostSize(t) PROVE Awake'
  BY <1>2 DEF PostSize
<1>3. ASSUME NEW t \in Threads, PostCount(t) PROVE Awake'
  <2>1. CASE taskCount = 0
    <3>1. ppc' = [ppc EXCEPT ![t] = "schedule"] /\ UNCHANGED <<throws, leaked>>
      BY <1>3, <2>1 DEF PostCount, FirstTask
    <3> QED
      BY <3>1
  <2>2. CASE taskCount # 0
    <3>1. /\ taskCount' = taskCount + 1
          /\ ppc[t] = "sized"
          /\ UNCHANGED <<ctx, wpc, throws, leaked>>
      BY <1>3 DEF PostCount
    <3>2. taskCount + 1 # 1
      BY <2>2
    <3>3. ppc' = [ppc EXCEPT ![t] = "idle"]
      BY <1>3, <3>2 DEF PostCount, FirstTask
    <3> QED
      BY <2>2, <3>1, <3>3
  <2> QED
    BY <2>1, <2>2
<1>4. ASSUME NEW t \in Threads, PostSchedule(t) PROVE Awake'
  BY <1>4 DEF PostSchedule
<1>5. ASSUME NEW w \in Workers, Take(w) PROVE Awake'
  BY <1>5 DEF Take
<1>6. ASSUME NEW w \in Workers, RunSize(w) PROVE Awake'
  BY <1>6 DEF RunSize
<1>7. ASSUME NEW w \in Workers, RunPop(w) PROVE Awake'
  BY <1>7 DEF RunPop
<1>8. ASSUME NEW w \in Workers, RunTask(w) PROVE Awake'
  BY <1>8 DEF RunTask
<1>9. ASSUME NEW w \in Workers, TaskThrows(w) PROVE Awake'
  BY <1>9, ThrowsAssumption DEF TaskThrows
<1>10. ASSUME NEW w \in Workers, RunEnd(w) PROVE Awake'
  <2>1. CASE TasksRemain(AfterRun(wdone[w]))
    <3>1. wpc' = [wpc EXCEPT ![w] = "resched"] /\ UNCHANGED <<throws, leaked>>
      BY <1>10, <2>1 DEF RunEnd
    <3> QED
      BY <3>1
  <2>2. CASE ~TasksRemain(AfterRun(wdone[w]))
    <3>1. ~(taskCount' >= 1) /\ UNCHANGED <<throws, leaked>>
      BY <1>10, <2>2 DEF RunEnd, TasksRemain, AfterRun
    <3> QED
      BY <3>1
  <2> QED
    BY <2>1, <2>2
<1>11. ASSUME NEW w \in Workers, Resched(w) PROVE Awake'
  BY <1>11 DEF Resched
<1>12. CASE UNCHANGED vars
  BY <1>12 DEF vars
<1> QED
  BY <1>1, <1>2, <1>3, <1>4, <1>5, <1>6, <1>7, <1>8, <1>9, <1>10, <1>11, <1>12
    DEF Next, PostStep, RunStep

\* No lost wakeup, for any number of threads and posts: when nobody is inside Post
\* or Run and the Context does not hold the object, its queue is empty, unless an
\* exception has left a Run.
THEOREM NothingStranded == Spec => []NoStrandedTask
<1>1. Init => Awake
  BY DEF Init, Awake
<1>2. Init => SizeExact
  <2>1. ASSUME Init PROVE Unsized = {}
    BY <2>1 DEF Init, Unsized
  <2> QED
    BY <2>1, FS_EmptySet DEF Init, SizeExact, QueueLen
<1>3. TypeOK /\ Awake /\ CountExact /\ SizeExact => NoStrandedTask
  <2> SUFFICES ASSUME TypeOK, Awake, CountExact, SizeExact,
                      throws = 0, \A t \in Threads : ppc[t] = "idle",
                      ctx = 0, \A w \in Workers : ~Active(w)
               PROVE  QueueLen = 0
    BY DEF NoStrandedTask
  <2>1. Uncounted = {} /\ Unsized = {}
    BY DEF Uncounted, Unsized
  <2>2. QueueLen = size /\ size \in Nat
    BY <2>1, FS_EmptySet DEF SizeExact, TypeOK, QueueLen
  <2>3. taskCount = QueueLen /\ ~(taskCount >= 1)
    <3>1. \A w \in Workers : wpc[w] \notin {"loop", "exec"}
      BY DEF Active
    <3>2. ~(taskCount >= 1) /\ leaked = 0
      BY DEF Awake, Scheduling
    <3>3. Cardinality(Uncounted) = 0
      BY <2>1, FS_EmptySet
    <3> QED
      BY <2>2, <3>1, <3>2, <3>3 DEF CountExact, Outstanding
  <2> QED
    BY <2>2, <2>3
<1> QED
  BY <1>1, <1>2, <1>3, NextAwake, NextSizeExact, TaskCountExact, Inductive, PTL
    DEF Spec, IInv

-----------------------------------------------------------------------------
(* The refinement of SerialExecutor.                                        *)

\* Every step of Post and Run is a step of the sequential executor or none.
LEMMA StepRefines ==
    TypeOK /\ OneToken /\ [Next]_vars => [Executor!Next]_(Executor!vars)
<1> SUFFICES ASSUME TypeOK, OneToken, [Next]_vars
             PROVE  [Executor!Next]_(Executor!vars)
  OBVIOUS
<1> USE DEF Executor!vars, Executing
<1>1. ASSUME NEW t \in Threads, PostPush(t) PROVE Executor!Submit(t)
  BY <1>1 DEF PostPush, Executor!Submit
<1>2. ASSUME NEW t \in Threads, PostStep(t) PROVE UNCHANGED Executor!vars
  BY <1>2 DEF PostStep, PostSize, PostCount, PostSchedule
<1>3. ASSUME NEW w \in Workers, Take(w) PROVE UNCHANGED Executor!vars
  <2>1. wpc[w] # "exec" /\ wpc' = [wpc EXCEPT ![w] = "taken"]
    BY <1>3 DEF Take
  <2> QED
    BY <1>3, <2>1 DEF Take, TypeOK
<1>4. ASSUME NEW w \in Workers, RunSize(w) PROVE UNCHANGED Executor!vars
  <2>1. wpc[w] # "exec" /\ wpc' = [wpc EXCEPT ![w] = "loop"]
    BY <1>4 DEF RunSize
  <2> QED
    BY <1>4, <2>1 DEF RunSize, TypeOK
<1>5. ASSUME NEW w \in Workers, RunPop(w) PROVE Executor!Start
  <2>1. Executing = {}
    BY <1>5 DEF RunPop, OneToken, SerialExecution, Active
  <2>2. popped < Len(links)
    BY <1>5 DEF RunPop, QueueLen, TypeOK
  <2>3. w \in Executing'
    BY <1>5 DEF RunPop, TypeOK
  <2> QED
    BY <1>5, <2>1, <2>2, <2>3 DEF RunPop, Executor!Start
<1>6. ASSUME NEW w \in Workers, RunTask(w) \/ TaskThrows(w) PROVE Executor!Finish
  <2>1. \A v \in Workers : wpc[v] = "exec" => v = w
    BY <1>6 DEF RunTask, TaskThrows, OneToken, SerialExecution, Active
  <2>2. w \in Executing
    BY <1>6 DEF RunTask, TaskThrows
  <2>3. Executing' = {}
    BY <1>6, <2>1 DEF RunTask, TaskThrows, TypeOK
  <2> QED
    BY <1>6, <2>2, <2>3 DEF RunTask, TaskThrows, Executor!Finish
<1>7. ASSUME NEW w \in Workers, RunEnd(w) PROVE UNCHANGED Executor!vars
  <2>1. wpc[w] # "exec" /\ \E pc \in {"resched", "idle"} : wpc' = [wpc EXCEPT ![w] = pc]
    BY <1>7 DEF RunEnd
  <2> QED
    BY <1>7, <2>1 DEF RunEnd, TypeOK
<1>8. ASSUME NEW w \in Workers, Resched(w) PROVE UNCHANGED Executor!vars
  <2>1. wpc[w] # "exec" /\ wpc' = [wpc EXCEPT ![w] = "idle"]
    BY <1>8 DEF Resched
  <2> QED
    BY <1>8, <2>1 DEF Resched, TypeOK
<1>9. CASE UNCHANGED vars
  BY <1>9 DEF vars
<1> QED
  BY <1>1, <1>2, <1>3, <1>4, <1>5, <1>6, <1>7, <1>8, <1>9
    DEF Next, RunStep, Executor!Next

\* A SerializeObject is a sequential executor: whatever Post and Run do, the tasks
\* start in the order in which their nodes were linked, each once, and none before
\* the previous one has returned or thrown.
THEOREM RefinesExecutor == Spec => Implements
<1>1. Init => Executor!Init
  BY DEF Init, Executor!Init, Executing
<1> QED
  BY <1>1, StepRefines, Inductive, PTL DEF Spec, IInv, Implements, Executor!Spec
=============================================================================
