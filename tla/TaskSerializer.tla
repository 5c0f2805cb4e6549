--------------------------- MODULE TaskSerializer ---------------------------
(***************************************************************************)
(* One SerializeObject: Core/TaskSerializer.{h,cpp} with the two hooks of  *)
(* Base/SerializeObject.cpp that put the object into a Context.  Any number *)
(* of threads post tasks; any number of Context threads may pick the object *)
(* up.  No lock is held anywhere: that one task of the object runs at a     *)
(* time rests on the arithmetic of _taskCount alone.                        *)
(*                                                                          *)
(* Atomic steps: linking a node into _que, _size.fetch_add, _taskCount's    *)
(* fetch_add and fetch_sub, a Pop, entering and leaving the Context.  The   *)
(* lock-free queue is taken as linearizable here (see LockFreeQueue.tla for *)
(* how far that is true), the Context as a bag (see Context.tla).           *)
(***************************************************************************)
EXTENDS Integers, Sequences, FiniteSets
LOCAL INSTANCE Functions      \* FoldFunction

CONSTANTS
    Posters,        \* threads that post from outside the object's own tasks
    Workers,        \* threads inside Context::Run
    Budget,         \* [Threads -> Nat]: how many tasks each thread posts
    MaxThrows       \* how many tasks may throw (0: a release build, where
                    \* Context::Run ends the process instead of catching)

Threads == Posters \cup Workers

ASSUME ThreadsAssumption == Posters \cap Workers = {} /\ IsFiniteSet(Threads)
ASSUME BudgetAssumption  == Budget \in [Threads -> Nat]
ASSUME ThrowsAssumption  == MaxThrows \in Nat

VARIABLES
    links,          \* _que: poster of every node ever linked, in link order
    popped,         \* _que: nodes popped so far; links[popped + 1..] is the queue
    size,           \* _que._size
    taskCount,      \* _taskCount
    ctx,            \* how many times the Context holds the object
    ppc,            \* where each thread is in TaskSerializer::Post
    wpc,            \* where each worker is in TaskSerializer::Run
    wsize,          \* Run's local size
    wdone,          \* Run's local executeCount
    throws,         \* tasks that threw so far
    leaked          \* tasks popped by a Run that an exception left

vars == <<links, popped, size, taskCount, ctx, ppc, wpc, wsize, wdone,
          throws, leaked>>

PostPC == {"idle", "linked", "sized", "schedule"}
RunPC  == {"idle", "taken", "loop", "exec", "resched"}

TypeOK ==
    /\ links \in Seq(Threads)
    /\ popped \in Nat
    /\ size \in Nat           \* never wraps below 0, although Pop may come first
    /\ taskCount \in Int
    /\ ctx \in Nat
    /\ ppc \in [Threads -> PostPC]
    /\ wpc \in [Workers -> RunPC]
    /\ wsize \in [Workers -> Nat]
    /\ wdone \in [Workers -> Nat]
    /\ throws \in Nat
    /\ leaked \in Nat

Init ==
    /\ links = <<>>
    /\ popped = 0
    /\ size = 0
    /\ taskCount = 0
    /\ ctx = 0
    /\ ppc = [t \in Threads |-> "idle"]
    /\ wpc = [w \in Workers |-> "idle"]
    /\ wsize = [w \in Workers |-> 0]
    /\ wdone = [w \in Workers |-> 0]
    /\ throws = 0
    /\ leaked = 0

PostedBy(t) == Cardinality({i \in DOMAIN links : links[i] = t})
QueueLen    == Len(links) - popped
Total(f)    == FoldFunction(LAMBDA x, y : x + y, 0, f)

-----------------------------------------------------------------------------
(* TaskSerializer::Post                                                     *)

\* A poster posts whenever it likes, a worker only from inside the task it is
\* running: a coroutine that awaits the executor it runs on.
MayPost(t) ==
    /\ ppc[t] = "idle"
    /\ PostedBy(t) < Budget[t]
    /\ t \in Workers => wpc[t] = "exec"

\* The CAS of LockFreeQueue::InternalPush that links the node.
PostPush(t) ==
    /\ MayPost(t)
    /\ links' = Append(links, t)
    /\ ppc' = [ppc EXCEPT ![t] = "linked"]
    /\ UNCHANGED <<popped, size, taskCount, ctx, wpc, wsize, wdone, throws, leaked>>

PostSize(t) ==
    /\ ppc[t] = "linked"
    /\ size' = size + 1
    /\ ppc' = [ppc EXCEPT ![t] = "sized"]
    /\ UNCHANGED <<links, popped, taskCount, ctx, wpc, wsize, wdone, throws, leaked>>

MutFirstTask(count) == count >= 1

\* SerializeObject::OnPost: does the poster have to hand the object over?
FirstTask(count) == count = 1

\* _taskCount.fetch_add; only the thread that gets 1 back goes on.
PostCount(t) ==
    /\ ppc[t] = "sized"
    /\ taskCount' = taskCount + 1
    /\ ppc' = [ppc EXCEPT ![t] = IF FirstTask(taskCount + 1) THEN "schedule"
                                                            ELSE "idle"]
    /\ UNCHANGED <<links, popped, size, ctx, wpc, wsize, wdone, throws, leaked>>

\* OnPost's _context->Post.
PostSchedule(t) ==
    /\ ppc[t] = "schedule"
    /\ ctx' = ctx + 1
    /\ ppc' = [ppc EXCEPT ![t] = "idle"]
    /\ UNCHANGED <<links, popped, size, taskCount, wpc, wsize, wdone, throws, leaked>>

-----------------------------------------------------------------------------
(* TaskSerializer::Run, called by SerializerQueue::Run                       *)

\* The Context gives the object to a worker.
Take(w) ==
    /\ ctx > 0
    /\ wpc[w] = "idle"
    /\ ctx' = ctx - 1
    /\ wpc' = [wpc EXCEPT ![w] = "taken"]
    /\ UNCHANGED <<links, popped, size, taskCount, ppc, wsize, wdone, throws, leaked>>

\* size = _que.GetSize(): the number of tasks this Run is going to execute.
RunSize(w) ==
    /\ wpc[w] = "taken"
    /\ wsize' = [wsize EXCEPT ![w] = size]
    /\ wdone' = [wdone EXCEPT ![w] = 0]
    /\ wpc' = [wpc EXCEPT ![w] = "loop"]
    /\ UNCHANGED <<links, popped, size, taskCount, ctx, ppc, throws, leaked>>

\* _que.Pop(task) succeeds; its _size.fetch_sub is read by this thread only.
RunPop(w) ==
    /\ wpc[w] = "loop"
    /\ wdone[w] < wsize[w]
    /\ QueueLen > 0
    /\ popped' = popped + 1
    /\ size' = size - 1
    /\ wpc' = [wpc EXCEPT ![w] = "exec"]
    /\ UNCHANGED <<links, taskCount, ctx, ppc, wsize, wdone, throws, leaked>>

\* task.Run() returns.
RunTask(w) ==
    /\ wpc[w] = "exec"
    /\ ppc[w] = "idle"
    /\ wdone' = [wdone EXCEPT ![w] = wdone[w] + 1]
    /\ wpc' = [wpc EXCEPT ![w] = "loop"]
    /\ UNCHANGED <<links, popped, size, taskCount, ctx, ppc, wsize, throws, leaked>>

\* task.Run() throws: the exception leaves Run before its fetch_sub and is
\* caught in Context::Run, outside the loop over the queue.
TaskThrows(w) ==
    /\ wpc[w] = "exec"
    /\ ppc[w] = "idle"
    /\ throws < MaxThrows
    /\ throws' = throws + 1
    /\ leaked' = leaked + wdone[w] + 1
    /\ wpc' = [wpc EXCEPT ![w] = "idle"]
    /\ UNCHANGED <<links, popped, size, taskCount, ctx, ppc, wsize, wdone>>

MutAfterRun(done)    == 0
MutNoneRemain(count) == count > 1

\* _taskCount.fetch_sub(executeCount).
AfterRun(done) == taskCount - done

\* SerializeObject::OnRun: are there tasks nobody else will hand over?
TasksRemain(count) == count > 0

\* The loop ends (all done, or Pop found nothing); _taskCount.fetch_sub.
RunEnd(w) ==
    LET remain == AfterRun(wdone[w]) IN
    /\ wpc[w] = "loop"
    /\ wdone[w] >= wsize[w] \/ QueueLen = 0
    /\ taskCount' = remain
    /\ wpc' = [wpc EXCEPT ![w] = IF TasksRemain(remain) THEN "resched" ELSE "idle"]
    /\ UNCHANGED <<links, popped, size, ctx, ppc, wsize, wdone, throws, leaked>>

\* OnRun's _context->Post.
Resched(w) ==
    /\ wpc[w] = "resched"
    /\ ctx' = ctx + 1
    /\ wpc' = [wpc EXCEPT ![w] = "idle"]
    /\ UNCHANGED <<links, popped, size, taskCount, ppc, wsize, wdone, throws, leaked>>

-----------------------------------------------------------------------------
PostStep(t) == PostSize(t) \/ PostCount(t) \/ PostSchedule(t)
RunStep(w)  == RunSize(w) \/ RunPop(w) \/ RunTask(w) \/ RunEnd(w) \/ Resched(w)

Next ==
    \/ \E t \in Threads : PostPush(t) \/ PostStep(t)
    \/ \E w \in Workers : Take(w) \/ RunStep(w) \/ TaskThrows(w)

Spec == Init /\ [][Next]_vars

\* A thread inside Post or Run keeps running; the Context threads loop for
\* ever, so an object they hold is taken by one of them.  Nobody has to post.
Fairness ==
    /\ \A t \in Threads : WF_vars(PostStep(t))
    /\ \A w \in Workers : WF_vars(RunStep(w))
    /\ WF_vars(\E w \in Workers : Take(w))

FairSpec == Spec /\ Fairness
-----------------------------------------------------------------------------
(* Properties                                                               *)

Active(w)     == wpc[w] # "idle"
Scheduling(t) == ppc[t] = "schedule"
Uncounted     == {t \in Threads : ppc[t] \in {"linked", "sized"}}
Executing     == {w \in Workers : wpc[w] = "exec"}

\* README.md "Context-Based Execution": the tasks of one object behave as if
\* there were a single thread.  At most one worker is anywhere inside Run of
\* the object, although Post and Run share no lock.
SerialExecution == \A v, w \in Workers : Active(v) /\ Active(w) => v = w

\* The reason: the right to run the object is a token.  It is in the Context,
\* with a thread that is about to put it there, or with the worker in Run;
\* there is never a second one, and never one while _taskCount is not positive.
OneToken ==
    /\ ctx <= 1
    /\ SerialExecution
    /\ \A s, t \in Threads : Scheduling(s) /\ Scheduling(t) => s = t
    /\ \A t \in Threads, w \in Workers : ~(Scheduling(t) /\ Active(w))
    /\ ctx = 1 => /\ \A t \in Threads : ~Scheduling(t)
                  /\ \A w \in Workers : ~Active(w)
                  /\ taskCount >= 1
    /\ \A t \in Threads : Scheduling(t) => taskCount >= 1
    /\ \A w \in Workers : Active(w) => taskCount >= 1

\* Run never reaches the else branch of its Pop: the size it read counts only
\* nodes that are linked and that nobody else pops.  (That branch would end the
\* life of an AnyTask whose _task was never initialised.)
PopNeverEmpty ==
    \A w \in Workers : wpc[w] = "loop" /\ wdone[w] < wsize[w] => QueueLen > 0

\* _taskCount is exactly the queue, plus what the Run in progress has taken out
\* and not yet subtracted, plus what exceptions leaked, minus the posts between
\* their link and their fetch_add (so it may well be negative).
Outstanding == QueueLen + leaked - Cardinality(Uncounted)

CountExact ==
    /\ \A w \in Workers : /\ wpc[w] = "loop" => taskCount = Outstanding + wdone[w]
                          /\ wpc[w] = "exec" => taskCount = Outstanding + wdone[w] + 1
    /\ (\A w \in Workers : wpc[w] \notin {"loop", "exec"}) => taskCount = Outstanding

\* No lost wakeup: once no Post is in progress, a task that is still queued has
\* a worker or a Context entry that will come to it.
NoStrandedTask ==
    /\ throws = 0
    /\ \A t \in Threads : ppc[t] = "idle"
    /\ ctx = 0
    /\ \A w \in Workers : ~Active(w)
    => QueueLen = 0

\* README.md "Context-Based Execution": the tasks piled up in the queue are
\* taken out and executed; every accepted task is started in the end.
EveryPostRuns ==
    \A n \in 1 .. Total(Budget) : Len(links) >= n ~> popped >= n

\* The same while no task has thrown: no Post is overlooked for ever, whatever
\* Run was doing when its task was linked and when it was counted.
TasksServed ==
    \A n \in 1 .. Total(Budget) : Len(links) >= n ~> (popped >= n \/ throws > 0)

\* An object behaves like SerialExecutor: a Post takes effect when its node is
\* linked, a task starts at its Pop and finishes when its Run() returns.
Executor == INSTANCE SerialExecutor WITH
    Clients   <- Threads,
    submitted <- links,
    started   <- popped,
    running   <- Executing # {}

Implements == Executor!Spec
=============================================================================
