----------------------------- MODULE AwaitTask -----------------------------
(***************************************************************************)
(* Base/AwaitTask.h: coroutines that run on the executor of an object, or    *)
(* on their caller's when they have none, and await each other across        *)
(* executors.  An executor runs its tasks one at a time and in order         *)
(* (SerialExecutor.tla); a task here is the resume of one frame.             *)
(*                                                                          *)
(* A frame that suspends itself returns to the executor: an inline callee's   *)
(* caller is suspended already, so there is no stack to keep.  Exceptions    *)
(* (the release build terminates) are not modelled.                          *)
(***************************************************************************)
EXTENDS Naturals, Sequences, FiniteSets

CONSTANTS
    Executors,      \* SerializeObjects
    NoExecutor,     \* promise_type::_executor = nullptr
    Frames          \* bound: coroutine frames, 1 .. n in the order of creation

ASSUME ExecutorsAssumption == NoExecutor \notin Executors
ASSUME FramesAssumption == Frames \subseteq Nat \ {0}

VARIABLES
    queue,          \* [Executors -> Seq(Frames)]: posted resumes
    running,        \* [Executors -> frame that runs there, or 0]
    status,         \* [Frames -> "none", "ready", "running", "awaiting", "final", "gone"]
    executor,       \* [Frames -> promise_type::_executor]
    caller,         \* [Frames -> the frame that awaits it, 0 for a spawned one]
    home,           \* [Frames -> Await::_caller, where that frame was running]
    result          \* [Frames -> frame whose value is in its Await::_result, or 0]

vars == <<queue, running, status, executor, caller, home, result>>

Init ==
    /\ queue = [e \in Executors |-> <<>>]
    /\ running = [e \in Executors |-> 0]
    /\ status = [f \in Frames |-> "none"]
    /\ executor = [f \in Frames |-> NoExecutor]
    /\ caller = [f \in Frames |-> 0]
    /\ home = [f \in Frames |-> NoExecutor]
    /\ result = [f \in Frames |-> 0]

\* Calling a coroutine function makes the next frame, suspended at its start.
Fresh == {f \in Frames : status[f] = "none" /\ \A g \in Frames : g < f => status[g] # "none"}

Create(f, x, from, e) ==
    /\ executor' = [executor EXCEPT ![f] = x]
    /\ caller' = [caller EXCEPT ![f] = from]
    /\ home' = [home EXCEPT ![f] = e]

PostResume(x, f) == queue' = [queue EXCEPT ![x] = Append(@, f)]

-----------------------------------------------------------------------------
\* Spawn_Function, CoSpawn: from any thread.
Spawn(x) == \E f \in Fresh :
    /\ Create(f, x, 0, NoExecutor)
    /\ status' = [status EXCEPT ![f] = "ready"]
    /\ PostResume(x, f)
    /\ UNCHANGED <<running, result>>

\* The executor runs its next task: h.resume().
Resume(e) ==
    /\ running[e] = 0 /\ queue[e] # <<>>
    /\ running' = [running EXCEPT ![e] = Head(queue[e])]
    /\ status' = [status EXCEPT ![Head(queue[e])] = "running"]
    /\ queue' = [queue EXCEPT ![e] = Tail(@)]
    /\ UNCHANGED <<executor, caller, home, result>>

MayAct(e) == running[e] # 0 /\ status[running[e]] = "running"

\* co_await on a task with an executor: it is resumed there, maybe at once.
AwaitOn(e, x) == \E f \in Fresh :
    /\ MayAct(e)
    /\ Create(f, x, running[e], e)
    /\ status' = [status EXCEPT ![running[e]] = "awaiting", ![f] = "ready"]
    /\ PostResume(x, f)
    /\ running' = [running EXCEPT ![e] = 0]
    /\ UNCHANGED result

\* co_await on a task without one: resumed inside await_suspend.
AwaitInline(e) == \E f \in Fresh :
    /\ MayAct(e)
    /\ Create(f, NoExecutor, running[e], e)
    /\ status' = [status EXCEPT ![running[e]] = "awaiting", ![f] = "running"]
    /\ running' = [running EXCEPT ![e] = f]
    /\ UNCHANGED <<queue, result>>

MutReturnTo(f, e)   == e
MutDestroyed(f)     == {f, caller[f]}
MutNoneDestroyed(f) == {}

\* Where the caller of a frame that ends on executor e is resumed, and what
\* FinalDestroyer destroys.
ReturnTo(f, e) == home[f]
Destroyed(f)   == {f}

\* final_suspend: _callfunc stores the value in the caller's Await and posts the
\* caller's resume; another thread may run it before this frame is destroyed.
FinalSuspend(e) ==
    LET f == running[e] IN
    /\ MayAct(e)
    /\ IF caller[f] = 0
       THEN status' = [status EXCEPT ![f] = "final"] /\ UNCHANGED <<queue, result>>
       ELSE /\ status' = [status EXCEPT ![f] = "final", ![caller[f]] = "ready"]
            /\ result' = [result EXCEPT ![caller[f]] = f]
            /\ PostResume(ReturnTo(f, e), caller[f])
    /\ UNCHANGED <<running, executor, caller, home>>

\* FinalDestroyer::await_suspend.
Destroy(e) ==
    LET f == running[e] IN
    /\ f # 0 /\ status[f] = "final"
    /\ status' = [g \in Frames |-> IF g \in Destroyed(f) THEN "gone" ELSE status[g]]
    /\ running' = [running EXCEPT ![e] = 0]
    /\ UNCHANGED <<queue, executor, caller, home, result>>

ExecutorStep(e) ==
    \/ Resume(e) \/ AwaitInline(e) \/ (\E x \in Executors : AwaitOn(e, x))
    \/ FinalSuspend(e) \/ Destroy(e)

Next == (\E x \in Executors : Spawn(x)) \/ (\E e \in Executors : ExecutorStep(e))

Spec == Init /\ [][Next]_vars

\* Every executor with something to do does it.
Fairness == \A e \in Executors : WF_vars(ExecutorStep(e))

-----------------------------------------------------------------------------
(* Properties                                                               *)

Places(f) ==
    Cardinality({e \in Executors : running[e] = f})
    + Cardinality(UNION {{e} \X {i \in DOMAIN queue[e] : queue[e][i] = f} : e \in Executors})

Callees(f) == {g \in Frames : caller[g] = f /\ status[g] \in {"ready", "running", "awaiting"}}

\* A frame is resumed once for every time it suspends: it runs or has one resume
\* posted, or it waits for exactly one callee; no destroyed frame is resumed, and
\* a resumed caller finds the value of the callee that it awaited last.
ResumedOnce ==
    \A f \in Frames :
        /\ Places(f) = IF status[f] \in {"ready", "running", "final"} THEN 1 ELSE 0
        /\ Cardinality(Callees(f)) = IF status[f] = "awaiting" THEN 1 ELSE 0
        /\ status[f] \in {"ready", "running"} =>
              \A g \in Frames : caller[g] = f => g <= result[f]

\* A coroutine runs on its object's executor only, wherever its callees ran; one
\* without an executor stays on that of its caller.
OnOwnExecutor ==
    \A e \in Executors : running[e] # 0 =>
        e = IF executor[running[e]] = NoExecutor THEN home[running[e]] ELSE executor[running[e]]

\* Every coroutine that was started ends and is destroyed: two executors whose
\* coroutines await each other never wait for ever.
FramesEnd == \A f \in Frames : (status[f] # "none") ~> (status[f] = "gone")
=============================================================================
