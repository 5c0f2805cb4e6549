------------------------------ MODULE Context ------------------------------
(***************************************************************************)
(* Base/Context.{h,cpp}: the pool that hands posted SerializeObjects to the *)
(* threads inside Context::Run, with the ThreadGroup that runs them and the *)
(* shutdown of Test/Test.cpp.                                               *)
(*                                                                          *)
(* An object is posted into the SerializerQueue of one of the slots of      *)
(* _globalQue.  A worker swaps its thread-local queue into a slot, appends  *)
(* the queue it got to _waitQue, takes the oldest queue out of _waitQue and  *)
(* drains it.  A poster loads the pointer of a slot before it pushes, so the *)
(* queue it pushes into may have travelled on meanwhile.                    *)
(*                                                                          *)
(* The lock-free queues are taken as linearizable.  An object in here is    *)
(* the right to run it: TaskSerializer.tla shows there is at most one.      *)
(***************************************************************************)
EXTENDS Naturals, Sequences, FiniteSets, Functions

CONSTANTS
    Workers,        \* threads of the ThreadGroup, each in Context::Run
    Posters,        \* other threads that call Context::Post
    Objects,        \* SerializeObjects
    Queues,         \* addresses a SerializerQueue can live at
    Slots,          \* _globalQueSize
    MaxPosts,       \* bound: calls of Context::Post
    MaxThrows,      \* bound: tasks that throw
    Stops,          \* does the owner ever stop the Context? Test.cpp does,
                    \* GameServer.cpp and TestClient.cpp do not
    None

Threads == Workers \cup Posters

ASSUME SlotsAssumption  == Slots \in Nat \ {0}
ASSUME QueuesAssumption ==
    /\ IsFiniteSet(Queues) /\ None \notin Queues
    /\ Cardinality(Queues) >= 2 * Slots + Cardinality(Workers)
ASSUME ThreadAssumption == Workers \cap Posters = {} /\ IsFiniteSet(Workers)
ASSUME ObjectsAssumption == None \notin Objects
ASSUME StopsAssumption  == Stops \in BOOLEAN

SlotIdx == 0 .. Slots - 1

VARIABLES
    globalQue,      \* [SlotIdx -> Queues]
    waitQue,        \* sequence of queues
    content,        \* [Queues -> Seq(Objects)]
    live,           \* queues that are allocated
    swapCounter, globalCounter,     \* modulo Slots, all that is used of them
    stop,           \* Context::_stop
    groupStop,      \* ThreadGroup::_stop
    destroyed,      \* ~Context has run
    pc,             \* where each worker is in Context::Run
    localQue,       \* Context::_localQue
    swapIndx, expect,               \* locals of Run (0 and None out of scope)
    executor,       \* Context::_currentExecutor while its Run is on the stack
    ppc, pobj, pidx, pque,          \* each thread's Context::Post and its locals
    token,          \* where the right to run each object is
    posts, throws   \* bounded by MaxPosts, MaxThrows

runVars  == <<pc, localQue, swapIndx, expect, executor, swapCounter>>
postVars == <<ppc, pobj, pidx, pque, globalCounter, posts>>
quitVars == <<stop, groupStop, destroyed>>
vars == <<globalQue, waitQue, content, live, runVars, postVars, quitVars,
          token, throws>>

RunPC == {"out", "check", "load", "cas", "push", "pop", "drain", "exec",
          "repost", "joined"}

\* Context::Context and Context::Initialize; the threads are not started yet.
Init ==
    /\ \E q \in [1 .. 2 * Slots -> Queues] :
        /\ IsInjective(q)
        /\ globalQue = [i \in SlotIdx |-> q[i + 1]]
        /\ waitQue = [i \in 1 .. Slots |-> q[Slots + i]]
        /\ live = Range(q)
    /\ content = [q \in Queues |-> <<>>]
    /\ swapCounter = 0 /\ globalCounter = 0
    /\ stop = FALSE /\ groupStop = FALSE /\ destroyed = FALSE
    /\ pc = [w \in Workers |-> "out"]
    /\ localQue = [w \in Workers |-> None]
    /\ swapIndx = [w \in Workers |-> 0]
    /\ expect = [w \in Workers |-> None]
    /\ executor = [w \in Workers |-> None]
    /\ ppc = [t \in Threads |-> "idle"]
    /\ pobj = [t \in Threads |-> None]
    /\ pidx = [t \in Threads |-> 0]
    /\ pque = [t \in Threads |-> None]
    /\ token = [o \in Objects |-> "none"]
    /\ posts = 0 /\ throws = 0

Goto(w, l) == pc' = [pc EXCEPT ![w] = l]

\* fetch_add(1) % _globalQueSize.
NextSlot(i) == (i + 1) % Slots

\* ~SerializerQueue: what is still in the queue is destroyed unrun.
Drop(qs) ==
    /\ live' = live \ qs
    /\ content' = [q \in Queues |-> IF q \in qs THEN <<>> ELSE content[q]]
    /\ token' = [o \in Objects |->
                    IF \E q \in qs : o \in Range(content[q]) THEN "lost" ELSE token[o]]

-----------------------------------------------------------------------------
(* Context::Post: fetch_add, load of the slot, push into the loaded queue.  *)

StartPost(t, o) ==
    /\ posts < MaxPosts
    /\ posts' = posts + 1
    /\ ppc' = [ppc EXCEPT ![t] = "indexed"]
    /\ pobj' = [pobj EXCEPT ![t] = o]
    /\ pidx' = [pidx EXCEPT ![t] = globalCounter]
    /\ globalCounter' = NextSlot(globalCounter)

\* An object nobody may run gets its first task: OnPost(1).  A worker does this
\* from inside a task of another object, a poster at any time.
Post(t, o) ==
    /\ ppc[t] = "idle" /\ ~destroyed
    /\ t \in Workers => pc[t] = "exec"
    /\ token[o] = "none"
    /\ token' = [token EXCEPT ![o] = "held"]
    /\ StartPost(t, o)
    /\ UNCHANGED <<globalQue, waitQue, content, live, runVars, pque, quitVars, throws>>

PostLoad(t) ==
    /\ ppc[t] = "indexed"
    /\ ppc' = [ppc EXCEPT ![t] = "loaded"]
    /\ pque' = [pque EXCEPT ![t] = globalQue[pidx[t]]]
    /\ pidx' = [pidx EXCEPT ![t] = 0]
    /\ UNCHANGED <<globalQue, waitQue, content, live, runVars, pobj, globalCounter, posts, quitVars, token, throws>>

\* The queue may be gone: then the push writes into freed memory.
PostPush(t) ==
    LET q == pque[t] o == pobj[t] IN
    /\ ppc[t] = "loaded"
    /\ ppc' = [ppc EXCEPT ![t] = "idle"]
    /\ pobj' = [pobj EXCEPT ![t] = None]
    /\ pque' = [pque EXCEPT ![t] = None]
    /\ IF q \in live
       THEN /\ content' = [content EXCEPT ![q] = Append(@, o)]
            /\ UNCHANGED token
       ELSE /\ token' = [token EXCEPT ![o] = "lost"]
            /\ UNCHANGED content
    /\ UNCHANGED <<globalQue, waitQue, live, runVars, pidx, globalCounter, posts,
                   quitVars, throws>>

-----------------------------------------------------------------------------
(* Context::Run                                                             *)

\* ThreadGroup's loop calls Run (again) until the group is stopped.
RunEnter(w) ==
    /\ pc[w] = "out" /\ ~groupStop
    /\ \E q \in Queues \ live :
        /\ localQue' = [localQue EXCEPT ![w] = q]
        /\ live' = live \cup {q}
    /\ Goto(w, "check")
    /\ UNCHANGED <<globalQue, waitQue, content, swapIndx, expect, executor, swapCounter,
                   postVars, quitVars, token, throws>>

\* while (false == _stop.load()): draw a slot.
RunNext(w) ==
    /\ pc[w] = "check" /\ ~stop
    /\ swapIndx' = [swapIndx EXCEPT ![w] = swapCounter]
    /\ swapCounter' = NextSlot(swapCounter)
    /\ Goto(w, "load")
    /\ UNCHANGED <<globalQue, waitQue, content, live, localQue, expect, executor,
                   postVars, quitVars, token, throws>>

RunLoad(w) ==
    /\ pc[w] = "load"
    /\ expect' = [expect EXCEPT ![w] = globalQue[swapIndx[w]]]
    /\ Goto(w, "cas")
    /\ UNCHANGED <<globalQue, waitQue, content, live, localQue, swapIndx, executor,
                   swapCounter, postVars, quitVars, token, throws>>

MutSwapOK(w) == TRUE

\* Does compare_exchange_strong find in the slot what the worker loaded?
SwapOK(w) == globalQue[swapIndx[w]] = expect[w]

\* One round of the compare_exchange loop.
RunSwap(w) ==
    /\ pc[w] = "cas"
    /\ IF SwapOK(w)
       THEN /\ globalQue' = [globalQue EXCEPT ![swapIndx[w]] = localQue[w]]
            /\ swapIndx' = [swapIndx EXCEPT ![w] = 0]
            /\ Goto(w, "push")
            /\ UNCHANGED expect
       ELSE /\ expect' = [expect EXCEPT ![w] = globalQue[swapIndx[w]]]
            /\ UNCHANGED <<globalQue, swapIndx, pc>>
    /\ UNCHANGED <<waitQue, content, live, localQue, executor,
                   swapCounter, postVars, quitVars, token, throws>>

\* _waitQue with the queue the worker got out of the slot.
GiveBack(w) == Append(waitQue, expect[w])

RunWaitPush(w) ==
    /\ pc[w] = "push"
    /\ waitQue' = GiveBack(w)
    /\ expect' = [expect EXCEPT ![w] = None]
    /\ Goto(w, "pop")
    /\ UNCHANGED <<globalQue, content, live, localQue, swapIndx, executor,
                   swapCounter, postVars, quitVars, token, throws>>

\* _waitQue.Pop(_localQue); on failure _localQue would keep its old value.
RunWaitPop(w) ==
    /\ pc[w] = "pop"
    /\ IF waitQue # <<>>
       THEN /\ localQue' = [localQue EXCEPT ![w] = Head(waitQue)]
            /\ waitQue' = Tail(waitQue)
            /\ Goto(w, "drain")
       ELSE /\ Goto(w, "check")
            /\ UNCHANGED <<localQue, waitQue>>
    /\ UNCHANGED <<globalQue, content, live, swapIndx, expect, executor,
                   swapCounter, postVars, quitVars, token, throws>>

MutDrained(q) == Len(content[q]) <= 1

\* SerializerQueue::Run's Pop finds nothing.
Drained(q) == content[q] = <<>>

MutAfterPop(q) == content[q]

AfterPop(q) == Tail(content[q])

\* SerializerQueue::Run: _que.Pop(currentExecutor), then currentExecutor->Run().
RunPop(w) ==
    LET q == localQue[w] IN
    /\ pc[w] = "drain" /\ ~Drained(q)
    /\ executor' = [executor EXCEPT ![w] = Head(content[q])]
    /\ content' = [content EXCEPT ![q] = AfterPop(q)]
    /\ Goto(w, "exec")
    /\ UNCHANGED <<globalQue, waitQue, live, localQue, swapIndx, expect,
                   swapCounter, postVars, quitVars, token, throws>>

\* TaskSerializer::Run ends with tasks remaining: OnRun posts the object again.
RunRepost(w) ==
    /\ pc[w] = "exec" /\ ppc[w] = "idle"
    /\ StartPost(w, executor[w])
    /\ executor' = [executor EXCEPT ![w] = None]
    /\ Goto(w, "repost")
    /\ UNCHANGED <<globalQue, waitQue, content, live, localQue, swapIndx, expect,
                   swapCounter, pque, quitVars, token, throws>>

RunReposted(w) ==
    /\ pc[w] = "repost" /\ ppc[w] = "idle"
    /\ Goto(w, "drain")
    /\ UNCHANGED <<globalQue, waitQue, content, live, localQue, swapIndx, expect,
                   executor, swapCounter, postVars, quitVars, token, throws>>

\* TaskSerializer::Run ends with nothing remaining.
RunObjectEnd(w) ==
    /\ pc[w] = "exec" /\ ppc[w] = "idle"
    /\ token' = [token EXCEPT ![executor[w]] = "none"]
    /\ executor' = [executor EXCEPT ![w] = None]
    /\ Goto(w, "drain")
    /\ UNCHANGED <<globalQue, waitQue, content, live, localQue, swapIndx, expect,
                   swapCounter, postVars, quitVars, throws>>

\* A task throws: caught in Context::Run, with the queue only partly drained.
RunThrows(w) ==
    /\ pc[w] = "exec" /\ ppc[w] = "idle"
    /\ throws < MaxThrows
    /\ throws' = throws + 1
    /\ token' = [token EXCEPT ![executor[w]] = "stuck"]
    /\ executor' = [executor EXCEPT ![w] = None]
    /\ Goto(w, "check")
    /\ UNCHANGED <<globalQue, waitQue, content, live, localQue, swapIndx, expect,
                   swapCounter, postVars, quitVars>>

RunDrained(w) ==
    /\ pc[w] = "drain" /\ Drained(localQue[w])
    /\ Goto(w, "check")
    /\ UNCHANGED <<globalQue, waitQue, content, live, localQue, swapIndx, expect,
                   executor, swapCounter, postVars, quitVars, token, throws>>

\* The loop ends: delete _localQue.
RunExit(w) ==
    /\ pc[w] = "check" /\ stop
    /\ Drop({localQue[w]})
    /\ localQue' = [localQue EXCEPT ![w] = None]
    /\ Goto(w, "out")
    /\ UNCHANGED <<globalQue, waitQue, swapIndx, expect, executor,
                   swapCounter, postVars, quitVars, throws>>

\* ThreadGroup's thread function returns and Join gets past it.
Join(w) ==
    /\ pc[w] = "out" /\ groupStop
    /\ Goto(w, "joined")
    /\ UNCHANGED <<globalQue, waitQue, content, live, localQue, swapIndx, expect,
                   executor, swapCounter, postVars, quitVars, token, throws>>

-----------------------------------------------------------------------------
(* The owner: Context::Stop, ThreadGroup::Stop, Join, ~Context (Test.cpp).  *)

Stop ==
    /\ Stops /\ ~stop /\ stop' = TRUE
    /\ UNCHANGED <<globalQue, waitQue, content, live, runVars, postVars,
                   groupStop, destroyed, token, throws>>

StopGroup ==
    /\ stop /\ ~groupStop /\ groupStop' = TRUE
    /\ UNCHANGED <<globalQue, waitQue, content, live, runVars, postVars,
                   stop, destroyed, token, throws>>

MutOwned == Range(globalQue)

\* What ~Context deletes: the slots' queues and everything in _waitQue.
Owned == Range(globalQue) \cup Range(waitQue)

\* Only once the group has stopped and nobody is inside the Context any more.
Destroy ==
    /\ groupStop /\ ~destroyed /\ destroyed' = TRUE
    /\ \A w \in Workers : pc[w] = "joined"
    /\ \A t \in Threads : ppc[t] = "idle"
    /\ Drop(Owned)
    /\ waitQue' = <<>>
    /\ UNCHANGED <<globalQue, runVars, postVars, stop, groupStop, throws>>

-----------------------------------------------------------------------------
PostStep(t) == PostLoad(t) \/ PostPush(t)

\* What a worker does by itself; it need not ever throw or post other objects.
RunStep(w) ==
    \/ RunEnter(w) \/ RunNext(w) \/ RunLoad(w) \/ RunSwap(w)
    \/ RunWaitPush(w) \/ RunWaitPop(w) \/ RunPop(w) \/ RunReposted(w)
    \/ RunObjectEnd(w) \/ RunDrained(w) \/ RunExit(w) \/ Join(w)

Next ==
    \/ \E t \in Threads : PostStep(t) \/ \E o \in Objects : Post(t, o)
    \/ \E w \in Workers : RunStep(w) \/ RunRepost(w) \/ RunThrows(w)
    \/ Stop
    \/ StopGroup
    \/ Destroy

Spec == Init /\ [][Next]_vars

\* Every thread is scheduled; the owner stops the group after the Context and
\* then destroys it, but need not stop the Context at all.  A worker does not lose
\* the compare_exchange for ever: whoever wins it sleeps for a microsecond and
\* drains a queue before it swaps again, a retry is the next instruction.
Fairness ==
    /\ \A t \in Threads : WF_vars(PostStep(t))
    /\ \A w \in Workers : WF_vars(RunStep(w)) /\ SF_vars(SwapOK(w) /\ RunSwap(w))
    /\ WF_vars(StopGroup)
    /\ WF_vars(Destroy)

FairSpec == Spec /\ Fairness

-----------------------------------------------------------------------------
(* Properties                                                               *)

\* The queue a worker has in its hands: its local one, except between the swap
\* that gave it away and the pop that gets the next.
InHands(w) ==
    CASE pc[w] \in {"check", "load", "cas", "drain", "exec", "repost"} -> {localQue[w]}
      [] pc[w] = "push" -> {expect[w]}
      [] OTHER -> {}

\* Every allocated SerializerQueue is in exactly one place (a slot, _waitQue, or
\* one worker's hands), so it has one consumer at a time and is deleted once; and
\* _waitQue, with one entry per slot and one more for every worker between its push
\* and its pop, never comes near empty: the Pop in Run does not fail.
QueueOwnership ==
    ~destroyed =>
        /\ \A q \in Queues :
              Cardinality({i \in SlotIdx : globalQue[i] = q})
              + Cardinality({i \in DOMAIN waitQue : waitQue[i] = q})
              + Cardinality({w \in Workers : q \in InHands(w)})
                  = IF q \in live THEN 1 ELSE 0
        /\ Len(waitQue) = Slots + Cardinality({w \in Workers : pc[w] = "pop"})

\* A posted object is in exactly one place until it is run: with the thread that
\* posts it, in one queue, or with the worker that runs it.  Nothing is lost when
\* queues rotate under a poster, and nothing is run twice.
Entries(o) ==
    UNION {{q} \X {i \in DOMAIN content[q] : content[q][i] = o} : q \in live}

EntryExact ==
    \A o \in Objects :
        Cardinality({t \in Threads : pobj[t] = o})
        + Cardinality(Entries(o))
        + Cardinality({w \in Workers : executor[w] = o})
            = IF token[o] = "held" THEN 1 ELSE 0

\* Objects are lost only by shutting down, and ~Context leaves no queue behind.
CleanShutdown ==
    /\ ~stop => \A o \in Objects : token[o] # "lost"
    /\ destroyed => live = {}

\* No push by one of the pool's own threads reaches a SerializerQueue that was
\* deleted (README.md "Concurrency & Thread Safety Model": the model rules out data
\* races from the ground up).
PushLive == \A w \in Workers : ppc[w] = "loaded" => pque[w] \in live

\* A queued object is run by somebody in the end, unless the Context is stopped.
Queued(o) == \E q \in live : o \in Range(content[q])
EntryServed ==
    \A o \in Objects : Queued(o) ~> (~Queued(o) \/ stop)

\* Once stopped, the pool winds down: all threads are joined, all queues deleted.
ShutdownCompletes == stop ~> (destroyed /\ live = {})
=============================================================================
