# Bugat in TLA+

Bugat is a C++20 server framework: game objects that behave as if they were
single-threaded ("Serialized Execution Model"), a pool of threads that runs them,
lock-free queues underneath, and TCP connections written as coroutines on top, with a
Redis client, memory pools, shared pointers and fixed-point numbers beside them.
This directory models the parts of it whose correctness depends on what several
threads do at once, checks them with TLC and proves their safety with TLAPS.
Paths in this file are relative to the root of the repository.

## The system

| Component | State | Operations | Talks to |
|---|---|---|---|
| `TaskSerializer`, `SerializeObject` (`Core/TaskSerializer.*`, `Base/SerializeObject.*`) | task queue `_que`, its size, `_taskCount` | `Post`, `Run`, hooks `OnPost`, `OnRun` | pushes itself into a `Context` when the first task comes or tasks remain |
| `Context` (`Base/Context.*`), `ThreadGroup` (`Core/ThreadGroup.*`) | slots `_globalQue`, `_waitQue`, a thread-local queue per worker, `_stop` | `Post`, `Run`, `Stop`, `~Context` | runs `SerializeObject`s; its workers post to it |
| `LockFreeQueue`, `freelist_stack`, `tagged_ptr` (`Core/lockfree`) | `_head`, `_tail`, nodes, node pool, `_size` | `Push`, `Pop`, `GetSize` | is the queue of all of the above |
| `Connection`, `Server` (`Base/Connection.*`, `Base/Server.*`) | `_state`, `_socket`, `_sendQue`, coroutine frames | `Connect`, `Start`, `Send`, `Recv`, `Close` | is a `SerializeObject`; asio handlers post resumes to it; calls its session through events |
| `Session`, `GameSession`, `Dummys` (`Base/Session.*`, `GameServer`, `TestClient`) | `_connection`, membership in a manager | `Send`, `Close`, `HandleMsg` | is a `SerializeObject`; sends through and closes its connection |
| `AwaitTask` (`Base/AwaitTask.h`, `Base/Macro.h`) | coroutine frames | `Spawn_`, `co_await`, `final_suspend`, `FinalDestroyer` | resumed by tasks of an executor |
| `NetworkMessage`, `DataBlock`, packets (`Base/NetworkMessage.h`, `Base/Packet.h`) | a receive buffer in blocks | `GetBufInfo`, `Update`, `GetNetMessage` | filled by `Recv`; packets point into its blocks and travel to the session |
| `GameHandler`, handlers (`GameServer/GameHandler.*`, `PlayerHandle.cpp`, `Base/Handle.h`) | a table of handlers | `Handle` | called by the session, answers through it |
| `Server`, `NetworkContext` (`Base/Server.*`, `Base/NetworkContext.*`) | accept coroutines, `_stop` | `Accept`, `Run`, `Stop` | asio; creates and starts connections |
| `RedisClient` (`Base/RedisClient.h`) | a connection, a stop flag | `Connect`, `Execute`, `Stop` | asio, Boost.Redis, one strand |
| `ObjectManager` (`Base/ObjectManager.h`) | maps from identifier to object | `Add`, `Del`, `Get` | each map is behind an `RWLockObject` |
| `RWLockObject` (`Core/lock/RWLockObject.h`) | `_readerCount`, `_writerCount`, `_writerActive` | `LockRead`, `LockWrite`, both unlocks | - |
| `TSharedPtr` (`Core/memory/TSharedPtr.h`) | reference counts | copy, move, assign, `Reset` | tasks, packets and sessions hold them |
| `MemoryPool`, `ObjectPool` (`Core/memory`) | free lists per thread, chunks | `Get`, `Release` | a shared pointer's deleter releases |
| `DateTime` (`Core/DateTime.h`) | a moment | periods, moves | `std::tm` |
| `Param`, `EventParam` (`Base/Param.h`), `Event` (`Core/Event.h`) | a scaled integer, listeners | arithmetic, assignment | listeners |

What is hard, and what must hold:

* Serializer. `Post` links the task, counts it in `_size`, then in `_taskCount`; a
  `Run` on another thread may pop it in between. No lock is held. One thread at a
  time may be inside `Run`; every task is run once, in order; none is forgotten.
* Context. Queues move between slots, `_waitQue` and workers while posters hold
  bare pointers to them. No queue may have two owners, no object may be lost or
  run twice, and shutdown must delete every queue once.
* Lock-free queue. Nodes are reused, so a thread that sleeps between a load and a
  compare-exchange may see the same address with another meaning (ABA).
* Connection. Send, Recv, Connect and the session may all close it, a coroutine
  destroys itself when it ends, connection and session refer to each other.
* Lock. Condition variables need exactly the right notifications.
* Coroutines. A frame posts its caller before it is destroyed itself; objects may await each
  other in a cycle. Each frame must be resumed once per suspension, and at home.
* Packets. TCP cuts the stream anywhere; a packet waits for the session inside a block
  that is still being filled and may be handed out again.
* Accepting, Redis. Loops that must neither end too early (an error, an idle `run_one`) nor go on
  after a stop, while requests are outstanding.
* Memory. Two threads drop the last references at once; blocks are freed on other threads.
* Numbers and dates. Limits, overflow before the clamp, leap days, month ends.

`PROJECT.json` lists all hazards line by line.

## Modules

| Module | What it is |
|---|---|
| `SerialExecutor` | abstract: tasks of one object start in order of acceptance, one at a time |
| `TaskSerializer` | `Post` and `Run` of one object, one action per atomic access; implements `SerialExecutor` |
| `TaskSerializerProofs` | theorems about it |
| `Context`, `ContextProofs` | slots, `_waitQue`, workers, posters, shutdown; theorems about them |
| `FifoQueue` | abstract: an atomic queue |
| `LockFreeQueue` | `Push` and `Pop` with node pool and tags, one action per load, store or CAS; implements `FifoQueue` for one producer |
| `LockFreeQueueProofs` | theorems about it |
| `Connection`, `ConnectionProofs` | one connection, its coroutines, its session, both sides; theorems about them |
| `PacketStream`, `PacketStreamProofs` | one direction of a connection byte by byte, from `Send` to the peer's handler; theorems about it |
| `AwaitTask`, `AwaitTaskProofs` | coroutines that await each other across executors, and theorems about them |
| `Accept` | the accept coroutines and the threads in `NetworkContext::Run` |
| `RedisClient` | connect loop, requests and stops on the strand |
| `MemoryPool` | blocks of one size class in the free lists of several threads |
| `TSharedPtr` | holders, counts and deleters of a few objects |
| `Calendar` | `DateTime`'s periods and moves |
| `Param` | fixed-point values at their limits |
| `RWLockObject`, `RWLockObjectProofs` | the lock, and theorems about it |
| `MC...` | instances for TLC; `MCBase` runs the eight parts from `AwaitTask` to `RWLockObject` |
| `BaseProofs` | theorems about `TSharedPtr`, `MemoryPool`, `Calendar` and `Param` as `MCBase` instantiates them |

The modules form layers, each of which takes the one below as what that one was
shown to be:

    PacketStream    Send, Recv and the session take turns      (Connection: CoroutineOnce)
    Accept          the server's tasks run one at a time       (SerialExecutor)
    AwaitTask       executors run one task at a time, in order (SerialExecutor)
    Connection      executors run one task at a time           (SerialExecutor)
    TaskSerializer  the Context is a bag of objects to run     (Context: EntryExact, EntryServed)
                    the task queue is linearizable             (FifoQueue)
    Context         an object is posted at most once at a time (TaskSerializer: OneToken)
                    its queues are linearizable                (FifoQueue)
    LockFreeQueue   memory, tagged pointers

The last assumption is the weak one. `LockFreeQueue` is proved to be a FIFO queue for one
producer and one or several consumers, and for producers alone. With several producers and a consumer it is not (run
`lfq_mpsc` below), and several producers is how the serializer and the context use it. Every
result about the upper layers is therefore conditional on a queue that is repaired,
and no run of an upper layer hides the defect: it is stated where it belongs.

### TaskSerializer

`links` is the history of all nodes ever linked (who posted them) and `popped` how
many were popped, so the queue is the rest of `links`. `size` and `taskCount` are
the two atomics. `ctx` counts how often the Context holds the object. A post is
`PostPush`, `PostSize`, `PostCount` and, for the thread that got 1 back, `PostSchedule`.
A run is `Take`, `RunSize`, then `RunPop` and `RunTask` per task, `RunEnd` (the
`fetch_sub`) and `Resched` when tasks remain. `TaskThrows` is a task that throws: the
exception leaves `Run` without the `fetch_sub` and `Context::Run` swallows it.
Context.cpp catches in debug builds only; in a release build the process ends, which is
`MaxThrows = 0`. A worker posts only from inside its own task, as a coroutine that awaits
its own executor does. The `TASKSERIALIZER_ERROR` branches of `Post` are left out, since
`LockFreeQueue::Push` returns true always. The context of an object is taken as set
(every `CreateSerializeObject` passes one).

### Context

Queue addresses are model values; `live` are the allocated ones. `RunNext`, `RunLoad`,
`RunSwap`, `RunWaitPush`, `RunWaitPop` are the five shared accesses of one turn of
`Context::Run`, `RunPop` and what follows the drain of `SerializerQueue::Run`.
A poster draws a slot, loads the pointer, pushes (`Post`, `PostLoad`, `PostPush`):
a worker does the same from inside a task, and again to post an object with remaining
tasks (`RunRepost`). `token` says who may run an object, as proved in
`TaskSerializerProofs`; an object whose task threw is `stuck`, one that was destroyed with
its queue is `lost`. The owner's actions are `Stop`, `StopGroup`, `Join`, `Destroy` in the
order of `Test/Test.cpp`: `~Context` runs after `Stop`, `ThreadGroup::Stop` and `Join`. Locals that the code does not read again are reset, which
only merges states. `Destroy` waits for all posters, because nothing in the code could make
a later post safe; that a *worker's* post is not safe even so is run `ctx_pushlive`.

### LockFreeQueue

The first word of a node is `_next` of the queue while it is linked and `_next` of the
free list while it is free; the model has one variable for both, as memory has. The
pool's own loops are one action each: its top carries a tag of its own. Every value is
distinct (producer and number), so that `accepted` and `delivered` tell a lost, a
repeated and a reordered value apart. `Pop` reads `_tail` before `_head` as the code does.
A setup, fixed at the start of a behaviour, says which threads take part and whether the
value's copy empties its source: `AnyTask` does that (`Core/Task.h:41`), so a consumer whose CAS
fails afterwards would leave an empty task behind, were there a second consumer.

### Connection

One connection between its beginning (after `AsyncAccept` on the accepting side, at
`Connect` on the other) and its end. Two executors, that of the connection and that of the
session, are queues of tasks run one at a time; on the accepting side `Start` runs
on a third, the server's. Coroutines are `Send`, `Recv` and `Connect`: `conQ` holds resumes,
`pending` those in an asio operation, `frames` those not yet destroyed. Completions
(`ReadData`, `WriteDone`, `ConnectDone`, `Fails`) come from asio at any time and post a
resume. A read may or may not complete a packet, and the session may or may not answer.

### PacketStream

A byte is `<<i, k>>`, byte k of the i-th packet, so that a lost, repeated or misplaced
one shows. `Send`, `TakePacket` and `WriteSome` are the sender (`PacketHelper::Update` is `Written`), `GetBufInfo`,
`ReadSome` and `Parse` the `Recv` coroutine, `Handle` the session's task with `GameHandler`'s
table: of the two packet types only the move has a handler, which answers while the connection is
open. A write or a read takes any number of bytes. Either side may disconnect at any
time; what is on the wire may still be read and what was posted is still handled. Where
`GetBufInfo` copies unconsumed bytes into a new block without advancing its `_tail`
(NetworkMessage.h:44) the model does so too and notes it in `lost`. What is read from the garbled header then is the size of some
message; sizes that no message has (negative ones, huge ones) are left out, since nothing is stated behind `lost` but `ReadFits`, in which
no size of a packet occurs.
`InOrder` says of what is handled and of what waits for the session that it is a beginning of what was sent
(`PacketsInOrder`), and of the answers that they are those to the moves handled, in that order, all of them while the
receiver is open (`AnswersInOrder`).

### AwaitTask

Frames are numbered in the order of creation. `queue` holds the resumes posted to each executor,
`caller` and `home` are the captures of `await_suspend`: who awaits, and where it was running.
`AwaitOn` posts the callee to its executor, `AwaitInline` resumes it on the spot. The end of a frame is two steps,
`FinalSuspend` (store the value, post the caller) and `Destroy`, since the caller may run on another thread in between.
`AwaitTask<void>` takes the same steps, so one model stands for both.

### The other parts of MCBase

* `Accept`: asio gives arriving connections to outstanding accepts in order; every completion
  posts the resume of an accept coroutine to the server. `RunIdle` is `run_one` with nothing
  outstanding, which stops the `io_context`. Whether a connection that was started keeps it busy is left open.
* `RedisClient`: the stretch between two `co_await`s is one handler of the strand. `RunReturns` may
  happen at any time, as the peer may go at any time. `Connect` is taken to be called once, as in the use GameServer.cpp
  sketches (56-57, commented out); nothing in `RedisClient` keeps a second call from starting a second loop.
* `MemoryPool`: the first word of a block is the link while it is free and the object's otherwise. `FreeLists(t)` are the
  sequences that the words of the blocks link from thread t's head to a null word; `BlocksOnce` says that there is one per thread
  and that these lists and the blocks in use share out all blocks. A block is released by any thread. One that never called
  `Get` has no entry in its `tls_memorypool_map`; `Release` makes a null one and calls through it (MemoryPool.h:161), which is
  `NullRelease`: the process ends (`crashed`) and nothing moves any more. `BlocksOnce` holds of all states, `pool_release` shows that one.
  (`ObjectPool`'s deleter in `Core/memory` gives the memory back without a call of the destructor; the model has no members of objects.)
* `TSharedPtr`: `Reset` is `fetch_sub` and then the deleter; the destructor of an object drops its
  member, which may be the last reference to the next object. A reference changes threads by `Move` only, as in a task.
* `Calendar`: year and month are one count of months; `FirstDay` is the Gregorian calendar between 1970 and 2099.
* `Param`: `Plus` and `Minus` may or may not have wrapped at 32 bits before they are clamped:
  signed overflow is undefined there. Of two values inside the limits only MAX + MAX can wrap; `tame` is FALSE behind it.

### RWLockObject

Every stretch of code under `_mtx` is one action. Waiting threads are in `rwait` or
`wwait`; a notification or a spurious wakeup moves them to `rwoken` or `wwoken`, from where
they test again. `notify_one` wakes an arbitrary writer.

## Runs

| Run | Question | Instance | Answer |
|---|---|---|---|
| `ts_safety` | Is an object run by one thread at a time, does it implement `SerialExecutor`, are `_size` and `_taskCount` exact enough, is every task run? | 2 posters (3 posts), 2 workers (1 post each from inside a task), 1 exception | yes; tasks are run while nothing threw |
| `ts_throws` | Is every accepted task run (README, Context-Based Execution)? | 1 exception | no, see below |
| `ctx_safety` | One owner per queue, nothing lost or run twice, clean shutdown? | 2 workers, 1 poster, 2 objects, 2 slots, 3 posts, 1 exception | yes |
| `ctx_live` | Is every posted object run, does shutdown end? | 2 workers, 1 slot, 2 posts, `Stop` at any time | yes |
| `ctx_pushlive` | Does a worker push only into queues that exist? | 2 workers, 1 slot, `Stop` | no, see below |
| `lfq_queue` | Is it a FIFO queue, used in one of three safe ways? | 1 producer (3 pushes) and 2 consumers of pointers; 1 producer (3) and 1 consumer of tasks; 3 producers; 4 nodes | yes |
| `lfq_mpsc` | And two producers beside a consumer? | 2 producers, 1 push each, 1 consumer, 4 nodes | values are lost, see below |
| `con_safety` | No operation on a reset socket, no coroutine resumed twice, one `OnClose`, everything given back? | both sides, 2 reads with data | yes, except for the session of an accepted connection |
| `con_leak` | Does that session leave the manager? | accepting side | no, see below |
| `stream` | Are packets handled in order and whole however the stream is cut, do reads stay inside the block, is everything handled? | 4 packets, headers of 2 bytes, packets of 2 and of 3, 3 blocks of 2 packets | yes, unless `GetBufInfo` had to copy |
| `base_parts` | One question per part, see below | below | yes |
| `pool_release` | Does `Release` return on every thread (ObjectPoolTest)? | 2 threads, 2 chunks of 2 blocks | no, see below |

`base_parts` is one run of eight independent parts: `part` chooses at the start which one a behaviour is
about, and the variables of the others do not change. It asks

* `AwaitTask` (2 executors, 4 frames): is a frame resumed once per suspension with the value of the
  callee it awaited last (`ResumedOnce`), on its own executor (`OnOwnExecutor`), and does every one end (`FramesEnd`)?
* `RedisClient` (2 requests, 3 connections, 2 stops): does `Stop` end the loop (`StopEnds`), and does every
  request get its handler called (`Answered`)? Yes, but for a `Stop` during the wait of a second
  between two connections: `IsStop` is tested only behind `async_run` (RedisClient.h:113), so that the loop
  goes on with a new connection until that is lost too. Both properties name this exception (`late`).
* `Accept` (2 loops, 2 threads, 3 peers, 2 failures): is every peer started once (`EveryoneAccepted`)?
  Yes, as long as fewer accepts failed than there are loops (each error ends one, Server.cpp:61) and
  no thread called `run_one` while no accept was outstanding. Both exceptions are reachable.
* `RWLockObject` (4 threads, 2 calls each): is a writer alone (`Exclusion`), is no notification missing (`NoLostWakeup`), are the
  counters exact (`CountsExact`), does no reader overtake a waiting writer (`WritersFirst`), does everyone get the lock (`EveryoneServed`)?
* `MemoryPool` (2 threads, 2 chunks of 2 blocks): is every block in one place (`BlocksOnce`)?
* `TSharedPtr` (2 threads with 2 holders, 3 objects): are counts exact and deleters run once (`RefsExact`)?
* `Calendar` (January 1970 to April 1973, days of 2 seconds of 2 milliseconds): do periods tile the time line and do months move back (`DatesHold`)?
* `Param` (limit 16, decimal 3, 12 operands): do values stay inside the limits and sums move the right way (`Saturates`)? Yes, but
  for MAX + MAX: the sum wraps before it is clamped, and the value may be MIN afterwards.

Fairness is stated for all parts at once. It constrains only the part a behaviour is about: no fair action
of any part is enabled in the initial state, where the variables of the other parts stay.

Why these bounds are enough to mean something:

* Serializer: with two workers a second token would have a worker to run it; two
  posters and a posting task cover post against post, against run, and from inside
  run; `p1` posts twice, so that a post meets a run of its own first task.
* Context: one slot makes both workers race for the same compare-exchange, two slots
  make them overtake each other. Three posts are enough for two objects to be in
  flight and one to be reposted. Six addresses are exactly the queues that can
  live at once (two per slot, one per worker), so deleted ones are reused.
* Queue: four nodes for three pushes and the dummy force reuse through the pool;
  three producers meet in all orders. 16 tags are more than the changes of `_head` and `_tail` in the run; tags that wrap
  below that are a hazard of their own (`PROJECT.json`). Consumers pop without bound.
* Connection: two reads with data allow two packets and two answers, the second
  of them against a close; the failing of every operation at any moment covers a
  peer that hangs up. The state space is finite without further bounds.
* Stream: with blocks of two packets the third needs a new block, and after the fourth a block is asked for again while packets
  may still wait in the first, which must not be handed out then; packets of two sizes, one of them a bare header, are cut at every place.
* Coroutines: four frames make a cycle over two executors (a on x awaits b on y awaits c on x)
  beside a second spawned frame. Redis: three connections are one lost, one replaced
  and one that stays; the destructor stops a second time. Accept: three peers for two loops, two failures end both.
* Pool, pointers: two blocks change threads in both directions; a chain of three objects is dropped by one `Reset`.
  Dates: a leap year and three ends of a year. Numbers: operands on and one beside both limits.
* Lock: two readers, one waiting and one notified writer at once need four threads;
  a second call makes each of them meet the state the others left behind.

Every bound is a constant: `Budget`, `MaxThrows`, `MaxPosts`, `Slots`, `Pushes`, `Nodes`,
`MaxTag`, `MaxData`, `Calls`, `MaxPackets`, `Blocks`, `Frames`, `MaxConns`, `MaxStops`, `MaxFailures`, `MaxChunks`, `Holders`, `Objects`, `LastMonth`, `Params`. Symmetry is used in the two safety runs of `Context` only
(workers, objects and addresses are interchangeable there), never with liveness. Deadlock is checked
where threads loop for ever or where a stop means a thread that waits for something: it
is off where the system ends (after `~Context`, after the last call, after a connection is gone).

### What the violated runs show

* `ts_throws`. The exception skips `_taskCount.fetch_sub` for its own task and for those
  done before it in the same `Run`. `_taskCount` never comes back to 0, no later `Post` gets
  1, the object is never handed to a Context again; it is dead while accepting tasks.
* `ctx_pushlive`. `Context::Post` loads a slot's queue and pushes later. In between a
  second worker may swap this queue out, bring it through `_waitQue` into its hands,
  see `_stop` and delete it; the first worker, in the middle of a task, pushes into freed memory.
* `lfq_mpsc`. `InternalPush` checks `_tail` and then compares `tail->_next` with the null
  handle it loaded, without asking whether that node still is the tail. In the trace both producers have allocated their nodes and read
  the dummy node as `_tail`; one stops after its check. The other links its node behind the dummy, `_tail` and
  `_head` move on, and the consumer frees the dummy. The pool is empty, so `deallocate` writes the word (0, 0) into the freed node's
  `_next` (free_list.hpp:91), which is the null handle the first producer waits for: its CAS succeeds on a node of the pool.
  The value is accepted and cannot be popped, and its node hangs in the free list. No node is taken out of
  the pool again in this run; one that is, has a null handle too.
* `pool_release`. One thread calls `Get`, another that never did drops the last reference: its `tls_memorypool_map` has no
  entry, and `Release` dereferences null. ObjectPoolTest.cpp:42-72 uses a pool in this way: ten threads take objects, the workers
  of a `Context` may be the last to hold them, and the test waits until all are destroyed. (The test names the pool through
  a `Core/ObjectPool.h` that does not exist at this commit; the model is of the pool in `Core/memory`.)
* `con_leak`. `Start` spawns `Send` and `Recv` and calls `OnConnect` afterwards. On the
  accepting side that is another executor than the connection's, so a peer that hangs
  up at once lets `Recv` close the connection and the session leave the manager
  before `OnConnect` adds it; it is never removed again. On the connecting side all of
  this happens inside the `Connect` coroutine and the order is safe
  (`ConnectedSessionReclaimed` in `con_safety`).

## Fairness

* `TaskSerializer`: a thread inside `Post` or `Run` keeps running (the scheduler), and an
  object in the Context is taken by some worker (`ctx_live`). Nobody has to post.
* `Context`: threads keep running. A worker's successful compare-exchange has strong
  fairness: whoever wins it sleeps for a microsecond (Context.cpp:111) and drains a queue
  before the next attempt, while the loser's retry is its next instruction, so it is not beaten for
  ever. Without this assumption a lock-free loop does not promise progress to one thread.
  The owner need not call `Stop`, but once it has it goes on as `Test.cpp` does.
* `LockFreeQueue`: threads inside `Push` and `Pop` keep running and consumers call `Pop`
  again, as every user does.
* `Connection`: executors run their tasks; asio completes the operations of a closed
  socket with an error. Nothing is assumed of the peer: a connection nobody closes lives on.
* `PacketStream`: the coroutines and the session run (`Connection`), TCP delivers while nobody disconnects.
* `AwaitTask`: an executor with something to do does it (`TasksServed`); nobody has to spawn.
* `RedisClient`: the strand runs its handlers, the timer fires, a cancelled `async_run` returns, a
  connection that keeps running answers. A connection need not ever be lost.
* `Accept`: a thread that waits in `run_one` runs a handler that is there; the server's executor runs.
* `MemoryPool`, `TSharedPtr`, `Calendar` and `Param` have safety properties only.
* `RWLockObject`: woken threads get the mutex and holders release. Every thread makes
  finitely many calls (`Calls`), without which writers starve readers by design.

## Proofs

Eight modules hold proofs. Each theorem holds for every value of the constants that its
component's named assumptions allow: any finite set of workers or of the queue's threads, any posters, objects, slots, executors, packets, sizes and
bounds. The assumptions say what the code takes for granted (sets of threads do not
overlap, `None` and `0` stand for null pointers and are not objects, a chunk has a block, a packet fits into
a block, limits, scales and units of time are positive); those of `TSharedPtr`, `MemoryPool`, `Calendar` and `Param` are in `MCBase`,
which instantiates them; `PartsHold` says that what is proved of them holds of what `MCBase` runs.

| Module | Invariant that is inductive | Theorem: property |
|---|---|---|
| `TaskSerializerProofs` | `TypeOK`, `OneToken`, `BatchCounted`; with it `SizeExact`, `CountExact`, `Awake` | `TypeCorrect`, `TokenUnique`: `OneToken`, `RunsSerially`: `SerialExecution`, `RunAlwaysPops`: `PopNeverEmpty`, `TaskCountExact`: `CountExact`, `NothingStranded`: `NoStrandedTask`, `RefinesExecutor`: `Implements` |
| `ContextProofs` | `TypeOK`, `LocalsOK`, `OwnOK`, `QuitOK`, `EntryOK` | `TypeCorrect`, `QueuesOwnedOnce`: `QueueOwnership`, `EntriesHeldOnce`: `EntryExact`, `ShutsDownCleanly`: `CleanShutdown` |
| `ConnectionProofs` | `TypeOK`, `PlacesOK`, `PhaseOK`, `ClosingOK` | `TypeCorrect`, `SocketIsThere`: `SocketSafe`, `ResumedFromOnePlace`: `CoroutineOnce`, `OnCloseOnce`: `ClosedOnce` |
| `PacketStreamProofs` | `TypeOK`, `BlockOK`, `QueueOK`, `OrderOK` | `ReadsInsideTheBlock`: `ReadFits`, `PacketsArriveInOrder`: `InOrder` |
| `AwaitTaskProofs` | `TypeOK`, `PlacesKnown`; with it `RInv` | `FramesPlaced`, `RunsOnOwnExecutor`: `OnOwnExecutor`, `FramesResumedOnce`: `ResumedOnce` |
| `LockFreeQueueProofs` | `Inv` of some rows of nodes: `TypeOK`, `QueueOK`, `TailOK`, `PoolOK`, `PlacesOK`, `Builder`, `Popper`, `ValuesOK`; with it `SizeOK` | all under `Suited`: `LosesNothing`: `NothingLost`, `PoolApart`: `PoolDisjoint`, `EmptyIsHonest`: `EmptyHonest`, `SizeIsSafe`: `SizeSafe`, `IsFifo`: the safety part of `Implements` |
| `RWLockObjectProofs` | `TypeOK`, `CountsExact`, `Exclusion`, `NoLostWakeup` | `TypeCorrect`, `WriterAlone`: `Exclusion`, `NobodyForgotten`: `NoLostWakeup`, `CountersExact`: `CountsExact`, `WritersGoFirst`: `WritersFirst` |
| `BaseProofs`, of `TSharedPtr` | `SharedInv`: `TypeOK`, `CountsOK`, `AliveOK`, `DeletingOK` | `SharedTypeCorrect`, `CountsAreExact`: `RefsExact` |
| of `MemoryPool` | `PoolInv`: `TypeOK` and there are lists that `Listed` holds of | `PoolTypeCorrect`, `BlocksNeverLost`: `BlocksOnce` |
| of `Calendar` | the moment is between 0 and `LastMoment` | `PeriodsTile`: `DatesHold` |
| of `Param` | `NumberInv`: a tame value is inside the limits | `ValuesSaturate`: `Saturates` |

*TaskSerializer.* `SerialExecution` alone is not inductive: nothing in it says why a second
worker does not get the object. The invariant is `OneToken`: the right to run an object is with
the Context, with one thread about to post it, or with the worker in `Run`, and while it
exists `_taskCount >= 1`. It is created only by a `fetch_add` that returns 1, from 0,
when there was none; it ends only when a `fetch_sub` leaves nothing. `TypeOK` needs
`BatchCounted` (what a `Run` is still to pop is covered by `_size`), or `_size` might wrap below
zero. `RunAlwaysPops` adds `SizeExact`: `_size` and the posts between link and count
are exactly the queue, proved with the cardinality lemmas; `TaskCountExact` is the same of `_taskCount`, where the
worker in `Run` (there is one, by `OneToken`) holds a batch that is taken out and not yet subtracted. `NothingStranded` needs
`Awake`: as long as nothing threw, a positive `_taskCount` has a token; with no post and no run under way `CountExact`
says that the count is the queue's length. `RefinesExecutor` proves
`Spec => Implements`: at most one worker is in a task, so each step of `Post` and `Run` is a
step of `SerialExecutor` (link = `Submit`, pop = `Start`, return or exception = `Finish`) or a stutter.

*Context.* `QueueOwnership` and `EntryExact` count places. The invariant says instead that the places
are different: no queue is in two slots, in two positions of `_waitQue`, with two workers or in two of these, and the places
together are `live` (`OwnOK`); the same of objects in posts, queues and executors (`EntryOK`). A step then
moves one thing from one place to another. The counts follow at the end, each being 0 or 1 for a single queue or object. That
the worker has a queue in its hands at every turn, exceptions included, is `LocalsOK`; that `~Context` finds all
queues in slots and `_waitQue` needs the order of `Stop`, `ThreadGroup::Stop`, `Join` (`QuitOK`).

*LockFreeQueue.* The properties are not true for all values of the constants: with two producers beside a consumer values are
lost (`lfq_mpsc`), with tags that come again within one `Pop` a stale compare-exchange succeeds, and a copy that empties its source
must not meet a second consumer. `Suited` is what the theorems assume of the initial state instead: one
producer if anybody pops, fewer pushes than tags (without a consumer: no more nodes than tags, since none is reused), one
consumer if copies steal. All setups of `lfq_queue` are suited, that of `lfq_mpsc` is not. The memory alone does not say what a
loaded pointer means, because an address may be reused; the invariant says that there is the row `L` of all nodes in the order
of linking, and that a pointer with the tag k is `L[k]`. `_head` has the tag `Len(delivered)`, `_tail` the tag `Len(accepted)`
or one less while the last pusher is before its swing. So a compare-exchange of `_head` succeeds only if nothing was popped since the
load, and then what was read behind the old dummy node, a node still in the queue, is the next value. A CAS on `_next` needs more, for the null
handle has no tag: the one producer's `_tail` is the last node whenever it looks, and without consumers no node is
reused, so a null handle belongs to the last node. `F` is the row of the pool's nodes, `kind` and `who` say of each node that it is new, in the
pool, in the queue or one thread's own; each of construct, link, pop, free and allocate moves one node from one kind to another.
`PoolDisjoint` also speaks of `_tail`: a pusher that is between its load of `_tail` and its CAS has no node of the pool
in its hands, since with one producer nobody else moves what it read past it and without consumers the pool is empty. `_tail` itself may name
a freed node for a moment: with two consumers, one of which read an older `_tail`, a value is popped before its pusher's swing.
`NothingLost` and `PoolDisjoint` follow links by the recursive function `Walk`; `WalkIs` (by the least
counterexample) says that it goes along a row of linked nodes to its end.

*Connection.* `SocketSafe` needs to know that nobody else resets the socket while `Send` or `Recv` is between
`Disconnected()` and its operation. All three coroutines run on one executor (`PlacesOK`), so that the only other closer is the
session; it closes only in the task that `OnClose` posted, when the connection is disconnected already
(`ClosingOK`). `PhaseOK` says which frames exist before, while and after `Start` runs.

*PacketStream.* What is on its way between the coroutines `Send` and `Recv` is one sequence, `Stream`: the bytes of the block that are not
parsed, the wire, the buffers not written in full. `Whole` says that it is a row of complete packets with the numbers from the
first one not yet posted to the last one taken from `_sendQue`. A write or a read of any length leaves the sequence as it is
(`WrittenLeavesTheRest` for `PacketHelper::Update`), `TakePacket` adds a packet at its end and `Parse` takes one from
its front; the size read from the header is right because the first byte is the first byte of the header. A packet that waits for the session points
into a block; `HandledOK` says that its header is still there, which holds since blocks only grow and one that is
referred to is not handed out again. All of this is under `~lost`: once `GetBufInfo` has had to copy, the stream is garbled and
only `ReadFits` remains.

*AwaitTask.* `OnOwnExecutor` speaks of running frames, but what runs was queued, and what is queued was
posted at the end of a callee to the place that the callee remembers. `PlacesKnown` says all three: running frames,
queued frames and the callers of frames are where they belong. `ResumedOnce` needs that a frame waits exactly while
the last callee it made is active (`CalleesOK`): otherwise an earlier callee could post it a second time.

*RWLockObject.* The counters are cardinalities of
sets of threads, so a reader that leaves as the last one knows that no reader is left, and
a writer that leaves knows from `_writerCount` whether somebody waits; that is what makes
the notifications sufficient. `WakesOne` and `NotifyKeeps` carry the argument for the notified thread.
`WritersFirst` is an action property.

*TSharedPtr.* A count is two cardinalities, of holders and of members of living objects. Between the `fetch_sub` and the deleter the
holder still names the object but does not count; `DeletingOK` says that it is the only one that names it, and that
there is one whenever a count is 0. This excludes the second deleter.

*MemoryPool.* `BlocksOnce` says that lists exist, so the proof names them: the lists of the state before a step become the list without
its head (`TakesHead`), the blocks of the new chunk backwards (`TakesNew`) or the list with the block put first
(`PutsFirst`), and the words of the blocks link exactly those. The lists are no longer than there are blocks since no block is listed twice.

*Calendar.* The invariant is only a range; the work is arithmetic. Written as twelve times a year and a rest, consecutive months
are 28 to 31 days apart (`MonthLength`), so months are in order (`MonthsAscend`) and every day is in exactly one (`MonthOf`, `MonthIs`), the one
that `CountToTm` chooses. Dividing by the length of a day gives day and rest back (`Quotients`), which turns each period into a
multiple of `DayLength` (`PeriodsAt`) and a move by months into a sum (`MoveAt`); a day up to the 28th is inside the month it is moved to.
The theorem is about the `FirstDay` of the model, in which every fourth year is a leap year: it is the real calendar for `LastMonth` up to 2100.

*Param.* A value that is `tame` is inside the limits, and a sum that is tame does not overflow, so that the wrapped sum is the sum itself
and the clamp, which is monotonic, keeps its direction.

Every invariant that a passing run checks is proved. What is only model-checked:

* All liveness properties (`TasksServed`, `EntryServed`, `ShutdownCompletes`,
  `ConnectionReclaimed`, `ConnectedSessionReclaimed`, `EveryoneServed`, `Delivered`, `FramesEnd`, `StopEnds`, `Answered`,
  `EveryoneAccepted` and the fairness part of `LockFreeQueue`'s refinement), which the prover does not handle under
  fairness.

What a passing property excuses, because the code does go wrong there and the model shows it doing so, and what no proof therefore promises:

| Excused | By | In |
|---|---|---|
| bytes overwritten behind `GetBufInfo`'s copy (NetworkMessage.h:44) | `lost` | `InOrder`, `Delivered` |
| a `Stop` while the Redis loop waits for its timer (RedisClient.h:113) | `late` | `StopEnds`, `Answered` |
| `run_one` without an outstanding accept (NetworkContext.cpp:34) | `ioStopped` | `EveryoneAccepted` |
| as many failed accepts as loops (Server.cpp:61) | `failures` | `EveryoneAccepted` |
| a task that threw (TaskSerializer.cpp:17; violated in `ts_throws`) | `throws` | `NoStrandedTask`, `TasksServed` |
| MAX + MAX (Param.h:84) | `tame` | `Saturates` |
| months moved from a day above the 28th (DateTime.h:140) | a premise | `DatesHold` |

The type invariants are proved as parts of the inductive invariants and are not run again.

## Abstractions and what is left out

* Memory is sequentially consistent, as the code's default memory orders on atomics are
  on x64; a weak compare-exchange does not fail spuriously there.
* `compare_exchange` on a `tagged_ptr` compares the packed 64-bit word.
* Reference counts are in `TSharedPtr` only: the models above it take an object to live as long as they use it, and
  one hazard that needs both (a poster whose task frees the last reference, Connection.cpp:63) is listed without a property.
* In `Connection` a packet is a number; its bytes are in `PacketStream`.
* Asio and Boost.Redis are external: modelled as what the code in `Base` uses of them, every completion at any time.
* The repository is in the middle of a refactoring: some headers are included under names
  that do not exist at this commit. The modules follow the headers that do.

### Not modelled

* `UDPConnection` is unfinished (receives and drops); `LockObject` is one atomic flag that nothing uses;
  the data loader reads JSON at start; the actor classes are empty.
* `Counter` is a statistic that nothing uses and whose comment calls it inexact (`PROJECT.json` has the hazard).
* Generated FlatBuffers code, logging, RTTI, identifiers and other utilities have no protocol of their own.
* Exceptions in coroutines (a release build ends), `TCPSocket::Close` throwing, a `sendingPacket` left allocated
  after a write error, the rounding of floats in `Param`, and daylight saving in `DateTime`.
* The tests and the test client are drivers; the models' constants are chosen after their scenarios.

## Plan

1. Done: serializer, context, queue, connection, lock, packets, coroutines, accept loop, Redis client, pool, pointers,
   dates, numbers; proofs of every invariant.
2. Still worth modelling: the counts of `TSharedPtr` inside `Post` (Connection.cpp:63) and inside the nodes of
   `LockFreeQueue` (LockFreeQueue.h:84).
3. Once `InternalPush` is repaired (a CAS on `_next` whose expected value carries the tag of the node, written when the node is
   constructed), `Suited` no longer needs one producer; the case of `LinkStep` is where the proof changes.
