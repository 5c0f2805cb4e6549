------------------------------- MODULE MCBase -------------------------------
(***************************************************************************)
(* The self-contained parts of Base and Core in one run: a behaviour is one   *)
(* of AwaitTask, RedisClient, Accept, RWLockObject, MemoryPool, TSharedPtr,   *)
(* Calendar or Param, and the variables of the others keep their initial      *)
(* values.                                                                   *)
(***************************************************************************)
EXTENDS AwaitTask, RWLockObject

CONSTANTS Requests, MaxConns, MaxStops, AcceptTasks, NetThreads, Peers, Failure, MaxFailures,
          PoolThreads, Count, MaxChunks, Holders, Objects,
          SecondLength, DaySeconds, LastMonth, Limit, Decimal, Params

\* TSharedPtr: 0 stands for nullptr.  MemoryPool: Alloc makes the first block of a chunk
\* the head before it looks at Count.  Units of time, MAX and the scale of Param are positive.
ASSUME HoldersAssumption == IsFiniteSet(Holders) /\ IsFiniteSet(Objects) /\ 0 \notin Objects
ASSUME PoolAssumption    == Count \in Nat \ {0} /\ MaxChunks \in Nat
ASSUME CalendarAssumption == {SecondLength, DaySeconds, LastMonth} \subseteq Nat \ {0}
ASSUME ParamAssumption   == {Limit, Decimal} \subseteq Nat \ {0} /\ Params \subseteq Int

VARIABLES
    part,           \* what the behaviour is about, a member of Parts
    strand, loop, newCon, conn, cancelled, stopFlag, asked, waitsOn, made, stops,
    late,                                                       \* RedisClient
    backlog, accepting, accepted, serverQue, loopState, started, inRun, netStop,
    ioStopped, came, failures,                                  \* Accept
    poolHead, hasPool, chunks, word, inUse, crashed,            \* MemoryPool
    ptr, member, refCount, alive, deleting, deletes,            \* TSharedPtr
    moment,                                                     \* Calendar
    value, heard, tame                                          \* Param

redisVars  == <<strand, loop, newCon, conn, cancelled, stopFlag, asked, waitsOn, made,
                stops, late>>
serverVars == <<backlog, accepting, accepted, serverQue, loopState, started, inRun, netStop,
                ioStopped, came, failures>>
poolVars   == <<poolHead, hasPool, chunks, word, inUse, crashed>>
sharedVars == <<ptr, member, refCount, alive, deleting, deletes>>
numberVars == <<value, heard, tame>>

Redis  == INSTANCE RedisClient
Server == INSTANCE Accept
Pool   == INSTANCE MemoryPool
Shared == INSTANCE TSharedPtr
Dates  == INSTANCE Calendar
Number == INSTANCE Param

Parts == {"await", "redis", "server", "lock", "pool", "shared", "dates", "number"}

MCInit ==
    /\ part \in Parts
    /\ Init /\ Redis!Init /\ Server!Init /\ LockInit /\ Pool!Init /\ Shared!Init
    /\ Dates!Init /\ Number!Init

MCNext ==
    /\ \/ part = "await"  /\ Next
       \/ part = "redis"  /\ Redis!Next
       \/ part = "server" /\ Server!Next
       \/ part = "lock"   /\ LockNext
       \/ part = "pool"   /\ Pool!Next
       \/ part = "shared" /\ Shared!Next
       \/ part = "dates"  /\ Dates!Next
       \/ part = "number" /\ Number!Next
    /\ UNCHANGED part
    /\ IF part = "await" THEN TRUE ELSE UNCHANGED vars
    /\ IF part = "redis" THEN TRUE ELSE UNCHANGED redisVars
    /\ IF part = "server" THEN TRUE ELSE UNCHANGED serverVars
    /\ IF part = "lock" THEN TRUE ELSE UNCHANGED lockVars
    /\ IF part = "pool" THEN TRUE ELSE UNCHANGED poolVars
    /\ IF part = "shared" THEN TRUE ELSE UNCHANGED sharedVars
    /\ IF part = "dates" THEN TRUE ELSE UNCHANGED moment
    /\ IF part = "number" THEN TRUE ELSE UNCHANGED numberVars

MCVars == <<part, vars, redisVars, serverVars, lockVars, poolVars, sharedVars,
            moment, numberVars>>

\* Nothing is enabled that is fair in the initial states of the parts, so fairness says
\* nothing of the parts that a behaviour is not about.
MCSpec == MCInit /\ [][MCNext]_MCVars /\ Fairness /\ Redis!Fairness /\ Server!Fairness
                 /\ LockFairness

MCHolders == {<<t, n>> : t \in 1 .. 2, n \in 1 .. 2}
MCParams  == {-32, -16, -7, -1, 0, 1, 3, 5, 9, 16, 20, 31}

-----------------------------------------------------------------------------
(* The properties of the parts.                                             *)

\* RedisClient: Stop ends the connect loop unless it came while nothing was connected.
StopEnds == Redis!StopEnds

\* RedisClient: the handler of every Execute runs.
Answered == Redis!Answered

\* Server::Accept: every connection that arrives is started once while a loop is left.
EveryoneAccepted == Server!EveryoneAccepted

\* MemoryPool: every block is in one object or in one thread's free list.
BlocksOnce == Pool!BlocksOnce

\* TSharedPtr: an object lives exactly as long as it has holders.
RefsExact == Shared!RefsExact

\* DateTime: periods tile the time line, moving by months and back returns.
DatesHold == Dates!DatesHold

\* Param: values inside the limits stay inside and sums do not change direction.
Saturates == Number!Saturates
=============================================================================
