----------------------------- MODULE MemoryPool -----------------------------
(***************************************************************************)
(* Core/memory/MemoryPool.h and ObjectPool.h: blocks of one size class, cut  *)
(* from chunks, in one free list per thread.  A block goes back to the list   *)
(* of the thread that drops the last reference, so blocks move between        *)
(* threads.  The first word of a free block links to the next free one.       *)
(*                                                                          *)
(* A thread has a list from its first Get on.  One that never called Get and   *)
(* drops a last reference calls Release through a null pointer, which ends     *)
(* the process: no thread takes a step after that.                             *)
(***************************************************************************)
EXTENDS Naturals, Sequences, Functions

CONSTANTS
    PoolThreads,
    Count,          \* __TLS_MEMORYPOOL_ALLOC_COUNT: blocks in a chunk
    MaxChunks       \* bound: chunks that malloc returns

Addresses == 1 .. Count * MaxChunks         \* 0 is nullptr

VARIABLES
    poolHead,       \* [PoolThreads -> MemoryPool::_head of its pool]
    hasPool,        \* threads with an entry in tls_memorypool_map
    chunks,         \* chunks allocated so far
    word,           \* [Addresses -> first word of the block]
    inUse,          \* blocks that hold an object
    crashed         \* the process has ended

vars == <<poolHead, hasPool, chunks, word, inUse, crashed>>

Init ==
    /\ poolHead = [t \in PoolThreads |-> 0] /\ hasPool = {}
    /\ chunks = 0
    /\ word = [a \in Addresses |-> 0]
    /\ inUse = {} /\ crashed = FALSE

\* TLSMemoryPool::Get: the thread's first call makes its pool.
EnterPool(t) == hasPool' = hasPool \cup {t}

\* Alloc: the blocks of the new chunk are linked backwards, the last one is the head.
Chunk(n)    == Count * n + 1 .. Count * (n + 1)
LinkedIn(n) == [a \in Addresses |-> IF a \in Chunk(n) /\ a - 1 \in Chunk(n) THEN a - 1
                                    ELSE IF a \in Chunk(n) THEN 0 ELSE word[a]]

MutNewHead(w, a) == a

\* Get takes the head; the next free block becomes the head.
NewHead(w, a) == w[a]

GetFrom(t, w, a) ==
    /\ poolHead' = [poolHead EXCEPT ![t] = NewHead(w, a)]
    /\ inUse' = inUse \cup {a}

\* ObjectPool::Get: a block from the pool, an object made in it (which overwrites
\* the first word with anything: 0 stands for it).
Get(t) ==
    /\ EnterPool(t) /\ UNCHANGED crashed
    /\ \/ /\ poolHead[t] # 0
          /\ GetFrom(t, word, poolHead[t])
          /\ word' = [word EXCEPT ![poolHead[t]] = 0]
          /\ UNCHANGED chunks
       \/ /\ poolHead[t] = 0 /\ chunks < MaxChunks
          /\ chunks' = chunks + 1
          /\ GetFrom(t, LinkedIn(chunks), Count * (chunks + 1))
          /\ word' = [LinkedIn(chunks) EXCEPT ![Count * (chunks + 1)] = 0]

\* MemoryPool::Release: the block becomes the head of the thread's list.
PutBack(t, a) ==
    /\ inUse' = inUse \ {a}
    /\ word' = [word EXCEPT ![a] = poolHead[t]]
    /\ poolHead' = [poolHead EXCEPT ![t] = a]
    /\ UNCHANGED <<hasPool, chunks, crashed>>

\* tls_memorypool_map[IDX] of a thread without a pool makes a null entry; the virtual
\* call through it reads address 0.
NullRelease ==
    /\ crashed' = TRUE
    /\ UNCHANGED <<poolHead, hasPool, chunks, word, inUse>>

\* The deleter: ObjectPool::Release, TLSMemoryPool::Release, on the thread that drops
\* the last reference, which need not be one that ever called Get.
Release(t, a) ==
    /\ a \in inUse
    /\ \/ t \in hasPool /\ PutBack(t, a)
       \/ t \notin hasPool /\ NullRelease

Next ==
    /\ ~crashed
    /\ \E t \in PoolThreads : Get(t) \/ \E a \in Addresses : Release(t, a)

Spec == Init /\ [][Next]_vars

-----------------------------------------------------------------------------
\* What Get calls of thread t would take, one after the other.
FreeLists(t) ==
    {s \in UNION {[1 .. n -> Addresses] : n \in 0 .. Count * chunks} :
        /\ poolHead[t] = IF s = <<>> THEN 0 ELSE s[1]
        /\ \A i \in DOMAIN s : word[s[i]] = IF i = Len(s) THEN 0 ELSE s[i + 1]}

\* However blocks move between threads, every block of every chunk holds an object
\* or is at one place of the free list of one thread: none is lost, handed out twice
\* or taken from a list that runs in a circle.
BlocksOnce ==
    \E lists \in [PoolThreads -> UNION {FreeLists(t) : t \in PoolThreads}] :
        /\ \A t \in PoolThreads : lists[t] \in FreeLists(t) /\ Range(lists[t]) \cap inUse = {}
        /\ inUse \cup UNION {Range(lists[t]) : t \in PoolThreads} = 1 .. Count * chunks
        /\ \A t, u \in PoolThreads : \A i \in DOMAIN lists[t], j \in DOMAIN lists[u] :
              lists[t][i] = lists[u][j] => t = u /\ i = j

\* An object may be given back by whoever holds its last reference: the call returns
\* on every thread.  ObjectPoolTest relies on it: its threads take objects out of the pool,
\* the Context's workers drop them, and it waits until every one is destroyed.
ReleaseReturns == ~crashed
=============================================================================
