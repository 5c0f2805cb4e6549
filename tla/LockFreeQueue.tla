--------------------------- MODULE LockFreeQueue ---------------------------
(***************************************************************************)
(* Core/lockfree/LockFreeQueue.h with the node pool of free_list.hpp and    *)
(* the tagged pointers of tagged_ptr_compress.hpp: a Michael-Scott queue,   *)
(* one action per access to shared memory.                                  *)
(*                                                                          *)
(* The first word of a node is Node::_next while the node is in the queue    *)
(* and freelist_node::_next while it is in the pool; both are one variable   *)
(* here, as they are one word in memory.  The pool's own operations are      *)
(* atomic (its top is tagged and the tag grows at every allocation).  A     *)
(* compare_exchange_weak does not fail spuriously (x64) and memory is        *)
(* sequentially consistent.                                                 *)
(***************************************************************************)
EXTENDS Integers, Sequences, FiniteSets, Functions

CONSTANTS
    Producers, Consumers,   \* threads that call Push, threads that call Pop
    Setups,                 \* ways to use a queue, see setup
    Pushes,                 \* bound: calls of Push per producer
    Nodes,                  \* bound: nodes the allocator can return (1 .. Nodes)
    MaxTag                  \* tags are counted modulo this (65535 in the code)

Threads == Producers \cup Consumers
Addr    == 1 .. Nodes
Values  == Producers \X (1 .. Pushes)

ASSUME ThreadsAssumption == Producers \cap Consumers = {} /\ IsFiniteSet(Threads)
ASSUME NumbersAssumption == {Pushes, Nodes, MaxTag} \subseteq Nat \ {0}
ASSUME SetupsAssumption ==
    Setups \subseteq [threads : SUBSET Threads, pushes : 1 .. Pushes, steals : BOOLEAN]

\* tagged_ptr: the address 0 is nullptr.
TaggedPtr   == [ptr : Addr \cup {0}, tag : 0 .. MaxTag - 1]
Ptr(p, t)   == [ptr |-> p, tag |-> t]
nullHandle  == Ptr(0, 0)
NoValue     == <<>>             \* a node that holds no value yet

VARIABLES
    setup,          \* how this queue is used: its threads, the calls of Push of
                    \* each, and whether copying a T empties the original, as
                    \* AnyTask(AnyTask&) does
    head, tail,     \* _head, _tail
    next,           \* [Addr -> TaggedPtr]: the first word of every node
    value,          \* [Addr -> Values]: Node::_value
    top,            \* _pool._top, without its tag
    fresh,          \* the allocator's next new address
    size,           \* _size
    pc,             \* where each thread is
    lTail, lHead, lNext, lNode, lValue,    \* locals of Push and Pop
    pushed,         \* [Producers -> Nat]: calls of Push so far
    accepted,       \* history: values linked, in order
    delivered,      \* history: values popped, in order
    sawEmpty        \* history: was the queue empty when Pop read head->_next?

mem     == <<setup, head, tail, next, value, top, fresh, size>>
locals  == <<lTail, lHead, lNext, lNode, lValue>>
history == <<accepted, delivered, sawEmpty>>
vars    == <<mem, pc, locals, pushed, history>>

PushPC == {"idle", "construct", "tail", "next", "check", "link", "help", "swing", "size"}
PopPC  == {"idle", "phead", "pnext", "pcheck", "phelp", "pread", "pcas", "pfree", "empty"}

\* The constructor: one node, head and tail point at it.
Init ==
    /\ setup \in Setups
    /\ head = Ptr(1, 0) /\ tail = Ptr(1, 0)
    /\ next = [a \in Addr |-> nullHandle]
    /\ value = [a \in Addr |-> NoValue]
    /\ top = 0 /\ fresh = 2
    /\ size = 0
    /\ pc = [t \in Threads |-> "idle"]
    /\ lTail = [t \in Threads |-> nullHandle]
    /\ lHead = [t \in Threads |-> nullHandle]
    /\ lNext = [t \in Threads |-> nullHandle]
    /\ lNode = [t \in Threads |-> 0]
    /\ lValue = [t \in Threads |-> NoValue]
    /\ pushed = [p \in Producers |-> 0]
    /\ accepted = <<>> /\ delivered = <<>>
    /\ sawEmpty = [c \in Consumers |-> FALSE]

Goto(t, l) == pc' = [pc EXCEPT ![t] = l]

\* tagged_ptr::get_next_tag
NextTag(p) == (p.tag + 1) % MaxTag

-----------------------------------------------------------------------------
(* Push                                                                     *)

\* _pool.construct: allocate ...
PushAlloc(p) ==
    /\ pc[p] = "idle" /\ p \in setup.threads /\ pushed[p] < setup.pushes
    /\ pushed' = [pushed EXCEPT ![p] = @ + 1]
    /\ Goto(p, "construct")
    /\ \/ /\ top # 0
          /\ lNode' = [lNode EXCEPT ![p] = top]
          /\ top' = next[top].ptr
          /\ UNCHANGED fresh
       \/ /\ top = 0 /\ fresh <= Nodes
          /\ lNode' = [lNode EXCEPT ![p] = fresh]
          /\ fresh' = fresh + 1
          /\ UNCHANGED top
    /\ UNCHANGED <<setup, head, tail, next, value, size, lTail, lHead, lNext, lValue, history>>

\* ... and construct Node(value, nullHandle) in place.
PushConstruct(p) ==
    /\ pc[p] = "construct"
    /\ next' = [next EXCEPT ![lNode[p]] = nullHandle]
    /\ value' = [value EXCEPT ![lNode[p]] = <<p, pushed[p]>>]
    /\ Goto(p, "tail")
    /\ UNCHANGED <<setup, head, tail, top, fresh, size, locals, pushed, history>>

PushLoadTail(p) ==
    /\ pc[p] = "tail"
    /\ lTail' = [lTail EXCEPT ![p] = tail]
    /\ Goto(p, "next")
    /\ UNCHANGED <<mem, lHead, lNext, lNode, lValue, pushed, history>>

PushLoadNext(p) ==
    /\ pc[p] = "next"
    /\ lNext' = [lNext EXCEPT ![p] = next[lTail[p].ptr]]
    /\ Goto(p, "check")
    /\ UNCHANGED <<mem, lTail, lHead, lNode, lValue, pushed, history>>

PushCheck(p) ==
    /\ pc[p] = "check"
    /\ Goto(p, IF tail # lTail[p] THEN "tail"
               ELSE IF lNext[p] = nullHandle THEN "link" ELSE "help")
    /\ UNCHANGED <<mem, locals, pushed, history>>

MutLinkWins(p) == TRUE

\* Does the CAS on tail->_next find what the thread loaded?
LinkWins(p) == next[lTail[p].ptr] = lNext[p]

PushLink(p) ==
    LET last == lTail[p].ptr IN
    /\ pc[p] = "link"
    /\ IF LinkWins(p)
       THEN /\ next' = [next EXCEPT ![last] = Ptr(lNode[p], lTail[p].tag)]
            /\ accepted' = Append(accepted, value[lNode[p]])
            /\ Goto(p, "swing")
       ELSE /\ Goto(p, "tail")
            /\ UNCHANGED <<next, accepted>>
    /\ UNCHANGED <<setup, head, tail, value, top, fresh, size, locals, pushed, delivered, sawEmpty>>

\* A CAS of _tail from what the thread loaded to the node at a.
SwingTail(t, a) ==
    tail' = IF tail = lTail[t] THEN Ptr(a, NextTag(lTail[t])) ELSE tail

PushHelp(p) ==
    /\ pc[p] = "help"
    /\ SwingTail(p, lNext[p].ptr)
    /\ Goto(p, "tail")
    /\ UNCHANGED <<setup, head, next, value, top, fresh, size, locals, pushed, history>>

PushSwing(p) ==
    /\ pc[p] = "swing"
    /\ SwingTail(p, lNode[p])
    /\ Goto(p, "size")
    /\ UNCHANGED <<setup, head, next, value, top, fresh, size, locals, pushed, history>>

PushSize(p) ==
    /\ pc[p] = "size"
    /\ size' = size + 1
    /\ Goto(p, "idle")
    /\ UNCHANGED <<setup, head, tail, next, value, top, fresh, locals, pushed, history>>

-----------------------------------------------------------------------------
(* Pop: _tail is loaded before _head                                        *)

PopLoadTail(c) ==
    /\ pc[c] = "idle" /\ c \in setup.threads
    /\ lTail' = [lTail EXCEPT ![c] = tail]
    /\ Goto(c, "phead")
    /\ UNCHANGED <<mem, lHead, lNext, lNode, lValue, pushed, history>>

PopLoadHead(c) ==
    /\ pc[c] = "phead"
    /\ lHead' = [lHead EXCEPT ![c] = head]
    /\ Goto(c, "pnext")
    /\ UNCHANGED <<mem, lTail, lNext, lNode, lValue, pushed, history>>

PopLoadNext(c) ==
    /\ pc[c] = "pnext"
    /\ lNext' = [lNext EXCEPT ![c] = next[lHead[c].ptr]]
    /\ sawEmpty' = [sawEmpty EXCEPT ![c] = (accepted = delivered)]
    /\ Goto(c, "pcheck")
    /\ UNCHANGED <<mem, lTail, lHead, lNode, lValue, pushed, accepted, delivered>>

MutNoneBehind(c) == lHead[c].ptr = lTail[c].ptr

\* popNode == nullHandle
NoneBehind(c) == lNext[c] = nullHandle

\* The pointers, without tags, tell an empty queue from a lagging tail.
PopCheck(c) ==
    /\ pc[c] = "pcheck"
    /\ Goto(c, CASE head # lHead[c] -> "idle"
                 [] head = lHead[c] /\ lHead[c].ptr = lTail[c].ptr ->
                        IF NoneBehind(c) THEN "empty" ELSE "phelp"
                 [] OTHER -> IF NoneBehind(c) THEN "idle" ELSE "pread")
    /\ UNCHANGED <<mem, locals, pushed, history>>

\* return false
PopEmpty(c) ==
    /\ pc[c] = "empty"
    /\ Goto(c, "idle")
    /\ UNCHANGED <<mem, locals, pushed, history>>

PopHelp(c) ==
    /\ pc[c] = "phelp"
    /\ SwingTail(c, lNext[c].ptr)
    /\ Goto(c, "idle")
    /\ UNCHANGED <<setup, head, next, value, top, fresh, size, locals, pushed, history>>

\* What a copy of a value leaves behind: AnyTask(AnyTask&) takes the function away.
AfterCopy(v) == IF setup.steals THEN NoValue ELSE v

\* T value = popNode->_value, before the CAS that makes it this thread's.
PopRead(c) ==
    LET a == lNext[c].ptr IN
    /\ pc[c] = "pread"
    /\ lValue' = [lValue EXCEPT ![c] = value[a]]
    /\ value' = [value EXCEPT ![a] = AfterCopy(@)]
    /\ Goto(c, "pcas")
    /\ UNCHANGED <<setup, head, tail, next, top, fresh, size, lTail, lHead, lNext, lNode, pushed, history>>

MutPopWins(c) == TRUE

\* Does the CAS on _head find what the thread loaded?
PopWins(c) == head = lHead[c]

PopCas(c) ==
    /\ pc[c] = "pcas"
    /\ IF PopWins(c)
       THEN /\ head' = Ptr(lNext[c].ptr, NextTag(lHead[c]))
            /\ delivered' = Append(delivered, lValue[c])
            /\ Goto(c, "pfree")
       ELSE /\ Goto(c, "idle")
            /\ UNCHANGED <<head, delivered>>
    /\ UNCHANGED <<setup, tail, next, value, top, fresh, size, locals, pushed, accepted, sawEmpty>>

MutRetired(c)   == lNext[c].ptr
MutSizeAfterPop == size

\* The node Pop gives back: the old dummy node.
Retired(c)   == lHead[c].ptr
SizeAfterPop == size - 1

\* _size.fetch_sub, then _pool.destruct(head): the word becomes the pool's.
PopFree(c) ==
    LET a == Retired(c) IN
    /\ pc[c] = "pfree"
    /\ size' = SizeAfterPop
    /\ next' = [next EXCEPT ![a] = Ptr(top, 0)]
    /\ top' = a
    /\ Goto(c, "idle")
    /\ UNCHANGED <<setup, head, tail, value, fresh, locals, pushed, history>>

-----------------------------------------------------------------------------
PushStep(p) ==
    \/ PushConstruct(p) \/ PushLoadTail(p) \/ PushLoadNext(p) \/ PushCheck(p)
    \/ PushLink(p) \/ PushHelp(p) \/ PushSwing(p) \/ PushSize(p)

PopStep(c) ==
    \/ PopLoadTail(c) \/ PopLoadHead(c) \/ PopLoadNext(c) \/ PopCheck(c)
    \/ PopEmpty(c) \/ PopHelp(c) \/ PopRead(c) \/ PopCas(c) \/ PopFree(c)

Next ==
    \/ \E p \in Producers : PushAlloc(p) \/ PushStep(p)
    \/ \E c \in Consumers : PopStep(c)

Spec == Init /\ [][Next]_vars

\* A thread inside Push keeps running; consumers pop again and again.
FairSpec == Spec /\ \A p \in Producers : WF_vars(PushStep(p))
                 /\ \A c \in Consumers : WF_vars(PopStep(c))

-----------------------------------------------------------------------------
(* Properties                                                               *)

\* The nodes that following _next from a comes through, 0 behind the last one.
Walk(a) ==
    LET at[n \in 0 .. Nodes] ==
          IF n = 0 THEN a
          ELSE LET b == at[n - 1] IN IF b = 0 THEN 0 ELSE next[b].ptr
    IN  at

\* The nodes behind the dummy node, as Pop would find them, and those of the pool.
Chain ==
    LET at == Walk(head.ptr)
    IN  [i \in 1 .. Cardinality({n \in 1 .. Nodes : at[n] # 0}) |-> at[i]]

PoolNodes == {Walk(top)[n] : n \in 0 .. Nodes} \ {0}

\* The value of a node in the queue; it may be in the hands of a Pop that is about
\* to try its CAS.
ValueIn(a) ==
    IF value[a] # NoValue THEN value[a]
    ELSE LET holders == {c \in Consumers : pc[c] = "pcas" /\ lNext[c].ptr = a}
         IN  IF holders = {} THEN NoValue ELSE lValue[CHOOSE c \in holders : TRUE]

\* The queue holds exactly the values accepted and not yet delivered, in order:
\* what was pushed can be popped (Test/RunTest.cpp:45-70 counts on it).
NothingLost ==
    [i \in DOMAIN Chain |-> ValueIn(Chain[i])]
        = SubSeq(accepted, Len(delivered) + 1, Len(accepted))

\* No node is in the queue and in the pool, and no pusher looks at a node that was freed:
\* neither gets memory that somebody else still uses.  _tail itself may name a freed node
\* (with two consumers, one that read an older _tail pops past it), but only as long as
\* the thread that linked the last node has its CAS of _tail before it.
PoolDisjoint ==
    /\ PoolNodes \cap (Range(Chain) \cup {head.ptr}) = {}
    /\ \A p \in Producers :
          pc[p] \in {"next", "check", "link", "help"} => lTail[p].ptr \notin PoolNodes
    /\ tail.ptr \in PoolNodes => \E p \in Producers : pc[p] = "swing" /\ lTail[p] = tail

\* Pop answers false only if the queue was empty at some moment of the call.
EmptyHonest == \A c \in Consumers : pc[c] = "empty" => sawEmpty[c]

\* GetSize() never exceeds the number of values that can be popped.
SizeSafe == size <= Len(Chain) + Cardinality({c \in Consumers : pc[c] = "pfree"})

\* The queue is a FIFO queue: Push takes effect when the node is linked, Pop at
\* its CAS of _head; every value is delivered in the end if somebody pops.
Fifo == INSTANCE FifoQueue
Implements == Fifo!Spec /\ ((setup.threads \cap Consumers # {}) => Fifo!Delivering)
=============================================================================
