------------------------ MODULE LockFreeQueueProofs ------------------------
(***************************************************************************)
(* For any finite number of threads, any number of nodes and of pushes: the *)
(* queue is a FIFO queue in every use that Suited describes, one producer   *)
(* and any consumers, or producers alone, with tags that do not come again. *)
(*                                                                          *)
(* The invariant names what the memory stands for.  L is the row of all     *)
(* nodes in the order in which they were linked, so that a tagged pointer   *)
(* with the tag k that some thread holds denotes L[k], whatever the address  *)
(* L[k] is used for now; _head is L[Popped], _tail the last node or the one  *)
(* before it.  F is the row of nodes in the pool.  kind and who say of every *)
(* node what it is used for and by whom, so that no two uses overlap.       *)
(* Builder and Popper say what a thread inside Push or Pop knows: what it    *)
(* loaded is either still current or older than what its next CAS compares. *)
(***************************************************************************)
EXTENDS LockFreeQueue, FiniteSetTheorems, SequenceTheorems, WellFoundedInduction, TLAPS

\* How many nodes were linked behind the first one, and how many of them were popped.
Linked == Len(accepted)
Popped == Len(delivered)

\* Do pops meet pushes in this use of a queue?
Shared == setup.threads \cap Consumers # {}

\* The uses in which the queue is a queue: a node that a pusher looks at is not used
\* again meanwhile, no tag comes again, and nobody else takes a value that is being copied.
Suited ==
    /\ IF Shared THEN /\ \A p, q \in setup.threads \cap Producers : p = q
                      /\ setup.pushes < MaxTag
                 ELSE Nodes <= MaxTag
    /\ setup.steals => \A c, d \in setup.threads \cap Consumers : c = d

\* First words of nodes.
Handles  == {h \in TaggedPtr : h.ptr = 0 => h = nullHandle}

\* Where a thread in Push has a node of its own, where it has loaded _tail, and where a
\* thread in Pop has loaded _head.
Building == {"construct", "tail", "next", "check", "link", "help"}
Seeking  == {"next", "check", "link", "help"}
Popping  == {"pnext", "pcheck", "phelp", "pread", "pcas", "pfree"}

\* What every variable holds.
TypeOK ==
    /\ setup \in Setups
    /\ head \in TaggedPtr /\ tail \in TaggedPtr
    /\ next \in [Addr -> Handles]
    /\ value \in [Addr -> Values \cup {NoValue}]
    /\ top \in Addr \cup {0} /\ fresh \in 2 .. Nodes + 1 /\ size \in Int
    /\ pc \in [Threads -> PushPC \cup PopPC]
    /\ \A p \in Producers : pc[p] \in PushPC
    /\ \A c \in Consumers : pc[c] \in PopPC
    /\ lTail \in [Threads -> TaggedPtr] /\ lHead \in [Threads -> TaggedPtr]
    /\ lNext \in [Threads -> Handles]
    /\ lNode \in [Threads -> Addr \cup {0}]
    /\ lValue \in [Threads -> Values \cup {NoValue}]
    /\ pushed \in [Producers -> Nat]
    /\ accepted \in Seq(Values) /\ delivered \in Seq(Values \cup {NoValue})
    /\ sawEmpty \in [Consumers -> BOOLEAN]

\* L: the nodes in the order in which they were linked, the constructor's first.
QueueOK(L) ==
    /\ L \in [0 .. Linked -> Addr]
    /\ Popped <= Linked /\ \A i \in 1 .. Popped : delivered[i] = accepted[i]
    /\ head = Ptr(L[Popped], Popped)
    /\ \A i \in Popped .. Linked - 1 : next[L[i]] = Ptr(L[i + 1], i)
    /\ next[L[Linked]] = nullHandle
    /\ Shared \/ Popped = 0

\* _tail is the last node, or the one before it while the thread that linked the last one
\* has not come to its swing.
TailOK(L) ==
    /\ tail.tag \in 0 .. Linked /\ tail = Ptr(L[tail.tag], tail.tag)
    /\ \/ tail.tag = Linked
       \/ tail.tag = Linked - 1 /\ \E p \in Producers : pc[p] = "swing" /\ lTail[p].tag = Linked - 1

\* F: the nodes of the pool from its top.
PoolOf(F, first, link) ==
    /\ F \in Seq(Addr)
    /\ first = IF F = <<>> THEN 0 ELSE F[1]
    /\ \A j \in 1 .. Len(F) - 1 : link[F[j]].ptr = F[j + 1]
    /\ F # <<>> => link[F[Len(F)]].ptr = 0
PoolOK(F) == PoolOf(F, top, next)

\* Not yet allocated, in the pool, in the queue, or one thread's own.
Kinds == {"new", "pool", "queue", "thread"}

\* kind, who: what every node is used for, and by which thread if it is one's own.
PlacesOK(L, F, kind, who) ==
    /\ kind \in [Addr -> Kinds] /\ who \in [Addr -> Threads \cup {0}]
    /\ \A a \in Addr : a >= fresh => kind[a] = "new"
    /\ \A i \in Popped .. Linked : kind[L[i]] = "queue"
    /\ \A i, j \in Popped .. Linked : L[i] = L[j] => i = j
    /\ \A j \in 1 .. Len(F) : kind[F[j]] = "pool"
    /\ \A i, j \in 1 .. Len(F) : F[i] = F[j] => i = j
    /\ \A p \in Producers : pc[p] \in Building =>
          lNode[p] \in Addr /\ kind[lNode[p]] = "thread" /\ who[lNode[p]] = p
    /\ \A c \in Consumers : pc[c] = "pfree" =>
          /\ lHead[c].tag < Popped /\ lHead[c].ptr \in Addr
          /\ kind[lHead[c].ptr] = "thread" /\ who[lHead[c].ptr] = c

\* Thread t has loaded the link behind the k-th node.
After(L, t, k) == k + 1 <= Linked /\ lNext[t] = Ptr(L[k + 1], k)

\* What producer p knows.
Builder(L, p) ==
    /\ pushed[p] \in 0 .. setup.pushes
    /\ pc[p] # "idle" => p \in setup.threads /\ pushed[p] >= 1
    /\ pc[p] \in Building \ {"construct"} =>
          next[lNode[p]] = nullHandle /\ value[lNode[p]] = <<p, pushed[p]>>
    /\ pc[p] \in Seeking =>
          /\ lTail[p].tag \in 0 .. tail.tag /\ lTail[p] = Ptr(L[lTail[p].tag], lTail[p].tag)
          /\ Shared => lTail[p].tag = Linked
    /\ pc[p] = "check" => lNext[p] = nullHandle \/ After(L, p, lTail[p].tag)
    /\ pc[p] = "link" => lNext[p] = nullHandle
    /\ pc[p] = "help" => After(L, p, lTail[p].tag)
    /\ pc[p] = "swing" =>
          /\ lTail[p].tag \in 0 .. Linked - 1 /\ lTail[p] = Ptr(L[lTail[p].tag], lTail[p].tag)
          /\ lNode[p] = L[lTail[p].tag + 1]
    /\ Shared /\ p \in setup.threads =>
          /\ pc[p] \in Building => Linked + 1 = pushed[p]
          /\ pc[p] \notin Building => Linked = pushed[p]

\* What consumer c knows.
Popper(L, c) ==
    /\ pc[c] # "idle" => c \in setup.threads
    /\ pc[c] \notin {"idle", "empty"} =>
          lTail[c].tag \in 0 .. tail.tag /\ lTail[c] = Ptr(L[lTail[c].tag], lTail[c].tag)
    /\ pc[c] \in Popping =>
          lHead[c].tag \in 0 .. Popped /\ lHead[c] = Ptr(L[lHead[c].tag], lHead[c].tag)
    /\ pc[c] = "pcheck" /\ lHead[c].tag = Popped =>
          (lNext[c] = nullHandle /\ sawEmpty[c]) \/ After(L, c, Popped)
    /\ pc[c] = "phelp" => After(L, c, lHead[c].tag) /\ lTail[c].tag <= lHead[c].tag
    /\ pc[c] = "pread" => lNext[c].ptr \in Addr /\ (lHead[c].tag = Popped => After(L, c, Popped))
    /\ pc[c] = "pcas" /\ lHead[c].tag = Popped =>
          After(L, c, Popped) /\ lValue[c] = accepted[Popped + 1]
    /\ pc[c] = "empty" => sawEmpty[c]
    /\ setup.steals /\ pc[c] \in {"pnext", "pcheck", "pread", "pcas"} => lHead[c].tag = Popped

\* The values of the nodes; the one that is copied out may be gone.
Copied == setup.steals /\ \E c \in Consumers : pc[c] = "pcas"

ValuesOK(L) ==
    \A i \in Popped + 1 .. Linked :
        value[L[i]] = IF i = Popped + 1 /\ Copied THEN NoValue ELSE accepted[i]

\* Pushes that are linked and not counted, pops that are done and still counted, and the
\* size between them.
Uncounted == {p \in Producers : pc[p] \in {"swing", "size"}}
Counted   == {c \in Consumers : pc[c] = "pfree"}
SizeOK    == size = Linked - Popped - Cardinality(Uncounted) + Cardinality(Counted)

\* The invariant, of given rows and kinds; IInv says that there are some.
Inv(L, F, kind, who) ==
    /\ TypeOK /\ Suited
    /\ QueueOK(L) /\ TailOK(L) /\ PoolOK(F) /\ PlacesOK(L, F, kind, who)
    /\ \A p \in Producers : Builder(L, p)
    /\ \A c \in Consumers : Popper(L, c)
    /\ ValuesOK(L)
    /\ (setup.threads \cap Producers = {} => Linked = 0)
IInv == \E L, F, kind, who : Inv(L, F, kind, who)

-----------------------------------------------------------------------------
(* Types.                                                                   *)

\* What the assumptions say of the numbers and of the two kinds of threads.
LEMMA Constants ==
    /\ Pushes \in Nat \ {0} /\ Nodes \in Nat \ {0} /\ MaxTag \in Nat \ {0}
    /\ Addr \subseteq Nat \ {0} /\ 1 \in Addr
    /\ \A p \in Producers : p \in Threads /\ p \notin Consumers
    /\ \A c \in Consumers : c \in Threads /\ c \notin Producers
    /\ IsFiniteSet(Producers) /\ IsFiniteSet(Consumers)
<1>1. Pushes \in Nat \ {0} /\ Nodes \in Nat \ {0} /\ MaxTag \in Nat \ {0}
  BY NumbersAssumption
<1>2. IsFiniteSet(Producers) /\ IsFiniteSet(Consumers)
  BY ThreadsAssumption, FS_Subset DEF Threads
<1> QED
  BY <1>1, <1>2, ThreadsAssumption DEF Addr, Threads

\* Tagged pointers are told apart by their fields, nullHandle has the address 0, and the
\* next tag of a tagged pointer is a tag.
LEMMA Pairs ==
    /\ \A a, t : Ptr(a, t).ptr = a /\ Ptr(a, t).tag = t
    /\ \A a \in Addr \cup {0}, t \in 0 .. MaxTag - 1 : Ptr(a, t) \in TaggedPtr
    /\ \A a \in Addr, t \in 0 .. MaxTag - 1 : Ptr(a, t) \in Handles /\ Ptr(a, t) # nullHandle
    /\ \A h \in TaggedPtr : h.ptr \in Addr \cup {0} /\ h.tag \in 0 .. MaxTag - 1 /\ h = Ptr(h.ptr, h.tag)
    /\ \A h \in Handles : h \in TaggedPtr /\ (h # nullHandle => h.ptr \in Addr)
    /\ \A h \in TaggedPtr : NextTag(h) \in 0 .. MaxTag - 1
    /\ \A a \in Addr \cup {0} : Ptr(a, 0) \in Handles
    /\ nullHandle \in Handles /\ nullHandle.ptr = 0
<1> USE Constants
<1>1. \A a, t : Ptr(a, t).ptr = a /\ Ptr(a, t).tag = t
  BY DEF Ptr
<1>2. \A a \in Addr \cup {0}, t \in 0 .. MaxTag - 1 : Ptr(a, t) \in TaggedPtr
  BY DEF Ptr, TaggedPtr
<1>3. \A h \in TaggedPtr : h.ptr \in Addr \cup {0} /\ h.tag \in 0 .. MaxTag - 1 /\ h = Ptr(h.ptr, h.tag)
  BY DEF Ptr, TaggedPtr
<1>4. 0 \in 0 .. MaxTag - 1 /\ 0 \notin Addr
  OBVIOUS
<1>5. \A a \in Addr, t \in 0 .. MaxTag - 1 : Ptr(a, t) \in Handles /\ Ptr(a, t) # nullHandle
  BY <1>1, <1>2, <1>4 DEF Handles, nullHandle
<1>6. nullHandle \in Handles /\ nullHandle.ptr = 0
  BY <1>1, <1>2, <1>4 DEF Handles, nullHandle
<1>7. \A h \in Handles : h \in TaggedPtr /\ (h # nullHandle => h.ptr \in Addr)
  BY <1>3 DEF Handles
<1>8. \A a \in Addr \cup {0} : Ptr(a, 0) \in Handles
  BY <1>4, <1>5, <1>6 DEF nullHandle
<1>9. \A h \in TaggedPtr : NextTag(h) \in 0 .. MaxTag - 1
  BY <1>3 DEF NextTag
<1> QED
  BY <1>1, <1>2, <1>3, <1>5, <1>6, <1>7, <1>8, <1>9

\* No tag comes again: the number of nodes ever linked is below the modulus, by the bound
\* on the calls of Push or, where nothing is popped, by the number of nodes.
LEMMA TagsLast ==
    ASSUME NEW L, NEW F, NEW kind, NEW who, Inv(L, F, kind, who)
    PROVE  Linked \in Nat /\ Popped \in Nat /\ Linked < MaxTag
<1>1. Linked \in Nat /\ Popped \in Nat
  BY DEF Inv, TypeOK, Linked, Popped
<1>2. CASE Shared
  <2>1. CASE setup.threads \cap Producers = {}
    <3>1. Linked = 0
      BY <2>1 DEF Inv
    <3> QED
      BY <1>1, <3>1, Constants
  <2>2. CASE setup.threads \cap Producers # {}
    <3>1. PICK p \in Producers : p \in setup.threads
      BY <2>2
    <3>2. Linked <= pushed[p] /\ pushed[p] \in 0 .. setup.pushes
      BY <1>1, <1>2, <3>1 DEF Inv, Builder
    <3>3. setup.pushes \in Nat /\ setup.pushes < MaxTag
      BY <1>2, SetupsAssumption, Constants DEF Inv, Suited, TypeOK
    <3> QED
      BY <1>1, <3>2, <3>3, Constants
  <2> QED
    BY <1>1, <2>1, <2>2
<1>3. CASE ~Shared
  <2>1. Popped = 0 /\ L \in [0 .. Linked -> Addr]
    BY <1>3 DEF Inv, QueueOK
  <2>2. \A i, j \in 0 .. Linked : L[i] = L[j] => i = j
    BY <2>1 DEF Inv, PlacesOK
  <2>3. IsFiniteSet(Addr) /\ Cardinality(Addr) = Nodes
    BY Constants, FS_Interval DEF Addr
  <2>4. Cardinality(0 .. Linked) = Linked + 1 /\ IsFiniteSet(0 .. Linked)
    BY <1>1, FS_Interval
  <2>5. ~(Cardinality(Addr) < Cardinality(0 .. Linked))
    BY <2>1, <2>2, <2>3, <2>4, FS_PigeonHole
  <2>6. Nodes <= MaxTag
    BY <1>3 DEF Inv, Suited
  <2> QED
    BY <1>1, <2>3, <2>4, <2>5, <2>6, Constants
<1> QED
  BY <1>1, <1>2, <1>3

\* The constructor establishes the invariant: one node, which is the queue's dummy node,
\* and nobody inside Push or Pop.
LEMMA InitInv == ASSUME Init, Suited PROVE IInv
<1> DEFINE L == [i \in 0 .. 0 |-> 1]
           kind == [a \in Addr |-> IF a = 1 THEN "queue" ELSE "new"]
           who == [a \in Addr |-> 0]
<1>1. Linked = 0 /\ Popped = 0
  BY DEF Init, Linked, Popped
<1>2. TypeOK
  <2>1. head \in TaggedPtr /\ tail \in TaggedPtr /\ nullHandle \in TaggedPtr /\ nullHandle \in Handles
    BY Pairs, Constants DEF Init
  <2>2. \A t \in Threads : pc[t] = "idle"
    BY DEF Init
  <2>3. fresh \in 2 .. Nodes + 1
    BY Constants DEF Init
  <2>4. setup \in Setups /\ next \in [Addr -> Handles] /\ value \in [Addr -> Values \cup {NoValue}]
        /\ top \in Addr \cup {0} /\ size \in Int
    BY <2>1 DEF Init
  <2>5. /\ pc \in [Threads -> PushPC \cup PopPC]
        /\ \A p \in Producers : pc[p] \in PushPC
        /\ \A c \in Consumers : pc[c] \in PopPC
    BY <2>2, Constants DEF Init, PushPC, PopPC
  <2>6. /\ lTail \in [Threads -> TaggedPtr] /\ lHead \in [Threads -> TaggedPtr]
        /\ lNext \in [Threads -> Handles]
        /\ lNode \in [Threads -> Addr \cup {0}]
        /\ lValue \in [Threads -> Values \cup {NoValue}]
    BY <2>1 DEF Init
  <2>7. /\ pushed \in [Producers -> Nat]
        /\ accepted \in Seq(Values) /\ delivered \in Seq(Values \cup {NoValue})
        /\ sawEmpty \in [Consumers -> BOOLEAN]
    BY DEF Init
  <2> QED
    BY <2>1, <2>3, <2>4, <2>5, <2>6, <2>7 DEF TypeOK
<1>3. QueueOK(L) /\ TailOK(L)
  <2>1. L[0] = 1 /\ L \in [0 .. 0 -> Addr]
    BY Constants
  <2>2. head = Ptr(1, 0) /\ tail = Ptr(1, 0) /\ next[1] = nullHandle
    BY Constants DEF Init
  <2>3. QueueOK(L)
    <3> HIDE DEF L
    <3> QED
      BY <1>1, <2>1, <2>2 DEF QueueOK
  <2>4. TailOK(L)
    <3> HIDE DEF L
    <3> QED
      BY <1>1, <2>1, <2>2, Pairs DEF TailOK
  <2> QED
    BY <2>3, <2>4
<1>4. PoolOK(<<>>)
  BY DEF Init, PoolOK, PoolOf
<1>5. PlacesOK(L, <<>>, kind, who)
  <2>1. kind \in [Addr -> Kinds] /\ who \in [Addr -> Threads \cup {0}]
    BY DEF Kinds
  <2>2. \A a \in Addr : a >= fresh => kind[a] = "new"
    BY Constants DEF Init
  <2>3. L[0] = 1 /\ kind[1] = "queue" /\ 0 .. 0 = {0}
    BY Constants
  <2>4. \A t \in Threads : pc[t] = "idle"
    BY DEF Init
  <2>5. Len(<<>>) = 0
    OBVIOUS
  <2> HIDE DEF L, kind, who
  <2>6. (\A i \in Popped .. Linked : kind[L[i]] = "queue")
        /\ (\A i, j \in Popped .. Linked : L[i] = L[j] => i = j)
    BY <1>1, <2>3
  <2>7. (\A p \in Producers : pc[p] \notin Building) /\ (\A c \in Consumers : pc[c] # "pfree")
    BY <2>4, Constants DEF Building
  <2> QED
    BY <2>1, <2>2, <2>5, <2>6, <2>7 DEF PlacesOK
<1>6. ASSUME NEW p \in Producers PROVE Builder(L, p)
  <2>1. pc[p] = "idle" /\ pushed[p] = 0
    BY Constants DEF Init
  <2>2. setup.pushes \in Nat
    BY <1>2, SetupsAssumption DEF TypeOK
  <2>3. pc[p] \notin Building /\ pc[p] \notin Seeking
    BY <2>1 DEF Building, Seeking
  <2>4. pushed[p] \in 0 .. setup.pushes
    BY ONLY <2>1, <2>2
  <2> HIDE DEF L
  <2> QED
    BY <1>1, <2>1, <2>2, <2>3, <2>4 DEF Builder
<1>7. ASSUME NEW c \in Consumers PROVE Popper(L, c)
  <2>1. pc[c] = "idle"
    BY Constants DEF Init
  <2> HIDE DEF L
  <2> QED
    BY <1>1, <2>1 DEF Popper, Popping
<1>8. ValuesOK(L)
  BY <1>1 DEF ValuesOK
<1> HIDE DEF L, kind, who
<1>9. Inv(L, <<>>, kind, who)
  BY <1>1, <1>2, <1>3, <1>4, <1>5, <1>6, <1>7, <1>8 DEF Inv
<1> QED
  BY <1>9 DEF IInv

-----------------------------------------------------------------------------
(* What a step of one thread leaves to the others.                          *)

\* Thread s stays where it is, with the locals it has.
Still(s) ==
    /\ pc'[s] = pc[s] /\ lTail'[s] = lTail[s] /\ lHead'[s] = lHead[s]
    /\ lNext'[s] = lNext[s] /\ lNode'[s] = lNode[s] /\ lValue'[s] = lValue[s]

\* Only thread t moves; a consumer's observation and a producer's count are its own.
OthersStill(t) ==
    /\ setup' = setup
    /\ \A s \in Threads \ {t} : Still(s)
    /\ \A p \in Producers \ {t} : pushed'[p] = pushed[p]
    /\ \A c \in Consumers \ {t} : sawEmpty'[c] = sawEmpty[c]

\* The queue at most grows.
Grows(L, K) ==
    /\ Linked \in Nat /\ Linked' \in Nat /\ Linked <= Linked'
    /\ \A i \in 0 .. Linked : K[i] = L[i]
    /\ tail.tag \in 0 .. Linked /\ tail'.tag \in 0 .. Linked' /\ tail.tag <= tail'.tag

\* What is known of a producer survives a step of another thread that keeps its node.
LEMMA BuilderStays ==
    ASSUME NEW L, NEW K, NEW p \in Producers, Builder(L, p), Grows(L, K),
           Still(p), pushed'[p] = pushed[p], setup' = setup,
           pc[p] \in Building => next'[lNode[p]] = next[lNode[p]] /\ value'[lNode[p]] = value[lNode[p]],
           Shared /\ p \in setup.threads => Linked' = Linked
    PROVE  Builder(K, p)'
<1>1. Shared' = Shared
  BY DEF Shared
<1>2. pc'[p] = pc[p] /\ lTail'[p] = lTail[p] /\ lNext'[p] = lNext[p] /\ lNode'[p] = lNode[p]
  BY DEF Still
<1>3. pushed'[p] \in 0 .. setup'.pushes
      /\ (pc'[p] # "idle" => p \in setup'.threads /\ pushed'[p] >= 1)
  BY <1>2 DEF Builder
<1>4. pc'[p] \in Building \ {"construct"} =>
          next'[lNode'[p]] = nullHandle /\ value'[lNode'[p]] = <<p, pushed'[p]>>
  BY <1>2 DEF Builder
<1>5. ASSUME pc[p] \in Seeking PROVE
          /\ lTail'[p].tag \in 0 .. tail'.tag /\ lTail'[p] = Ptr(K[lTail'[p].tag], lTail'[p].tag)
          /\ Shared' => lTail'[p].tag = Linked'
  <2>1. PICK k : k = lTail[p].tag
    OBVIOUS
  <2>2. k \in 0 .. tail.tag /\ lTail[p] = Ptr(L[k], k) /\ (Shared => k = Linked)
    BY <1>5, <2>1 DEF Builder
  <2>3. k \in 0 .. tail'.tag /\ K[k] = L[k]
    BY <2>2 DEF Grows
  <2>4. p \in setup.threads
    BY <1>5 DEF Builder, Seeking
  <2> QED
    BY <1>1, <1>2, <2>1, <2>2, <2>3, <2>4
<1>6. ASSUME NEW k \in 0 .. Linked, After(L, p, k)
      PROVE  k + 1 <= Linked' /\ lNext'[p] = Ptr(K[k + 1], k)
  <2>1. k + 1 <= Linked /\ lNext[p] = Ptr(L[k + 1], k)
    BY <1>6 DEF After
  <2>2. k + 1 \in 0 .. Linked /\ k + 1 <= Linked'
    BY <2>1 DEF Grows
  <2>3. K[k + 1] = L[k + 1]
    BY <2>2 DEF Grows
  <2> QED
    BY <1>2, <2>1, <2>2, <2>3
<1>7. ASSUME pc[p] \in Seeking PROVE lTail[p].tag \in 0 .. Linked
  <2>1. lTail[p].tag \in 0 .. tail.tag
    BY <1>7 DEF Builder
  <2> QED
    BY <2>1 DEF Grows
<1>8. ASSUME pc[p] \in Seeking PROVE
          LET k == lTail'[p].tag IN
          /\ pc'[p] = "check" => \/ lNext'[p] = nullHandle
                                 \/ k + 1 <= Linked' /\ lNext'[p] = Ptr(K[k + 1], k)
          /\ pc'[p] = "link" => lNext'[p] = nullHandle
          /\ pc'[p] = "help" => k + 1 <= Linked' /\ lNext'[p] = Ptr(K[k + 1], k)
  <2>1. PICK k \in 0 .. Linked : k = lTail[p].tag
    BY <1>7, <1>8
  <2>2. /\ pc[p] = "check" => lNext[p] = nullHandle \/ After(L, p, k)
        /\ pc[p] = "link" => lNext[p] = nullHandle
        /\ pc[p] = "help" => After(L, p, k)
    BY <2>1 DEF Builder
  <2> QED
    BY <1>2, <1>6, <2>1, <2>2
<1>9. ASSUME pc[p] = "swing" PROVE
          /\ lTail'[p].tag \in 0 .. Linked' - 1 /\ lTail'[p] = Ptr(K[lTail'[p].tag], lTail'[p].tag)
          /\ lNode'[p] = K[lTail'[p].tag + 1]
  <2>1. PICK k : k = lTail[p].tag
    OBVIOUS
  <2>2. k \in 0 .. Linked - 1 /\ lTail[p] = Ptr(L[k], k) /\ lNode[p] = L[k + 1]
    BY <1>9, <2>1 DEF Builder
  <2>3. k \in 0 .. Linked' - 1 /\ k + 1 \in 0 .. Linked /\ k \in 0 .. Linked
    <3>1. PICK m \in Nat, n \in Nat : m = Linked /\ n = Linked' /\ m <= n
      BY DEF Grows
    <3>2. k \in 0 .. m - 1
      BY <2>2, <3>1
    <3>3. k \in Nat /\ k + 1 <= m
      BY ONLY <3>2, m \in Nat
    <3>4. k \in 0 .. n - 1 /\ k + 1 \in 0 .. m /\ k \in 0 .. m
      <4>1. m <= n
        BY <3>1
      <4>2. k \in 0 .. m /\ k + 1 \in 0 .. m
        BY ONLY <3>3, m \in Nat
      <4>3. k + 1 <= n
        BY ONLY <3>3, <4>1, m \in Nat, n \in Nat
      <4>4. k \in 0 .. n - 1
        BY ONLY <3>3, <4>3, n \in Nat
      <4> QED
        BY <4>2, <4>4
    <3> QED
      BY <3>1, <3>4
  <2>4. K[k] = L[k] /\ K[k + 1] = L[k + 1]
    BY <2>3 DEF Grows
  <2> QED
    BY <1>2, <2>1, <2>2, <2>3, <2>4
<1>10. Shared' /\ p \in setup'.threads =>
          /\ pc'[p] \in Building => Linked' + 1 = pushed'[p]
          /\ pc'[p] \notin Building => Linked' = pushed'[p]
  BY <1>1, <1>2 DEF Builder
<1>11. /\ pc'[p] \in Seeking <=> pc[p] \in Seeking
       /\ {"check", "link", "help"} \subseteq Seeking
  BY <1>2 DEF Seeking
<1> QED
  BY <1>2, <1>3, <1>4, <1>5, <1>8, <1>9, <1>10, <1>11 DEF Builder, After

\* What is known of a consumer survives a step of another thread, also one that pops:
\* a head that was current may then be an old one, and stays old.
LEMMA PopperStays ==
    ASSUME NEW L, NEW K, NEW c \in Consumers, Popper(L, c), Grows(L, K),
           Popped \in 0 .. Linked, Popped' \in Nat, Popped <= Popped',
           Still(c), sawEmpty'[c] = sawEmpty[c], setup' = setup,
           Popped + 1 <= Linked => accepted'[Popped + 1] = accepted[Popped + 1],
           setup.steals /\ c \in setup.threads => Popped' = Popped
    PROVE  Popper(K, c)'
<1>0. \A k \in 0 .. Popped : k \in 0 .. Popped' /\ k \in 0 .. Linked
  <2>1. PICK m, n, o : m = Popped /\ n = Popped' /\ o = Linked
    OBVIOUS
  <2>2. o \in Nat /\ m \in 0 .. o /\ n \in Nat /\ m <= n
    BY <2>1 DEF Grows
  <2>3. \A k \in 0 .. m : k \in 0 .. n /\ k \in 0 .. o
    BY ONLY <2>2
  <2> QED
    BY <2>1, <2>3
<1>1. /\ pc'[c] = pc[c] /\ lTail'[c] = lTail[c] /\ lHead'[c] = lHead[c]
      /\ lNext'[c] = lNext[c] /\ lValue'[c] = lValue[c]
  BY DEF Still
<1>2. ASSUME NEW k \in 0 .. Linked, After(L, c, k)
      PROVE  k + 1 <= Linked' /\ lNext'[c] = Ptr(K[k + 1], k)
  <2>1. k + 1 <= Linked /\ lNext[c] = Ptr(L[k + 1], k)
    BY <1>2 DEF After
  <2>2. k + 1 \in 0 .. Linked /\ k + 1 <= Linked'
    BY <2>1 DEF Grows
  <2>3. K[k + 1] = L[k + 1]
    BY <2>2 DEF Grows
  <2> QED
    BY <1>1, <2>1, <2>2, <2>3
<1>3. pc'[c] # "idle" => c \in setup'.threads
  BY <1>1 DEF Popper
<1>4. ASSUME pc[c] \notin {"idle", "empty"}
      PROVE  lTail'[c].tag \in 0 .. tail'.tag /\ lTail'[c] = Ptr(K[lTail'[c].tag], lTail'[c].tag)
  <2>1. PICK k : k = lTail[c].tag
    OBVIOUS
  <2>2. k \in 0 .. tail.tag /\ lTail[c] = Ptr(L[k], k)
    BY <1>4, <2>1 DEF Popper
  <2>3. k \in 0 .. tail'.tag /\ K[k] = L[k]
    BY <2>2 DEF Grows
  <2> QED
    BY <1>1, <2>1, <2>2, <2>3
<1>5. ASSUME pc[c] \in Popping PROVE
          /\ lHead[c].tag \in 0 .. Popped
          /\ lHead'[c].tag \in 0 .. Popped' /\ lHead'[c] = Ptr(K[lHead'[c].tag], lHead'[c].tag)
  <2>1. PICK k : k = lHead[c].tag
    OBVIOUS
  <2>2. k \in 0 .. Popped /\ lHead[c] = Ptr(L[k], k)
    BY <1>5, <2>1 DEF Popper
  <2>3. k \in 0 .. Popped' /\ k \in 0 .. Linked
    BY <1>0, <2>2
  <2>4. K[k] = L[k]
    BY <2>3 DEF Grows
  <2> QED
    BY <1>1, <2>1, <2>2, <2>3, <2>4
<1>6. ASSUME pc[c] \in Popping, lHead[c].tag = Popped' PROVE Popped' = Popped
  BY <1>5, <1>6
<1>7. Popped \in 0 .. Linked
  OBVIOUS
<1>8. pc'[c] = "pcheck" /\ lHead'[c].tag = Popped' =>
          \/ lNext'[c] = nullHandle /\ sawEmpty'[c]
          \/ Popped' + 1 <= Linked' /\ lNext'[c] = Ptr(K[Popped' + 1], Popped')
  BY <1>1, <1>2, <1>6, <1>7 DEF Popper, Popping
<1>9. ASSUME pc[c] = "phelp" PROVE
          /\ lHead'[c].tag + 1 <= Linked'
          /\ lNext'[c] = Ptr(K[lHead'[c].tag + 1], lHead'[c].tag)
          /\ lTail'[c].tag <= lHead'[c].tag
  <2>1. PICK k : k = lHead[c].tag
    OBVIOUS
  <2>2. k \in 0 .. Popped
    BY <1>5, <1>9, <2>1 DEF Popping
  <2>3. k \in 0 .. Linked
    BY <1>0, <2>2
  <2>4. After(L, c, k) /\ lTail[c].tag <= k
    BY <1>9, <2>1 DEF Popper
  <2> QED
    BY <1>1, <1>2, <2>1, <2>3, <2>4
<1>10. pc'[c] = "pread" => /\ lNext'[c].ptr \in Addr
                           /\ lHead'[c].tag = Popped' =>
                                Popped' + 1 <= Linked' /\ lNext'[c] = Ptr(K[Popped' + 1], Popped')
  BY <1>1, <1>2, <1>6, <1>7 DEF Popper, Popping
<1>11. ASSUME pc[c] = "pcas", lHead[c].tag = Popped' PROVE
          /\ Popped' + 1 <= Linked' /\ lNext'[c] = Ptr(K[Popped' + 1], Popped')
          /\ lValue'[c] = accepted'[Popped' + 1]
  <2>1. Popped' = Popped
    BY <1>6, <1>11 DEF Popping
  <2>2. After(L, c, Popped) /\ lValue[c] = accepted[Popped + 1]
    BY <1>11, <2>1 DEF Popper
  <2>3. accepted'[Popped + 1] = accepted[Popped + 1]
    BY <2>2 DEF After
  <2> QED
    BY <1>1, <1>2, <1>7, <2>1, <2>2, <2>3
<1>12. pc'[c] = "empty" => sawEmpty'[c]
  BY <1>1 DEF Popper
<1>13. setup'.steals /\ pc'[c] \in {"pnext", "pcheck", "pread", "pcas"} => lHead'[c].tag = Popped'
  BY <1>1 DEF Popper
<1> QED
  BY <1>1, <1>3, <1>4, <1>5, <1>8, <1>9, <1>10, <1>11, <1>12, <1>13 DEF Popper, After

\* A step that moves only the locals of t, _tail or _size.
Quiet(t) ==
    /\ OthersStill(t)
    /\ head' = head /\ next' = next /\ value' = value /\ top' = top /\ fresh' = fresh
    /\ accepted' = accepted /\ delivered' = delivered /\ pushed' = pushed /\ lNode' = lNode
    /\ tail.tag <= tail'.tag

\* A quiet step keeps the invariant, with the same nodes in the same places, if it keeps
\* what is said of its own thread and of _tail.
LEMMA QuietStep ==
    ASSUME NEW L, NEW F, NEW kind, NEW who, Inv(L, F, kind, who),
           NEW t \in Threads, Quiet(t), TypeOK', TailOK(L)',
           t \in Producers => Builder(L, t)' /\ (pc'[t] \in Building => pc[t] \in Building),
           t \in Consumers => /\ Popper(L, t)'
                              /\ pc'[t] # "pfree" \/ (pc[t] = "pfree" /\ lHead'[t] = lHead[t])
                              /\ setup.steals => (pc'[t] = "pcas" <=> pc[t] = "pcas")
    PROVE  Inv(L, F, kind, who)'
<1> USE Constants
<1>1. Linked' = Linked /\ Popped' = Popped /\ Shared' = Shared /\ setup' = setup
  BY DEF Quiet, OthersStill, Linked, Popped, Shared
<1>2. Linked \in Nat /\ Popped \in 0 .. Linked
  BY DEF Inv, TypeOK, QueueOK, Linked, Popped
<1>3. Grows(L, L)
  BY <1>1, <1>2 DEF Quiet, Grows, Inv, TailOK
<1>4. Suited' /\ QueueOK(L)' /\ PoolOK(F)'
  BY <1>1 DEF Quiet, Inv, Suited, QueueOK, PoolOK, PoolOf
<1>5. PlacesOK(L, F, kind, who)'
  <2>1. \A p \in Producers : pc'[p] \in Building => pc[p] \in Building
    BY DEF Quiet, OthersStill, Still
  <2>2. \A c \in Consumers : pc'[c] = "pfree" => pc[c] = "pfree" /\ lHead'[c] = lHead[c]
    BY DEF Quiet, OthersStill, Still
  <2> QED
    BY <1>1, <2>1, <2>2 DEF Quiet, Inv, PlacesOK
<1>6. ASSUME NEW p \in Producers PROVE Builder(L, p)'
  <2>1. CASE p = t
    BY <2>1
  <2>2. CASE p # t
    <3>1. Still(p) /\ pushed'[p] = pushed[p] /\ next' = next /\ value' = value
      BY <2>2 DEF Quiet, OthersStill
    <3>2. Builder(L, p)
      BY DEF Inv
    <3> QED
      BY <1>1, <1>3, <3>1, <3>2, BuilderStays
  <2> QED
    BY <2>1, <2>2
<1>7. ASSUME NEW c \in Consumers PROVE Popper(L, c)'
  <2>1. CASE c = t
    BY <2>1
  <2>2. CASE c # t
    <3>1. Still(c) /\ sawEmpty'[c] = sawEmpty[c] /\ accepted' = accepted
      BY <2>2 DEF Quiet, OthersStill
    <3>2. Popper(L, c)
      BY DEF Inv
    <3> QED
      BY <1>1, <1>2, <1>3, <3>1, <3>2, PopperStays
  <2> QED
    BY <2>1, <2>2
<1>8. ValuesOK(L)'
  <2>1. setup.steals => \A c \in Consumers : pc'[c] = "pcas" <=> pc[c] = "pcas"
    BY DEF Quiet, OthersStill, Still
  <2>2. Copied' = Copied
    BY <1>1, <2>1 DEF Copied
  <2> QED
    BY <1>1, <2>2 DEF Quiet, Inv, ValuesOK
<1> QED
  BY <1>1, <1>4, <1>5, <1>6, <1>7, <1>8 DEF Inv

\* The nodes that the loaded tail and head of a thread denote: the tag k stands for the
\* k-th linked node.
LEMMA QueueNodes ==
    ASSUME NEW L, NEW F, NEW kind, NEW who, Inv(L, F, kind, who)
    PROVE  /\ Linked \in Nat /\ Popped \in 0 .. Linked /\ Linked \in 0 .. MaxTag - 1
           /\ \A k \in 0 .. Linked : L[k] \in Addr
           /\ tail.tag \in 0 .. Linked
           /\ \A p \in Producers : pc[p] \in Seeking \cup {"swing"} =>
                /\ lTail[p].tag \in 0 .. Linked /\ lTail[p].ptr \in Addr
                /\ lTail[p].ptr = L[lTail[p].tag] /\ lNode[p] \in Addr
           /\ \A p \in Producers : pc[p] \in Building => lNode[p] \in Addr
           /\ \A c \in Consumers : pc[c] \in Popping =>
                /\ lHead[c].tag \in 0 .. Popped /\ lHead[c].tag \in 0 .. Linked
                /\ lHead[c].ptr \in Addr /\ lHead[c].ptr = L[lHead[c].tag]
<1>1. PICK n : n = Linked
  OBVIOUS
<1>2. PICK m : m = Popped
  OBVIOUS
<1>3. n \in Nat /\ m \in 0 .. n /\ n \in 0 .. MaxTag - 1
  <2>1. n \in Nat /\ m \in Nat /\ n < MaxTag /\ m <= n
    BY <1>1, <1>2, TagsLast DEF Inv, QueueOK
  <2> QED
    BY <2>1, Constants
<1>4. \A k \in 0 .. m : k \in 0 .. n
  BY <1>3
<1>5. \A k \in 0 .. n : L[k] \in Addr
  BY <1>1 DEF Inv, QueueOK
<1>6. PICK l \in 0 .. n : l = tail.tag
  BY <1>1 DEF Inv, TailOK
<1>7. (\A k \in 0 .. l : k \in 0 .. n) /\ (\A k \in 0 .. n - 1 : k \in 0 .. n)
  BY <1>3, <1>6
<1>8. ASSUME NEW p \in Producers, pc[p] \in Seeking \cup {"swing"}
      PROVE  lTail[p].tag \in 0 .. n /\ lTail[p].ptr = L[lTail[p].tag] /\ lNode[p] \in Addr
  <2>1. Builder(L, p)
    BY DEF Inv
  <2>2. CASE pc[p] \in Seeking
    <3>1. lTail[p].tag \in 0 .. l /\ lTail[p] = Ptr(L[lTail[p].tag], lTail[p].tag)
      BY <1>6, <2>1, <2>2 DEF Builder
    <3>2. lNode[p] \in Addr
      BY <2>2 DEF Inv, PlacesOK, Seeking, Building
    <3> QED
      BY <1>7, <3>1, <3>2, Pairs
  <2>3. CASE pc[p] = "swing"
    <3>1. /\ lTail[p].tag \in 0 .. n - 1 /\ lTail[p] = Ptr(L[lTail[p].tag], lTail[p].tag)
          /\ lNode[p] = L[lTail[p].tag + 1]
      BY <1>1, <2>1, <2>3 DEF Builder
    <3>2. lTail[p].tag + 1 \in 0 .. n
      BY <1>3, <3>1
    <3> QED
      BY <1>5, <1>7, <3>1, <3>2, Pairs
  <2> QED
    BY <1>8, <2>2, <2>3
<1>9. ASSUME NEW c \in Consumers, pc[c] \in Popping
      PROVE  lHead[c].tag \in 0 .. m /\ lHead[c].ptr = L[lHead[c].tag]
  BY <1>2, <1>9, Pairs DEF Inv, Popper
<1>10. \A p \in Producers : pc[p] \in Building => lNode[p] \in Addr
  BY DEF Inv, PlacesOK
<1> QED
  BY <1>1, <1>2, <1>3, <1>4, <1>5, <1>6, <1>8, <1>9, <1>10

\* A step of Push or Pop changes no other thread's place and locals.
LEMMA Others ==
    ASSUME TypeOK
    PROVE  /\ \A p \in Producers : PushAlloc(p) \/ PushStep(p) => OthersStill(p)
           /\ \A c \in Consumers : PopStep(c) => OthersStill(c)
<1> USE Constants
<1>1. ASSUME NEW p \in Producers, PushAlloc(p) PROVE OthersStill(p)
  BY <1>1 DEF TypeOK, PushAlloc, Goto, history, OthersStill, Still
<1>2. ASSUME NEW p \in Producers, PushStep(p) PROVE OthersStill(p)
  BY <1>2 DEF TypeOK, PushStep, PushConstruct, PushLoadTail, PushLoadNext, PushCheck, PushLink,
     PushHelp, PushSwing, PushSize, Goto, mem, locals, history, OthersStill, Still
<1>3. ASSUME NEW c \in Consumers, PopStep(c) PROVE OthersStill(c)
  BY <1>3 DEF TypeOK, PopStep, PopLoadTail, PopLoadHead, PopLoadNext, PopCheck, PopEmpty,
     PopHelp, PopRead, PopCas, PopFree, Goto, mem, locals, history, OthersStill, Still
<1> QED
  BY <1>1, <1>2, <1>3

\* Every step of Push keeps the types.
LEMMA PushTypes ==
    ASSUME NEW L, NEW F, NEW kind, NEW who, Inv(L, F, kind, who),
           NEW p \in Producers, PushAlloc(p) \/ PushStep(p)
    PROVE  TypeOK'
<1> USE Constants
<1>1. TypeOK
  BY DEF Inv
<1>2. setup \in Setups /\ p \in Threads /\ setup.pushes \in 1 .. Pushes
  BY <1>1, SetupsAssumption DEF TypeOK
<1>3. CASE PushAlloc(p)
  <2>1. top # 0 => top \in Addr /\ next[top].ptr \in Addr \cup {0}
    BY <1>1, Pairs DEF TypeOK
  <2>2. lNode' \in [Threads -> Addr \cup {0}] /\ top' \in Addr \cup {0} /\ fresh' \in 2 .. Nodes + 1
    <3>1. CASE top # 0 /\ lNode' = [lNode EXCEPT ![p] = top] /\ top' = next[top].ptr /\ fresh' = fresh
      BY <1>1, <3>1, <2>1 DEF TypeOK
    <3>2. CASE /\ top = 0 /\ fresh <= Nodes /\ lNode' = [lNode EXCEPT ![p] = fresh]
               /\ fresh' = fresh + 1 /\ top' = top
      <4>1. fresh \in 2 .. Nodes + 1
        BY <1>1 DEF TypeOK
      <4>2. fresh \in Addr /\ fresh + 1 \in 2 .. Nodes + 1
        BY <3>2, <4>1 DEF Addr
      <4> QED
        BY <1>1, <3>2, <4>2 DEF TypeOK
    <3> QED
      BY <1>3, <3>1, <3>2 DEF PushAlloc
  <2>3. pc' \in [Threads -> PushPC \cup PopPC]
        /\ (\A q \in Producers : pc'[q] \in PushPC) /\ (\A c \in Consumers : pc'[c] \in PopPC)
    BY <1>1, <1>2, <1>3 DEF TypeOK, PushAlloc, Goto, PushPC
  <2>4. pushed' \in [Producers -> Nat]
    BY <1>1, <1>3 DEF TypeOK, PushAlloc
  <2> QED
    BY <1>1, <1>3, <2>2, <2>3, <2>4 DEF TypeOK, PushAlloc, history
<1>4. CASE PushConstruct(p)
  <2>1. lNode[p] \in Addr /\ <<p, pushed[p]>> \in Values
    <3>1. pc[p] \in Building /\ pc[p] # "idle"
      BY <1>4 DEF PushConstruct, Building
    <3>2. pushed[p] \in 0 .. setup.pushes /\ pushed[p] >= 1
      BY <3>1 DEF Inv, Builder
    <3>3. pushed[p] \in 1 .. Pushes
      BY <1>2, <3>2
    <3> QED
      BY <3>1, <3>3 DEF Inv, PlacesOK, Values
  <2>2. next' \in [Addr -> Handles] /\ value' \in [Addr -> Values \cup {NoValue}]
    BY <1>1, <1>4, <2>1, Pairs DEF TypeOK, PushConstruct
  <2>3. pc' \in [Threads -> PushPC \cup PopPC]
        /\ (\A q \in Producers : pc'[q] \in PushPC) /\ (\A c \in Consumers : pc'[c] \in PopPC)
    BY <1>1, <1>2, <1>4 DEF TypeOK, PushConstruct, Goto, PushPC
  <2> QED
    BY <1>1, <1>4, <2>2, <2>3 DEF TypeOK, PushConstruct, locals, history
<1>5. CASE PushLoadTail(p)
  BY <1>1, <1>2, <1>5 DEF TypeOK, PushLoadTail, Goto, mem, history, PushPC
<1>6. CASE PushLoadNext(p)
  <2>1. next[lTail[p].ptr] \in Handles
    BY <1>1, <1>6, QueueNodes DEF TypeOK, PushLoadNext, Seeking
  <2> QED
    BY <1>1, <1>2, <1>6, <2>1 DEF TypeOK, PushLoadNext, Goto, mem, history, PushPC
<1>7. CASE PushCheck(p)
  BY <1>1, <1>2, <1>7 DEF TypeOK, PushCheck, Goto, mem, locals, history, PushPC
<1>8. CASE PushLink(p)
  <2>1. pc[p] \in Seeking /\ pc[p] \in Building /\ pc[p] \in Building \ {"construct"}
    BY <1>8 DEF PushLink, Seeking, Building
  <2>2. PICK a \in Addr, k \in 0 .. Linked : a = lNode[p] /\ k = lTail[p].tag
    BY <2>1, QueueNodes
  <2>3. Ptr(a, k) \in Handles
    <3>1. k \in 0 .. MaxTag - 1
      BY <2>2, QueueNodes
    <3> QED
      BY <3>1, Pairs
  <2>4. value[a] \in Values
    <3>1. value[a] = <<p, pushed[p]>> /\ pushed[p] \in 0 .. setup.pushes /\ pushed[p] >= 1
      BY <2>1, <2>2, <1>8 DEF Inv, Builder, PushLink
    <3>2. pushed[p] \in 1 .. Pushes
      BY <1>2, <3>1
    <3> QED
      BY <3>1, <3>2 DEF Values
  <2>5. pc' \in [Threads -> PushPC \cup PopPC]
        /\ (\A q \in Producers : pc'[q] \in PushPC) /\ (\A c \in Consumers : pc'[c] \in PopPC)
    <3>1. PICK l \in {"swing", "tail"} : pc' = [pc EXCEPT ![p] = l]
      BY <1>8 DEF PushLink, LinkWins, Goto
    <3>2. l \in PushPC
      BY DEF PushPC
    <3> QED
      BY <1>1, <1>2, <3>1, <3>2 DEF TypeOK
  <2>6. next' \in [Addr -> Handles]
    BY <1>1, <1>8, <2>2, <2>3 DEF TypeOK, PushLink
  <2>7. accepted' \in Seq(Values)
    <3>1. accepted' = Append(accepted, value[a]) \/ accepted' = accepted
      BY <1>8, <2>2 DEF PushLink, LinkWins
    <3>2. CASE accepted' = Append(accepted, value[a])
      BY <1>1, <2>4, <3>2 DEF TypeOK
    <3>3. CASE accepted' = accepted
      BY <1>1, <3>3 DEF TypeOK
    <3> QED
      BY <3>1, <3>2, <3>3
  <2> QED
    BY <1>1, <1>8, <2>5, <2>6, <2>7 DEF TypeOK, PushLink, locals
<1>9. ASSUME PushHelp(p) \/ PushSwing(p) PROVE TypeOK'
  <2>1. PICK a \in Addr \cup {0} : SwingTail(p, a)
    <3>1. lNext[p].ptr \in Addr \cup {0} /\ lNode[p] \in Addr \cup {0}
      BY <1>1, <1>2, Pairs DEF TypeOK
    <3> QED
      BY <1>9, <3>1 DEF PushHelp, PushSwing
  <2>2. NextTag(lTail[p]) \in 0 .. MaxTag - 1
    BY <1>1, <1>2, Pairs DEF TypeOK
  <2>3. Ptr(a, NextTag(lTail[p])) \in TaggedPtr
    BY <2>2, Pairs
  <2>4. tail' \in TaggedPtr
    BY <1>1, <2>1, <2>3 DEF TypeOK, SwingTail
  <2>5. pc' = [pc EXCEPT ![p] = "tail"] \/ pc' = [pc EXCEPT ![p] = "size"]
    BY <1>9 DEF PushHelp, PushSwing, Goto
  <2>6. /\ pc' \in [Threads -> PushPC \cup PopPC]
        /\ (\A q \in Producers : pc'[q] \in PushPC) /\ (\A c \in Consumers : pc'[c] \in PopPC)
    <3>1. PICK l \in PushPC : pc' = [pc EXCEPT ![p] = l]
      BY <2>5 DEF PushPC
    <3>2. /\ pc \in [Threads -> PushPC \cup PopPC]
          /\ (\A q \in Producers : pc[q] \in PushPC) /\ (\A c \in Consumers : pc[c] \in PopPC)
      BY <1>1 DEF TypeOK
    <3> QED
      BY ONLY Constants, p \in Producers, <3>1, <3>2
  <2>7. UNCHANGED <<setup, head, next, value, top, fresh, size, locals, pushed, history>>
    BY <1>9 DEF PushHelp, PushSwing
  <2> QED
    BY <1>1, <2>4, <2>6, <2>7 DEF TypeOK, locals, history
<1>10. CASE PushSize(p)
  BY <1>1, <1>2, <1>10 DEF TypeOK, PushSize, Goto, locals, history, PushPC
<1> QED
  BY <1>3, <1>4, <1>5, <1>6, <1>7, <1>8, <1>9, <1>10 DEF PushStep

\* Every step of Pop keeps the types.
LEMMA PopTypes ==
    ASSUME NEW L, NEW F, NEW kind, NEW who, Inv(L, F, kind, who),
           NEW c \in Consumers, PopStep(c)
    PROVE  TypeOK'
<1> USE Constants
<1>1. TypeOK /\ c \in Threads
  BY DEF Inv
<1>2. CASE PopLoadTail(c)
  BY <1>1, <1>2 DEF TypeOK, PopLoadTail, Goto, mem, history, PopPC
<1>3. CASE PopLoadHead(c)
  BY <1>1, <1>3 DEF TypeOK, PopLoadHead, Goto, mem, history, PopPC
<1>4. CASE PopLoadNext(c)
  <2>1. next[lHead[c].ptr] \in Handles
    BY <1>1, <1>4, QueueNodes DEF TypeOK, PopLoadNext, Popping
  <2> QED
    BY <1>1, <1>4, <2>1 DEF TypeOK, PopLoadNext, Goto, mem, PopPC
<1>5. CASE PopCheck(c)
  BY <1>1, <1>5 DEF TypeOK, PopCheck, Goto, mem, locals, history, PopPC
<1>6. CASE PopEmpty(c)
  BY <1>1, <1>6 DEF TypeOK, PopEmpty, Goto, mem, locals, history, PopPC
<1>7. CASE PopHelp(c)
  <2>1. tail' \in TaggedPtr
    BY <1>1, <1>7, Pairs DEF TypeOK, PopHelp, SwingTail
  <2> QED
    BY <1>1, <1>7, <2>1 DEF TypeOK, PopHelp, Goto, locals, history, PopPC
<1>8. CASE PopRead(c)
  <2>1. lNext[c].ptr \in Addr
    BY <1>8 DEF Inv, Popper, PopRead
  <2>2. value' \in [Addr -> Values \cup {NoValue}] /\ value[lNext[c].ptr] \in Values \cup {NoValue}
    BY <1>1, <1>8, <2>1 DEF TypeOK, PopRead, AfterCopy
  <2> QED
    BY <1>1, <1>8, <2>2 DEF TypeOK, PopRead, Goto, history, PopPC
<1>9. CASE PopCas(c)
  <2>1. head' \in TaggedPtr
    <3>1. head' = Ptr(lNext[c].ptr, NextTag(lHead[c])) \/ head' = head
      BY <1>9 DEF PopCas, PopWins
    <3>2. lNext[c].ptr \in Addr \cup {0} /\ NextTag(lHead[c]) \in 0 .. MaxTag - 1
      BY <1>1, Pairs DEF TypeOK
    <3>3. head \in TaggedPtr /\ Ptr(lNext[c].ptr, NextTag(lHead[c])) \in TaggedPtr
      BY <1>1, <3>2, Pairs DEF TypeOK
    <3> QED
      BY <3>1, <3>3
  <2>2. delivered' \in Seq(Values \cup {NoValue})
    <3>1. delivered' = Append(delivered, lValue[c]) \/ delivered' = delivered
      BY <1>9 DEF PopCas, PopWins
    <3>2. CASE delivered' = Append(delivered, lValue[c])
      BY <1>1, <3>2 DEF TypeOK
    <3>3. CASE delivered' = delivered
      BY <1>1, <3>3 DEF TypeOK
    <3> QED
      BY <3>1, <3>2, <3>3
  <2>3. pc' \in [Threads -> PushPC \cup PopPC]
        /\ (\A q \in Producers : pc'[q] \in PushPC) /\ (\A d \in Consumers : pc'[d] \in PopPC)
    <3>1. PICK l \in {"pfree", "idle"} : pc' = [pc EXCEPT ![c] = l]
      BY <1>9 DEF PopCas, PopWins, Goto
    <3>2. l \in PopPC
      BY DEF PopPC
    <3> QED
      BY <1>1, <3>1, <3>2 DEF TypeOK
  <2> QED
    BY <1>1, <1>9, <2>1, <2>2, <2>3 DEF TypeOK, PopCas, locals
<1>10. CASE PopFree(c)
  <2>1. lHead[c].ptr \in Addr
    BY <1>10, QueueNodes DEF PopFree, Popping
  <2>2. Ptr(top, 0) \in Handles
    BY <1>1, Pairs DEF TypeOK
  <2>3. next' \in [Addr -> Handles] /\ top' \in Addr \cup {0} /\ size' \in Int
    BY <1>1, <1>10, <2>1, <2>2 DEF TypeOK, PopFree, Retired, SizeAfterPop
  <2>4. pc' \in [Threads -> PushPC \cup PopPC]
        /\ (\A q \in Producers : pc'[q] \in PushPC) /\ (\A d \in Consumers : pc'[d] \in PopPC)
    BY <1>1, <1>10 DEF TypeOK, PopFree, Goto, PopPC
  <2> QED
    BY <1>1, <1>10, <2>3, <2>4 DEF TypeOK, PopFree, locals, history
<1> QED
  BY <1>2, <1>3, <1>4, <1>5, <1>6, <1>7, <1>8, <1>9, <1>10 DEF PopStep

-----------------------------------------------------------------------------
(* Steps that change no node: loads, checks, and the CAS of _tail.          *)

\* _tail lags by at most one node as long as nobody links and the thread that linked
\* last has not finished its swing.
LEMMA TailStays ==
    ASSUME NEW L, NEW F, NEW kind, NEW who, Inv(L, F, kind, who),
           NEW t \in Threads, OthersStill(t), tail' = tail, Linked' = Linked,
           pc[t] = "swing" /\ t \in Producers => lTail[t].tag # Linked - 1
    PROVE  TailOK(L)'
<1>1. \A p \in Producers : pc[p] = "swing" /\ lTail[p].tag = Linked - 1 =>
          pc'[p] = "swing" /\ lTail'[p].tag = Linked - 1
  BY Constants DEF OthersStill, Still
<1> QED
  BY <1>1 DEF Inv, TailOK

\* The CAS of _tail, by whomever, moves it to the next node or leaves it.
LEMMA TailSwung ==
    ASSUME NEW L, NEW F, NEW kind, NEW who, Inv(L, F, kind, who),
           NEW t \in Threads, OthersStill(t), Linked' = Linked,
           NEW a, SwingTail(t, a),
           tail = lTail[t] => tail.tag + 1 <= Linked /\ a = L[tail.tag + 1],
           pc[t] = "swing" /\ t \in Producers => lTail[t] = Ptr(L[lTail[t].tag], lTail[t].tag)
    PROVE  TailOK(L)' /\ tail.tag <= tail'.tag
<1>1. PICK n, k : n = Linked /\ k = tail.tag
  OBVIOUS
<1>2. n \in Nat /\ k \in 0 .. n /\ k \in {n, n - 1} /\ n < MaxTag /\ tail = Ptr(L[k], k)
  <2>1. n \in Nat /\ n < MaxTag
    BY <1>1, TagsLast
  <2>2. TailOK(L)
    BY DEF Inv
  <2>3. k \in 0 .. n /\ tail = Ptr(L[k], k)
    BY <1>1, <2>2 DEF TailOK
  <2>4. k = n \/ k = n - 1
    BY <1>1, <2>2 DEF TailOK
  <2> QED
    BY <2>1, <2>3, <2>4
<1>3. CASE tail = lTail[t]
  <2>1. k + 1 <= n /\ a = L[k + 1]
    BY <1>1, <1>3
  <2>2. k + 1 = n /\ k + 1 \in 0 .. n /\ (k + 1) % MaxTag = k + 1
    BY <1>2, <2>1, Constants
  <2>3. NextTag(lTail[t]) = k + 1
    BY <1>1, <1>3, <2>2 DEF NextTag
  <2>4. tail' = Ptr(L[k + 1], k + 1)
    BY <1>3, <2>1, <2>3 DEF SwingTail
  <2>5. tail'.tag = k + 1
    BY <2>4, Pairs
  <2>6. tail'.tag \in 0 .. Linked' /\ tail'.tag = Linked' /\ tail' = Ptr(L[tail'.tag], tail'.tag)
    BY <1>1, <2>2, <2>4, <2>5
  <2>7. TailOK(L)'
    BY <2>6 DEF TailOK
  <2>8. k <= k + 1
    BY <1>2
  <2> QED
    BY <1>1, <2>5, <2>7, <2>8
<1>4. CASE tail # lTail[t]
  <2>1. tail' = tail
    BY <1>4 DEF SwingTail
  <2>2. tail.tag <= tail'.tag
    BY <1>1, <1>2, <2>1
  <2>3. TailOK(L)'
    <3>1. CASE k = n
      BY <1>1, <1>2, <2>1, <3>1 DEF TailOK
    <3>2. CASE k = n - 1
      <4>1. pc[t] = "swing" /\ t \in Producers => lTail[t].tag # Linked - 1
        BY <1>1, <1>2, <1>4, <3>2
      <4> QED
        BY <2>1, <4>1, TailStays
    <3> QED
      BY <1>2, <3>1, <3>2
  <2> QED
    BY <2>2, <2>3
<1> QED
  BY <1>3, <1>4

\* A step of a producer within Push that leaves its node and the queue as they are.
LEMMA BuilderOwn ==
    ASSUME NEW L, NEW F, NEW kind, NEW who, Inv(L, F, kind, who), NEW p \in Producers,
           pc[p] \in Building \ {"construct"}, pc'[p] \in Building \ {"construct"},
           next' = next, value' = value, lNode' = lNode, pushed' = pushed,
           setup' = setup, Linked' = Linked,
           pc'[p] \in Seeking =>
              /\ lTail'[p].tag \in 0 .. tail'.tag /\ lTail'[p] = Ptr(L[lTail'[p].tag], lTail'[p].tag)
              /\ Shared => lTail'[p].tag = Linked,
           pc'[p] = "check" => \/ lNext'[p] = nullHandle
                               \/ /\ lTail'[p].tag + 1 <= Linked
                                  /\ lNext'[p] = Ptr(L[lTail'[p].tag + 1], lTail'[p].tag),
           pc'[p] = "link" => lNext'[p] = nullHandle,
           pc'[p] = "help" => /\ lTail'[p].tag + 1 <= Linked
                              /\ lNext'[p] = Ptr(L[lTail'[p].tag + 1], lTail'[p].tag)
    PROVE  Builder(L, p)'
<1>1. Shared' = Shared
  BY DEF Shared
<1>2. pc[p] # "idle" /\ pc'[p] # "idle" /\ pc'[p] # "swing"
      /\ pc[p] \in Building /\ pc'[p] \in Building
  BY DEF Building
<1>3. Builder(L, p)
  BY DEF Inv
<1>4. pushed'[p] \in 0 .. setup'.pushes /\ p \in setup'.threads /\ pushed'[p] >= 1
  BY <1>2, <1>3 DEF Builder
<1>5. next'[lNode'[p]] = nullHandle /\ value'[lNode'[p]] = <<p, pushed'[p]>>
  BY <1>3 DEF Builder
<1>6. Shared => Linked + 1 = pushed[p]
  BY <1>2, <1>3 DEF Builder
<1> QED
  BY <1>1, <1>2, <1>4, <1>5, <1>6 DEF Builder, After

\* What follows a node of the queue.
LEMMA NextOf ==
    ASSUME NEW L, NEW F, NEW kind, NEW who, Inv(L, F, kind, who),
           NEW k \in Popped .. Linked
    PROVE  \/ k = Linked /\ next[L[k]] = nullHandle
           \/ k + 1 <= Linked /\ next[L[k]] = Ptr(L[k + 1], k)
<1>1. PICK n, m : n = Linked /\ m = Popped
  OBVIOUS
<1>2. n \in Nat /\ m \in Nat
  BY <1>1, TagsLast
<1>3. QueueOK(L)
  BY DEF Inv
<1>4. k \in m .. n
  BY <1>1
<1>5. k = n \/ (k \in m .. n - 1 /\ k + 1 <= n)
  BY ONLY <1>2, <1>4
<1>6. CASE k = n
  BY <1>1, <1>3, <1>6 DEF QueueOK
<1>7. CASE k \in m .. n - 1 /\ k + 1 <= n
  BY <1>1, <1>3, <1>7 DEF QueueOK
<1> QED
  BY <1>5, <1>6, <1>7

\* The steps of Push that change no node keep the invariant: the loads, the check, both
\* swings of _tail, the counting, and a CAS on _next that fails.
LEMMA PushQuiet ==
    ASSUME NEW L, NEW F, NEW kind, NEW who, Inv(L, F, kind, who), NEW p \in Producers,
           \/ PushLoadTail(p) \/ PushLoadNext(p) \/ PushCheck(p)
           \/ PushHelp(p) \/ PushSwing(p) \/ PushSize(p) \/ (PushLink(p) /\ ~LinkWins(p))
    PROVE  Inv(L, F, kind, who)'
<1> USE Constants
<1>1. TypeOK /\ TypeOK' /\ OthersStill(p) /\ p \in Threads /\ p \notin Consumers
  BY PushTypes, Others DEF Inv, PushStep
<1>2. /\ head' = head /\ next' = next /\ value' = value /\ top' = top /\ fresh' = fresh
      /\ accepted' = accepted /\ delivered' = delivered /\ pushed' = pushed /\ lNode' = lNode
      /\ setup' = setup
  BY DEF PushLoadTail, PushLoadNext, PushCheck, PushHelp, PushSwing, PushSize, PushLink,
     mem, locals, history
<1>3. Linked' = Linked /\ Popped' = Popped
  BY <1>2 DEF Linked, Popped
<1>4. tail' = tail => tail.tag <= tail'.tag
  <2>1. tail.tag \in Int
    BY QueueNodes
  <2> QED
    BY <2>1
<1>5. ASSUME Builder(L, p)', TailOK(L)', tail.tag <= tail'.tag, pc'[p] \in Building => pc[p] \in Building
      PROVE  Inv(L, F, kind, who)'
  <2>1. Quiet(p)
    BY <1>1, <1>2, <1>5 DEF Quiet
  <2> QED
    BY <1>1, <1>5, <2>1, QuietStep
<1>6. CASE PushLoadTail(p)
  <2>1. pc[p] = "tail" /\ pc'[p] = "next" /\ lTail'[p] = tail /\ tail' = tail
    BY <1>1, <1>6 DEF PushLoadTail, Goto, mem, TypeOK
  <2>2. TailOK(L)'
    BY <1>1, <1>3, <2>1, TailStays
  <2>3. Shared => tail.tag = Linked
    <3>1. ASSUME Shared, NEW q \in Producers, pc[q] = "swing" PROVE FALSE
      <4>1. q \in setup.threads /\ p \in setup.threads
        BY <2>1, <3>1 DEF Inv, Builder
      <4>2. q = p
        BY <3>1, <4>1 DEF Inv, Suited
      <4> QED
        BY <2>1, <3>1, <4>2
    <3> QED
      BY <3>1 DEF Inv, TailOK
  <2>4. tail.tag \in 0 .. tail.tag /\ tail = Ptr(L[tail.tag], tail.tag)
    <3>1. tail.tag \in 0 .. Linked
      BY QueueNodes
    <3> QED
      BY <3>1 DEF Inv, TailOK
  <2>5. Builder(L, p)'
    BY <1>2, <1>3, <2>1, <2>3, <2>4, BuilderOwn DEF Building
  <2> QED
    BY <1>4, <1>5, <2>1, <2>2, <2>5 DEF Building
<1>7. CASE PushLoadNext(p)
  <2>1. /\ pc[p] = "next" /\ pc'[p] = "check" /\ tail' = tail
        /\ lTail'[p] = lTail[p] /\ lNext'[p] = next[lTail[p].ptr]
    BY <1>1, <1>7 DEF PushLoadNext, Goto, mem, TypeOK
  <2>2. TailOK(L)'
    BY <1>1, <1>3, <2>1, TailStays
  <2>3. PICK k : k = lTail[p].tag
    OBVIOUS
  <2>4. /\ k \in 0 .. tail.tag /\ lTail[p] = Ptr(L[k], k) /\ (Shared => k = Linked)
        /\ k \in 0 .. Linked /\ lTail[p].ptr = L[k]
    BY <2>1, <2>3, QueueNodes DEF Inv, Builder, Seeking
  <2>5. k \in Popped .. Linked
    <3>1. CASE Shared
      BY <2>4, <3>1, QueueNodes
    <3>2. CASE ~Shared
      <4>1. Popped = 0
        BY <3>2 DEF Inv, QueueOK
      <4> QED
        BY <2>4, <4>1
    <3> QED
      BY <3>1, <3>2
  <2>6. lNext'[p] = nullHandle \/ (k + 1 <= Linked /\ lNext'[p] = Ptr(L[k + 1], k))
    BY <2>1, <2>4, <2>5, NextOf
  <2>7. Builder(L, p)'
    BY <1>2, <1>3, <2>1, <2>3, <2>4, <2>6, BuilderOwn DEF Building
  <2> QED
    BY <1>4, <1>5, <2>1, <2>2, <2>7 DEF Building
<1>8. CASE PushCheck(p)
  <2>1. /\ pc[p] = "check" /\ pc'[p] \in {"tail", "link", "help"} /\ tail' = tail
        /\ lTail'[p] = lTail[p] /\ lNext'[p] = lNext[p]
        /\ pc'[p] = "link" <=> tail = lTail[p] /\ lNext[p] = nullHandle
        /\ pc'[p] = "help" => lNext[p] # nullHandle
    BY <1>1, <1>8 DEF PushCheck, Goto, mem, locals, TypeOK
  <2>2. TailOK(L)'
    BY <1>1, <1>3, <2>1, TailStays
  <2>3. PICK k : k = lTail[p].tag
    OBVIOUS
  <2>4. /\ k \in 0 .. tail.tag /\ lTail[p] = Ptr(L[k], k) /\ (Shared => k = Linked)
        /\ lNext[p] = nullHandle \/ After(L, p, k)
    BY <2>1, <2>3 DEF Inv, Builder, Seeking
  <2>5. Builder(L, p)'
    BY <1>2, <1>3, <2>1, <2>3, <2>4, BuilderOwn DEF Building, After
  <2> QED
    BY <1>4, <1>5, <2>1, <2>2, <2>5 DEF Building
<1>9. CASE PushHelp(p)
  <2>1. /\ pc[p] = "help" /\ pc'[p] = "tail" /\ SwingTail(p, lNext[p].ptr)
    BY <1>1, <1>9 DEF PushHelp, Goto, TypeOK
  <2>2. PICK k : k = lTail[p].tag
    OBVIOUS
  <2>3. k + 1 <= Linked /\ lNext[p].ptr = L[k + 1]
    BY <2>1, <2>2, Pairs DEF Inv, Builder, After
  <2>4. TailOK(L)' /\ tail.tag <= tail'.tag
    BY <1>1, <1>3, <2>1, <2>2, <2>3, TailSwung
  <2>5. Builder(L, p)'
    BY <1>2, <1>3, <2>1, BuilderOwn DEF Building, Seeking
  <2> QED
    BY <1>5, <2>1, <2>4, <2>5 DEF Building
<1>10. CASE PushLink(p) /\ ~LinkWins(p)
  <2>1. pc[p] = "link" /\ pc'[p] = "tail" /\ tail' = tail
    BY <1>1, <1>10 DEF PushLink, Goto, TypeOK
  <2>2. TailOK(L)'
    BY <1>1, <1>3, <2>1, TailStays
  <2>3. Builder(L, p)'
    BY <1>2, <1>3, <2>1, BuilderOwn DEF Building, Seeking
  <2> QED
    BY <1>4, <1>5, <2>1, <2>2, <2>3 DEF Building
<1>11. CASE PushSwing(p)
  <2>1. pc[p] = "swing" /\ pc'[p] = "size" /\ SwingTail(p, lNode[p])
    BY <1>1, <1>11 DEF PushSwing, Goto, TypeOK
  <2>2. PICK k : k = lTail[p].tag
    OBVIOUS
  <2>3. k \in 0 .. Linked - 1 /\ lTail[p] = Ptr(L[k], k) /\ lNode[p] = L[k + 1]
    BY <2>1, <2>2 DEF Inv, Builder
  <2>4. k + 1 <= Linked
    BY <2>3, QueueNodes
  <2>5. TailOK(L)' /\ tail.tag <= tail'.tag
    BY <1>1, <1>3, <2>1, <2>2, <2>3, <2>4, TailSwung
  <2>6. Builder(L, p)'
    BY <1>2, <1>3, <2>1 DEF Inv, Builder, Building, Seeking, Shared
  <2> QED
    BY <1>5, <2>1, <2>5, <2>6 DEF Building
<1>12. CASE PushSize(p)
  <2>1. pc[p] = "size" /\ pc'[p] = "idle" /\ tail' = tail
    BY <1>1, <1>12 DEF PushSize, Goto, TypeOK
  <2>2. TailOK(L)'
    BY <1>1, <1>3, <2>1, TailStays
  <2>3. Builder(L, p)'
    BY <1>2, <1>3, <2>1 DEF Inv, Builder, Building, Seeking, Shared
  <2> QED
    BY <1>4, <1>5, <2>1, <2>2, <2>3 DEF Building
<1> QED
  BY <1>6, <1>7, <1>8, <1>9, <1>10, <1>11, <1>12

\* The CAS of _head succeeds exactly when no node was popped since the thread loaded it.
LEMMA HeadIs ==
    ASSUME NEW L, NEW F, NEW kind, NEW who, Inv(L, F, kind, who),
           NEW c \in Consumers, pc[c] \in Popping
    PROVE  /\ (head = lHead[c]) <=> (lHead[c].tag = Popped)
           /\ head.tag = Popped /\ head.ptr = L[Popped]
<1>1. head = Ptr(L[Popped], Popped)
  BY DEF Inv, QueueOK
<1>2. lHead[c] = Ptr(L[lHead[c].tag], lHead[c].tag)
  BY DEF Inv, Popper
<1> QED
  BY <1>1, <1>2, Pairs

\* When every linked node is popped, what was accepted is what was delivered.
LEMMA AllDelivered ==
    ASSUME NEW L, NEW F, NEW kind, NEW who, Inv(L, F, kind, who), Popped = Linked
    PROVE  accepted = delivered
<1>1. accepted \in Seq(Values \cup {NoValue}) /\ delivered \in Seq(Values \cup {NoValue})
  BY DEF Inv, TypeOK
<1>2. Len(accepted) = Len(delivered) /\ \A i \in 1 .. Len(delivered) : delivered[i] = accepted[i]
  BY DEF Inv, QueueOK, Popped, Linked
<1> QED
  BY <1>1, <1>2

\* The steps of Pop that change no node keep the invariant: the loads, the check, the
\* answer false, the swing of _tail, and a CAS of _head that fails.
LEMMA PopQuiet ==
    ASSUME NEW L, NEW F, NEW kind, NEW who, Inv(L, F, kind, who), NEW c \in Consumers,
           \/ PopLoadTail(c) \/ PopLoadHead(c) \/ PopLoadNext(c) \/ PopCheck(c)
           \/ PopEmpty(c) \/ PopHelp(c) \/ (PopCas(c) /\ ~PopWins(c))
    PROVE  Inv(L, F, kind, who)'
<1> USE Constants
<1>1. TypeOK /\ TypeOK' /\ OthersStill(c) /\ c \in Threads /\ c \notin Producers
  BY PopTypes, Others DEF Inv, PopStep
<1>2. /\ head' = head /\ next' = next /\ value' = value /\ top' = top /\ fresh' = fresh
      /\ accepted' = accepted /\ delivered' = delivered /\ pushed' = pushed /\ lNode' = lNode
      /\ setup' = setup
  BY DEF PopLoadTail, PopLoadHead, PopLoadNext, PopCheck, PopEmpty, PopHelp, PopCas,
     mem, locals, history
<1>3. Linked' = Linked /\ Popped' = Popped
  BY <1>2 DEF Linked, Popped
<1>4. tail' = tail => TailOK(L)' /\ tail.tag <= tail'.tag
  <2>1. tail.tag \in Int
    BY QueueNodes
  <2> QED
    BY <1>1, <1>3, <2>1, TailStays
<1>5. ASSUME Popper(L, c)', TailOK(L)', tail.tag <= tail'.tag, pc'[c] # "pfree",
             setup.steals => (pc'[c] = "pcas" <=> pc[c] = "pcas")
      PROVE  Inv(L, F, kind, who)'
  <2>1. Quiet(c)
    BY <1>1, <1>2, <1>5 DEF Quiet
  <2> QED
    BY <1>1, <1>5, <2>1, QuietStep
<1>6. Popper(L, c)
  BY DEF Inv
<1>7. CASE PopLoadTail(c)
  <2>1. pc[c] = "idle" /\ pc'[c] = "phead" /\ lTail'[c] = tail /\ tail' = tail /\ c \in setup.threads
    BY <1>1, <1>7 DEF PopLoadTail, Goto, mem, TypeOK
  <2>2. tail.tag \in 0 .. tail.tag /\ tail = Ptr(L[tail.tag], tail.tag)
    <3>1. tail.tag \in 0 .. Linked
      BY QueueNodes
    <3> QED
      BY <3>1 DEF Inv, TailOK
  <2>3. Popper(L, c)'
    BY <1>2, <2>1, <2>2 DEF Popper, Popping
  <2> QED
    BY <1>4, <1>5, <2>1, <2>3
<1>8. CASE PopLoadHead(c)
  <2>1. /\ pc[c] = "phead" /\ pc'[c] = "pnext" /\ lHead'[c] = head /\ tail' = tail /\ lTail'[c] = lTail[c]
    BY <1>1, <1>8 DEF PopLoadHead, Goto, mem, TypeOK
  <2>2. head = Ptr(L[Popped], Popped) /\ Popped \in 0 .. Popped
    <3>1. Popped \in 0 .. Linked
      BY QueueNodes
    <3> QED
      BY <3>1 DEF Inv, QueueOK
  <2>3. Popper(L, c)'
    BY <1>2, <1>3, <1>6, <2>1, <2>2, Pairs DEF Popper, Popping
  <2> QED
    BY <1>4, <1>5, <2>1, <2>3
<1>9. CASE PopLoadNext(c)
  <2>1. /\ pc[c] = "pnext" /\ pc'[c] = "pcheck" /\ tail' = tail
        /\ lTail'[c] = lTail[c] /\ lHead'[c] = lHead[c]
        /\ lNext'[c] = next[lHead[c].ptr] /\ sawEmpty'[c] = (accepted = delivered)
    BY <1>1, <1>9 DEF PopLoadNext, Goto, mem, TypeOK
  <2>2. ASSUME lHead[c].tag = Popped
        PROVE  (lNext'[c] = nullHandle /\ sawEmpty'[c])
               \/ (Popped + 1 <= Linked /\ lNext'[c] = Ptr(L[Popped + 1], Popped))
    <3>1. lHead[c].ptr = L[Popped] /\ Popped \in Popped .. Linked
      BY <2>1, <2>2, QueueNodes DEF Popping
    <3>2. CASE Popped = Linked /\ next[L[Popped]] = nullHandle
      BY <2>1, <3>1, <3>2, AllDelivered
    <3>3. CASE Popped + 1 <= Linked /\ next[L[Popped]] = Ptr(L[Popped + 1], Popped)
      BY <2>1, <3>1, <3>3
    <3> QED
      BY <3>1, <3>2, <3>3, NextOf
  <2>3. Popper(L, c)'
    BY <1>2, <1>3, <1>6, <2>1, <2>2 DEF Popper, Popping, After
  <2> QED
    BY <1>4, <1>5, <2>1, <2>3
<1>10. CASE PopCheck(c)
  <2>1. /\ pc[c] = "pcheck" /\ tail' = tail /\ c \in setup.threads
        /\ lTail'[c] = lTail[c] /\ lHead'[c] = lHead[c] /\ lNext'[c] = lNext[c]
        /\ sawEmpty'[c] = sawEmpty[c]
    BY <1>1, <1>6, <1>10 DEF PopCheck, Goto, mem, locals, history, TypeOK, Popper
  <2>2. /\ pc'[c] \in {"idle", "empty", "phelp", "pread"}
        /\ pc'[c] # "idle" => head = lHead[c]
        /\ pc'[c] = "empty" => lNext[c] = nullHandle
        /\ pc'[c] = "phelp" => lNext[c] # nullHandle /\ lHead[c].ptr = lTail[c].ptr
        /\ pc'[c] = "pread" => lNext[c] # nullHandle
    BY <1>1, <1>10 DEF PopCheck, NoneBehind, Goto, TypeOK
  <2>3. pc'[c] # "idle" => /\ lHead[c].tag = Popped
                           /\ (lNext[c] = nullHandle /\ sawEmpty[c]) \/ After(L, c, Popped)
    BY <1>6, <2>1, <2>2, HeadIs DEF Popper, Popping
  <2>4. After(L, c, Popped) => lNext[c] # nullHandle /\ lNext[c].ptr \in Addr
    <3>1. Popped + 1 <= Linked => Popped + 1 \in 0 .. Linked
      BY QueueNodes
    <3>2. After(L, c, Popped) => lNext[c].ptr \in Addr
      BY <3>1, QueueNodes, Pairs DEF After
    <3>3. nullHandle.ptr \notin Addr
      BY Pairs
    <3> QED
      BY <3>2, <3>3
  <2>5. ASSUME pc'[c] = "phelp" PROVE lTail[c].tag <= lHead[c].tag
    <3>1. PICK l, m, n : l = lTail[c].tag /\ m = Popped /\ n = Linked
      OBVIOUS
    <3>2. l \in 0 .. tail.tag /\ lTail[c] = Ptr(L[l], l)
      BY <1>6, <2>1, <3>1 DEF Popper
    <3>3. l \in 0 .. n /\ m \in 0 .. n
      BY <3>1, <3>2, QueueNodes
    <3>4. L[l] = L[m]
      BY <2>1, <2>2, <2>3, <2>5, <3>1, <3>2, Pairs, QueueNodes DEF Popping
    <3>5. \A i, j \in m .. n : L[i] = L[j] => i = j
      BY <3>1 DEF Inv, PlacesOK
    <3>6. l <= m
      BY <3>3, <3>4, <3>5
    <3> QED
      BY <2>3, <2>5, <3>1, <3>6
  <2>6. Popper(L, c)'
    BY <1>2, <1>3, <1>6, <2>1, <2>2, <2>3, <2>4, <2>5 DEF Popper, Popping, After
  <2> QED
    BY <1>4, <1>5, <2>1, <2>2, <2>6
<1>11. CASE PopEmpty(c)
  <2>1. pc[c] = "empty" /\ pc'[c] = "idle" /\ tail' = tail
    BY <1>1, <1>11 DEF PopEmpty, Goto, mem, TypeOK
  <2>2. Popper(L, c)'
    BY <2>1 DEF Popper, Popping
  <2> QED
    BY <1>4, <1>5, <2>1, <2>2
<1>12. CASE PopHelp(c)
  <2>1. pc[c] = "phelp" /\ pc'[c] = "idle" /\ SwingTail(c, lNext[c].ptr)
    BY <1>1, <1>12 DEF PopHelp, Goto, TypeOK
  <2>2. PICK h, k, l, n : h = lHead[c].tag /\ k = tail.tag /\ n = Linked /\ l = lTail[c].tag
    OBVIOUS
  <2>3. h + 1 <= n /\ lNext[c] = Ptr(L[h + 1], h) /\ l <= h
    BY <1>6, <2>1, <2>2 DEF Popper, After
  <2>4. h \in 0 .. n /\ k \in 0 .. n /\ n \in Nat /\ (k = n \/ k = n - 1)
    BY <2>1, <2>2, QueueNodes DEF Popping, Inv, TailOK
  <2>5. tail = lTail[c] => k = h
    <3>1. tail = lTail[c] => k = l
      BY <2>2
    <3>2. k <= h => k = h
      BY <2>3, <2>4
    <3> QED
      BY <2>3, <3>1, <3>2
  <2>6. tail = lTail[c] => tail.tag + 1 <= Linked /\ lNext[c].ptr = L[tail.tag + 1]
    BY <2>2, <2>3, <2>5, Pairs
  <2>7. TailOK(L)' /\ tail.tag <= tail'.tag
    BY <1>1, <1>3, <2>1, <2>6, TailSwung
  <2>8. Popper(L, c)'
    BY <2>1 DEF Popper, Popping
  <2> QED
    BY <1>5, <2>1, <2>7, <2>8
<1>13. CASE PopCas(c) /\ ~PopWins(c)
  <2>1. pc[c] = "pcas" /\ pc'[c] = "idle" /\ tail' = tail
    BY <1>1, <1>13 DEF PopCas, Goto, TypeOK
  <2>2. ~setup.steals
    BY <1>6, <1>13, <2>1, HeadIs DEF Popper, Popping, PopWins
  <2>3. Popper(L, c)'
    BY <2>1 DEF Popper, Popping
  <2> QED
    BY <1>4, <1>5, <2>1, <2>2, <2>3
<1> QED
  BY <1>7, <1>8, <1>9, <1>10, <1>11, <1>12, <1>13

-----------------------------------------------------------------------------
(* Steps that change a node or the order of the nodes.                      *)

\* What is known of all other threads survives a step that links or pops at most one node.
LEMMA OthersStay ==
    ASSUME NEW L, NEW F, NEW kind, NEW who, Inv(L, F, kind, who), NEW K,
           NEW t \in Threads, OthersStill(t), Grows(L, K), Popped' \in Nat, Popped <= Popped',
           Popped + 1 <= Linked => accepted'[Popped + 1] = accepted[Popped + 1],
           \A q \in Producers \ {t} : pc[q] \in Building =>
              next'[lNode[q]] = next[lNode[q]] /\ value'[lNode[q]] = value[lNode[q]],
           \A q \in Producers \ {t} : Shared /\ q \in setup.threads => Linked' = Linked,
           \A d \in Consumers \ {t} : setup.steals /\ d \in setup.threads => Popped' = Popped
    PROVE  /\ \A q \in Producers \ {t} : Builder(K, q)'
           /\ \A d \in Consumers \ {t} : Popper(K, d)'
<1>1. ASSUME NEW q \in Producers \ {t} PROVE Builder(K, q)'
  <2>1. Still(q) /\ pushed'[q] = pushed[q] /\ setup' = setup /\ Builder(L, q)
    BY Constants DEF OthersStill, Inv
  <2> QED
    BY <2>1, BuilderStays
<1>2. ASSUME NEW d \in Consumers \ {t} PROVE Popper(K, d)'
  <2>1. Still(d) /\ sawEmpty'[d] = sawEmpty[d] /\ setup' = setup /\ Popper(L, d)
    BY Constants DEF OthersStill, Inv
  <2>2. Popped \in 0 .. Linked
    BY QueueNodes
  <2> QED
    BY <2>1, <2>2, PopperStays
<1> QED
  BY <1>1, <1>2

\* The nodes of a builder, of the queue and of the pool are different nodes.
LEMMA Apart ==
    ASSUME NEW L, NEW F, NEW kind, NEW who, Inv(L, F, kind, who), NEW a, kind[a] = "thread"
    PROVE  /\ \A i \in Popped .. Linked : L[i] # a
           /\ \A j \in 1 .. Len(F) : F[j] # a
           /\ \A q \in Producers : pc[q] \in Building /\ who[a] # q => lNode[q] # a
           /\ \A d \in Consumers : pc[d] = "pfree" /\ who[a] # d => lHead[d].ptr # a
<1>1. PlacesOK(L, F, kind, who)
  BY DEF Inv
<1>2. \A i \in Popped .. Linked : L[i] # a
  BY <1>1 DEF PlacesOK
<1>3. \A j \in 1 .. Len(F) : F[j] # a
  BY <1>1 DEF PlacesOK
<1>4. \A q \in Producers : pc[q] \in Building /\ who[a] # q => lNode[q] # a
  BY <1>1 DEF PlacesOK
<1>5. \A d \in Consumers : pc[d] = "pfree" /\ who[a] # d => lHead[d].ptr # a
  BY <1>1 DEF PlacesOK
<1> QED
  BY <1>2, <1>3, <1>4, <1>5

\* Constructing the node in place changes a node that is the producer's own.
LEMMA ConstructStep ==
    ASSUME NEW L, NEW F, NEW kind, NEW who, Inv(L, F, kind, who), NEW p \in Producers, PushConstruct(p)
    PROVE  Inv(L, F, kind, who)'
<1> USE Constants
<1>1. TypeOK /\ TypeOK' /\ OthersStill(p) /\ p \in Threads /\ p \notin Consumers
  BY PushTypes, Others DEF Inv, PushStep
<1>2. /\ pc[p] = "construct" /\ pc'[p] = "tail" /\ pc[p] \in Building /\ lNode'[p] = lNode[p]
      /\ setup' = setup /\ head' = head /\ tail' = tail /\ top' = top /\ fresh' = fresh
      /\ accepted' = accepted /\ delivered' = delivered /\ pushed' = pushed
  BY <1>1 DEF PushConstruct, TypeOK, Goto, locals, history, Building
<1>3. PICK a \in Addr : a = lNode[p] /\ kind[a] = "thread" /\ who[a] = p
  <2>1. PlacesOK(L, F, kind, who)
    BY DEF Inv
  <2> QED
    BY <1>2, <2>1 DEF PlacesOK
<1>4. /\ \A b \in Addr : b # a => next'[b] = next[b] /\ value'[b] = value[b]
      /\ next'[a] = nullHandle /\ value'[a] = <<p, pushed[p]>>
  BY <1>1, <1>3 DEF PushConstruct, TypeOK
<1>5. /\ Linked' = Linked /\ Popped' = Popped /\ Shared' = Shared
      /\ Linked \in Nat /\ Popped \in 0 .. Linked /\ tail.tag \in 0 .. Linked
  BY <1>2, QueueNodes DEF Linked, Popped, Shared
<1>6. Grows(L, L)
  BY <1>2, <1>5 DEF Grows
<1>7. /\ \A i \in Popped .. Linked : L[i] # a /\ L[i] \in Addr /\ next'[L[i]] = next[L[i]]
                                     /\ value'[L[i]] = value[L[i]]
      /\ \A j \in 1 .. Len(F) : F[j] # a /\ F[j] \in Addr /\ next'[F[j]] = next[F[j]]
  <2>1. \A i \in Popped .. Linked : L[i] # a /\ L[i] \in Addr
    BY <1>3, <1>5, Apart, QueueNodes
  <2>2. \A j \in 1 .. Len(F) : F[j] # a /\ F[j] \in Addr
    BY <1>3, Apart DEF Inv, PoolOK, PoolOf
  <2> QED
    BY <1>4, <2>1, <2>2
<1>8. Suited'
  BY <1>2, <1>5 DEF Inv, Suited
<1>9. QueueOK(L)'
  <2>1. QueueOK(L)
    BY DEF Inv
  <2>2. Linked \in Popped .. Linked /\ \A i \in Popped .. Linked - 1 : i \in Popped .. Linked
    BY <1>5
  <2> QED
    BY <1>2, <1>5, <1>7, <2>1, <2>2 DEF QueueOK
<1>10. TailOK(L)'
  BY <1>1, <1>2, <1>5, TailStays
<1>11. PoolOK(F)'
  <2>1. PoolOK(F) /\ Len(F) \in Nat
    BY DEF Inv, PoolOK, PoolOf
  <2>2. F # <<>> => Len(F) \in 1 .. Len(F)
    BY <2>1 DEF PoolOK, PoolOf
  <2>3. \A j \in 1 .. Len(F) - 1 : j \in 1 .. Len(F)
    BY <2>1
  <2> QED
    BY <1>2, <1>7, <2>1, <2>2, <2>3 DEF PoolOK, PoolOf
<1>12. PlacesOK(L, F, kind, who)'
  <2>1. \A q \in Producers : pc'[q] \in Building => pc[q] \in Building /\ lNode'[q] = lNode[q]
    BY <1>1, <1>2 DEF OthersStill, Still
  <2>2. \A c \in Consumers : pc'[c] = pc[c] /\ lHead'[c] = lHead[c]
    BY <1>1 DEF OthersStill, Still
  <2> QED
    BY <1>2, <1>5, <2>1, <2>2 DEF Inv, PlacesOK
<1>13. /\ \A q \in Producers \ {p} : Builder(L, q)'
       /\ \A d \in Consumers \ {p} : Popper(L, d)'
  <2>1. \A q \in Producers \ {p} : pc[q] \in Building =>
            lNode[q] # a /\ lNode[q] \in Addr
    BY <1>3, Apart, QueueNodes
  <2> QED
    <3>1. Popped' \in Nat /\ Popped <= Popped'
      BY <1>5
    <3>2. \A q \in Producers \ {p} : pc[q] \in Building =>
              next'[lNode[q]] = next[lNode[q]] /\ value'[lNode[q]] = value[lNode[q]]
      BY <1>4, <2>1
    <3> QED
      BY ONLY <1>1, <1>2, <1>5, <1>6, <3>1, <3>2, OthersStay, Inv(L, F, kind, who), p \in Producers
<1>14. Builder(L, p)'
  BY <1>2, <1>3, <1>4, <1>5 DEF Inv, Builder, Building, Seeking
<1>15. ValuesOK(L)'
  <2>1. \A c \in Consumers : pc'[c] = pc[c]
    BY <1>1 DEF OthersStill, Still
  <2>2. Copied' = Copied
    BY <1>2, <2>1 DEF Copied
  <2>3. \A i \in Popped + 1 .. Linked : i \in Popped .. Linked
    BY <1>5
  <2> QED
    BY <1>2, <1>5, <1>7, <2>2, <2>3 DEF Inv, ValuesOK
<1> QED
  BY <1>1, <1>2, <1>5, <1>8, <1>9, <1>10, <1>11, <1>12, <1>13, <1>14, <1>15 DEF Inv

\* The CAS on _next that succeeds: the producer's node becomes the last one of the queue.
\* The node it was compared with is the last one, for no other node of the queue has a
\* null link and the node was not used again since.
LEMMA LinkStep ==
    ASSUME NEW L, NEW F, NEW kind, NEW who, Inv(L, F, kind, who), NEW p \in Producers,
           PushLink(p), LinkWins(p)
    PROVE  IInv'
<1> USE Constants
<1>1. TypeOK /\ TypeOK' /\ OthersStill(p) /\ p \in Threads /\ p \notin Consumers
  BY PushTypes, Others DEF Inv, PushStep
<1>2. PICK n, m : n = Linked /\ m = Popped
  OBVIOUS
<1>3. n \in Nat /\ m \in 0 .. n
  BY <1>2, QueueNodes
<1>4. /\ pc[p] = "link" /\ pc[p] \in Building /\ pc[p] \in Building \ {"construct"} /\ pc[p] \in Seeking
      /\ lNext[p] = nullHandle /\ Builder(L, p) /\ PlacesOK(L, F, kind, who) /\ p \in setup.threads
  BY DEF PushLink, Building, Seeking, Inv, Builder
<1>5. PICK a \in Addr : a = lNode[p] /\ kind[a] = "thread" /\ who[a] = p
  <2>1. lNode[p] \in Addr /\ kind[lNode[p]] = "thread" /\ who[lNode[p]] = p
    BY <1>4 DEF PlacesOK
  <2> QED
    BY ONLY <2>1
<1>6. /\ setup' = setup /\ head' = head /\ tail' = tail /\ top' = top /\ fresh' = fresh
      /\ value' = value /\ delivered' = delivered /\ pushed' = pushed
      /\ lNode'[p] = a /\ lTail'[p] = lTail[p] /\ pc'[p] = "swing"
      /\ next' = [next EXCEPT ![lTail[p].ptr] = Ptr(a, lTail[p].tag)]
      /\ accepted' = Append(accepted, value[a])
  BY <1>1, <1>5 DEF PushLink, LinkWins, TypeOK, Goto, locals
\* The CAS wins at the last node only.
<1>7. lTail[p].tag = n /\ lTail[p] = Ptr(L[n], n) /\ tail.tag = n /\ lTail[p].ptr = L[n]
  <2>1. PICK k : k = lTail[p].tag
    OBVIOUS
  <2>2. k \in 0 .. tail.tag /\ k \in 0 .. n /\ lTail[p] = Ptr(L[k], k) /\ (Shared => k = n)
    BY <1>2, <1>4, <2>1, QueueNodes DEF Builder
  <2>3. k \in m .. n
    <3>1. CASE Shared
      BY <1>3, <2>2, <3>1
    <3>2. CASE ~Shared
      <4>1. m = 0
        BY <1>2, <3>2 DEF Inv, QueueOK
      <4> QED
        BY <2>2, <4>1
    <3> QED
      BY <3>1, <3>2
  <2>4. k = n
    <3>1. next[L[k]] = nullHandle
      BY <1>4, <2>2, Pairs DEF LinkWins
    <3>2. k + 1 <= n => Ptr(L[k + 1], k).ptr \in Addr
      <4>1. k + 1 <= n => k + 1 \in 0 .. n
        BY <1>3, <2>2
      <4> QED
        BY <1>2, <4>1, QueueNodes, Pairs
    <3>3. nullHandle.ptr \notin Addr
      BY Pairs
    <3> QED
      BY <1>2, <2>3, <3>1, <3>2, <3>3, NextOf
  <2>5. tail.tag = n
    <3>1. tail.tag \in 0 .. n
      BY <1>2, QueueNodes
    <3> QED
      BY <1>3, <2>2, <2>4, <3>1
  <2> QED
    BY <2>1, <2>2, <2>4, <2>5, Pairs
<1> DEFINE K == [i \in 0 .. n + 1 |-> IF i = n + 1 THEN a ELSE L[i]]
           knd == [kind EXCEPT ![a] = "queue"]
<1>8. K \in [0 .. n + 1 -> Addr] /\ K[n + 1] = a /\ \A i \in 0 .. n : K[i] = L[i] /\ L[i] \in Addr
  <2>1. \A i \in 0 .. n : L[i] \in Addr /\ i \in 0 .. n + 1 /\ i # n + 1
    BY <1>2, <1>3, QueueNodes
  <2>2. \A i \in 0 .. n + 1 : i # n + 1 => i \in 0 .. n
    BY <1>3
  <2>3. n + 1 \in 0 .. n + 1
    BY <1>3
  <2> QED
    BY <2>1, <2>2, <2>3
<1>9. knd \in [Addr -> Kinds] /\ knd[a] = "queue" /\ \A b \in Addr : b # a => knd[b] = kind[b]
  BY <1>4 DEF PlacesOK, Kinds
<1> HIDE DEF K, knd
<1>10. /\ \A i \in m .. n : L[i] # a
       /\ \A j \in 1 .. Len(F) : F[j] # a /\ F[j] \in Addr /\ F[j] # L[n]
       /\ \A q \in Producers : pc[q] \in Building => lNode[q] # L[n] /\ lNode[q] \in Addr
       /\ \A q \in Producers : pc[q] \in Building /\ q # p => lNode[q] # a
  <2>1. n \in m .. n
    BY <1>3
  <2>2. kind[L[n]] = "queue"
    BY <1>2, <1>4, <2>1 DEF PlacesOK
  <2>3. \A j \in 1 .. Len(F) : kind[F[j]] = "pool" /\ F[j] \in Addr
    BY <1>4 DEF PlacesOK, Inv, PoolOK, PoolOf
  <2>4. \A q \in Producers : pc[q] \in Building => kind[lNode[q]] = "thread" /\ lNode[q] \in Addr
    BY <1>4 DEF PlacesOK
  <2> QED
    BY <1>2, <1>5, <2>2, <2>3, <2>4, Apart
<1>11. /\ Linked' = n + 1 /\ Popped' = m /\ Shared' = Shared
       /\ accepted'[n + 1] = value[a] /\ \A i \in 1 .. n : accepted'[i] = accepted[i]
  <2>1. accepted \in Seq(Values) /\ n = Len(accepted)
    BY <1>1, <1>2 DEF TypeOK, Linked
  <2>2. value[a] \in Values \cup {NoValue}
    BY <1>1 DEF TypeOK
  <2>3. Len(accepted') = n + 1 /\ accepted'[n + 1] = value[a] /\ \A i \in 1 .. n : accepted'[i] = accepted[i]
    BY <1>6, <2>1, <2>2
  <2> QED
    BY <1>2, <1>6, <2>3 DEF Linked, Popped, Shared
<1>12. next'[L[n]] = Ptr(a, n) /\ \A b \in Addr : b # L[n] => next'[b] = next[b]
  <2>1. L[n] \in Addr /\ next \in [Addr -> Handles]
    BY <1>1, <1>3, <1>8 DEF TypeOK
  <2> QED
    BY <1>6, <1>7, <2>1
<1>13. value[a] = <<p, pushed[p]>> /\ next[a] = nullHandle /\ (Shared => n + 1 = pushed[p])
  BY <1>2, <1>4, <1>5 DEF Builder
<1>14. Grows(L, K)
  <2>1. tail.tag \in 0 .. n /\ tail.tag \in 0 .. n + 1 /\ n <= n + 1 /\ n + 1 \in Nat
    BY <1>3, <1>7
  <2> QED
    BY <1>2, <1>3, <1>6, <1>7, <1>8, <1>11, <2>1 DEF Grows
<1>15. Suited'
  BY <1>6, <1>11 DEF Inv, Suited
<1>16. QueueOK(K)'
  <2>1. QueueOK(L)
    BY DEF Inv
  <2>2. m <= n + 1 /\ \A i \in 1 .. m : delivered'[i] = accepted'[i]
    <3>1. m <= n + 1 /\ \A i \in 1 .. m : i \in 1 .. n
      BY <1>3
    <3>2. \A i \in 1 .. m : delivered[i] = accepted[i]
      BY <1>2, <2>1 DEF QueueOK
    <3> QED
      BY <1>6, <1>11, <3>1, <3>2
  <2>3. head' = Ptr(K[m], m)
    BY <1>2, <1>3, <1>6, <1>8, <2>1 DEF QueueOK
  <2>4. ASSUME NEW i \in m .. n PROVE next'[K[i]] = Ptr(K[i + 1], i)
    <3>1. CASE i = n
      BY <1>3, <1>8, <1>12, <3>1
    <3>2. CASE i # n
      <4>1. i \in m .. n - 1 /\ i \in m .. n /\ i \in 0 .. n /\ i + 1 \in 0 .. n
        BY <1>3, <3>2
      <4>2. n \in m .. n
        BY <1>3
      <4>3. L[i] # L[n]
        BY <1>2, <1>4, <3>2, <4>1, <4>2 DEF PlacesOK
      <4>4. next[L[i]] = Ptr(L[i + 1], i)
        BY <1>2, <2>1, <4>1 DEF QueueOK
      <4> QED
        BY <1>8, <1>12, <4>1, <4>3, <4>4
    <3> QED
      BY <3>1, <3>2
  <2>5. next'[K[n + 1]] = nullHandle
    <3>1. n \in m .. n
      BY <1>3
    <3> QED
      BY <1>8, <1>10, <1>12, <1>13, <3>1
  <2>6. (n + 1) - 1 = n
    BY <1>3
  <2>7. Shared' \/ m = 0
    BY <1>2, <1>11, <2>1 DEF QueueOK
  <2> QED
    BY <1>8, <1>11, <2>2, <2>3, <2>4, <2>5, <2>6, <2>7 DEF QueueOK
<1>17. TailOK(K)'
  <2>1. tail = Ptr(L[n], n)
    BY <1>7 DEF Inv, TailOK
  <2>2. n \in 0 .. n + 1 /\ n = (n + 1) - 1 /\ K[n] = L[n]
    BY <1>3, <1>8
  <2>3. tail'.tag \in 0 .. Linked' /\ tail' = Ptr(K[tail'.tag], tail'.tag) /\ tail'.tag = Linked' - 1
    BY <1>6, <1>7, <1>11, <2>1, <2>2
  <2>4. pc'[p] = "swing" /\ lTail'[p].tag = Linked' - 1
    BY <1>6, <1>7, <1>11, <2>2
  <2> QED
    BY <2>3, <2>4 DEF TailOK
<1>18. PoolOK(F)'
  <2>1. PoolOK(F) /\ Len(F) \in Nat
    BY DEF Inv, PoolOK, PoolOf
  <2>2. F # <<>> => Len(F) \in 1 .. Len(F)
    BY <2>1 DEF PoolOK, PoolOf
  <2>3. \A j \in 1 .. Len(F) - 1 : j \in 1 .. Len(F)
    BY <2>1
  <2>4. \A j \in 1 .. Len(F) : next'[F[j]] = next[F[j]]
    BY <1>10, <1>12
  <2> QED
    BY <1>6, <2>1, <2>2, <2>3, <2>4 DEF PoolOK, PoolOf
<1>19. PlacesOK(K, F, knd, who)'
  <2>1. \A b \in Addr : b >= fresh' => knd[b] = "new"
    BY <1>4, <1>5, <1>6, <1>9 DEF PlacesOK
  <2>2. \A i \in m .. n + 1 : i = n + 1 \/ i \in m .. n
    BY <1>3
  <2>3. \A i \in m .. n : i \in 0 .. n
    BY <1>3
  <2>4. \A i \in m .. n + 1 : knd[K[i]] = "queue"
    <3>1. \A i \in m .. n : kind[L[i]] = "queue"
      BY <1>2, <1>4 DEF PlacesOK
    <3>2. \A i \in m .. n : knd[K[i]] = "queue"
      BY <1>8, <1>9, <1>10, <2>3, <3>1
    <3> QED
      BY <1>8, <1>9, <2>2, <3>2
  <2>5. \A i, j \in m .. n + 1 : K[i] = K[j] => i = j
    BY <1>2, <1>4, <1>8, <1>10, <2>2, <2>3 DEF PlacesOK
  <2>6. \A j \in 1 .. Len(F) : knd[F[j]] = "pool"
    <3>1. \A j \in 1 .. Len(F) : kind[F[j]] = "pool"
      BY <1>4 DEF PlacesOK
    <3> QED
      BY <1>9, <1>10, <3>1
  <2>7. \A q \in Producers : pc'[q] \in Building =>
            lNode'[q] \in Addr /\ knd[lNode'[q]] = "thread" /\ who[lNode'[q]] = q
    <3>1. ASSUME NEW q \in Producers, pc'[q] \in Building
          PROVE  q # p /\ pc[q] \in Building /\ lNode'[q] = lNode[q]
      BY <1>1, <1>6, <3>1 DEF OthersStill, Still, Building
    <3> QED
      BY <1>4, <1>9, <1>10, <3>1 DEF PlacesOK
  <2>8. \A d \in Consumers : pc'[d] = "pfree" =>
            /\ lHead'[d].tag < m /\ lHead'[d].ptr \in Addr
            /\ knd[lHead'[d].ptr] = "thread" /\ who[lHead'[d].ptr] = d
    <3>1. \A d \in Consumers : pc'[d] = pc[d] /\ lHead'[d] = lHead[d] /\ d # p
      BY <1>1 DEF OthersStill, Still
    <3>2. \A d \in Consumers : pc[d] = "pfree" =>
              /\ lHead[d].tag < m /\ lHead[d].ptr \in Addr
              /\ kind[lHead[d].ptr] = "thread" /\ who[lHead[d].ptr] = d
      <4>1. \A d \in Consumers : pc[d] = "pfree" =>
                /\ lHead[d].tag < Popped /\ lHead[d].ptr \in Addr
                /\ kind[lHead[d].ptr] = "thread" /\ who[lHead[d].ptr] = d
        BY <1>4 DEF PlacesOK
      <4> QED
        BY ONLY <1>2, <4>1
    <3>3. ASSUME NEW d \in Consumers, pc[d] = "pfree"
          PROVE  knd[lHead[d].ptr] = "thread"
      <4>1. lHead[d].ptr \in Addr /\ kind[lHead[d].ptr] = "thread" /\ who[lHead[d].ptr] = d /\ d # p
        BY ONLY d \in Consumers, <3>1, <3>2, <3>3
      <4>2. lHead[d].ptr # a
        BY ONLY <1>5, <4>1
      <4> QED
        BY ONLY <1>9, <4>1, <4>2
    <3> QED
      BY ONLY <3>1, <3>2, <3>3
  <2> QED
    BY <1>4, <1>9, <1>11, <2>1, <2>4, <2>5, <2>6, <2>7, <2>8 DEF PlacesOK
<1>20. /\ \A q \in Producers \ {p} : Builder(K, q)'
       /\ \A d \in Consumers \ {p} : Popper(K, d)'
  <2>1. Popped' \in Nat /\ Popped <= Popped' /\ Popped' = Popped
    BY <1>2, <1>3, <1>11
  <2>2. \A q \in Producers \ {p} : pc[q] \in Building =>
            next'[lNode[q]] = next[lNode[q]] /\ value'[lNode[q]] = value[lNode[q]]
    BY <1>6, <1>10, <1>12
  <2>3. \A q \in Producers \ {p} : Shared /\ q \in setup.threads => Linked' = Linked
    BY <1>4 DEF Inv, Suited
  <2>4. Popped + 1 <= Linked => accepted'[Popped + 1] = accepted[Popped + 1]
    BY <1>2, <1>3, <1>11
  <2> QED
    BY ONLY <1>1, <1>14, <2>1, <2>2, <2>3, <2>4, OthersStay, Inv(L, F, kind, who), p \in Producers
<1>21. Builder(K, p)'
  <2>1. pushed'[p] \in 0 .. setup'.pushes /\ p \in setup'.threads /\ pushed'[p] >= 1
    BY <1>4, <1>6 DEF Builder
  <2>2. n \in 0 .. (n + 1) - 1 /\ K[n] = L[n] /\ K[n + 1] = a
    BY <1>3, <1>8
  <2>3. lTail'[p].tag \in 0 .. Linked' - 1 /\ lTail'[p] = Ptr(K[lTail'[p].tag], lTail'[p].tag)
        /\ lNode'[p] = K[lTail'[p].tag + 1]
    BY <1>6, <1>7, <1>11, <2>2
  <2>4. Shared' => Linked' = pushed'[p]
    BY <1>6, <1>11, <1>13
  <2> QED
    BY <1>6, <2>1, <2>3, <2>4 DEF Builder, Building, Seeking
<1>22. ValuesOK(K)'
  <2>1. \A c \in Consumers : pc'[c] = pc[c]
    BY <1>1 DEF OthersStill, Still
  <2>2. Copied' = Copied
    BY <1>6, <2>1 DEF Copied
  <2>3. ASSUME NEW i \in m + 1 .. n
        PROVE  value'[K[i]] = IF i = m + 1 /\ Copied THEN NoValue ELSE accepted'[i]
    <3>1. i \in 0 .. n /\ i \in 1 .. n
      BY <1>3
    <3> QED
      BY <1>2, <1>6, <1>8, <1>11, <3>1 DEF Inv, ValuesOK
  <2>4. value'[K[n + 1]] = accepted'[n + 1]
    BY <1>6, <1>8, <1>11
  <2>5. Copied => n # m
    <3>1. ASSUME NEW c \in Consumers, setup.steals, pc[c] = "pcas" PROVE m + 1 <= n
      BY <1>2, <3>1 DEF Inv, Popper, After
    <3> QED
      BY <1>3, <3>1 DEF Copied
  <2>6. n + 1 = m + 1 => n = m
    BY <1>3
  <2>7. \A i \in m + 1 .. n + 1 : i \in m + 1 .. n \/ i = n + 1
    BY <1>3
  <2>8. \A i \in m + 1 .. n + 1 :
           value'[K[i]] = IF i = m + 1 /\ Copied THEN NoValue ELSE accepted'[i]
    BY <2>3, <2>4, <2>5, <2>6, <2>7
  <2> QED
    BY <1>11, <2>2, <2>8 DEF ValuesOK
<1>23. setup'.threads \cap Producers # {}
  BY <1>4, <1>6
<1>24. Inv(K, F, knd, who)'
  <2>1. \A q \in Producers : Builder(K, q)'
    BY <1>20, <1>21
  <2>2. \A c \in Consumers : Popper(K, c)'
    BY <1>1, <1>20
  <2> QED
    BY <1>1, <1>15, <1>16, <1>17, <1>18, <1>19, <1>22, <1>23, <2>1, <2>2 DEF Inv
<1> QED
  BY <1>24 DEF IInv

\* The copy out of the node behind the dummy node. It empties the node only where the
\* thread is the one consumer, whose CAS will succeed.
LEMMA ReadStep ==
    ASSUME NEW L, NEW F, NEW kind, NEW who, Inv(L, F, kind, who), NEW c \in Consumers, PopRead(c)
    PROVE  Inv(L, F, kind, who)'
<1> USE Constants
<1>1. TypeOK /\ TypeOK' /\ OthersStill(c) /\ c \in Threads /\ c \notin Producers
  BY PopTypes, Others DEF Inv, PopStep
<1>2. PICK n, m, a : n = Linked /\ m = Popped /\ a = lNext[c].ptr
  OBVIOUS
<1>3. n \in Nat /\ m \in 0 .. n /\ tail.tag \in 0 .. n
  BY <1>2, QueueNodes
<1>4. /\ pc[c] = "pread" /\ pc[c] \in Popping /\ Popper(L, c) /\ a \in Addr /\ c \in setup.threads
  BY <1>2 DEF PopRead, Popping, Inv, Popper
<1>5. /\ setup' = setup /\ head' = head /\ tail' = tail /\ top' = top /\ fresh' = fresh
      /\ next' = next /\ accepted' = accepted /\ delivered' = delivered /\ pushed' = pushed
      /\ pc'[c] = "pcas" /\ lTail'[c] = lTail[c] /\ lHead'[c] = lHead[c] /\ lNext'[c] = lNext[c]
      /\ lNode' = lNode /\ lValue'[c] = value[a]
      /\ \A b \in Addr : b # a => value'[b] = value[b]
      /\ setup.steals => value'[a] = NoValue
      /\ ~setup.steals => value'[a] = value[a]
  BY <1>1, <1>2, <1>4 DEF PopRead, AfterCopy, TypeOK, Goto, history
<1>6. Linked' = n /\ Popped' = m /\ Shared' = Shared
  BY <1>2, <1>5 DEF Linked, Popped, Shared
<1>7. Grows(L, L)
  BY <1>2, <1>3, <1>5, <1>6 DEF Grows
<1>8. lHead[c].tag = m => m + 1 <= n /\ lNext[c] = Ptr(L[m + 1], m) /\ a = L[m + 1] /\ m + 1 \in m .. n
  <2>1. lHead[c].tag = m => m + 1 <= n /\ lNext[c] = Ptr(L[m + 1], m)
    BY <1>2, <1>4 DEF Popper, After
  <2>2. m + 1 <= n => m + 1 \in m .. n
    BY <1>3
  <2> QED
    BY <1>2, <2>1, <2>2, Pairs
<1>9. setup.steals => lHead[c].tag = m
  BY <1>2, <1>4 DEF Popper
<1>10. ~Copied
  <2>1. ASSUME setup.steals, NEW d \in Consumers, pc[d] = "pcas" PROVE FALSE
    <3>1. d \in setup.threads
      BY <2>1 DEF Inv, Popper
    <3>2. d = c
      BY <1>4, <2>1, <3>1 DEF Inv, Suited
    <3> QED
      BY <1>4, <2>1, <3>2
  <2> QED
    BY <2>1 DEF Copied
<1>11. Copied' <=> setup.steals
  BY <1>5 DEF Copied
<1>12. PlacesOK(L, F, kind, who) /\ \A i, j \in m .. n : L[i] = L[j] => i = j
  BY <1>2 DEF Inv, PlacesOK
<1>13. Suited' /\ QueueOK(L)' /\ PoolOK(F)'
  BY <1>2, <1>5, <1>6 DEF Inv, Suited, QueueOK, PoolOK, PoolOf
<1>14. TailOK(L)'
  BY <1>1, <1>2, <1>5, <1>6, TailStays
<1>15. PlacesOK(L, F, kind, who)'
  <2>1. \A q \in Producers : pc'[q] = pc[q]
    BY <1>1 DEF OthersStill, Still
  <2>2. \A d \in Consumers : pc'[d] = "pfree" => pc[d] = "pfree" /\ lHead'[d] = lHead[d]
    BY <1>1, <1>5 DEF OthersStill, Still
  <2> QED
    BY <1>2, <1>5, <1>6, <1>12, <2>1, <2>2 DEF PlacesOK
<1>16. /\ \A q \in Producers \ {c} : Builder(L, q)'
       /\ \A d \in Consumers \ {c} : Popper(L, d)'
  <2>1. Popped' \in Nat /\ Popped <= Popped' /\ Popped' = Popped /\ Linked' = Linked
    BY <1>2, <1>3, <1>6
  <2>2. ASSUME NEW q \in Producers, pc[q] \in Building PROVE value'[lNode[q]] = value[lNode[q]]
    <3>1. lNode[q] \in Addr /\ kind[lNode[q]] = "thread"
      BY <1>12, <2>2 DEF PlacesOK
    <3>2. CASE setup.steals
      <4>1. kind[a] = "queue"
        BY <1>2, <1>8, <1>9, <1>12, <3>2 DEF PlacesOK
      <4> QED
        BY <1>5, <3>1, <4>1
    <3>3. CASE ~setup.steals
      BY <1>5, <3>1, <3>3
    <3> QED
      BY <3>2, <3>3
  <2> QED
    BY ONLY <1>1, <1>5, <1>7, <2>1, <2>2, OthersStay, Inv(L, F, kind, who), c \in Consumers
<1>17. Popper(L, c)'
  <2>1. lHead[c].tag = m => lValue'[c] = accepted[m + 1]
    <3>1. m + 1 <= n => m + 1 \in m + 1 .. n
      BY <1>3
    <3>2. m + 1 <= n => value[L[m + 1]] = accepted[m + 1]
      BY <1>2, <1>10, <3>1 DEF Inv, ValuesOK
    <3> QED
      BY <1>5, <1>8, <3>2
  <2> QED
    BY <1>2, <1>4, <1>5, <1>6, <1>8, <1>9, <2>1 DEF Popper, Popping, After
<1>18. ValuesOK(L)'
  <2>1. ASSUME NEW i \in m + 1 .. n
        PROVE  value'[L[i]] = IF i = m + 1 /\ Copied' THEN NoValue ELSE accepted'[i]
    <3>1. i \in m .. n /\ L[i] \in Addr
      <4>1. i \in m .. n /\ i \in 0 .. n
        BY <1>3
      <4> QED
        BY <1>2, <4>1, QueueNodes
    <3>2. value[L[i]] = accepted[i]
      BY <1>2, <1>10 DEF Inv, ValuesOK
    <3>3. CASE setup.steals
      <4>1. a = L[m + 1] /\ m + 1 \in m .. n /\ value'[a] = NoValue /\ Copied'
        BY <1>5, <1>8, <1>9, <1>11, <3>3
      <4>2. L[i] = a => i = m + 1
        BY <1>12, <3>1, <4>1
      <4>3. L[i] # a => value'[L[i]] = accepted'[i]
        BY <1>5, <3>1, <3>2
      <4> QED
        BY <4>1, <4>2, <4>3
    <3>4. CASE ~setup.steals
      BY <1>5, <1>11, <3>1, <3>2, <3>4
    <3> QED
      BY <3>3, <3>4
  <2> QED
    BY <1>6, <2>1 DEF ValuesOK
<1> QED
  BY <1>1, <1>2, <1>5, <1>6, <1>13, <1>14, <1>15, <1>16, <1>17, <1>18 DEF Inv

\* The CAS of _head that succeeds: the old dummy node becomes the popper's own, and the
\* value that was read before is the next one in order.
LEMMA CasStep ==
    ASSUME NEW L, NEW F, NEW kind, NEW who, Inv(L, F, kind, who), NEW c \in Consumers,
           PopCas(c), PopWins(c)
    PROVE  IInv'
<1> USE Constants
<1>1. TypeOK /\ TypeOK' /\ OthersStill(c) /\ c \in Threads /\ c \notin Producers
  BY PopTypes, Others DEF Inv, PopStep
<1>2. PICK n, m, a : n = Linked /\ m = Popped /\ a = L[m]
  OBVIOUS
<1>3. n \in Nat /\ m \in 0 .. n /\ tail.tag \in 0 .. n /\ n < MaxTag
  BY <1>2, QueueNodes, TagsLast
<1>4. pc[c] = "pcas" /\ pc[c] \in Popping /\ Popper(L, c) /\ c \in setup.threads
  BY DEF PopCas, Popping, Inv, Popper
<1>5. /\ head = lHead[c] /\ lHead[c].tag = m /\ lHead[c].ptr = a /\ a \in Addr
      /\ m + 1 <= n /\ lNext[c] = Ptr(L[m + 1], m) /\ lValue[c] = accepted[m + 1]
  <2>1. lHead[c].tag = m /\ lHead[c].ptr = a /\ a \in Addr /\ head = lHead[c]
    BY <1>2, <1>4, HeadIs, QueueNodes DEF PopWins
  <2> QED
    BY <1>2, <1>4, <2>1 DEF Popper, After
<1>6. m + 1 \in 0 .. n /\ m + 1 \in m .. n /\ (m + 1) % MaxTag = m + 1 /\ m \in m .. n /\ m \in Nat
  BY <1>3, <1>5
<1>7. /\ setup' = setup /\ tail' = tail /\ top' = top /\ fresh' = fresh
      /\ next' = next /\ value' = value /\ accepted' = accepted /\ pushed' = pushed
      /\ pc'[c] = "pfree" /\ lTail'[c] = lTail[c] /\ lHead'[c] = lHead[c]
      /\ lNode' = lNode
      /\ head' = Ptr(lNext[c].ptr, NextTag(lHead[c]))
      /\ delivered' = Append(delivered, lValue[c])
  BY <1>1 DEF PopCas, PopWins, TypeOK, Goto, locals
<1>8. head' = Ptr(L[m + 1], m + 1)
  <2>1. lNext[c].ptr = L[m + 1]
    BY <1>5, Pairs
  <2>2. NextTag(lHead[c]) = m + 1
    BY <1>5, <1>6 DEF NextTag
  <2> QED
    BY <1>7, <2>1, <2>2
<1>9. /\ Linked' = n /\ Popped' = m + 1 /\ Shared' = Shared
      /\ delivered'[m + 1] = accepted[m + 1] /\ \A i \in 1 .. m : delivered'[i] = delivered[i]
  <2>1. delivered \in Seq(Values \cup {NoValue}) /\ m = Len(delivered)
    BY <1>1, <1>2 DEF TypeOK, Popped
  <2>2. lValue[c] \in Values \cup {NoValue}
    BY <1>1 DEF TypeOK
  <2>3. Len(delivered') = m + 1 /\ delivered'[m + 1] = lValue[c]
        /\ \A i \in 1 .. m : delivered'[i] = delivered[i]
    BY <1>7, <2>1, <2>2
  <2> QED
    BY <1>2, <1>5, <1>7, <2>3 DEF Linked, Popped, Shared
<1>10. Grows(L, L)
  BY <1>2, <1>3, <1>7, <1>9 DEF Grows
<1>11. PlacesOK(L, F, kind, who) /\ (\A i, j \in m .. n : L[i] = L[j] => i = j) /\ kind[a] = "queue"
  BY <1>2, <1>6 DEF Inv, PlacesOK
<1>12. \A i \in m + 1 .. n : i \in m .. n /\ i \in 0 .. n /\ i # m /\ L[i] \in Addr
  <2>1. \A i \in m + 1 .. n : i \in m .. n /\ i \in 0 .. n /\ i # m
    BY <1>3
  <2> QED
    BY <1>2, <2>1, QueueNodes
<1>13. setup.steals => \A d \in Consumers : d \in setup.threads => d = c
  BY <1>4 DEF Inv, Suited
<1> DEFINE knd == [kind EXCEPT ![a] = "thread"]
           wh == [who EXCEPT ![a] = c]
<1>14. /\ knd \in [Addr -> Kinds] /\ knd[a] = "thread" /\ \A b \in Addr : b # a => knd[b] = kind[b]
       /\ wh \in [Addr -> Threads \cup {0}] /\ wh[a] = c /\ \A b \in Addr : b # a => wh[b] = who[b]
  BY <1>1, <1>5, <1>11 DEF PlacesOK, Kinds
<1> HIDE DEF knd, wh
<1>15. Suited' /\ PoolOK(F)'
  BY <1>7, <1>9 DEF Inv, Suited, PoolOK, PoolOf
<1>16. QueueOK(L)'
  <2>1. QueueOK(L)
    BY DEF Inv
  <2>2. \A i \in 1 .. m + 1 : delivered'[i] = accepted[i]
    <3>1. \A i \in 1 .. m + 1 : i \in 1 .. m \/ i = m + 1
      BY <1>3
    <3> QED
      BY <1>2, <1>9, <2>1, <3>1 DEF QueueOK
  <2>3. \A i \in m + 1 .. n - 1 : next[L[i]] = Ptr(L[i + 1], i)
    <3>1. \A i \in m + 1 .. n - 1 : i \in m .. n - 1
      BY <1>3
    <3> QED
      BY <1>2, <2>1, <3>1 DEF QueueOK
  <2>4. Shared
    BY <1>4 DEF Shared
  <2> QED
    BY <1>2, <1>5, <1>7, <1>8, <1>9, <2>1, <2>2, <2>3, <2>4 DEF QueueOK
<1>17. TailOK(L)'
  BY <1>1, <1>2, <1>7, <1>9, TailStays
<1>18. PlacesOK(L, F, knd, wh)'
  <2>1. \A b \in Addr : b >= fresh' => knd[b] = "new"
    <3>1. \A b \in Addr : b >= fresh => kind[b] = "new"
      BY <1>11 DEF PlacesOK
    <3>2. \A b \in Addr : b >= fresh => knd[b] = "new"
      BY ONLY <1>11, <1>14, <3>1
    <3> QED
      BY ONLY <1>7, <3>2
  <2>2. \A i \in m + 1 .. n : L[i] # a /\ kind[L[i]] = "queue"
    BY <1>2, <1>6, <1>11, <1>12 DEF PlacesOK
  <2>3. \A i \in m + 1 .. n : knd[L[i]] = "queue"
    BY <1>12, <1>14, <2>2
  <2>4. \A i, j \in m + 1 .. n : L[i] = L[j] => i = j
    BY <1>11, <1>12
  <2>5. \A j \in 1 .. Len(F) : knd[F[j]] = "pool"
    <3>1. \A j \in 1 .. Len(F) : kind[F[j]] = "pool" /\ F[j] \in Addr
      BY <1>11 DEF PlacesOK, Inv, PoolOK, PoolOf
    <3> QED
      BY <1>11, <1>14, <3>1
  <2>6. \A q \in Producers : pc'[q] \in Building =>
            lNode'[q] \in Addr /\ knd[lNode'[q]] = "thread" /\ wh[lNode'[q]] = q
    <3>1. \A q \in Producers : pc[q] \in Building =>
              lNode[q] \in Addr /\ kind[lNode[q]] = "thread" /\ who[lNode[q]] = q
      BY <1>11 DEF PlacesOK
    <3>2. \A q \in Producers : pc'[q] = pc[q]
      BY <1>1 DEF OthersStill, Still
    <3>3. \A q \in Producers : pc[q] \in Building => lNode[q] # a
      BY <1>11, <3>1
    <3>4. \A q \in Producers : pc[q] \in Building =>
              lNode[q] \in Addr /\ knd[lNode[q]] = "thread" /\ wh[lNode[q]] = q
      BY <1>14, <3>1, <3>3
    <3> QED
      BY <1>7, <3>2, <3>4
  <2>7. \A d \in Consumers : pc'[d] = "pfree" =>
            /\ lHead'[d].tag < m + 1 /\ lHead'[d].ptr \in Addr
            /\ knd[lHead'[d].ptr] = "thread" /\ wh[lHead'[d].ptr] = d
    <3>1. ASSUME NEW d \in Consumers, d # c, pc'[d] = "pfree"
          PROVE  /\ lHead'[d].tag < m + 1 /\ lHead'[d].ptr \in Addr
                 /\ knd[lHead'[d].ptr] = "thread" /\ wh[lHead'[d].ptr] = d
      <4>1. pc[d] = "pfree" /\ lHead'[d] = lHead[d]
        BY <1>1, <3>1 DEF OthersStill, Still
      <4>2. lHead[d].tag < m /\ lHead[d].ptr \in Addr
            /\ kind[lHead[d].ptr] = "thread" /\ who[lHead[d].ptr] = d
        BY <1>2, <1>11, <4>1 DEF PlacesOK
      <4>3. lHead[d].tag \in Nat
        BY <4>1, QueueNodes DEF Popping
      <4>4. lHead[d].tag < m + 1
        BY <1>3, <4>2, <4>3
      <4> QED
        BY <1>11, <1>14, <4>1, <4>2, <4>4
    <3>2. m < m + 1
      BY <1>3
    <3>3. /\ lHead'[c].tag < m + 1 /\ lHead'[c].ptr \in Addr
          /\ knd[lHead'[c].ptr] = "thread" /\ wh[lHead'[c].ptr] = c
      BY <1>5, <1>7, <1>14, <3>2
    <3> QED
      BY <3>1, <3>3
  <2>8. knd \in [Addr -> Kinds] /\ wh \in [Addr -> Threads \cup {0}]
    BY <1>14
  <2> QED
    BY <1>9, <1>11, <2>1, <2>3, <2>4, <2>5, <2>6, <2>7, <2>8 DEF PlacesOK
<1>19. /\ \A q \in Producers \ {c} : Builder(L, q)'
       /\ \A d \in Consumers \ {c} : Popper(L, d)'
  <2>1. Popped' \in Nat /\ Popped <= Popped' /\ Linked' = Linked
    BY <1>2, <1>3, <1>6, <1>9
  <2>2. \A d \in Consumers \ {c} : setup.steals /\ d \in setup.threads => Popped' = Popped
    BY <1>13
  <2> QED
    BY ONLY <1>1, <1>7, <1>10, <2>1, <2>2, OthersStay, Inv(L, F, kind, who), c \in Consumers
<1>20. Popper(L, c)'
  <2>1. m \in 0 .. m + 1
    BY <1>3
  <2>2. lTail'[c].tag \in 0 .. tail'.tag /\ lTail'[c] = Ptr(L[lTail'[c].tag], lTail'[c].tag)
    BY <1>4, <1>7 DEF Popper
  <2>3. lHead'[c].tag \in 0 .. Popped' /\ lHead'[c] = Ptr(L[lHead'[c].tag], lHead'[c].tag)
    BY <1>4, <1>5, <1>7, <1>9, <2>1 DEF Popper
  <2> QED
    BY <1>4, <1>7, <2>2, <2>3 DEF Popper
<1>21. ValuesOK(L)'
  <2>1. ~Copied'
    <3>1. ASSUME NEW d \in Consumers, setup.steals, pc'[d] = "pcas" PROVE FALSE
      <4>1. d # c
        BY <1>7, <3>1
      <4>2. pc[d] = "pcas"
        BY <1>1, <3>1, <4>1 DEF OthersStill, Still
      <4>3. d \in setup.threads
        BY <4>2 DEF Inv, Popper
      <4> QED
        BY <1>13, <3>1, <4>1, <4>3
    <3> QED
      BY <1>7, <3>1 DEF Copied
  <2>2. ASSUME NEW i \in (m + 1) + 1 .. n PROVE value[L[i]] = accepted[i]
    <3>1. i \in m + 1 .. n /\ i # m + 1
      BY <1>3
    <3> QED
      BY <1>2, <3>1 DEF Inv, ValuesOK
  <2> QED
    BY <1>7, <1>9, <2>1, <2>2 DEF ValuesOK
<1>22. setup'.threads \cap Producers = {} => Linked' = 0
  BY <1>2, <1>7, <1>9 DEF Inv
<1>23. Inv(L, F, knd, wh)'
  BY <1>1, <1>15, <1>16, <1>17, <1>18, <1>19, <1>20, <1>21, <1>22 DEF Inv
<1> QED
  BY <1>23 DEF IInv

\* The old dummy node becomes the pool's first node.
LEMMA FreeStep ==
    ASSUME NEW L, NEW F, NEW kind, NEW who, Inv(L, F, kind, who), NEW c \in Consumers, PopFree(c)
    PROVE  IInv'
<1> USE Constants
<1>1. TypeOK /\ TypeOK' /\ OthersStill(c) /\ c \in Threads /\ c \notin Producers
  BY PopTypes, Others DEF Inv, PopStep
<1>2. PICK n, m, a : n = Linked /\ m = Popped /\ a = lHead[c].ptr
  OBVIOUS
<1>3. n \in Nat /\ m \in 0 .. n /\ tail.tag \in 0 .. n
  BY <1>2, QueueNodes
<1>4. pc[c] = "pfree" /\ PlacesOK(L, F, kind, who) /\ PoolOK(F)
  BY DEF PopFree, Inv
<1>5. a \in Addr /\ kind[a] = "thread" /\ who[a] = c
  BY <1>2, <1>4 DEF PlacesOK
<1>6. /\ setup' = setup /\ head' = head /\ tail' = tail /\ top' = a /\ fresh' = fresh
      /\ value' = value /\ accepted' = accepted /\ delivered' = delivered /\ pushed' = pushed
      /\ pc'[c] = "idle" /\ lNode' = lNode /\ lHead' = lHead
      /\ next'[a].ptr = top /\ \A b \in Addr : b # a => next'[b] = next[b]
  <2>1. next' = [next EXCEPT ![a] = Ptr(top, 0)] /\ Ptr(top, 0).ptr = top
    BY <1>2, Pairs DEF PopFree, Retired
  <2>2. next'[a].ptr = top /\ \A b \in Addr : b # a => next'[b] = next[b]
    BY <1>1, <1>5, <2>1 DEF TypeOK
  <2> QED
    BY <1>1, <1>2, <2>2 DEF PopFree, Retired, TypeOK, Goto, locals, history
<1>7. Linked' = n /\ Popped' = m /\ Shared' = Shared
  BY <1>2, <1>6 DEF Linked, Popped, Shared
<1>8. Grows(L, L)
  BY <1>2, <1>3, <1>6, <1>7 DEF Grows
<1>9. /\ \A i \in m .. n : L[i] # a /\ L[i] \in Addr
      /\ \A j \in 1 .. Len(F) : F[j] # a /\ F[j] \in Addr
      /\ \A q \in Producers : pc[q] \in Building => lNode[q] # a /\ lNode[q] \in Addr
  <2>1. \A i \in m .. n : i \in 0 .. n
    BY <1>3
  <2>2. \A j \in 1 .. Len(F) : F[j] \in Addr
    BY <1>4 DEF PoolOK, PoolOf
  <2>3. who[a] \notin Producers
    BY <1>1, <1>5
  <2> QED
    BY <1>2, <1>5, <2>1, <2>2, <2>3, Apart, QueueNodes
\* The pool with the node on its top.
<1> DEFINE G == <<a>> \o F
           knd == [kind EXCEPT ![a] = "pool"]
<1>10. PICK g : g = Len(F) /\ g \in Nat
  BY <1>4 DEF PoolOK, PoolOf
<1>11. /\ G \in Seq(Addr) /\ Len(G) = g + 1 /\ G # <<>> /\ G[1] = a
       /\ \A j \in 1 .. g : G[j + 1] = F[j]
  BY <1>4, <1>5, <1>10 DEF PoolOK, PoolOf
<1>12. \A j \in 1 .. g + 1 : j = 1 \/ (j - 1 \in 1 .. g /\ G[j] = F[j - 1])
  <2>1. ASSUME NEW j \in 1 .. g + 1, j # 1 PROVE j - 1 \in 1 .. g /\ G[j] = F[j - 1]
    <3>1. j - 1 \in 1 .. g /\ (j - 1) + 1 = j
      BY <1>10, <2>1
    <3> QED
      BY <1>11, <3>1
  <2> QED
    BY <2>1
<1>13. knd \in [Addr -> Kinds] /\ knd[a] = "pool" /\ \A b \in Addr : b # a => knd[b] = kind[b]
  BY <1>4, <1>5 DEF PlacesOK, Kinds
<1> HIDE DEF G, knd
<1>14. Suited'
  BY <1>6, <1>7 DEF Inv, Suited
<1>15. QueueOK(L)'
  <2>1. QueueOK(L)
    BY DEF Inv
  <2>2. n \in m .. n /\ \A i \in m .. n - 1 : i \in m .. n
    BY <1>3
  <2>3. \A i \in m .. n : next'[L[i]] = next[L[i]]
    BY <1>6, <1>9
  <2> QED
    BY <1>2, <1>6, <1>7, <2>1, <2>2, <2>3 DEF QueueOK
<1>16. TailOK(L)'
  BY <1>1, <1>2, <1>6, <1>7, TailStays
<1>17. PoolOK(G)'
  <2>1. next'[a].ptr = IF F = <<>> THEN 0 ELSE F[1]
    BY <1>4, <1>6 DEF PoolOK, PoolOf
  <2>2. F = <<>> <=> g = 0
    BY <1>4, <1>10 DEF PoolOK, PoolOf
  <2>5. \A j \in 1 .. g : next'[F[j]] = next[F[j]]
    BY <1>6, <1>9, <1>10
  <2>3. ASSUME NEW j \in 1 .. (g + 1) - 1 PROVE next'[G[j]].ptr = G[j + 1]
    <3>1. j \in 1 .. g /\ g # 0 /\ 1 \in 1 .. g /\ j \in 1 .. g + 1
      BY <1>10
    <3>2. CASE j = 1
      BY <1>11, <2>1, <2>2, <3>1, <3>2
    <3>3. CASE j # 1
      <4>1. PICK i : i = j - 1
        OBVIOUS
      <4>2. i \in 1 .. g - 1 /\ i \in 1 .. g /\ i + 1 = j
        BY <1>10, <3>1, <3>3, <4>1
      <4>3. next[F[i]].ptr = F[i + 1]
        BY <1>4, <1>10, <4>2 DEF PoolOK, PoolOf
      <4>4. G[j] = F[i] /\ G[j + 1] = F[j]
        BY <1>11, <3>1, <4>2
      <4> QED
        BY <2>5, <4>2, <4>3, <4>4
    <3> QED
      BY <3>2, <3>3
  <2>4. next'[G[g + 1]].ptr = 0
    <3>1. CASE g = 0
      BY <1>11, <2>1, <2>2, <3>1
    <3>2. CASE g # 0
      <4>1. g \in 1 .. g
        BY <1>10, <3>2
      <4>2. next[F[g]].ptr = 0
        BY <1>4, <1>10, <2>2, <3>2 DEF PoolOK, PoolOf
      <4> QED
        BY <1>11, <2>5, <4>1, <4>2
    <3> QED
      BY <3>1, <3>2
  <2>6. top' = G[1] /\ G # <<>> /\ G \in Seq(Addr)
    BY <1>6, <1>11
  <2>7. \A j \in 1 .. Len(G) - 1 : next'[G[j]].ptr = G[j + 1]
    BY <1>11, <2>3
  <2>8. next'[G[Len(G)]].ptr = 0
    BY <1>11, <2>4
  <2> QED
    BY <2>6, <2>7, <2>8 DEF PoolOK, PoolOf
<1>18. PlacesOK(L, G, knd, who)'
  <2>1. \A b \in Addr : b >= fresh' => knd[b] = "new"
    <3>1. \A b \in Addr : b >= fresh => kind[b] = "new"
      BY <1>4 DEF PlacesOK
    <3> QED
      BY <1>5, <1>6, <1>13, <3>1
  <2>2. \A i \in m .. n : knd[L[i]] = "queue"
    <3>1. \A i \in m .. n : kind[L[i]] = "queue"
      BY <1>2, <1>4 DEF PlacesOK
    <3> QED
      BY <1>9, <1>13, <3>1
  <2>3. \A j \in 1 .. g : kind[F[j]] = "pool" /\ F[j] # a /\ F[j] \in Addr
    <3>1. \A j \in 1 .. Len(F) : kind[F[j]] = "pool"
      BY <1>4 DEF PlacesOK
    <3> QED
      BY <1>9, <1>10, <3>1
  <2>4. \A j \in 1 .. g + 1 : knd[G[j]] = "pool"
    <3>1. ASSUME NEW j \in 1 .. g + 1, j - 1 \in 1 .. g, G[j] = F[j - 1] PROVE knd[G[j]] = "pool"
      <4>1. PICK i \in 1 .. g : i = j - 1
        BY <3>1
      <4> QED
        BY <1>13, <2>3, <3>1, <4>1
    <3> QED
      BY <1>11, <1>12, <1>13, <3>1
  <2>5. ASSUME NEW i \in 1 .. g + 1, NEW j \in 1 .. g + 1, G[i] = G[j] PROVE i = j
    <3>1. CASE i = 1 \/ j = 1
      BY <1>11, <1>12, <2>3, <2>5, <3>1
    <3>2. CASE i # 1 /\ j # 1
      <4>1. PICK k, l : k = i - 1 /\ l = j - 1
        OBVIOUS
      <4>2. k \in 1 .. g /\ l \in 1 .. g /\ F[k] = F[l]
        BY <1>12, <2>5, <3>2, <4>1
      <4>3. k = l
        BY <1>4, <1>10, <4>2 DEF PlacesOK
      <4> QED
        BY <4>1, <4>3
    <3> QED
      BY <3>1, <3>2
  <2>6. \A q \in Producers : pc'[q] \in Building =>
            lNode'[q] \in Addr /\ knd[lNode'[q]] = "thread" /\ who[lNode'[q]] = q
    <3>1. \A q \in Producers : pc[q] \in Building =>
              lNode[q] \in Addr /\ kind[lNode[q]] = "thread" /\ who[lNode[q]] = q
      BY <1>4 DEF PlacesOK
    <3>2. \A q \in Producers : pc'[q] = pc[q]
      BY <1>1 DEF OthersStill, Still
    <3> QED
      BY <1>6, <1>9, <1>13, <3>1, <3>2
  <2>7. \A d \in Consumers : pc'[d] = "pfree" =>
            /\ lHead'[d].tag < m /\ lHead'[d].ptr \in Addr
            /\ knd[lHead'[d].ptr] = "thread" /\ who[lHead'[d].ptr] = d
    <3>1. \A d \in Consumers : pc[d] = "pfree" =>
              /\ lHead[d].tag < m /\ lHead[d].ptr \in Addr
              /\ kind[lHead[d].ptr] = "thread" /\ who[lHead[d].ptr] = d
      BY <1>2, <1>4 DEF PlacesOK
    <3>2. \A d \in Consumers : pc'[d] = "pfree" => pc[d] = "pfree" /\ d # c
      BY <1>1, <1>6 DEF OthersStill, Still
    <3>3. \A d \in Consumers : pc'[d] = "pfree" => lHead[d].ptr # a
      BY <1>5, <3>1, <3>2
    <3>4. \A d \in Consumers : pc'[d] = "pfree" =>
              /\ pc[d] = "pfree" /\ lHead'[d] = lHead[d] /\ lHead[d].ptr \in Addr \ {a}
              /\ kind[lHead[d].ptr] = "thread" /\ lHead[d].tag < m /\ who[lHead[d].ptr] = d
      BY <1>6, <3>1, <3>2, <3>3
    <3>5. \A b \in Addr \ {a} : knd[b] = kind[b]
      BY ONLY <1>13
    <3> QED
      BY ONLY <3>4, <3>5
  <2>8. who \in [Addr -> Threads \cup {0}]
    BY <1>4 DEF PlacesOK
  <2> QED
    BY <1>2, <1>4, <1>7, <1>11, <1>13, <2>1, <2>2, <2>4, <2>5, <2>6, <2>7, <2>8 DEF PlacesOK
<1>19. /\ \A q \in Producers \ {c} : Builder(L, q)'
       /\ \A d \in Consumers \ {c} : Popper(L, d)'
  <2>1. Popped' \in Nat /\ Popped <= Popped' /\ Popped' = Popped /\ Linked' = Linked
    BY <1>2, <1>3, <1>7
  <2>2. \A q \in Producers : pc[q] \in Building => next'[lNode[q]] = next[lNode[q]]
    BY <1>6, <1>9
  <2> QED
    BY ONLY <1>1, <1>6, <1>8, <2>1, <2>2, OthersStay, Inv(L, F, kind, who), c \in Consumers
<1>20. Popper(L, c)'
  BY <1>6 DEF Popper, Popping
<1>21. ValuesOK(L)'
  <2>1. \A d \in Consumers : pc'[d] = "pcas" <=> pc[d] = "pcas"
    BY <1>1, <1>4, <1>6 DEF OthersStill, Still
  <2>2. Copied' = Copied
    BY <1>6, <2>1 DEF Copied
  <2> QED
    BY <1>2, <1>6, <1>7, <2>2 DEF Inv, ValuesOK
<1>22. setup'.threads \cap Producers = {} => Linked' = 0
  BY <1>2, <1>6, <1>7 DEF Inv
<1>23. Inv(L, G, knd, who)'
  BY <1>1, <1>14, <1>15, <1>16, <1>17, <1>18, <1>19, <1>20, <1>21, <1>22 DEF Inv
<1> QED
  BY <1>23 DEF IInv

\* The node comes from the pool, or it is new.
LEMMA AllocNode ==
    ASSUME NEW L, NEW F, NEW kind, NEW who, Inv(L, F, kind, who), NEW p \in Producers, PushAlloc(p)
    PROVE  \E a, G :
              /\ a \in Addr /\ lNode'[p] = a /\ kind[a] \in {"new", "pool"} /\ PoolOf(G, top', next')
              /\ \A b \in Addr : b >= fresh' => b >= fresh /\ b # a
              /\ \A j \in 1 .. Len(G) : kind[G[j]] = "pool" /\ G[j] \in Addr /\ G[j] # a
              /\ \A i, j \in 1 .. Len(G) : G[i] = G[j] => i = j
<1> USE Constants
<1>1. TypeOK /\ PoolOK(F) /\ PlacesOK(L, F, kind, who) /\ p \in Threads
  BY DEF Inv
<1>2. next' = next
  BY DEF PushAlloc
<1>3. /\ \A j \in 1 .. Len(F) : kind[F[j]] = "pool" /\ F[j] \in Addr
      /\ \A i, j \in 1 .. Len(F) : F[i] = F[j] => i = j
  BY <1>1 DEF PoolOK, PoolOf, PlacesOK
<1>4. PICK g : g = Len(F) /\ g \in Nat
  BY <1>1 DEF PoolOK, PoolOf
<1>5. F # <<>> => g # 0 /\ 1 \in 1 .. g
  BY <1>1, <1>4 DEF PoolOK, PoolOf
<1>6. CASE top # 0 /\ lNode' = [lNode EXCEPT ![p] = top] /\ top' = next[top].ptr /\ fresh' = fresh
  <2>1. F # <<>> /\ top = F[1]
    BY <1>1, <1>6 DEF PoolOK, PoolOf
  <2>2. PICK a : a = top
    OBVIOUS
  <2>3. a \in Addr /\ kind[a] = "pool" /\ lNode'[p] = a /\ a = F[1]
    BY <1>1, <1>3, <1>4, <1>5, <1>6, <2>1, <2>2 DEF TypeOK
  <2>4. PICK G : G = Tail(F)
    OBVIOUS
  <2>5. G \in Seq(Addr) /\ Len(G) = g - 1 /\ (\A j \in 1 .. g - 1 : G[j] = F[j + 1]) /\ (G = <<>> <=> g = 1)
    <3>1. F \in Seq(Addr) /\ F # <<>>
      BY <1>1, <2>1 DEF PoolOK, PoolOf
    <3>2. G \in Seq(Addr) /\ Len(G) = Len(F) - 1
      BY <2>4, <3>1
    <3>3. \A j \in 1 .. Len(F) - 1 : G[j] = F[j + 1]
      BY <2>4, <3>1
    <3>4. G = <<>> <=> Len(G) = 0
      BY ONLY <3>2
    <3>5. g - 1 = 0 <=> g = 1
      BY <1>4
    <3> QED
      BY <1>4, <3>2, <3>3, <3>4, <3>5
  <2>6. \A j \in 1 .. g - 1 : j + 1 \in 1 .. g /\ j + 1 # 1 /\ j \in 1 .. g
    BY <1>4
  <2>7. /\ \A j \in 1 .. g - 1 : kind[G[j]] = "pool" /\ G[j] \in Addr /\ G[j] # a
        /\ \A i, j \in 1 .. g - 1 : G[i] = G[j] => i = j
    <3>1. ASSUME NEW j \in 1 .. g - 1 PROVE kind[G[j]] = "pool" /\ G[j] \in Addr /\ G[j] # a
      <4>1. PICK k \in 1 .. g : k = j + 1 /\ k # 1
        BY <2>6
      <4>2. G[j] = F[k]
        BY <2>5, <4>1
      <4>3. F[k] # F[1] /\ kind[F[k]] = "pool" /\ F[k] \in Addr
        BY <1>3, <1>4, <1>5, <2>1, <4>1
      <4> QED
        BY <2>3, <4>2, <4>3
    <3>2. ASSUME NEW i \in 1 .. g - 1, NEW j \in 1 .. g - 1, G[i] = G[j] PROVE i = j
      <4>1. PICK k \in 1 .. g, l \in 1 .. g : k = i + 1 /\ l = j + 1
        BY <2>6
      <4>2. F[k] = F[l]
        BY <2>5, <3>2, <4>1
      <4>3. k = l
        BY <1>3, <1>4, <4>2
      <4> QED
        BY <4>1, <4>3
    <3> QED
      BY <3>1, <3>2
  <2>8. PoolOf(G, top', next')
    <3>1. top' = IF G = <<>> THEN 0 ELSE G[1]
      <4>1. CASE g = 1
        <5>1. next[F[1]].ptr = 0
          BY <1>1, <1>4, <2>1, <4>1 DEF PoolOK, PoolOf
        <5> QED
          BY <1>6, <2>1, <2>5, <4>1, <5>1
      <4>2. CASE g # 1
        <5>1. 1 \in 1 .. g - 1
          BY <1>4, <1>5, <2>1, <4>2
        <5>2. next[F[1]].ptr = F[1 + 1] /\ G[1] = F[1 + 1]
          BY <1>1, <1>4, <2>5, <5>1 DEF PoolOK, PoolOf
        <5> QED
          BY <1>6, <2>1, <2>5, <4>2, <5>2
      <4> QED
        BY <4>1, <4>2
    <3>2. \A j \in 1 .. Len(G) - 1 : next'[G[j]].ptr = G[j + 1]
      <4>1. ASSUME NEW j \in 1 .. (g - 1) - 1 PROVE next'[G[j]].ptr = G[j + 1]
        <5>1. j \in 1 .. g - 1 /\ j + 1 \in 1 .. g - 1
          BY <1>4
        <5>2. G[j] = F[j + 1] /\ G[j + 1] = F[(j + 1) + 1]
          BY <2>5, <5>1
        <5>3. next[F[j + 1]].ptr = F[(j + 1) + 1]
          BY <1>1, <1>4, <5>1 DEF PoolOK, PoolOf
        <5> QED
          BY <1>2, <5>2, <5>3
      <4> QED
        BY <2>5, <4>1
    <3>3. G # <<>> => next'[G[Len(G)]].ptr = 0
      <4>1. ASSUME G # <<>> PROVE g - 1 \in 1 .. g - 1 /\ (g - 1) + 1 = g
        BY <1>4, <1>5, <2>1, <2>5, <4>1
      <4>2. ASSUME G # <<>> PROVE G[Len(G)] = F[g]
        BY <2>5, <4>1, <4>2
      <4>3. next[F[g]].ptr = 0
        BY <1>1, <1>4, <2>1 DEF PoolOK, PoolOf
      <4> QED
        BY <1>2, <4>2, <4>3
    <3> QED
      BY <2>5, <3>1, <3>2, <3>3 DEF PoolOK, PoolOf
  <2>9. \A b \in Addr : b >= fresh' => b >= fresh /\ b # a
    BY <1>1, <1>6, <2>3 DEF PlacesOK
  <2>10. /\ \A j \in 1 .. Len(G) : kind[G[j]] = "pool" /\ G[j] \in Addr /\ G[j] # a
         /\ \A i, j \in 1 .. Len(G) : G[i] = G[j] => i = j
    BY <2>5, <2>7
  <2> QED
    BY <2>3, <2>8, <2>9, <2>10
<1>7. CASE /\ top = 0 /\ fresh <= Nodes /\ lNode' = [lNode EXCEPT ![p] = fresh]
           /\ fresh' = fresh + 1 /\ top' = top
  <2>1. fresh \in 2 .. Nodes + 1
    BY <1>1 DEF TypeOK
  <2>2. fresh \in Addr /\ fresh >= fresh
    BY <1>7, <2>1 DEF Addr
  <2>3. lNode'[p] = fresh /\ kind[fresh] = "new"
    BY <1>1, <1>7, <2>2 DEF TypeOK, PlacesOK
  <2>4. PoolOf(F, top', next')
    BY <1>1, <1>2, <1>7 DEF PoolOK, PoolOf
  <2>5. \A b \in Addr : b >= fresh' => b >= fresh /\ b # fresh
    BY <1>7, <2>1 DEF Addr
  <2>6. \A j \in 1 .. Len(F) : F[j] # fresh
    BY <1>3, <2>3
  <2> QED
    BY <1>3, <2>2, <2>3, <2>4, <2>5, <2>6
<1> QED
  BY <1>6, <1>7 DEF PushAlloc

\* A node of the pool or a new one becomes the producer's own.
LEMMA AllocStep ==
    ASSUME NEW L, NEW F, NEW kind, NEW who, Inv(L, F, kind, who), NEW p \in Producers, PushAlloc(p)
    PROVE  IInv'
<1> USE Constants
<1>1. TypeOK /\ TypeOK' /\ OthersStill(p) /\ p \in Threads /\ p \notin Consumers
  BY PushTypes, Others DEF Inv
<1>2. PICK n, m : n = Linked /\ m = Popped
  OBVIOUS
<1>3. n \in Nat /\ m \in 0 .. n /\ tail.tag \in 0 .. n
  BY <1>2, QueueNodes
<1>4. PlacesOK(L, F, kind, who) /\ Builder(L, p)
  BY DEF Inv
<1>5. /\ pc[p] = "idle" /\ p \in setup.threads /\ pushed[p] < setup.pushes
      /\ setup' = setup /\ head' = head /\ tail' = tail /\ next' = next /\ value' = value
      /\ accepted' = accepted /\ delivered' = delivered /\ lHead' = lHead
      /\ pc'[p] = "construct" /\ pushed'[p] = pushed[p] + 1
  BY <1>1 DEF PushAlloc, TypeOK, Goto, history
<1>6. PICK a, G :
         /\ a \in Addr /\ lNode'[p] = a /\ kind[a] \in {"new", "pool"} /\ PoolOf(G, top', next')
         /\ \A b \in Addr : b >= fresh' => b >= fresh /\ b # a
         /\ \A j \in 1 .. Len(G) : kind[G[j]] = "pool" /\ G[j] \in Addr /\ G[j] # a
         /\ \A i, j \in 1 .. Len(G) : G[i] = G[j] => i = j
  BY ONLY Inv(L, F, kind, who), p \in Producers, PushAlloc(p), AllocNode
<1>7. Linked' = n /\ Popped' = m /\ Shared' = Shared
  BY <1>2, <1>5 DEF Linked, Popped, Shared
<1>8. Grows(L, L)
  BY <1>2, <1>3, <1>5, <1>7 DEF Grows
<1> DEFINE knd == [kind EXCEPT ![a] = "thread"]
           wh == [who EXCEPT ![a] = p]
<1>9. /\ knd \in [Addr -> Kinds] /\ knd[a] = "thread" /\ \A b \in Addr : b # a => knd[b] = kind[b]
      /\ wh \in [Addr -> Threads \cup {0}] /\ wh[a] = p /\ \A b \in Addr : b # a => wh[b] = who[b]
  BY <1>1, <1>4, <1>6 DEF PlacesOK, Kinds
<1> HIDE DEF knd, wh
<1>10. Suited' /\ QueueOK(L)'
  BY <1>2, <1>5, <1>7 DEF Inv, Suited, QueueOK
<1>11. TailOK(L)'
  BY <1>1, <1>2, <1>5, <1>7, TailStays
<1>12. PlacesOK(L, G, knd, wh)'
  <2>1. \A b \in Addr : b >= fresh' => knd[b] = "new"
    <3>1. \A b \in Addr : b >= fresh => kind[b] = "new"
      BY <1>4 DEF PlacesOK
    <3> QED
      BY <1>6, <1>9, <3>1
  <2>2. (\A i \in m .. n : knd[L[i]] = "queue") /\ (\A i, j \in m .. n : L[i] = L[j] => i = j)
    <3>1. \A i \in m .. n : kind[L[i]] = "queue" /\ L[i] \in Addr
      <4>1. \A i \in m .. n : i \in 0 .. n
        BY <1>3
      <4> QED
        BY <1>2, <1>4, <4>1, QueueNodes DEF PlacesOK
    <3>2. \A i \in m .. n : L[i] # a
      BY <1>6, <3>1
    <3>3. \A i, j \in m .. n : L[i] = L[j] => i = j
      BY <1>2, <1>4 DEF PlacesOK
    <3> QED
      BY <1>9, <3>1, <3>2, <3>3
  <2>3. \A j \in 1 .. Len(G) : knd[G[j]] = "pool"
    <3>1. \A j \in 1 .. Len(G) : kind[G[j]] = "pool" /\ G[j] \in Addr /\ G[j] # a
      BY <1>6
    <3> QED
      BY <1>9, <3>1
  <2>4. ASSUME NEW q \in Producers, pc'[q] \in Building
        PROVE  lNode'[q] \in Addr /\ knd[lNode'[q]] = "thread" /\ wh[lNode'[q]] = q
    <3>1. CASE q = p
      BY <1>6, <1>9, <3>1
    <3>2. CASE q # p
      <4>1. pc[q] \in Building /\ lNode'[q] = lNode[q]
        BY <1>1, <2>4, <3>2 DEF OthersStill, Still
      <4>2. lNode[q] \in Addr /\ kind[lNode[q]] = "thread" /\ who[lNode[q]] = q
        BY <1>4, <4>1 DEF PlacesOK
      <4>3. lNode[q] # a
        BY <1>6, <4>2
      <4> QED
        BY <1>9, <4>1, <4>2, <4>3
    <3> QED
      BY <3>1, <3>2
  <2>5. ASSUME NEW d \in Consumers, pc'[d] = "pfree"
        PROVE  /\ lHead'[d].tag < m /\ lHead'[d].ptr \in Addr
               /\ knd[lHead'[d].ptr] = "thread" /\ wh[lHead'[d].ptr] = d
    <3>1. pc[d] = "pfree"
      BY <1>1, <2>5 DEF OthersStill, Still
    <3>2. /\ lHead[d].tag < m /\ lHead[d].ptr \in Addr
          /\ kind[lHead[d].ptr] = "thread" /\ who[lHead[d].ptr] = d
      BY <1>2, <1>4, <3>1 DEF PlacesOK
    <3>3. lHead[d].ptr # a
      BY <1>6, <3>2
    <3> QED
      BY <1>5, <1>9, <3>2, <3>3
  <2> QED
    BY <1>6, <1>7, <1>9, <2>1, <2>2, <2>3, <2>4, <2>5 DEF PlacesOK
<1>13. /\ \A q \in Producers \ {p} : Builder(L, q)'
       /\ \A d \in Consumers \ {p} : Popper(L, d)'
  <2>1. Popped' \in Nat /\ Popped <= Popped' /\ Popped' = Popped /\ Linked' = Linked
    BY <1>2, <1>3, <1>7
  <2> QED
    BY ONLY <1>1, <1>5, <1>8, <2>1, OthersStay, Inv(L, F, kind, who), p \in Producers
<1>14. Builder(L, p)'
  <2>1. setup.pushes \in Nat /\ pushed[p] \in Nat
    BY <1>1, SetupsAssumption DEF TypeOK
  <2>2. pushed[p] + 1 \in 0 .. setup.pushes /\ pushed[p] + 1 >= 1
    BY <1>5, <2>1
  <2>3. Shared => Linked = pushed[p]
    BY <1>4, <1>5 DEF Builder, Building
  <2> QED
    BY <1>2, <1>5, <1>7, <2>2, <2>3 DEF Builder, Building, Seeking
<1>15. ValuesOK(L)'
  <2>1. \A d \in Consumers : pc'[d] = pc[d]
    BY <1>1 DEF OthersStill, Still
  <2>2. Copied' = Copied
    BY <1>5, <2>1 DEF Copied
  <2> QED
    BY <1>2, <1>5, <1>7, <2>2 DEF Inv, ValuesOK
<1>16. setup'.threads \cap Producers # {}
  BY <1>5
<1>17. Inv(L, G, knd, wh)'
  <2>1. \A q \in Producers : Builder(L, q)'
    BY <1>13, <1>14
  <2>2. \A d \in Consumers : Popper(L, d)'
    BY <1>1, <1>13
  <2> QED
    BY <1>1, <1>6, <1>10, <1>11, <1>12, <1>15, <1>16, <2>1, <2>2 DEF Inv, PoolOK
<1> QED
  BY <1>17 DEF IInv

-----------------------------------------------------------------------------
(* The invariant holds.                                                     *)

\* Every step keeps the invariant.
LEMMA NextInv == ASSUME IInv, [Next]_vars PROVE IInv'
<1>1. PICK L, F, kind, who : Inv(L, F, kind, who)
  BY DEF IInv
<1>2. ASSUME NEW p \in Producers, PushAlloc(p) \/ PushStep(p) PROVE IInv'
  <2>1. ASSUME Inv(L, F, kind, who)' PROVE IInv'
    BY <2>1 DEF IInv
  <2>2. CASE PushAlloc(p)
    BY <1>1, <2>2, AllocStep
  <2>3. CASE PushConstruct(p)
    BY <1>1, <2>1, <2>3, ConstructStep
  <2>4. CASE PushLink(p)
    BY <1>1, <2>1, <2>4, LinkStep, PushQuiet
  <2>5. CASE \/ PushLoadTail(p) \/ PushLoadNext(p) \/ PushCheck(p)
             \/ PushHelp(p) \/ PushSwing(p) \/ PushSize(p)
    BY <1>1, <2>1, <2>5, PushQuiet
  <2> QED
    BY <1>2, <2>2, <2>3, <2>4, <2>5 DEF PushStep
<1>3. ASSUME NEW c \in Consumers, PopStep(c) PROVE IInv'
  <2>1. ASSUME Inv(L, F, kind, who)' PROVE IInv'
    BY <2>1 DEF IInv
  <2>2. CASE PopRead(c)
    BY <1>1, <2>1, <2>2, ReadStep
  <2>3. CASE PopCas(c)
    BY <1>1, <2>1, <2>3, CasStep, PopQuiet
  <2>4. CASE PopFree(c)
    BY <1>1, <2>4, FreeStep
  <2>5. CASE \/ PopLoadTail(c) \/ PopLoadHead(c) \/ PopLoadNext(c) \/ PopCheck(c)
             \/ PopEmpty(c) \/ PopHelp(c)
    BY <1>1, <2>1, <2>5, PopQuiet
  <2> QED
    BY <1>3, <2>2, <2>3, <2>4, <2>5 DEF PopStep
<1>4. ASSUME UNCHANGED vars PROVE IInv'
  <2>1. /\ setup' = setup /\ head' = head /\ tail' = tail /\ next' = next /\ value' = value
        /\ top' = top /\ fresh' = fresh /\ size' = size /\ pc' = pc
        /\ lTail' = lTail /\ lHead' = lHead /\ lNext' = lNext /\ lNode' = lNode /\ lValue' = lValue
        /\ pushed' = pushed /\ accepted' = accepted /\ delivered' = delivered /\ sawEmpty' = sawEmpty
    BY <1>4 DEF vars, mem, locals, history
  <2>2. Linked' = Linked /\ Popped' = Popped /\ Shared' = Shared /\ Copied' = Copied
    BY <2>1 DEF Linked, Popped, Shared, Copied
  <2>3. TypeOK' /\ Suited' /\ QueueOK(L)' /\ TailOK(L)' /\ PoolOK(F)' /\ PlacesOK(L, F, kind, who)'
    BY <1>1, <2>1, <2>2 DEF Inv, TypeOK, Suited, QueueOK, TailOK, PoolOK, PlacesOK
  <2>4. ASSUME NEW p \in Producers PROVE Builder(L, p)'
    BY <1>1, <2>1, <2>2 DEF Inv, Builder, After
  <2>5. ASSUME NEW c \in Consumers PROVE Popper(L, c)'
    BY <1>1, <2>1, <2>2 DEF Inv, Popper, After
  <2>6. ValuesOK(L)' /\ (setup'.threads \cap Producers = {} => Linked' = 0)
    BY <1>1, <2>1, <2>2 DEF Inv, ValuesOK
  <2>7. Inv(L, F, kind, who)'
    BY <2>3, <2>4, <2>5, <2>6 DEF Inv
  <2> QED
    BY <2>7 DEF IInv
<1> QED
  BY <1>2, <1>3, <1>4 DEF Next

-----------------------------------------------------------------------------
(* The counter lags: a linked node is counted late, a popped one leaves late. *)

\* How the size of a finite set changes when one element enters or leaves.
LEMMA CardOne ==
    ASSUME NEW A, NEW B, IsFiniteSet(A), NEW x, \A y : y # x => (y \in A <=> y \in B)
    PROVE  /\ IsFiniteSet(B)
           /\ Cardinality(A) \in Nat /\ Cardinality(B) \in Nat
           /\ (x \in A <=> x \in B) => Cardinality(B) = Cardinality(A)
           /\ x \in A /\ x \notin B => Cardinality(A) = Cardinality(B) + 1
           /\ x \notin A /\ x \in B => Cardinality(B) = Cardinality(A) + 1
<1>1. CASE x \in A <=> x \in B
  <2>1. A = B
    BY <1>1
  <2> QED
    BY <1>1, <2>1, FS_CardinalityType
<1>2. CASE x \in A /\ x \notin B
  <2>1. B = A \ {x}
    BY <1>2
  <2>2. IsFiniteSet(B) /\ Cardinality(B) = Cardinality(A) - 1
    BY <1>2, <2>1, FS_RemoveElement
  <2>3. Cardinality(A) \in Nat /\ Cardinality(B) \in Nat
    BY <2>2, FS_CardinalityType
  <2> QED
    BY <1>2, <2>2, <2>3
<1>3. CASE x \notin A /\ x \in B
  <2>1. B = A \cup {x}
    BY <1>3
  <2>2. IsFiniteSet(B) /\ Cardinality(B) = Cardinality(A) + 1
    BY <1>3, <2>1, FS_AddElement
  <2>3. Cardinality(A) \in Nat /\ Cardinality(B) \in Nat
    BY <2>2, FS_CardinalityType
  <2> QED
    BY <1>3, <2>2, <2>3
<1> QED
  BY <1>1, <1>2, <1>3

\* The threads that have linked and not counted, or popped and not counted, are finitely many.
LEMMA Finite == IsFiniteSet(Uncounted) /\ IsFiniteSet(Counted)
                /\ Cardinality(Uncounted) \in Nat /\ Cardinality(Counted) \in Nat
<1>1. Uncounted \subseteq Producers /\ Counted \subseteq Consumers
  BY DEF Uncounted, Counted
<1>2. IsFiniteSet(Uncounted) /\ IsFiniteSet(Counted)
  BY <1>1, Constants, FS_Subset
<1> QED
  BY <1>2, FS_CardinalityType

\* The empty queue is counted right.
LEMMA InitSize == Init => SizeOK
<1> SUFFICES ASSUME Init PROVE SizeOK
  OBVIOUS
<1>1. Uncounted = {} /\ Counted = {}
  BY Constants DEF Init, Uncounted, Counted
<1>2. Cardinality(Uncounted) = 0 /\ Cardinality(Counted) = 0
  BY <1>1, FS_EmptySet
<1>3. Linked = 0 /\ Popped = 0 /\ size = 0
  BY DEF Init, Linked, Popped
<1> QED
  BY <1>2, <1>3 DEF SizeOK

\* A step of Push keeps the size exact: a link is uncounted until PushSize.
LEMMA PushSizes ==
    ASSUME TypeOK, SizeOK, NEW p \in Producers, PushAlloc(p) \/ PushStep(p)
    PROVE  SizeOK'
<1> USE Constants
<1>1. /\ \A q \in Producers \ {p} : pc'[q] = pc[q]
      /\ \A c \in Consumers : pc'[c] = pc[c]
      /\ delivered' = delivered
  <2>1. OthersStill(p)
    BY Others
  <2>2. delivered' = delivered
    BY DEF PushAlloc, PushStep, PushConstruct, PushLoadTail, PushLoadNext, PushCheck, PushLink,
       PushHelp, PushSwing, PushSize, history
  <2> QED
    BY <2>1, <2>2 DEF OthersStill, Still
<1>2. PICK n, m, s, u, w : /\ n = Linked /\ m = Popped /\ s = size
                           /\ u = Cardinality(Uncounted) /\ w = Cardinality(Counted)
  OBVIOUS
<1>3. n \in Nat /\ m \in Nat /\ s \in Int /\ u \in Nat /\ w \in Nat /\ s = n - m - u + w
  BY <1>2, Finite DEF TypeOK, SizeOK, Linked, Popped
<1>4. Popped' = m /\ Cardinality(Counted)' = w
  <2>1. Counted' = Counted
    BY <1>1 DEF Counted
  <2> QED
    BY <1>1, <1>2, <2>1 DEF Popped
<1>5. \A q : q # p => (q \in Uncounted <=> q \in Uncounted')
  BY <1>1 DEF Uncounted
<1>6. PICK A, B, v : A = Uncounted /\ B = Uncounted' /\ v = Cardinality(B)
  OBVIOUS
<1>7. /\ v \in Nat
      /\ (p \in Uncounted <=> p \in Uncounted') => v = u
      /\ p \in Uncounted /\ p \notin Uncounted' => u = v + 1
      /\ p \notin Uncounted /\ p \in Uncounted' => v = u + 1
  <2>1. IsFiniteSet(A) /\ Cardinality(A) = u
    BY <1>2, <1>6, Finite
  <2>2. \A y : y # p => (y \in A <=> y \in B)
    BY <1>5, <1>6
  <2>3. /\ Cardinality(B) \in Nat
        /\ (p \in A <=> p \in B) => Cardinality(B) = Cardinality(A)
        /\ p \in A /\ p \notin B => Cardinality(A) = Cardinality(B) + 1
        /\ p \notin A /\ p \in B => Cardinality(B) = Cardinality(A) + 1
    BY ONLY <2>1, <2>2, CardOne, Zenon
  <2> QED
    BY <1>6, <2>1, <2>3
<1>8. CASE PushLink(p) /\ LinkWins(p)
  <2>1. accepted' = Append(accepted, value[lNode[p]]) /\ size' = size
    BY <1>8 DEF PushLink
  <2>2. Linked' = n + 1
    BY <1>2, <2>1 DEF TypeOK, Linked
  <2>3. p \notin Uncounted /\ p \in Uncounted'
    BY <1>8 DEF PushLink, Uncounted, TypeOK, Goto
  <2> QED
    BY <1>2, <1>3, <1>4, <1>6, <1>7, <2>1, <2>2, <2>3 DEF SizeOK
<1>9. CASE PushSize(p)
  <2>1. Linked' = n /\ size' = s + 1
    BY <1>2, <1>9 DEF PushSize, history, Linked
  <2>2. p \in Uncounted /\ p \notin Uncounted'
    BY <1>9 DEF PushSize, Uncounted, TypeOK, Goto
  <2> QED
    BY <1>2, <1>3, <1>4, <1>6, <1>7, <2>1, <2>2 DEF SizeOK
<1>10. CASE \/ PushAlloc(p) \/ PushConstruct(p) \/ PushLoadTail(p) \/ PushLoadNext(p) \/ PushCheck(p)
            \/ PushHelp(p) \/ PushSwing(p) \/ (PushLink(p) /\ ~LinkWins(p))
  <2>1. accepted' = accepted /\ size' = size
    BY <1>10 DEF PushAlloc, PushConstruct, PushLoadTail, PushLoadNext, PushCheck, PushLink,
       PushHelp, PushSwing, mem, history
  <2>2. Linked' = n
    BY <1>2, <2>1 DEF Linked
  <2>3. p \in Uncounted <=> p \in Uncounted'
    BY <1>10 DEF PushAlloc, PushConstruct, PushLoadTail, PushLoadNext, PushCheck, PushLink,
       PushHelp, PushSwing, Uncounted, TypeOK, Goto
  <2> QED
    BY <1>2, <1>3, <1>4, <1>6, <1>7, <2>1, <2>2, <2>3 DEF SizeOK
<1> QED
  BY <1>8, <1>9, <1>10 DEF PushStep

\* A step of Pop keeps the size exact: a pop is still counted until PopFree.
LEMMA PopSizes ==
    ASSUME TypeOK, SizeOK, NEW c \in Consumers, PopStep(c)
    PROVE  SizeOK'
<1> USE Constants
<1>1. /\ \A d \in Consumers \ {c} : pc'[d] = pc[d]
      /\ \A p \in Producers : pc'[p] = pc[p]
      /\ accepted' = accepted
  <2>1. OthersStill(c)
    BY Others
  <2>2. accepted' = accepted
    BY DEF PopStep, PopLoadTail, PopLoadHead, PopLoadNext, PopCheck, PopEmpty,
       PopHelp, PopRead, PopCas, PopFree, history
  <2> QED
    BY <2>1, <2>2 DEF OthersStill, Still
<1>2. PICK n, m, s, u, w : /\ n = Linked /\ m = Popped /\ s = size
                           /\ u = Cardinality(Uncounted) /\ w = Cardinality(Counted)
  OBVIOUS
<1>3. n \in Nat /\ m \in Nat /\ s \in Int /\ u \in Nat /\ w \in Nat /\ s = n - m - u + w
  BY <1>2, Finite DEF TypeOK, SizeOK, Linked, Popped
<1>4. Linked' = n /\ Cardinality(Uncounted)' = u
  <2>1. Uncounted' = Uncounted
    BY <1>1 DEF Uncounted
  <2> QED
    BY <1>1, <1>2, <2>1 DEF Linked
<1>5. \A d : d # c => (d \in Counted <=> d \in Counted')
  BY <1>1 DEF Counted
<1>6. PICK A, B, v : A = Counted /\ B = Counted' /\ v = Cardinality(B)
  OBVIOUS
<1>7. /\ v \in Nat
      /\ (c \in Counted <=> c \in Counted') => v = w
      /\ c \in Counted /\ c \notin Counted' => w = v + 1
      /\ c \notin Counted /\ c \in Counted' => v = w + 1
  <2>1. IsFiniteSet(A) /\ Cardinality(A) = w
    BY <1>2, <1>6, Finite
  <2>2. \A y : y # c => (y \in A <=> y \in B)
    BY <1>5, <1>6
  <2>3. /\ Cardinality(B) \in Nat
        /\ (c \in A <=> c \in B) => Cardinality(B) = Cardinality(A)
        /\ c \in A /\ c \notin B => Cardinality(A) = Cardinality(B) + 1
        /\ c \notin A /\ c \in B => Cardinality(B) = Cardinality(A) + 1
    BY ONLY <2>1, <2>2, CardOne, Zenon
  <2> QED
    BY <1>6, <2>1, <2>3
<1>8. CASE PopCas(c) /\ PopWins(c)
  <2>1. delivered' = Append(delivered, lValue[c]) /\ size' = size
    BY <1>8 DEF PopCas
  <2>2. Popped' = m + 1
    BY <1>2, <2>1 DEF TypeOK, Popped
  <2>3. c \notin Counted /\ c \in Counted'
    BY <1>8 DEF PopCas, Counted, TypeOK, Goto
  <2> QED
    BY <1>2, <1>3, <1>4, <1>6, <1>7, <2>1, <2>2, <2>3 DEF SizeOK
<1>9. CASE PopFree(c)
  <2>1. Popped' = m /\ size' = s - 1
    BY <1>2, <1>9 DEF PopFree, SizeAfterPop, history, Popped
  <2>2. c \in Counted /\ c \notin Counted'
    BY <1>9 DEF PopFree, Counted, TypeOK, Goto
  <2> QED
    BY <1>2, <1>3, <1>4, <1>6, <1>7, <2>1, <2>2 DEF SizeOK
<1>10. CASE \/ PopLoadTail(c) \/ PopLoadHead(c) \/ PopLoadNext(c) \/ PopCheck(c) \/ PopEmpty(c)
            \/ PopHelp(c) \/ PopRead(c) \/ (PopCas(c) /\ ~PopWins(c))
  <2>1. delivered' = delivered /\ size' = size
    BY <1>10 DEF PopLoadTail, PopLoadHead, PopLoadNext, PopCheck, PopEmpty, PopHelp, PopRead,
       PopCas, mem, history
  <2>2. Popped' = m
    BY <1>2, <2>1 DEF Popped
  <2>3. c \in Counted <=> c \in Counted'
    BY <1>10 DEF PopLoadTail, PopLoadHead, PopLoadNext, PopCheck, PopEmpty, PopHelp, PopRead,
       PopCas, Counted, TypeOK, Goto
  <2> QED
    BY <1>2, <1>3, <1>4, <1>6, <1>7, <2>1, <2>2, <2>3 DEF SizeOK
<1> QED
  BY <1>8, <1>9, <1>10 DEF PopStep

\* Every step keeps the size exact.
LEMMA NextSize == ASSUME IInv, SizeOK, [Next]_vars PROVE SizeOK'
<1>1. TypeOK
  BY DEF IInv, Inv
<1>2. CASE UNCHANGED vars
  BY <1>2 DEF SizeOK, Linked, Popped, Uncounted, Counted, vars, mem, history
<1> QED
  BY <1>1, <1>2, PushSizes, PopSizes DEF Next

-----------------------------------------------------------------------------
(* What a walk along the links finds.                                       *)

\* One step of a walk, and the function that makes m of them.
Follow(b) == IF b = 0 THEN 0 ELSE next[b].ptr
Walks(f, a, m) == f = [n \in 0 .. m |-> IF n = 0 THEN a ELSE Follow(f[n - 1])]

\* The recursive function of Walk is one: there is a function that unfolds as it does.
LEMMA WalkExists == ASSUME NEW a, NEW m \in Nat PROVE \E f : Walks(f, a, m)
<1> DEFINE T == {k \in Nat : ~ \E f : Walks(f, a, k)}
<1>1. SUFFICES ASSUME m \in T PROVE FALSE
  OBVIOUS
<1>2. PICK k \in T : \A i \in T : ~(<<i, k>> \in OpToRel(<, Nat))
  <2>1. T \subseteq Nat /\ T # {}
    BY <1>1
  <2> HIDE DEF T
  <2> QED
    BY <2>1, NatLessThanWellFounded, WFMin
<1>3. \A i \in T : ~(i < k)
  BY <1>2 DEF OpToRel
<1>4. k # 0
  <2>1. Walks([n \in 0 .. 0 |-> a], a, 0)
    BY DEF Walks
  <2> QED
    BY <2>1
<1>5. PICK i \in Nat : i + 1 = k
  <2>1. k - 1 \in Nat /\ (k - 1) + 1 = k
    BY <1>4
  <2> QED
    BY <2>1
<1>6. PICK g : Walks(g, a, i)
  BY <1>3, <1>5
<1>7. PICK e : e = Follow(g[i])
  OBVIOUS
<1>8. PICK f : f = [n \in 0 .. k |-> IF n = k THEN e ELSE g[n]]
  OBVIOUS
<1>9. \A n \in 0 .. i : n \in 0 .. k /\ n # k /\ f[n] = g[n]
  BY <1>5, <1>8
<1>10. \A n \in 0 .. k : f[n] = IF n = 0 THEN a ELSE Follow(f[n - 1])
  <2>1. ASSUME NEW n \in 0 .. k, n # 0, n # k PROVE f[n] = Follow(f[n - 1])
    <3>1. n \in 0 .. i /\ n - 1 \in 0 .. i
      BY <1>5, <2>1
    <3>2. g[n] = Follow(g[n - 1])
      BY <1>6, <2>1, <3>1 DEF Walks
    <3> QED
      BY <1>9, <3>1, <3>2
  <2>2. f[k] = Follow(f[k - 1])
    <3>1. f[k] = e /\ k - 1 = i /\ i \in 0 .. i
      BY <1>5, <1>8
    <3> QED
      BY <1>7, <1>9, <3>1
  <2>3. f[0] = a
    <3>1. 0 \in 0 .. i
      OBVIOUS
    <3>2. g[0] = a
      BY <1>6, <3>1 DEF Walks
    <3> QED
      BY <1>9, <3>1, <3>2
  <2> QED
    BY <1>4, <2>1, <2>2, <2>3
<1>11. Walks(f, a, k)
  BY <1>8, <1>10 DEF Walks
<1> QED
  BY <1>11

\* Walk is the function its recursive definition describes.
LEMMA WalkUnfolds == ASSUME NEW a PROVE Walks(Walk(a), a, Nodes)
<1>1. PICK f : Walks(f, a, Nodes)
  BY Constants, WalkExists
<1>2. Walk(a) = CHOOSE g : Walks(g, a, Nodes)
  BY DEF Walk, Walks, Follow
<1> QED
  BY <1>1, <1>2

\* A walk goes along a path of linked nodes and stays at 0 behind its end.
LEMMA WalkIs ==
    ASSUME NEW S, NEW k \in Nat, NEW a,
           \A i \in 1 .. k : S[i] # 0,
           k = 0 => a = 0, k # 0 => a = S[1] /\ next[S[k]].ptr = 0,
           \A i \in 1 .. k - 1 : next[S[i]].ptr = S[i + 1]
    PROVE  \A n \in 0 .. Nodes : /\ n < k => Walk(a)[n] = S[n + 1]
                                 /\ n >= k => Walk(a)[n] = 0
<1> DEFINE Right(n) == /\ n < k => Walk(a)[n] = S[n + 1]
                       /\ n >= k => Walk(a)[n] = 0
           T == {n \in Nat : n <= Nodes /\ ~Right(n)}
<1>0. Nodes \in Nat
  BY Constants
<1>1. SUFFICES ASSUME T # {} PROVE FALSE
  BY <1>0
<1>2. PICK n \in T : \A i \in T : ~(<<i, n>> \in OpToRel(<, Nat))
  <2>1. T \subseteq Nat
    OBVIOUS
  <2> HIDE DEF T
  <2> QED
    BY <1>1, <2>1, NatLessThanWellFounded, WFMin
<1>3. n \in Nat /\ n <= Nodes /\ ~Right(n) /\ \A i \in T : ~(i < n)
  BY <1>2 DEF OpToRel
<1>4. \A j \in 0 .. Nodes : Walk(a)[j] = IF j = 0 THEN a ELSE Follow(Walk(a)[j - 1])
  <2>1. PICK f : f = Walk(a)
    OBVIOUS
  <2>2. f = [j \in 0 .. Nodes |-> IF j = 0 THEN a ELSE Follow(f[j - 1])]
    BY <2>1, WalkUnfolds DEF Walks
  <2>3. \A j \in 0 .. Nodes : f[j] = IF j = 0 THEN a ELSE Follow(f[j - 1])
    BY <2>2
  <2> QED
    BY <2>1, <2>3
<1>5. CASE n = 0
  <2>1. Walk(a)[0] = a
    BY <1>0, <1>4
  <2>2. k # 0 => Walk(a)[0] = S[0 + 1]
    BY <2>1
  <2> QED
    BY <1>3, <1>5, <2>1, <2>2
<1>6. CASE n # 0
  <2>1. PICK i \in Nat : i = n - 1 /\ i + 1 = n /\ i < n /\ i <= Nodes
    <3>1. n - 1 \in Nat /\ (n - 1) + 1 = n /\ n - 1 < n /\ n - 1 <= Nodes
      BY <1>0, <1>3, <1>6
    <3> QED
      BY <3>1
  <2>2. Right(i)
    BY <1>3, <2>1
  <2>3. Walk(a)[n] = Follow(Walk(a)[i])
    <3>1. n \in 0 .. Nodes
      BY <1>0, <1>3
    <3> QED
      BY <1>4, <1>6, <2>1, <3>1
  <2>4. CASE n < k
    <3>1. Walk(a)[i] = S[n] /\ n \in 1 .. k - 1 /\ n \in 1 .. k
      BY <1>3, <1>6, <2>1, <2>2, <2>4
    <3>2. Walk(a)[n] = S[n + 1]
      BY <2>3, <3>1 DEF Follow
    <3> QED
      BY <1>3, <2>4, <3>2
  <2>5. CASE n = k
    <3>1. Walk(a)[i] = S[k] /\ k \in 1 .. k /\ k # 0
      BY <1>3, <1>6, <2>1, <2>2, <2>5
    <3>2. Walk(a)[n] = 0
      BY <2>3, <3>1 DEF Follow
    <3> QED
      BY <1>3, <2>5, <3>2
  <2>6. CASE n > k
    <3>1. Walk(a)[i] = 0
      BY <1>3, <2>1, <2>2, <2>6
    <3>2. Walk(a)[n] = 0
      BY <2>3, <3>1 DEF Follow
    <3> QED
      BY <1>3, <2>6, <3>2
  <2> QED
    BY <1>3, <2>4, <2>5, <2>6
<1> QED
  BY <1>5, <1>6

-----------------------------------------------------------------------------
(* What the properties say, read off the invariant.                         *)

\* The nodes behind the dummy node, as a walk from head finds them, are those that
\* were linked and not yet popped.
LEMMA ChainIs ==
    ASSUME NEW L, NEW F, NEW kind, NEW who, Inv(L, F, kind, who),
           NEW k \in Nat, k = Linked - Popped
    PROVE  /\ Chain = [i \in 1 .. k |-> L[Popped + i]]
           /\ \A i \in 1 .. k : Popped + i \in Popped + 1 .. Linked /\ L[Popped + i] \in Addr
           /\ head.ptr = L[Popped]
<1>1. PICK m, n : m = Popped /\ n = Linked
  OBVIOUS
<1>2. m \in Nat /\ n \in Nat /\ k = n - m /\ m <= n /\ n = m + k
  BY <1>1, QueueNodes, TagsLast
<1>3. L \in [0 .. n -> Addr]
  BY <1>1 DEF Inv, QueueOK
<1>4. \A i \in 0 .. k : m + i \in m .. n /\ m + i \in 0 .. n
  BY ONLY <1>2
<1>5. \A i \in 1 .. k : m + i \in m + 1 .. n
  BY ONLY <1>2
<1>6. \A i \in 0 .. k : L[m + i] \in Addr /\ L[m + i] # 0
  BY <1>3, <1>4, Constants
<1>7. head.ptr = L[m]
  <2>1. head = Ptr(L[m], m)
    BY <1>1 DEF Inv, QueueOK
  <2> QED
    BY <2>1, Pairs
<1>8. PICK S : S = [i \in 1 .. k + 1 |-> L[m + (i - 1)]]
  OBVIOUS
<1>9. \A i \in 0 .. k : i + 1 \in 1 .. k + 1 /\ S[i + 1] = L[m + i]
  <2>1. ASSUME NEW i \in 0 .. k PROVE i + 1 \in 1 .. k + 1 /\ S[i + 1] = L[m + i]
    <3>1. i + 1 \in 1 .. k + 1 /\ (i + 1) - 1 = i
      BY <1>2
    <3> QED
      BY <1>8, <3>1
  <2> QED
    BY <2>1
<1>10. \A i \in 1 .. k + 1 : i - 1 \in 0 .. k /\ S[i] = L[m + (i - 1)]
  BY <1>2, <1>8
<1>11. \A i \in 1 .. k + 1 : S[i] # 0
  BY <1>6, <1>10
<1>12. S[1] = head.ptr
  <2>1. 0 \in 0 .. k /\ 0 + 1 = 1 /\ m + 0 = m
    BY <1>2
  <2>2. S[0 + 1] = L[m + 0]
    BY <1>9, <2>1
  <2> QED
    BY <1>7, <2>1, <2>2
<1>13. next[S[k + 1]].ptr = 0
  <2>1. k \in 0 .. k /\ m + k = n
    BY <1>2
  <2>2. next[L[n]] = nullHandle
    BY <1>1 DEF Inv, QueueOK
  <2> QED
    BY <1>9, <2>1, <2>2, Pairs
<1>14. \A i \in 1 .. (k + 1) - 1 : next[S[i]].ptr = S[i + 1]
  <2>1. ASSUME NEW i \in 1 .. (k + 1) - 1 PROVE next[S[i]].ptr = S[i + 1]
    <3>1. PICK j \in Nat : j = i - 1 /\ j + 1 = i /\ j \in 0 .. k /\ j + 1 \in 0 .. k /\ m + j \in m .. n - 1
      <4>1. i - 1 \in Nat /\ (i - 1) + 1 = i /\ i - 1 \in 0 .. k /\ i \in 0 .. k /\ m + (i - 1) \in m .. n - 1
        BY <1>2
      <4> QED
        BY <4>1
    <3>2. S[i] = L[m + j] /\ S[i + 1] = L[m + (j + 1)]
      BY <1>9, <3>1
    <3>3. PICK l : l = m + j /\ l + 1 = m + (j + 1) /\ l \in m .. n - 1
      BY <1>2, <3>1
    <3>4. next[L[l]] = Ptr(L[l + 1], l)
      BY <1>1, <3>3 DEF Inv, QueueOK
    <3>5. S[i] = L[l] /\ S[i + 1] = L[l + 1]
      BY <3>2, <3>3
    <3> QED
      BY ONLY <3>4, <3>5, Pairs
  <2> QED
    BY <2>1
<1>15. \A j \in 0 .. Nodes : /\ j < k + 1 => Walk(head.ptr)[j] = S[j + 1]
                             /\ j >= k + 1 => Walk(head.ptr)[j] = 0
  <2>1. PICK h \in Nat : h = k + 1 /\ h # 0
    <3>1. k + 1 \in Nat /\ k + 1 # 0
      BY <1>2
    <3> QED
      BY <3>1
  <2>2. /\ \A i \in 1 .. h : S[i] # 0
        /\ h = 0 => head.ptr = 0
        /\ h # 0 => head.ptr = S[1] /\ next[S[h]].ptr = 0
        /\ \A i \in 1 .. h - 1 : next[S[i]].ptr = S[i + 1]
    BY <1>11, <1>12, <1>13, <1>14, <2>1
  <2>3. \A j \in 0 .. Nodes : /\ j < h => Walk(head.ptr)[j] = S[j + 1]
                              /\ j >= h => Walk(head.ptr)[j] = 0
    BY ONLY <2>1, <2>2, WalkIs
  <2> QED
    BY <2>1, <2>3, Zenon
<1>16. k + 1 <= Nodes
  <2>1. IsFiniteSet(Addr) /\ Cardinality(Addr) = Nodes
    <3>1. Nodes \in Nat \ {0}
      BY Constants
    <3>2. Nodes \in Int /\ 1 \in Int /\ ~(1 > Nodes) /\ Nodes - 1 + 1 = Nodes
      BY ONLY <3>1
    <3> QED
      BY ONLY <3>2, FS_Interval DEF Addr
  <2>2. Cardinality(0 .. k) = k + 1 /\ IsFiniteSet(0 .. k)
    BY FS_Interval
  <2>3. PICK G : G = [i \in 0 .. k |-> L[m + i]]
    OBVIOUS
  <2>4. G \in [0 .. k -> Addr]
    BY <1>6, <2>3
  <2>5. \A i, j \in m .. n : L[i] = L[j] => i = j
    BY <1>1 DEF Inv, PlacesOK
  <2>6. ASSUME NEW i \in 0 .. k, NEW j \in 0 .. k, G[i] = G[j] PROVE i = j
    <3>1. m + i = m + j
      BY <1>4, <2>3, <2>5, <2>6
    <3> QED
      BY <1>2, <3>1
  <2>7. ~(Cardinality(Addr) < Cardinality(0 .. k))
    BY <2>1, <2>2, <2>4, <2>6, FS_PigeonHole
  <2> QED
    BY <2>1, <2>2, <2>7, Constants
<1>17. PICK w : w = Walk(head.ptr)
  OBVIOUS
<1>18. \A j \in 1 .. Nodes : (j \in 1 .. k => w[j] = L[m + j] /\ w[j] # 0) /\ (j \notin 1 .. k => w[j] = 0)
  <2>1. ASSUME NEW j \in 1 .. Nodes, j \in 1 .. k PROVE w[j] = L[m + j] /\ w[j] # 0
    <3>1. j \in 0 .. Nodes /\ j \in 0 .. k /\ j < k + 1
      BY <2>1, Constants
    <3>2. w[j] = S[j + 1]
      BY <1>15, <1>17, <3>1
    <3> QED
      BY <1>6, <1>9, <3>1, <3>2
  <2>2. ASSUME NEW j \in 1 .. Nodes, j \notin 1 .. k PROVE w[j] = 0
    <3>1. j \in 0 .. Nodes /\ j >= k + 1
      BY <2>2, Constants
    <3> QED
      BY <1>15, <1>17, <3>1
  <2> QED
    BY <2>1, <2>2
<1>19. {j \in 1 .. Nodes : w[j] # 0} = 1 .. k
  <2>1. \A j \in 1 .. k : j \in 1 .. Nodes
    BY <1>16, Constants
  <2> QED
    BY <1>18, <2>1
<1>20. Cardinality(1 .. k) = k
  BY FS_Interval
<1>21. Chain = [i \in 1 .. k |-> w[i]]
  BY <1>17, <1>19, <1>20 DEF Chain
<1>22. \A i \in 1 .. k : w[i] = L[m + i]
  <2>1. \A j \in 1 .. k : j \in 1 .. Nodes
    BY <1>16, Constants
  <2> QED
    BY <1>18, <2>1
<1>23. [i \in 1 .. k |-> w[i]] = [i \in 1 .. k |-> L[m + i]]
  BY <1>22
<1>24. Chain = [i \in 1 .. k |-> L[Popped + i]]
  BY <1>1, <1>21, <1>23
<1>25. ASSUME NEW i \in 1 .. k
       PROVE  Popped + i \in Popped + 1 .. Linked /\ L[Popped + i] \in Addr
  <2>1. i \in 0 .. k
    OBVIOUS
  <2> QED
    BY <1>1, <1>5, <1>6, <2>1
<1> QED
  BY <1>1, <1>7, <1>24, <1>25

\* What a Pop will find in a node of the queue is what was pushed in its place, also
\* when another Pop has taken the value out of the node and not yet lost its CAS.
LEMMA ValueOf ==
    ASSUME NEW L, NEW F, NEW kind, NEW who, Inv(L, F, kind, who),
           NEW i \in Popped + 1 .. Linked
    PROVE  ValueIn(L[i]) = accepted[i]
<1>1. ValuesOK(L)
  BY DEF Inv
<1>2. CASE ~(i = Popped + 1 /\ Copied)
  <2>1. value[L[i]] = accepted[i]
    BY <1>1, <1>2 DEF ValuesOK
  <2>2. accepted[i] \in Values
    <3>1. PICK n, m : n = Linked /\ m = Popped
      OBVIOUS
    <3>2. n \in Nat /\ m \in Nat /\ i \in m + 1 .. n
      BY <3>1, TagsLast
    <3>3. i \in 1 .. n
      BY ONLY <3>2
    <3>4. accepted \in Seq(Values) /\ n = Len(accepted)
      BY <3>1 DEF Inv, TypeOK, Linked
    <3> QED
      BY ONLY <3>3, <3>4, LenProperties
  <2>3. accepted[i] # NoValue
    BY ONLY <2>2 DEF Values, NoValue
  <2> QED
    BY <2>1, <2>3 DEF ValueIn
<1>3. CASE i = Popped + 1 /\ Copied
  <2>1. value[L[i]] = NoValue
    BY <1>1, <1>3 DEF ValuesOK
  <2>2. ASSUME NEW c \in Consumers, pc[c] = "pcas"
        PROVE  lNext[c].ptr = L[i] /\ lValue[c] = accepted[i]
    <3>1. Popper(L, c) /\ setup.steals
      BY <1>3 DEF Inv, Copied
    <3>2. lHead[c].tag = Popped
      BY <2>2, <3>1 DEF Popper
    <3>3. After(L, c, Popped) /\ lValue[c] = accepted[Popped + 1]
      BY <2>2, <3>1, <3>2 DEF Popper
    <3> QED
      BY <1>3, <3>3, Pairs DEF After
  <2>3. PICK holders : holders = {c \in Consumers : pc[c] = "pcas" /\ lNext[c].ptr = L[i]}
    OBVIOUS
  <2>4. holders # {}
    BY <1>3, <2>2, <2>3 DEF Copied
  <2>5. ValueIn(L[i]) = lValue[CHOOSE c \in holders : TRUE]
    BY <2>1, <2>3, <2>4 DEF ValueIn
  <2>6. (CHOOSE c \in holders : TRUE) \in holders
    BY <2>4
  <2> QED
    BY <2>2, <2>3, <2>5, <2>6
<1> QED
  BY <1>2, <1>3

\* The nodes behind the dummy node hold what is accepted and not delivered.
LEMMA NothingLostHolds == IInv => NothingLost
<1>1. SUFFICES ASSUME NEW L, NEW F, NEW kind, NEW who, Inv(L, F, kind, who)
               PROVE  NothingLost
  BY DEF IInv
<1>2. PICK m, n : m = Popped /\ n = Linked
  OBVIOUS
<1>3. m \in Nat /\ n \in Nat /\ m <= n
  BY <1>1, <1>2, QueueNodes, TagsLast
<1>4. PICK k \in Nat : k = n - m /\ n = m + k
  <2>1. n - m \in Nat /\ n = m + (n - m)
    BY <1>3
  <2> QED
    BY <2>1
<1>5. Chain = [i \in 1 .. k |-> L[m + i]]
  <2>1. k = Linked - Popped
    BY <1>2, <1>4
  <2>2. Chain = [i \in 1 .. k |-> L[Popped + i]]
    BY ONLY <1>1, k \in Nat, <2>1, ChainIs
  <2> QED
    BY <1>2, <2>2
<1>6. PICK ch : ch = Chain
  OBVIOUS
<1>7. DOMAIN ch = 1 .. k /\ \A i \in 1 .. k : ch[i] = L[m + i]
  BY <1>5, <1>6
<1>8. \A i \in 1 .. k : m + i \in m + 1 .. n
  BY ONLY <1>3, <1>4
<1>9. \A i \in 1 .. k : ValueIn(ch[i]) = accepted[m + i]
  <2>1. ASSUME NEW i \in 1 .. k PROVE ValueIn(ch[i]) = accepted[m + i]
    <3>1. m + i \in Popped + 1 .. Linked
      BY <1>2, <1>8
    <3>2. PICK j \in Popped + 1 .. Linked : j = m + i
      BY <3>1
    <3>3. ValueIn(L[j]) = accepted[j]
      BY ONLY <1>1, j \in Popped + 1 .. Linked, ValueOf
    <3> QED
      BY <1>7, <3>2, <3>3
  <2> QED
    BY <2>1
<1>10. PICK s : s = SubSeq(accepted, m + 1, n)
  OBVIOUS
<1>11. s \in Seq(Values) /\ Len(s) = k /\ \A i \in 1 .. k : s[i] = accepted[m + i]
  <2>1. accepted \in Seq(Values) /\ n = Len(accepted)
    <3>1. TypeOK
      BY <1>1 DEF Inv
    <3> QED
      BY <1>2, <3>1 DEF TypeOK, Linked
  <2>2. \A i \in m + 1 .. n : i \in 1 .. n
    BY <1>3
  <2>3. \A i \in m + 1 .. n : accepted[i] \in Values
    BY ONLY <2>1, <2>2, LenProperties
  <2>4. m + 1 \in Int /\ n \in Int
    BY <1>3
  <2>5. /\ SubSeq(accepted, m + 1, n) \in Seq(Values)
        /\ Len(SubSeq(accepted, m + 1, n)) = IF m + 1 <= n THEN n - (m + 1) + 1 ELSE 0
        /\ \A i \in 1 .. n - (m + 1) + 1 : SubSeq(accepted, m + 1, n)[i] = accepted[m + 1 + i - 1]
    BY ONLY <2>3, <2>4, SubSeqProperties
  <2>6. (IF m + 1 <= n THEN n - (m + 1) + 1 ELSE 0) = k
    BY <1>3, <1>4
  <2>7. \A i \in 1 .. k : i \in 1 .. n - (m + 1) + 1 /\ m + 1 + i - 1 = m + i
    BY <1>3, <1>4
  <2> QED
    BY <1>10, <2>5, <2>6, <2>7
<1>12. s = [i \in 1 .. k |-> s[i]]
  <2>1. DOMAIN s = 1 .. k /\ s \in [1 .. k -> Values]
    BY ONLY <1>11, LenProperties
  <2> QED
    BY <2>1
<1>13. [i \in DOMAIN ch |-> ValueIn(ch[i])] = s
  <2>1. [i \in DOMAIN ch |-> ValueIn(ch[i])] = [i \in 1 .. k |-> accepted[m + i]]
    BY <1>7, <1>9
  <2>2. s = [i \in 1 .. k |-> accepted[m + i]]
    BY <1>11, <1>12
  <2> QED
    BY <2>1, <2>2
<1> QED
  BY <1>2, <1>6, <1>10, <1>13 DEF NothingLost, Popped, Linked

\* A walk from the top of the pool comes through nodes of the pool only.
LEMMA PoolIs ==
    ASSUME NEW L, NEW F, NEW kind, NEW who, Inv(L, F, kind, who)
    PROVE  \A a \in PoolNodes : kind[a] = "pool"
<1>1. PoolOf(F, top, next)
  BY DEF Inv, PoolOK
<1>2. PICK k \in Nat : k = Len(F)
  BY <1>1, LenProperties DEF PoolOf
<1>3. F \in Seq(Addr) /\ \A i \in 1 .. k : F[i] \in Addr
  BY <1>1, <1>2, LenProperties DEF PoolOf
<1>4. \A i \in 1 .. k : F[i] # 0
  BY <1>3, Constants
<1>5. k = 0 => top = 0
  BY <1>1, <1>2, <1>3, EmptySeq DEF PoolOf
<1>6. k # 0 => top = F[1] /\ next[F[k]].ptr = 0
  <2>1. k # 0 => F # <<>>
    BY <1>2
  <2> QED
    BY <1>1, <1>2, <2>1 DEF PoolOf
<1>7. \A i \in 1 .. k - 1 : next[F[i]].ptr = F[i + 1]
  BY <1>1, <1>2 DEF PoolOf
<1>8. \A n \in 0 .. Nodes : /\ n < k => Walk(top)[n] = F[n + 1]
                            /\ n >= k => Walk(top)[n] = 0
  BY ONLY <1>4, <1>5, <1>6, <1>7, k \in Nat, WalkIs
<1>9. PICK w : w = Walk(top)
  OBVIOUS
<1>10. \A j \in 1 .. k : kind[F[j]] = "pool"
  BY <1>2 DEF Inv, PlacesOK
<1>11. ASSUME NEW n \in 0 .. Nodes, w[n] # 0 PROVE kind[w[n]] = "pool"
  <2>1. n \in Nat /\ Nodes \in Nat
    BY Constants
  <2>2. ~(n >= k)
    BY <1>8, <1>9, <1>11
  <2>3. n < k /\ n + 1 \in 1 .. k
    BY <2>1, <2>2
  <2>4. w[n] = F[n + 1]
    BY <1>8, <1>9, <2>3
  <2> QED
    BY <1>10, <2>3, <2>4
<1>12. PoolNodes = {w[n] : n \in 0 .. Nodes} \ {0}
  BY <1>9 DEF PoolNodes
<1> QED
  BY <1>11, <1>12

\* The nodes of the pool and those of the queue are of different kinds; what a pusher has
\* loaded is in the queue, and so is _tail unless a swing is to come.
LEMMA PoolDisjointHolds == IInv => PoolDisjoint
<1>1. SUFFICES ASSUME NEW L, NEW F, NEW kind, NEW who, Inv(L, F, kind, who)
               PROVE  PoolDisjoint
  BY DEF IInv
<1>2. \A a \in PoolNodes : kind[a] = "pool"
  BY ONLY <1>1, PoolIs
<1>3. PICK m, n : m = Popped /\ n = Linked
  OBVIOUS
<1>4. m \in Nat /\ n \in Nat /\ m <= n
  BY <1>1, <1>3, QueueNodes, TagsLast
<1>5. PICK k \in Nat : k = n - m
  <2>1. n - m \in Nat
    BY <1>4
  <2> QED
    BY <2>1
<1>6. \A i \in m .. n : kind[L[i]] = "queue"
  <2>1. PlacesOK(L, F, kind, who)
    BY <1>1 DEF Inv
  <2> QED
    BY <1>3, <2>1 DEF PlacesOK
<1>7. /\ Chain = [i \in 1 .. k |-> L[m + i]]
      /\ head.ptr = L[m]
  <2>1. k = Linked - Popped
    BY <1>3, <1>5
  <2>2. Chain = [i \in 1 .. k |-> L[Popped + i]] /\ head.ptr = L[Popped]
    BY ONLY <1>1, k \in Nat, <2>1, ChainIs
  <2> QED
    BY <1>3, <2>2
<1>8. \A i \in 1 .. k : m + i \in m .. n
  BY ONLY <1>4, <1>5, k \in Nat
<1>9. \A a \in Range(Chain) : kind[a] = "queue"
  <2>1. PICK ch : ch = Chain
    OBVIOUS
  <2>2. DOMAIN ch = 1 .. k /\ \A i \in 1 .. k : ch[i] = L[m + i]
    BY <1>7, <2>1
  <2>3. ASSUME NEW a \in Range(ch) PROVE kind[a] = "queue"
    <3>1. PICK i \in 1 .. k : a = ch[i]
      BY <2>2, <2>3 DEF Range
    <3> QED
      BY <1>6, <1>8, <2>2, <3>1
  <2> QED
    BY <2>1, <2>3
<1>10. kind[head.ptr] = "queue"
  <2>1. m \in m .. n
    BY <1>4
  <2> QED
    BY <1>6, <1>7, <2>1
<1>11. ASSUME NEW p \in Producers, pc[p] \in {"next", "check", "link", "help"}
       PROVE  kind[lTail[p].ptr] = "queue"
  <2>1. PICK t : t = lTail[p].tag
    OBVIOUS
  <2>2. Builder(L, p) /\ TailOK(L) /\ QueueOK(L)
    BY <1>1 DEF Inv
  <2>3. t \in 0 .. tail.tag /\ lTail[p] = Ptr(L[t], t) /\ (Shared => t = n)
    BY <1>3, <1>11, <2>1, <2>2 DEF Builder, Seeking
  <2>4. tail.tag \in 0 .. n /\ (Shared \/ m = 0)
    BY <1>3, <2>2 DEF TailOK, QueueOK
  <2>5. t \in m .. n
    BY ONLY <1>4, <2>3, <2>4
  <2>6. lTail[p].ptr = L[t]
    BY <2>3, Pairs
  <2> QED
    BY <1>6, <2>5, <2>6
<1>12. kind[tail.ptr] = "queue" \/ \E p \in Producers : pc[p] = "swing" /\ lTail[p] = tail
  <2>1. TailOK(L) /\ \A p \in Producers : Builder(L, p)
    BY <1>1 DEF Inv
  <2>2. tail = Ptr(L[tail.tag], tail.tag) /\ tail.ptr = L[tail.tag]
    BY <2>1, Pairs DEF TailOK
  <2>3. CASE tail.tag = Linked
    <3>1. n \in m .. n
      BY <1>4
    <3> QED
      BY <1>3, <1>6, <2>2, <2>3, <3>1
  <2>4. CASE tail.tag # Linked
    <3>1. PICK p \in Producers : pc[p] = "swing" /\ lTail[p].tag = Linked - 1 /\ tail.tag = Linked - 1
      BY <2>1, <2>4 DEF TailOK
    <3>2. lTail[p] = Ptr(L[lTail[p].tag], lTail[p].tag)
      BY <2>1, <3>1 DEF Builder
    <3>3. lTail[p] = tail
      BY <2>2, <3>1, <3>2
    <3> QED
      BY <3>1, <3>3
  <2> QED
    BY <2>3, <2>4
<1> QED
  <2>1. PoolNodes \cap (Range(Chain) \cup {head.ptr}) = {}
    BY <1>2, <1>9, <1>10
  <2>2. \A p \in Producers :
          pc[p] \in {"next", "check", "link", "help"} => lTail[p].ptr \notin PoolNodes
    BY <1>2, <1>11
  <2>3. tail.ptr \in PoolNodes => \E p \in Producers : pc[p] = "swing" /\ lTail[p] = tail
    BY <1>2, <1>12
  <2> QED
    BY <2>1, <2>2, <2>3 DEF PoolDisjoint

\* A thread about to answer false has seen the queue empty.
LEMMA EmptyHonestHolds == IInv => EmptyHonest
  BY DEF IInv, Inv, Popper, EmptyHonest

\* The size is exact up to threads between their CAS and their counting; those that
\* pushed make it smaller, those that popped are in the bound.
LEMMA SizeSafeHolds == IInv /\ SizeOK => SizeSafe
<1>1. SUFFICES ASSUME NEW L, NEW F, NEW kind, NEW who, Inv(L, F, kind, who), SizeOK
               PROVE  SizeSafe
  BY DEF IInv
<1>2. PICK m, n : m = Popped /\ n = Linked
  OBVIOUS
<1>3. m \in Nat /\ n \in Nat /\ m <= n
  BY <1>1, <1>2, QueueNodes, TagsLast
<1>4. PICK k \in Nat : k = n - m
  <2>1. n - m \in Nat
    BY <1>3
  <2> QED
    BY <2>1
<1>5. Len(Chain) = k
  <2>1. k = Linked - Popped
    BY <1>2, <1>4
  <2>2. Chain = [i \in 1 .. k |-> L[Popped + i]]
    BY ONLY <1>1, k \in Nat, <2>1, ChainIs
  <2>3. Len([i \in 1 .. k |-> L[Popped + i]]) = k
    OBVIOUS
  <2> QED
    BY <2>2, <2>3
<1>6. PICK u, v : u = Cardinality(Uncounted) /\ v = Cardinality(Counted)
  OBVIOUS
<1>7. u \in Nat /\ v \in Nat
  BY <1>6, Finite, FS_CardinalityType
<1>8. size = n - m - u + v
  BY <1>1, <1>2, <1>6 DEF SizeOK
<1>9. size <= k + v
  BY ONLY <1>3, <1>4, <1>7, <1>8, k \in Nat
<1> QED
  BY <1>5, <1>6, <1>9 DEF SizeSafe, Counted

-----------------------------------------------------------------------------
(* The theorems.                                                            *)

\* The invariant and the exact size hold in every reachable state.
LEMMA Invariant == Suited /\ Spec => [](IInv /\ SizeOK)
<1>1. Init /\ Suited => IInv /\ SizeOK
  BY InitInv, InitSize
<1>2. IInv /\ SizeOK /\ [Next]_vars => (IInv /\ SizeOK)'
  BY NextInv, NextSize
<1> QED
  BY <1>1, <1>2, PTL DEF Spec

\* In every suited use, Push and Pop lose, repeat and reorder nothing: the nodes behind the
\* dummy node hold exactly the values pushed and not yet popped, in order
\* (LockFreeQueue.h, InternalPush and Pop).
THEOREM LosesNothing == Suited /\ Spec => []NothingLost
  BY Invariant, NothingLostHolds, PTL

\* In every suited use no node is in the queue and in the pool at once, so that construct
\* never hands out memory the queue still uses (free_list.hpp), no pusher looks at a
\* freed node, and _tail names one only until the swing that is under way.
THEOREM PoolApart == Suited /\ Spec => []PoolDisjoint
  BY Invariant, PoolDisjointHolds, PTL

\* In every suited use Pop answers false only if the queue was empty at a moment of the call.
THEOREM EmptyIsHonest == Suited /\ Spec => []EmptyHonest
  BY Invariant, EmptyHonestHolds, PTL

\* In every suited use GetSize never exceeds what can be popped, but for pops that have
\* taken their value and not yet subtracted.
THEOREM SizeIsSafe == Suited /\ Spec => []SizeSafe
  BY Invariant, SizeSafeHolds, PTL

\* A step is the abstract queue's Enqueue (the CAS on _next that succeeds), its Dequeue
\* (the CAS of _head that succeeds), or changes neither history.
LEMMA FifoStep == ASSUME IInv, [Next]_vars PROVE [Fifo!Next]_(Fifo!vars)
<1>1. SUFFICES ASSUME NEW L, NEW F, NEW kind, NEW who, Inv(L, F, kind, who)
               PROVE  [Fifo!Next]_(Fifo!vars)
  BY DEF IInv
<1>2. (UNCHANGED <<accepted, delivered>>) => [Fifo!Next]_(Fifo!vars)
  BY DEF Fifo!vars
<1>3. CASE UNCHANGED vars
  BY <1>2, <1>3 DEF vars, history
<1>4. ASSUME NEW p \in Producers, PushLink(p), LinkWins(p) PROVE [Fifo!Next]_(Fifo!vars)
  <2>1. pc[p] = "link" /\ accepted' = Append(accepted, value[lNode[p]]) /\ delivered' = delivered
    BY <1>4 DEF PushLink
  <2>2. Builder(L, p) /\ setup \in Setups /\ pushed \in [Producers -> Nat]
    BY <1>1 DEF Inv, TypeOK
  <2>3. value[lNode[p]] = <<p, pushed[p]>>
    BY <2>1, <2>2 DEF Builder, Building
  <2>4. pushed[p] >= 1 /\ pushed[p] \in 0 .. setup.pushes
    BY <2>1, <2>2 DEF Builder
  <2>5. setup.pushes \in 1 .. Pushes
    BY <2>2, SetupsAssumption
  <2>6. pushed[p] \in 1 .. Pushes
    BY <2>4, <2>5, Constants
  <2>7. value[lNode[p]] \in Values
    BY <2>3, <2>6 DEF Values
  <2>8. Fifo!Enqueue(value[lNode[p]])
    BY <2>1 DEF Fifo!Enqueue
  <2> QED
    BY <2>7, <2>8 DEF Fifo!Next
<1>5. ASSUME NEW p \in Producers, PushAlloc(p) \/ PushStep(p), ~(PushLink(p) /\ LinkWins(p))
      PROVE  UNCHANGED <<accepted, delivered>>
  BY <1>5 DEF PushAlloc, PushStep, PushConstruct, PushLoadTail, PushLoadNext, PushCheck, PushLink,
              PushHelp, PushSwing, PushSize, history
<1>6. ASSUME NEW c \in Consumers, PopCas(c), PopWins(c) PROVE [Fifo!Next]_(Fifo!vars)
  <2>1. pc[c] = "pcas" /\ delivered' = Append(delivered, lValue[c]) /\ accepted' = accepted
    BY <1>6 DEF PopCas
  <2>2. Popper(L, c)
    BY <1>1 DEF Inv
  <2>3. lHead[c].tag = Popped
    BY ONLY <1>1, <1>6, <2>1, c \in Consumers, HeadIs DEF PopWins, Popping
  <2>4. After(L, c, Popped) /\ lValue[c] = accepted[Popped + 1]
    BY <2>1, <2>2, <2>3 DEF Popper
  <2>5. PICK m, n : m = Popped /\ n = Linked
    OBVIOUS
  <2>6. m \in Nat /\ n \in Nat /\ m + 1 <= n
    BY <1>1, <2>4, <2>5, TagsLast DEF After
  <2>7. m < n
    BY ONLY <2>6
  <2>8. Len(delivered) < Len(accepted) /\ lValue[c] = accepted[Len(delivered) + 1]
    BY <2>4, <2>5, <2>7 DEF Popped, Linked
  <2>9. Fifo!Dequeue
    BY <2>1, <2>8 DEF Fifo!Dequeue
  <2> QED
    BY <2>9 DEF Fifo!Next
<1>7. ASSUME NEW c \in Consumers, PopStep(c), ~(PopCas(c) /\ PopWins(c))
      PROVE  UNCHANGED <<accepted, delivered>>
  BY <1>7 DEF PopStep, PopLoadTail, PopLoadHead, PopLoadNext, PopCheck, PopEmpty, PopHelp, PopRead,
              PopCas, PopFree, history
<1>8. CASE Next
  BY <1>2, <1>4, <1>5, <1>6, <1>7, <1>8 DEF Next
<1> QED
  BY <1>3, <1>8

\* In every suited use the queue implements an atomic FIFO queue: every step is a step of
\* FifoQueue or none (the safety part of Implements).
THEOREM IsFifo == Suited /\ Spec => Fifo!Spec
<1>1. Init => Fifo!Init
  BY DEF Init, Fifo!Init
<1>2. IInv /\ [Next]_vars => [Fifo!Next]_(Fifo!vars)
  BY FifoStep
<1> QED
  BY <1>1, <1>2, Invariant, PTL DEF Spec, Fifo!Spec
=============================================================================
