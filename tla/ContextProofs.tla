--------------------------- MODULE ContextProofs ---------------------------
(***************************************************************************)
(* For any number of workers, posters, objects and slots: a SerializerQueue *)
(* is in one place at a time and is deleted once, _waitQue never runs empty *)
(* under a worker, and a posted object is in one place until it is run.     *)
(*                                                                          *)
(* The invariant speaks of places instead of cardinalities: the slots, the  *)
(* entries of _waitQue and the workers' hands hold different queues, and    *)
(* together they hold exactly the live ones (OwnOK); the threads in Post,   *)
(* the entries of the queues and the workers' executors hold different      *)
(* objects, and together they hold exactly those whose right to run is held *)
(* (EntryOK).  LocalsOK says which locals of Run and Post are in scope, and *)
(* QuitOK in which order the owner shuts down.                              *)
(***************************************************************************)
EXTENDS Context, FiniteSetTheorems, TLAPS

PostPC == {"idle", "indexed", "loaded"}
Tokens == {"none", "held", "stuck", "lost"}

TypeOK ==
    /\ globalQue \in [SlotIdx -> Queues]
    /\ waitQue \in Seq(Queues)
    /\ content \in [Queues -> Seq(Objects)]
    /\ live \subseteq Queues
    /\ swapCounter \in SlotIdx /\ globalCounter \in SlotIdx
    /\ stop \in BOOLEAN /\ groupStop \in BOOLEAN /\ destroyed \in BOOLEAN
    /\ pc \in [Workers -> RunPC]
    /\ localQue \in [Workers -> Queues \cup {None}]
    /\ swapIndx \in [Workers -> SlotIdx]
    /\ expect \in [Workers -> Queues \cup {None}]
    /\ executor \in [Workers -> Objects \cup {None}]
    /\ ppc \in [Threads -> PostPC]
    /\ pobj \in [Threads -> Objects \cup {None}]
    /\ pidx \in [Threads -> SlotIdx]
    /\ pque \in [Threads -> Queues \cup {None}]
    /\ token \in [Objects -> Tokens]

\* The locals of Run and Post that are in scope; a worker posts from inside a task.
LocalsOK ==
    /\ \A w \in Workers :
          /\ pc[w] \notin {"out", "joined"} => localQue[w] \in Queues
          /\ pc[w] \in {"cas", "push"} => expect[w] \in Queues
          /\ executor[w] \in Objects <=> pc[w] = "exec"
          /\ ppc[w] # "idle" => pc[w] \in {"exec", "repost"}
    /\ \A t \in Threads :
          /\ pobj[t] \in Objects <=> ppc[t] # "idle"
          /\ ppc[t] = "loaded" => pque[t] \in Queues

\* Where Run's _localQue is a queue of the worker's own.
InLocal == {"check", "load", "cas", "drain", "exec", "repost"}

\* The queue in each worker's hands, None while it has none.
Hand == [w \in Workers |->
            CASE pc[w] \in InLocal -> localQue[w]
              [] pc[w] = "push" -> expect[w]
              [] OTHER -> None]

\* The queues in the slots g, in _waitQue wq and in the workers' hands h are
\* different ones, and they are the live ones lv.
Owners(g, wq, h, lv) ==
    /\ \A i, j \in SlotIdx : g[i] = g[j] => i = j
    /\ \A i, j \in 1 .. Len(wq) : wq[i] = wq[j] => i = j
    /\ \A v, w \in Workers : h[v] = h[w] /\ h[v] # None => v = w
    /\ \A i \in SlotIdx, j \in 1 .. Len(wq) : g[i] # wq[j]
    /\ \A i \in SlotIdx, w \in Workers : g[i] # h[w]
    /\ \A j \in 1 .. Len(wq), w \in Workers : wq[j] # h[w]
    /\ \A i \in SlotIdx : g[i] \in lv
    /\ \A j \in 1 .. Len(wq) : wq[j] \in lv
    /\ \A w \in Workers : h[w] # None => h[w] \in lv
    /\ \A q \in lv : \/ \E i \in SlotIdx : g[i] = q
                     \/ \E j \in 1 .. Len(wq) : wq[j] = q
                     \/ \E w \in Workers : h[w] = q

OwnOK == Owners(globalQue, waitQue, Hand, live)

\* Workers between their push into _waitQue and their pop.
Popping == {w \in Workers : pc[w] = "pop"}

WaitLen == Len(waitQue) = Slots + Cardinality(Popping)

\* The order of the shutdown, and what holds before it.
QuitOK ==
    /\ groupStop => stop
    /\ \A w \in Workers : pc[w] = "joined" => groupStop
    /\ destroyed => /\ groupStop
                    /\ live = {}
                    /\ \A w \in Workers : pc[w] = "joined"
                    /\ \A t \in Threads : ppc[t] = "idle"
    /\ ~stop => /\ \A t \in Threads : ppc[t] = "loaded" => pque[t] \in live
                /\ \A o \in Objects : token[o] # "lost"

\* Object o is an entry of a queue; the entries of the queues are different.
InQueues(ct, o) == \E q \in Queues : \E i \in 1 .. Len(ct[q]) : ct[q][i] = o

EntriesApart(ct) ==
    \A p, q \in Queues : \A i \in 1 .. Len(ct[p]), j \in 1 .. Len(ct[q]) :
        ct[p][i] = ct[q][j] => p = q /\ i = j

\* The objects in Post (po), in the queues (ct) and on the workers' stacks (ex) are
\* different ones, and they are the objects of held.
Holders(po, ct, ex, held) ==
    /\ \A s, t \in Threads : po[s] = po[t] /\ po[s] # None => s = t
    /\ \A v, w \in Workers : ex[v] = ex[w] /\ ex[v] # None => v = w
    /\ EntriesApart(ct)
    /\ \A t \in Threads : ~InQueues(ct, po[t])
    /\ \A w \in Workers : ~InQueues(ct, ex[w])
    /\ \A t \in Threads, w \in Workers : ex[w] = po[t] => ex[w] = None
    /\ \A t \in Threads : po[t] # None => po[t] \in held
    /\ \A w \in Workers : ex[w] # None => ex[w] \in held
    /\ \A o \in Objects : InQueues(ct, o) => o \in held
    /\ \A o \in held : \/ \E t \in Threads : po[t] = o
                       \/ \E w \in Workers : ex[w] = o
                       \/ InQueues(ct, o)

HeldObjects == {o \in Objects : token[o] = "held"}

EntryOK ==
    /\ Holders(pobj, content, executor, HeldObjects)
    /\ \A q \in Queues \ live : content[q] = <<>>

IInv ==
    /\ TypeOK /\ LocalsOK /\ QuitOK /\ EntryOK
    /\ ~destroyed => OwnOK /\ WaitLen
-----------------------------------------------------------------------------
(* What Append and Tail do to the entries of a queue.                       *)

LEMMA AppendEntries ==
    ASSUME NEW S, NEW s \in Seq(S), NEW x \in S
    PROVE  /\ Append(s, x) \in Seq(S)
           /\ Len(s) \in Nat
           /\ Len(Append(s, x)) = Len(s) + 1
           /\ DOMAIN s = 1 .. Len(s)
           /\ DOMAIN Append(s, x) = 1 .. Len(s) + 1
           /\ \A i \in 1 .. Len(s) : Append(s, x)[i] = s[i]
           /\ Append(s, x)[Len(s) + 1] = x
OBVIOUS

LEMMA TailEntries ==
    ASSUME NEW S, NEW s \in Seq(S), s # <<>>
    PROVE  /\ Head(s) \in S /\ Head(s) = s[1]
           /\ Tail(s) \in Seq(S)
           /\ Len(s) \in Nat \ {0}
           /\ Len(Tail(s)) = Len(s) - 1
           /\ DOMAIN s = 1 .. Len(s)
           /\ DOMAIN Tail(s) = 1 .. Len(s) - 1
           /\ \A i \in 1 .. Len(s) - 1 : Tail(s)[i] = s[i + 1]
OBVIOUS

\* A slot number plus one, taken modulo the number of slots, is a slot number.
LEMMA NextSlotType == ASSUME NEW i \in SlotIdx PROVE NextSlot(i) \in SlotIdx
BY SlotsAssumption DEF SlotIdx, NextSlot

LEMMA NoneOutside == None \notin Queues /\ None \notin Objects
BY QueuesAssumption, ObjectsAssumption

\* ~SerializerQueue keeps the types.
LEMMA DropType ==
    ASSUME NEW qs, TypeOK, Drop(qs)
    PROVE  /\ live' \subseteq Queues
           /\ content' \in [Queues -> Seq(Objects)]
           /\ token' \in [Objects -> Tokens]
BY DEF Drop, TypeOK, Tokens

-----------------------------------------------------------------------------
(* Types.                                                                   *)

LEMMA NextTypeOK == TypeOK /\ LocalsOK /\ [Next]_vars => TypeOK'
<1> SUFFICES ASSUME TypeOK, LocalsOK, [Next]_vars PROVE TypeOK'
  OBVIOUS
<1> USE DEF TypeOK, RunPC, PostPC, Tokens, Goto, runVars, postVars, quitVars
<1>w. Workers \subseteq Threads
  BY DEF Threads
<1>1. ASSUME NEW t \in Threads, NEW o \in Objects, Post(t, o) PROVE TypeOK'
  BY <1>1, NextSlotType DEF Post, StartPost
<1>2. ASSUME NEW t \in Threads, PostLoad(t) PROVE TypeOK'
  BY <1>2, SlotsAssumption DEF PostLoad, SlotIdx
<1>3. ASSUME NEW t \in Threads, PostPush(t) PROVE TypeOK'
  <2>1. pobj[t] \in Objects
    BY <1>3 DEF PostPush, LocalsOK
  <2>2. CASE pque[t] \in live
    <3>1. Append(content[pque[t]], pobj[t]) \in Seq(Objects)
      BY <2>1, <2>2, AppendEntries
    <3> QED
      BY <1>3, <2>1, <2>2, <3>1 DEF PostPush
  <2>3. CASE pque[t] \notin live
    BY <1>3, <2>1, <2>3 DEF PostPush
  <2> QED
    BY <2>2, <2>3
<1>4. ASSUME NEW w \in Workers, RunEnter(w) PROVE TypeOK'
  BY <1>4 DEF RunEnter
<1>5. ASSUME NEW w \in Workers, RunNext(w) PROVE TypeOK'
  BY <1>5, NextSlotType DEF RunNext
<1>6. ASSUME NEW w \in Workers, RunLoad(w) PROVE TypeOK'
  BY <1>6 DEF RunLoad
<1>7. ASSUME NEW w \in Workers, RunSwap(w) PROVE TypeOK'
  <2>1. localQue[w] \in Queues /\ swapIndx[w] \in SlotIdx
    BY <1>7 DEF RunSwap, LocalsOK
  <2>0. 0 \in SlotIdx
    BY SlotsAssumption DEF SlotIdx
  <2>2. CASE SwapOK(w)
    <3>1. /\ globalQue' = [globalQue EXCEPT ![swapIndx[w]] = localQue[w]]
          /\ swapIndx' = [swapIndx EXCEPT ![w] = 0]
          /\ pc' = [pc EXCEPT ![w] = "push"]
          /\ UNCHANGED expect
      BY <1>7, <2>2 DEF RunSwap
    <3>2. UNCHANGED <<waitQue, content, live, localQue, executor,
                      swapCounter, postVars, quitVars, token>>
      BY <1>7 DEF RunSwap
    <3> QED
      BY <2>0, <2>1, <3>1, <3>2
  <2>3. CASE ~SwapOK(w)
    <3>1. /\ expect' = [expect EXCEPT ![w] = globalQue[swapIndx[w]]]
          /\ UNCHANGED <<globalQue, swapIndx, pc>>
      BY <1>7, <2>3 DEF RunSwap
    <3>2. UNCHANGED <<waitQue, content, live, localQue, executor,
                      swapCounter, postVars, quitVars, token>>
      BY <1>7 DEF RunSwap
    <3> QED
      BY <2>1, <3>1, <3>2
  <2> QED
    BY <2>2, <2>3
<1>8. ASSUME NEW w \in Workers, RunWaitPush(w) PROVE TypeOK'
  <2>1. expect[w] \in Queues
    BY <1>8 DEF RunWaitPush, LocalsOK
  <2>2. GiveBack(w) \in Seq(Queues)
    BY <2>1, AppendEntries DEF GiveBack
  <2> QED
    BY <1>8, <2>2 DEF RunWaitPush
<1>9. ASSUME NEW w \in Workers, RunWaitPop(w) PROVE TypeOK'
  <2>1. CASE waitQue # <<>>
    <3>1. Head(waitQue) \in Queues /\ Tail(waitQue) \in Seq(Queues)
      BY <2>1, TailEntries
    <3> QED
      BY <1>9, <2>1, <3>1 DEF RunWaitPop
  <2>2. CASE waitQue = <<>>
    BY <1>9, <2>2 DEF RunWaitPop
  <2> QED
    BY <2>1, <2>2
<1>10. ASSUME NEW w \in Workers, RunPop(w) PROVE TypeOK'
  <2>1. localQue[w] \in Queues
    BY <1>10 DEF RunPop, LocalsOK
  <2>2. /\ Head(content[localQue[w]]) \in Objects
        /\ Tail(content[localQue[w]]) \in Seq(Objects)
    BY <1>10, <2>1, TailEntries DEF RunPop, Drained
  <2> QED
    BY <1>10, <2>1, <2>2 DEF RunPop, AfterPop
<1>11. ASSUME NEW w \in Workers, RunRepost(w) PROVE TypeOK'
  <2>1. executor[w] \in Objects
    BY <1>11 DEF RunRepost, LocalsOK
  <2>2. /\ pobj' = [pobj EXCEPT ![w] = executor[w]]
        /\ ppc' = [ppc EXCEPT ![w] = "indexed"]
        /\ pidx' = [pidx EXCEPT ![w] = globalCounter]
        /\ globalCounter' = NextSlot(globalCounter)
        /\ executor' = [executor EXCEPT ![w] = None]
        /\ pc' = [pc EXCEPT ![w] = "repost"]
    BY <1>11 DEF RunRepost, StartPost
  <2>3. UNCHANGED <<globalQue, waitQue, content, live, localQue, swapIndx, expect,
                    swapCounter, pque, quitVars, token>>
    BY <1>11 DEF RunRepost
  <2> QED
    BY <1>w, <2>1, <2>2, <2>3, NextSlotType
<1>12. ASSUME NEW w \in Workers, RunReposted(w) PROVE TypeOK'
  BY <1>12 DEF RunReposted
<1>13. ASSUME NEW w \in Workers, RunObjectEnd(w) PROVE TypeOK'
  BY <1>13 DEF RunObjectEnd
<1>14. ASSUME NEW w \in Workers, RunThrows(w) PROVE TypeOK'
  BY <1>14 DEF RunThrows
<1>15. ASSUME NEW w \in Workers, RunDrained(w) PROVE TypeOK'
  BY <1>15 DEF RunDrained
<1>16. ASSUME NEW w \in Workers, RunExit(w) PROVE TypeOK'
  <2> HIDE DEF TypeOK
  <2>1. /\ live' \subseteq Queues
        /\ content' \in [Queues -> Seq(Objects)]
        /\ token' \in [Objects -> Tokens]
    BY <1>16, DropType DEF RunExit
  <2> QED
    BY <1>16, <2>1 DEF RunExit, TypeOK
<1>17. ASSUME NEW w \in Workers, Join(w) PROVE TypeOK'
  BY <1>17 DEF Join
<1>18. ASSUME Stop \/ StopGroup PROVE TypeOK'
  BY <1>18 DEF Stop, StopGroup
<1>19. ASSUME Destroy PROVE TypeOK'
  <2> HIDE DEF TypeOK
  <2>1. /\ live' \subseteq Queues
        /\ content' \in [Queues -> Seq(Objects)]
        /\ token' \in [Objects -> Tokens]
    BY <1>19, DropType DEF Destroy
  <2> QED
    BY <1>19, <2>1 DEF Destroy, TypeOK
<1>20. CASE UNCHANGED vars
  BY <1>20 DEF vars
<1> QED
  BY <1>1, <1>2, <1>3, <1>4, <1>5, <1>6, <1>7, <1>8, <1>9, <1>10, <1>11, <1>12,
     <1>13, <1>14, <1>15, <1>16, <1>17, <1>18, <1>19, <1>20
    DEF Next, PostStep, RunStep

\* Every step keeps the locals in scope: what a label of Run or Post reads is set.
LEMMA NextLocalsOK == TypeOK /\ LocalsOK /\ [Next]_vars => LocalsOK'
<1> SUFFICES ASSUME TypeOK, LocalsOK, [Next]_vars PROVE LocalsOK'
  OBVIOUS
<1> USE DEF TypeOK, LocalsOK, RunPC, PostPC, Goto, runVars, postVars, quitVars
<1> USE NoneOutside
<1>w. Workers \subseteq Threads
  BY DEF Threads
<1>1. ASSUME NEW t \in Threads, NEW o \in Objects, Post(t, o) PROVE LocalsOK'
  BY <1>1, <1>w DEF Post, StartPost
<1>2. ASSUME NEW t \in Threads, PostLoad(t) PROVE LocalsOK'
  BY <1>2, <1>w DEF PostLoad
<1>3. ASSUME NEW t \in Threads, PostPush(t) PROVE LocalsOK'
  BY <1>3, <1>w DEF PostPush
<1>4. ASSUME NEW w \in Workers, RunEnter(w) PROVE LocalsOK'
  BY <1>4, <1>w DEF RunEnter
<1>5. ASSUME NEW w \in Workers, RunNext(w) PROVE LocalsOK'
  BY <1>5, <1>w DEF RunNext
<1>6. ASSUME NEW w \in Workers, RunLoad(w) PROVE LocalsOK'
  BY <1>6, <1>w DEF RunLoad
<1>7. ASSUME NEW w \in Workers, RunSwap(w) PROVE LocalsOK'
  <2>1. CASE SwapOK(w)
    BY <1>7, <1>w, <2>1 DEF RunSwap
  <2>2. CASE ~SwapOK(w)
    <3>1. /\ expect' = [expect EXCEPT ![w] = globalQue[swapIndx[w]]]
          /\ UNCHANGED <<localQue, pc, executor, ppc, pobj, pque>>
      BY <1>7, <2>2 DEF RunSwap
    <3>2. globalQue[swapIndx[w]] \in Queues
      OBVIOUS
    <3> QED
      BY <1>w, <3>1, <3>2
  <2> QED
    BY <2>1, <2>2
<1>8. ASSUME NEW w \in Workers, RunWaitPush(w) PROVE LocalsOK'
  BY <1>8, <1>w DEF RunWaitPush
<1>9. ASSUME NEW w \in Workers, RunWaitPop(w) PROVE LocalsOK'
  <2>1. CASE waitQue # <<>>
    <3>1. Head(waitQue) \in Queues
      BY <2>1, TailEntries
    <3> QED
      BY <1>9, <1>w, <2>1, <3>1 DEF RunWaitPop
  <2>2. CASE waitQue = <<>>
    BY <1>9, <1>w, <2>2 DEF RunWaitPop
  <2> QED
    BY <2>1, <2>2
<1>10. ASSUME NEW w \in Workers, RunPop(w) PROVE LocalsOK'
  <2>1. Head(content[localQue[w]]) \in Objects
    BY <1>10, TailEntries DEF RunPop, Drained
  <2> QED
    BY <1>10, <1>w, <2>1 DEF RunPop
<1>11. ASSUME NEW w \in Workers, RunRepost(w) PROVE LocalsOK'
  <2>1. executor[w] \in Objects /\ ppc[w] = "idle"
    BY <1>11 DEF RunRepost
  <2>2. /\ pobj' = [pobj EXCEPT ![w] = executor[w]]
        /\ ppc' = [ppc EXCEPT ![w] = "indexed"]
        /\ executor' = [executor EXCEPT ![w] = None]
        /\ pc' = [pc EXCEPT ![w] = "repost"]
        /\ UNCHANGED <<localQue, expect, pque>>
    BY <1>11 DEF RunRepost, StartPost
  <2> QED
    BY <1>w, <2>1, <2>2
<1>12. ASSUME NEW w \in Workers, RunReposted(w) PROVE LocalsOK'
  BY <1>12, <1>w DEF RunReposted
<1>13. ASSUME NEW w \in Workers, RunObjectEnd(w) PROVE LocalsOK'
  BY <1>13, <1>w DEF RunObjectEnd
<1>14. ASSUME NEW w \in Workers, RunThrows(w) PROVE LocalsOK'
  BY <1>14, <1>w DEF RunThrows
<1>15. ASSUME NEW w \in Workers, RunDrained(w) PROVE LocalsOK'
  BY <1>15, <1>w DEF RunDrained
<1>16. ASSUME NEW w \in Workers, RunExit(w) PROVE LocalsOK'
  BY <1>16, <1>w DEF RunExit
<1>17. ASSUME NEW w \in Workers, Join(w) PROVE LocalsOK'
  BY <1>17, <1>w DEF Join
<1>18. ASSUME Stop \/ StopGroup \/ Destroy PROVE LocalsOK'
  BY <1>18 DEF Stop, StopGroup, Destroy
<1>19. CASE UNCHANGED vars
  BY <1>19 DEF vars
<1> QED
  BY <1>1, <1>2, <1>3, <1>4, <1>5, <1>6, <1>7, <1>8, <1>9, <1>10, <1>11, <1>12,
     <1>13, <1>14, <1>15, <1>16, <1>17, <1>18, <1>19
    DEF Next, PostStep, RunStep

-----------------------------------------------------------------------------
(* Moving a queue from one place to another.                                *)

OwnerTypes(g, wq, h, lv) ==
    /\ g \in [SlotIdx -> Queues] /\ wq \in Seq(Queues)
    /\ h \in [Workers -> Queues \cup {None}] /\ lv \subseteq Queues

\* RunEnter: a new queue is in nobody's place.
LEMMA TakeNew ==
    ASSUME NEW g, NEW wq, NEW h, NEW lv, OwnerTypes(g, wq, h, lv), Owners(g, wq, h, lv),
           NEW w \in Workers, h[w] = None, NEW p \in Queues \ lv
    PROVE  Owners(g, wq, [h EXCEPT ![w] = p], lv \cup {p})
<1> DEFINE k == [h EXCEPT ![w] = p]
<1>1. p # None
  BY NoneOutside
<1>2. k[w] = p /\ \A v \in Workers \ {w} : k[v] = h[v]
  BY DEF OwnerTypes
<1>3. \A q \in lv \cup {p} : \/ \E i \in SlotIdx : g[i] = q
                             \/ \E j \in 1 .. Len(wq) : wq[j] = q
                             \/ \E v \in Workers : k[v] = q
  <2>1. \A v \in Workers : h[v] \in lv => k[v] = h[v]
    BY <1>2, NoneOutside DEF OwnerTypes
  <2> QED
    BY <1>2, <2>1 DEF Owners
<1> HIDE DEF k
<1>4. Owners(g, wq, k, lv \cup {p})
  BY <1>1, <1>2, <1>3 DEF OwnerTypes, Owners
<1> QED
  BY <1>4 DEF k

\* RunSwap: the slot's queue and the worker's change places.
LEMMA SwapQueues ==
    ASSUME NEW g, NEW wq, NEW h, NEW lv, OwnerTypes(g, wq, h, lv), Owners(g, wq, h, lv),
           NEW w \in Workers, h[w] # None, NEW s \in SlotIdx
    PROVE  Owners([g EXCEPT ![s] = h[w]], wq, [h EXCEPT ![w] = g[s]], lv)
<1>1. g[s] # None
  BY NoneOutside DEF OwnerTypes
<1> QED
  BY <1>1 DEF OwnerTypes, Owners

\* RunWaitPush: the worker's queue becomes the last entry of _waitQue.
LEMMA GiveAway ==
    ASSUME NEW g, NEW wq, NEW h, NEW lv, OwnerTypes(g, wq, h, lv), Owners(g, wq, h, lv),
           NEW w \in Workers, h[w] # None
    PROVE  Owners(g, Append(wq, h[w]), [h EXCEPT ![w] = None], lv)
<1> DEFINE wr == Append(wq, h[w])  n == Len(wq)
<1>1. h[w] \in Queues
  BY DEF OwnerTypes
<1>2. /\ n \in Nat /\ Len(wr) = n + 1
      /\ \A j \in 1 .. n : wr[j] = wq[j]
      /\ wr[n + 1] = h[w]
  BY <1>1, AppendEntries DEF OwnerTypes
<1>3. \A j \in 1 .. n + 1 : j \in 1 .. n \/ j = n + 1
  BY <1>2
<1>4. None \notin Queues
  BY NoneOutside
<1> HIDE DEF wr
<1> QED
  BY <1>1, <1>2, <1>3, <1>4 DEF OwnerTypes, Owners

\* RunWaitPop: the first entry of _waitQue goes into the worker's hands.
LEMMA TakeOldest ==
    ASSUME NEW g, NEW wq, NEW h, NEW lv, OwnerTypes(g, wq, h, lv), Owners(g, wq, h, lv),
           NEW w \in Workers, h[w] = None, wq # <<>>
    PROVE  Owners(g, Tail(wq), [h EXCEPT ![w] = Head(wq)], lv)
<1> DEFINE wr == Tail(wq)  n == Len(wq)  k == [h EXCEPT ![w] = Head(wq)]
<1>1. /\ n \in Nat \ {0} /\ Len(wr) = n - 1
      /\ \A j \in 1 .. n - 1 : wr[j] = wq[j + 1]
      /\ Head(wq) = wq[1]
  BY TailEntries DEF OwnerTypes
<1>2. \A j \in 1 .. n - 1 : j + 1 \in 1 .. n /\ j + 1 # 1
  BY <1>1
<1>3. \A j \in 1 .. n : j = 1 \/ (j - 1 \in 1 .. n - 1 /\ (j - 1) + 1 = j)
  BY <1>1
<1>4. \A i, j \in 1 .. n - 1 : i + 1 = j + 1 => i = j
  BY <1>1
<1>5. 1 \in 1 .. n /\ wq[1] \in Queues /\ None \notin Queues
  BY <1>1, NoneOutside DEF OwnerTypes
<1>6. k[w] = wq[1] /\ \A v \in Workers \ {w} : k[v] = h[v]
  BY <1>1 DEF OwnerTypes
<1> HIDE DEF wr, k
<1>7. \A q \in lv : \/ \E i \in SlotIdx : g[i] = q
                    \/ \E j \in 1 .. n - 1 : wr[j] = q
                    \/ \E v \in Workers : k[v] = q
  <2>1. \A v \in Workers : h[v] \in lv => k[v] = h[v]
    BY <1>6, NoneOutside DEF OwnerTypes
  <2>2. \A j \in 1 .. n : \/ k[w] = wq[j]
                          \/ \E i \in 1 .. n - 1 : wr[i] = wq[j]
    BY <1>1, <1>3, <1>6
  <2> QED
    BY <2>1, <2>2 DEF Owners
<1>8. \A j \in 1 .. n - 1 : /\ wr[j] \in lv /\ wr[j] # wq[1]
                            /\ \A i \in SlotIdx : g[i] # wr[j]
                            /\ \A v \in Workers : wr[j] # h[v]
  BY <1>1, <1>2, <1>5 DEF Owners
<1>9. \A i, j \in 1 .. n - 1 : wr[i] = wr[j] => i = j
  BY <1>1, <1>2, <1>4 DEF Owners
<1>10. /\ wq[1] \in lv
       /\ \A i \in SlotIdx : g[i] # wq[1]
       /\ \A v \in Workers : h[v] # wq[1]
  BY <1>5 DEF Owners
<1>11. /\ \A u, v \in Workers : k[u] = k[v] /\ k[u] # None => u = v
       /\ \A i \in SlotIdx, v \in Workers : g[i] # k[v]
       /\ \A j \in 1 .. n - 1, v \in Workers : wr[j] # k[v]
       /\ \A v \in Workers : k[v] # None => k[v] \in lv
  BY <1>6, <1>8, <1>10 DEF Owners
<1>12. Owners(g, wr, k, lv)
  BY <1>1, <1>7, <1>8, <1>9, <1>11 DEF Owners
<1> QED
  BY <1>12 DEF wr, k

\* RunExit: the worker deletes the queue in its own hands, nobody else's.
LEMMA DeleteOwn ==
    ASSUME NEW g, NEW wq, NEW h, NEW lv, OwnerTypes(g, wq, h, lv), Owners(g, wq, h, lv),
           NEW w \in Workers, h[w] # None
    PROVE  Owners(g, wq, [h EXCEPT ![w] = None], lv \ {h[w]})
BY NoneOutside DEF OwnerTypes, Owners

-----------------------------------------------------------------------------
(* Who owns the queues.                                                     *)

LEMMA HandTypes == TypeOK /\ LocalsOK => OwnerTypes(globalQue, waitQue, Hand, live)
BY DEF TypeOK, LocalsOK, OwnerTypes, Hand, InLocal

LEMMA NotInHand == \A l \in {"out", "pop", "joined"} : l \notin InLocal \cup {"push"}
BY DEF InLocal

\* A step of worker w disturbs nobody else's hands.
LEMMA HandMove ==
    ASSUME TypeOK, NEW w \in Workers, NEW l, pc' = [pc EXCEPT ![w] = l],
           \A v \in Workers \ {w} : localQue'[v] = localQue[v] /\ expect'[v] = expect[v]
    PROVE  /\ l \in InLocal => Hand' = [Hand EXCEPT ![w] = localQue'[w]]
           /\ l = "push" => Hand' = [Hand EXCEPT ![w] = expect'[w]]
           /\ l \notin InLocal \cup {"push"} => Hand' = [Hand EXCEPT ![w] = None]
BY DEF TypeOK, Hand, InLocal

LEMMA HandNow ==
    ASSUME TypeOK, NEW w \in Workers
    PROVE  /\ pc[w] \in InLocal => Hand[w] = localQue[w]
           /\ pc[w] = "push" => Hand[w] = expect[w]
           /\ pc[w] \notin InLocal \cup {"push"} => Hand[w] = None
           /\ Hand = [Hand EXCEPT ![w] = Hand[w]]
BY DEF TypeOK, Hand, InLocal

LEMMA PoppingFinite == IsFiniteSet(Popping) /\ Cardinality(Popping) \in Nat
BY ThreadAssumption, FS_Subset, FS_CardinalityType DEF Popping

\* _waitQue has one entry per slot at least.
LEMMA WaitNonEmpty == TypeOK /\ WaitLen => waitQue # <<>>
<1> SUFFICES ASSUME TypeOK, WaitLen, waitQue = <<>> PROVE FALSE
  OBVIOUS
<1>1. Len(waitQue) = 0
  OBVIOUS
<1> QED
  BY <1>1, PoppingFinite, SlotsAssumption DEF WaitLen

\* Steps that move no queue keep the ownership.
LEMMA SameOwners ==
    ASSUME OwnOK, UNCHANGED <<globalQue, waitQue, live>>, Hand' = Hand
    PROVE  OwnOK'
BY DEF OwnOK

\* The steps of a worker that keeps its queue.
KeepsQueue(w) ==
    \/ RunNext(w) \/ RunLoad(w) \/ RunPop(w) \/ RunRepost(w) \/ RunReposted(w)
    \/ RunObjectEnd(w) \/ RunThrows(w) \/ RunDrained(w)

LEMMA KeepsQueueHand ==
    ASSUME TypeOK, NEW w \in Workers, KeepsQueue(w)
    PROVE  /\ Hand' = Hand
           /\ pc[w] \in InLocal /\ \E l \in InLocal : pc' = [pc EXCEPT ![w] = l]
           /\ UNCHANGED <<globalQue, waitQue, live, destroyed>>
<1>1. /\ pc[w] \in InLocal
      /\ UNCHANGED <<globalQue, waitQue, live, localQue, destroyed>>
  BY DEF KeepsQueue, RunNext, RunLoad, RunPop, RunRepost, RunReposted, RunObjectEnd,
         RunThrows, RunDrained, quitVars, InLocal
<1>2. PICK l \in InLocal : pc' = [pc EXCEPT ![w] = l]
  BY DEF KeepsQueue, RunNext, RunLoad, RunPop, RunRepost, RunReposted, RunObjectEnd,
         RunThrows, RunDrained, Goto, InLocal
<1>3. \A v \in Workers \ {w} : expect'[v] = expect[v]
  BY DEF KeepsQueue, RunNext, RunLoad, RunPop, RunRepost, RunReposted, RunObjectEnd,
         RunThrows, RunDrained, TypeOK
<1>4. Hand' = [Hand EXCEPT ![w] = localQue[w]]
  BY <1>1, <1>2, <1>3, HandMove
<1>5. Hand[w] = localQue[w] /\ Hand = [Hand EXCEPT ![w] = Hand[w]]
  BY <1>1, HandNow
<1> QED
  BY <1>1, <1>2, <1>4, <1>5

LEMMA NextOwnOK ==
    TypeOK /\ LocalsOK /\ OwnOK /\ WaitLen /\ [Next]_vars /\ ~destroyed' => OwnOK'
<1> SUFFICES ASSUME TypeOK, LocalsOK, OwnOK, WaitLen, [Next]_vars, ~destroyed'
             PROVE  OwnOK'
  OBVIOUS
<1>t. /\ pc \in [Workers -> RunPC]
      /\ localQue \in [Workers -> Queues \cup {None}]
      /\ expect \in [Workers -> Queues \cup {None}]
  BY DEF TypeOK
<1>h. /\ OwnerTypes(globalQue, waitQue, Hand, live)
      /\ Owners(globalQue, waitQue, Hand, live)
  BY HandTypes DEF OwnOK
<1>n. None \notin Queues
  BY NoneOutside
<1> USE DEF Goto, runVars, postVars, quitVars
<1>1. ASSUME NEW t \in Threads, NEW o \in Objects, Post(t, o) PROVE OwnOK'
  BY <1>1, SameOwners DEF Post, StartPost, Hand
<1>2. ASSUME NEW t \in Threads, PostStep(t) PROVE OwnOK'
  BY <1>2, SameOwners DEF PostStep, PostLoad, PostPush, Hand
<1>3. ASSUME NEW w \in Workers, KeepsQueue(w) PROVE OwnOK'
  BY <1>3, KeepsQueueHand, SameOwners
<1>4. ASSUME NEW w \in Workers, Join(w) PROVE OwnOK'
  <2>1. pc[w] = "out" /\ pc' = [pc EXCEPT ![w] = "joined"]
    BY <1>4 DEF Join
  <2>2. UNCHANGED <<globalQue, waitQue, live, localQue, expect>>
    BY <1>4 DEF Join
  <2>3. Hand' = [Hand EXCEPT ![w] = None]
    BY <2>1, <2>2, HandMove, NotInHand
  <2>4. Hand[w] = None /\ Hand = [Hand EXCEPT ![w] = Hand[w]]
    BY <2>1, HandNow DEF InLocal
  <2> QED
    BY <2>2, <2>3, <2>4, SameOwners
<1>5. ASSUME Stop \/ StopGroup PROVE OwnOK'
  BY <1>5, SameOwners DEF Stop, StopGroup, Hand
<1>6. CASE UNCHANGED vars
  BY <1>6, SameOwners DEF vars, Hand
<1>7. ASSUME Destroy PROVE OwnOK'
  BY <1>7 DEF Destroy
<1>8. ASSUME NEW w \in Workers, RunEnter(w) PROVE OwnOK'
  <2>1. PICK p \in Queues \ live : /\ localQue' = [localQue EXCEPT ![w] = p]
                                   /\ live' = live \cup {p}
    BY <1>8 DEF RunEnter
  <2>2. /\ pc[w] = "out" /\ pc' = [pc EXCEPT ![w] = "check"]
        /\ UNCHANGED <<globalQue, waitQue, expect>>
    BY <1>8 DEF RunEnter
  <2>3. /\ localQue'[w] = p
        /\ \A v \in Workers \ {w} : localQue'[v] = localQue[v] /\ expect'[v] = expect[v]
    BY <1>t, <2>1, <2>2
  <2>4. Hand' = [Hand EXCEPT ![w] = p]
    BY <2>2, <2>3, HandMove DEF InLocal
  <2>5. Hand[w] = None
    BY <2>2, HandNow DEF InLocal
  <2> QED
    BY <1>h, <2>1, <2>2, <2>4, <2>5, TakeNew DEF OwnOK
<1>9. ASSUME NEW w \in Workers, RunSwap(w) PROVE OwnOK'
  <2>1. /\ pc[w] = "cas" /\ localQue[w] \in Queues
        /\ swapIndx[w] \in SlotIdx
    BY <1>9 DEF RunSwap, LocalsOK, TypeOK
  <2>2. Hand[w] = localQue[w] /\ Hand = [Hand EXCEPT ![w] = Hand[w]]
    BY <2>1, HandNow DEF InLocal
  <2>3. CASE ~SwapOK(w)
    <3>1. UNCHANGED <<globalQue, waitQue, live, localQue, pc>>
      BY <1>9, <2>3 DEF RunSwap
    <3>2. \A v \in Workers \ {w} : expect'[v] = expect[v]
      BY <1>9, <2>3, <1>t DEF RunSwap
    <3>3. pc' = [pc EXCEPT ![w] = "cas"]
      BY <2>1, <3>1, <1>t
    <3>4. Hand' = [Hand EXCEPT ![w] = localQue[w]]
      BY <3>1, <3>2, <3>3, HandMove DEF InLocal
    <3> QED
      BY <2>2, <3>1, <3>4, SameOwners
  <2>4. CASE SwapOK(w)
    <3>1. /\ globalQue' = [globalQue EXCEPT ![swapIndx[w]] = localQue[w]]
          /\ pc' = [pc EXCEPT ![w] = "push"]
          /\ UNCHANGED <<waitQue, live, localQue, expect>>
      BY <1>9, <2>4 DEF RunSwap
    <3>2. Hand' = [Hand EXCEPT ![w] = globalQue[swapIndx[w]]]
      BY <2>4, <3>1, HandMove DEF SwapOK
    <3> QED
      BY <1>h, <1>n, <2>1, <2>2, <3>1, <3>2, SwapQueues DEF OwnOK
  <2> QED
    BY <2>3, <2>4
<1>10. ASSUME NEW w \in Workers, RunWaitPush(w) PROVE OwnOK'
  <2>1. pc[w] = "push" /\ expect[w] \in Queues
    BY <1>10 DEF RunWaitPush, LocalsOK
  <2>2. Hand[w] = expect[w]
    BY <2>1, HandNow
  <2>3. /\ waitQue' = Append(waitQue, Hand[w])
        /\ pc' = [pc EXCEPT ![w] = "pop"]
        /\ UNCHANGED <<globalQue, live, localQue>>
        /\ \A v \in Workers \ {w} : expect'[v] = expect[v]
    BY <1>10, <1>t, <2>2 DEF RunWaitPush, GiveBack
  <2>4. Hand' = [Hand EXCEPT ![w] = None]
    BY <2>3, HandMove, NotInHand
  <2> QED
    BY <1>h, <1>n, <2>1, <2>2, <2>3, <2>4, GiveAway DEF OwnOK
<1>11. ASSUME NEW w \in Workers, RunWaitPop(w) PROVE OwnOK'
  <2>1. waitQue # <<>>
    BY WaitNonEmpty
  <2>2. /\ pc[w] = "pop" /\ pc' = [pc EXCEPT ![w] = "drain"]
        /\ waitQue' = Tail(waitQue)
        /\ localQue' = [localQue EXCEPT ![w] = Head(waitQue)]
        /\ UNCHANGED <<globalQue, live, expect>>
    BY <1>11, <2>1 DEF RunWaitPop
  <2>3. /\ localQue'[w] = Head(waitQue)
        /\ \A v \in Workers \ {w} : localQue'[v] = localQue[v] /\ expect'[v] = expect[v]
    BY <1>t, <2>2
  <2>4. Hand' = [Hand EXCEPT ![w] = Head(waitQue)]
    BY <2>2, <2>3, HandMove DEF InLocal
  <2>5. Hand[w] = None
    BY <2>2, HandNow DEF InLocal
  <2> QED
    BY <1>h, <2>1, <2>2, <2>4, <2>5, TakeOldest DEF OwnOK
<1>12. ASSUME NEW w \in Workers, RunExit(w) PROVE OwnOK'
  <2>1. pc[w] = "check" /\ localQue[w] \in Queues
    BY <1>12 DEF RunExit, LocalsOK
  <2>2. Hand[w] = localQue[w]
    BY <2>1, HandNow DEF InLocal
  <2>3. /\ pc' = [pc EXCEPT ![w] = "out"]
        /\ \A v \in Workers \ {w} : localQue'[v] = localQue[v] /\ expect'[v] = expect[v]
        /\ live' = live \ {Hand[w]}
        /\ UNCHANGED <<globalQue, waitQue>>
    BY <1>12, <1>t, <2>2 DEF RunExit, Drop
  <2>4. Hand' = [Hand EXCEPT ![w] = None]
    BY <2>3, HandMove, NotInHand
  <2> QED
    BY <1>h, <1>n, <2>1, <2>2, <2>3, <2>4, DeleteOwn DEF OwnOK
<1> QED
  BY <1>1, <1>2, <1>3, <1>4, <1>5, <1>6, <1>7, <1>8, <1>9, <1>10, <1>11, <1>12
    DEF Next, RunStep, KeepsQueue

\* A push into _waitQue adds an entry and a worker about to pop, the pop takes both.
LEMMA NextWaitLen == TypeOK /\ LocalsOK /\ WaitLen /\ [Next]_vars /\ ~destroyed' => WaitLen'
<1> SUFFICES ASSUME TypeOK, LocalsOK, WaitLen, [Next]_vars, ~destroyed' PROVE WaitLen'
  OBVIOUS
<1>t. /\ pc \in [Workers -> RunPC]
      /\ waitQue \in Seq(Queues)
      /\ Slots \in Nat /\ Cardinality(Popping) \in Nat
  BY PoppingFinite, SlotsAssumption DEF TypeOK
<1> USE DEF Goto, runVars, postVars, quitVars
<1>1. ASSUME NEW w \in Workers, RunWaitPush(w) PROVE WaitLen'
  <2>1. w \notin Popping /\ Popping' = Popping \cup {w}
    BY <1>1, <1>t DEF RunWaitPush, Popping
  <2>2. Cardinality(Popping') = Cardinality(Popping) + 1
    BY <2>1, PoppingFinite, FS_AddElement
  <2>3. expect[w] \in Queues
    BY <1>1 DEF RunWaitPush, LocalsOK
  <2>4. Len(waitQue') = Len(waitQue) + 1 /\ Len(waitQue) \in Nat
    BY <1>1, <1>t, <2>3, AppendEntries DEF RunWaitPush, GiveBack
  <2> QED
    BY <1>t, <2>2, <2>4 DEF WaitLen
<1>2. ASSUME NEW w \in Workers, RunWaitPop(w) PROVE WaitLen'
  <2>1. waitQue # <<>>
    BY WaitNonEmpty
  <2>2. /\ pc[w] = "pop" /\ pc' = [pc EXCEPT ![w] = "drain"]
        /\ waitQue' = Tail(waitQue)
    BY <1>2, <2>1 DEF RunWaitPop
  <2>3. w \in Popping /\ Popping' = Popping \ {w}
    BY <2>2, <1>t DEF Popping
  <2>4. Cardinality(Popping') = Cardinality(Popping) - 1
    BY <2>3, PoppingFinite, FS_RemoveElement
  <2>5. Len(waitQue') = Len(waitQue) - 1 /\ Len(waitQue) \in Nat
    BY <1>t, <2>1, <2>2, TailEntries
  <2> QED
    BY <1>t, <2>4, <2>5 DEF WaitLen
<1>3. ASSUME UNCHANGED waitQue, Popping' = Popping PROVE WaitLen'
  BY <1>3 DEF WaitLen
<1>4. ASSUME NEW w \in Workers, UNCHANGED waitQue, pc[w] # "pop",
             \E l \in RunPC \ {"pop"} : pc' = [pc EXCEPT ![w] = l]
      PROVE  WaitLen'
  <2>1. Popping' = Popping
    BY <1>4, <1>t DEF Popping
  <2> QED
    BY <1>4, <2>1, <1>3
<1>5. ASSUME NEW w \in Workers, KeepsQueue(w) PROVE WaitLen'
  BY <1>5, <1>4, KeepsQueueHand DEF InLocal, RunPC
<1>6. ASSUME NEW w \in Workers, RunEnter(w) \/ RunExit(w) \/ Join(w) PROVE WaitLen'
  BY <1>6, <1>4 DEF RunEnter, RunExit, Join, RunPC
<1>7. ASSUME NEW w \in Workers, RunSwap(w) PROVE WaitLen'
  <2>1. CASE SwapOK(w)
    BY <1>7, <1>4, <2>1 DEF RunSwap, RunPC
  <2>2. CASE ~SwapOK(w)
    BY <1>7, <1>3, <2>2 DEF RunSwap, Popping
  <2> QED
    BY <2>1, <2>2
<1>8. ASSUME NEW t \in Threads, PostStep(t) \/ \E o \in Objects : Post(t, o) PROVE WaitLen'
  BY <1>8, <1>3 DEF PostStep, PostLoad, PostPush, Post, Popping
<1>9. ASSUME Stop \/ StopGroup \/ Destroy \/ UNCHANGED vars PROVE WaitLen'
  BY <1>9, <1>3 DEF Stop, StopGroup, Destroy, vars, Popping
<1> QED
  BY <1>1, <1>2, <1>5, <1>6, <1>7, <1>8, <1>9 DEF Next, RunStep, KeepsQueue

-----------------------------------------------------------------------------
(* The shutdown.                                                            *)

\* ~Context deletes every queue there is: nobody has one in hand any more.
LEMMA DestroyDeletesAll ==
    ASSUME TypeOK, OwnOK, Destroy
    PROVE  live' = {}
<1>1. \A w \in Workers : Hand[w] = None
  BY DEF Destroy, Hand, InLocal, TypeOK
<1>2. \A q \in live : q # None
  BY NoneOutside DEF TypeOK
<1>3. \A q \in live : \/ \E i \in SlotIdx : globalQue[i] = q
                      \/ \E j \in 1 .. Len(waitQue) : waitQue[j] = q
  BY <1>1, <1>2 DEF OwnOK, Owners
<1>4. DOMAIN globalQue = SlotIdx /\ DOMAIN waitQue = 1 .. Len(waitQue)
  BY DEF TypeOK
<1>5. \A q \in live : q \in Owned
  BY <1>3, <1>4 DEF Owned, Range
<1> QED
  BY <1>5 DEF Destroy, Drop

LEMMA NextQuitOK ==
    TypeOK /\ LocalsOK /\ QuitOK /\ (~destroyed => OwnOK) /\ [Next]_vars => QuitOK'
<1> SUFFICES ASSUME TypeOK, LocalsOK, QuitOK, ~destroyed => OwnOK, [Next]_vars
             PROVE  QuitOK'
  OBVIOUS
<1>w. Workers \subseteq Threads
  BY DEF Threads
<1>t. /\ pc \in [Workers -> RunPC] /\ ppc \in [Threads -> PostPC]
      /\ pque \in [Threads -> Queues \cup {None}]
      /\ token \in [Objects -> Tokens]
      /\ stop \in BOOLEAN /\ groupStop \in BOOLEAN /\ destroyed \in BOOLEAN
  BY DEF TypeOK
<1> USE DEF QuitOK, RunPC, PostPC, Goto, runVars, postVars, quitVars
<1>1. ASSUME NEW t \in Threads, NEW o \in Objects, Post(t, o) PROVE QuitOK'
  <2>1. /\ ~destroyed
        /\ ppc' = [ppc EXCEPT ![t] = "indexed"]
        /\ token' = [token EXCEPT ![o] = "held"]
        /\ UNCHANGED <<live, pc, pque, stop, groupStop, destroyed>>
    BY <1>1 DEF Post, StartPost
  <2> QED
    BY <1>t, <2>1
<1>2. ASSUME NEW t \in Threads, PostLoad(t) PROVE QuitOK'
  <2>1. /\ ppc[t] = "indexed"
        /\ ppc' = [ppc EXCEPT ![t] = "loaded"]
        /\ pque' = [pque EXCEPT ![t] = globalQue[pidx[t]]]
        /\ UNCHANGED <<live, pc, stop, groupStop, destroyed, token>>
    BY <1>2 DEF PostLoad
  <2>2. ~destroyed
    BY <2>1
  <2>3. globalQue[pidx[t]] \in live
    BY <2>2 DEF OwnOK, Owners, TypeOK
  <2> QED
    BY <1>t, <2>1, <2>2, <2>3
<1>3. ASSUME NEW t \in Threads, PostPush(t) PROVE QuitOK'
  <2>1. /\ ppc[t] = "loaded"
        /\ ppc' = [ppc EXCEPT ![t] = "idle"]
        /\ pque' = [pque EXCEPT ![t] = None]
        /\ pque[t] \in live => UNCHANGED token
        /\ UNCHANGED <<live, pc, stop, groupStop, destroyed>>
    BY <1>3 DEF PostPush
  <2>2. ~destroyed
    BY <2>1
  <2>3. ~stop => pque[t] \in live
    BY <2>1
  <2> QED
    BY <1>t, <2>1, <2>2, <2>3
<1>4. ASSUME NEW w \in Workers, RunEnter(w) PROVE QuitOK'
  <2>1. /\ ~groupStop
        /\ \E q \in Queues : live' = live \cup {q}
        /\ pc' = [pc EXCEPT ![w] = "check"]
        /\ UNCHANGED <<ppc, pque, stop, groupStop, destroyed, token>>
    BY <1>4 DEF RunEnter
  <2> QED
    BY <1>t, <2>1
<1>5. ASSUME NEW w \in Workers,
             \/ RunNext(w) \/ RunLoad(w) \/ RunSwap(w) \/ RunWaitPush(w) \/ RunWaitPop(w)
             \/ RunPop(w) \/ RunReposted(w) \/ RunDrained(w)
      PROVE  QuitOK'
  <2>1. /\ pc[w] \notin {"joined", "out"}
        /\ \E l \in RunPC \ {"joined"} : pc' = [pc EXCEPT ![w] = l]
        /\ UNCHANGED <<live, ppc, pque, stop, groupStop, destroyed, token>>
    BY <1>5, <1>t DEF RunNext, RunLoad, RunSwap, RunWaitPush, RunWaitPop, RunPop,
                      RunReposted, RunDrained
  <2> QED
    BY <1>t, <2>1
<1>6. ASSUME NEW w \in Workers, RunRepost(w) PROVE QuitOK'
  <2>1. /\ pc[w] = "exec"
        /\ pc' = [pc EXCEPT ![w] = "repost"]
        /\ ppc' = [ppc EXCEPT ![w] = "indexed"]
        /\ UNCHANGED <<live, pque, stop, groupStop, destroyed, token>>
    BY <1>6 DEF RunRepost, StartPost
  <2> QED
    BY <1>t, <1>w, <2>1
<1>7. ASSUME NEW w \in Workers, RunObjectEnd(w) \/ RunThrows(w) PROVE QuitOK'
  <2>1. /\ pc[w] = "exec"
        /\ \E l \in {"drain", "check"} : pc' = [pc EXCEPT ![w] = l]
        /\ \E x \in {"none", "stuck"} : token' = [token EXCEPT ![executor[w]] = x]
        /\ UNCHANGED <<live, ppc, pque, stop, groupStop, destroyed>>
    BY <1>7 DEF RunObjectEnd, RunThrows
  <2> QED
    BY <1>t, <2>1
<1>8. ASSUME NEW w \in Workers, RunExit(w) PROVE QuitOK'
  <2>1. /\ pc[w] = "check" /\ stop
        /\ pc' = [pc EXCEPT ![w] = "out"]
        /\ UNCHANGED <<ppc, pque, stop, groupStop, destroyed>>
    BY <1>8 DEF RunExit
  <2> QED
    BY <1>t, <2>1
<1>9. ASSUME NEW w \in Workers, Join(w) PROVE QuitOK'
  <2>1. /\ groupStop
        /\ pc' = [pc EXCEPT ![w] = "joined"]
        /\ UNCHANGED <<live, ppc, pque, stop, groupStop, destroyed, token>>
    BY <1>9 DEF Join
  <2> QED
    BY <1>t, <2>1
<1>10. ASSUME Stop \/ StopGroup PROVE QuitOK'
  BY <1>10 DEF Stop, StopGroup
<1>11. ASSUME Destroy PROVE QuitOK'
  <2>1. /\ groupStop /\ ~destroyed
        /\ \A w \in Workers : pc[w] = "joined"
        /\ \A t \in Threads : ppc[t] = "idle"
        /\ UNCHANGED <<pc, ppc, stop, groupStop>>
    BY <1>11 DEF Destroy
  <2>2. live' = {}
    BY <1>11, <2>1, DestroyDeletesAll
  <2> QED
    BY <1>t, <2>1, <2>2
<1>12. CASE UNCHANGED vars
  BY <1>12 DEF vars
<1> QED
  BY <1>1, <1>2, <1>3, <1>4, <1>5, <1>6, <1>7, <1>8, <1>9, <1>10, <1>11, <1>12
    DEF Next, PostStep, RunStep

-----------------------------------------------------------------------------
(* Moving an object from one holder to another.                             *)

HolderTypes(po, ct, ex, held) ==
    /\ po \in [Threads -> Objects \cup {None}]
    /\ ct \in [Queues -> Seq(Objects)]
    /\ ex \in [Workers -> Objects \cup {None}]
    /\ held \subseteq Objects

LEMMA WorkersAreThreads == Workers \subseteq Threads
BY DEF Threads

LEMMA EntryTypes ==
    ASSUME NEW ct \in [Queues -> Seq(Objects)]
    PROVE  /\ \A q \in Queues : \A i \in 1 .. Len(ct[q]) : ct[q][i] \in Objects
           /\ ~InQueues(ct, None)
           /\ \A o : InQueues(ct, o) => o \in Objects
BY NoneOutside DEF InQueues

\* OnPost(1): the poster gets an object nobody holds.
LEMMA HoldNew ==
    ASSUME NEW po, NEW ct, NEW ex, NEW held,
           HolderTypes(po, ct, ex, held), Holders(po, ct, ex, held),
           NEW t \in Threads, po[t] = None, NEW o \in Objects \ held
    PROVE  Holders([po EXCEPT ![t] = o], ct, ex, held \cup {o})
BY NoneOutside, EntryTypes DEF HolderTypes, Holders

\* OnRun posts the object again: from the worker's stack into its Post.
LEMMA HoldRepost ==
    ASSUME NEW po, NEW ct, NEW ex, NEW held,
           HolderTypes(po, ct, ex, held), Holders(po, ct, ex, held),
           NEW w \in Workers, po[w] = None, ex[w] # None
    PROVE  Holders([po EXCEPT ![w] = ex[w]], ct, [ex EXCEPT ![w] = None], held)
BY NoneOutside, EntryTypes, WorkersAreThreads DEF HolderTypes, Holders

\* TaskSerializer::Run ends without a repost, by return or exception.
LEMMA HoldEnd ==
    ASSUME NEW po, NEW ct, NEW ex, NEW held,
           HolderTypes(po, ct, ex, held), Holders(po, ct, ex, held),
           NEW w \in Workers, ex[w] # None
    PROVE  Holders(po, ct, [ex EXCEPT ![w] = None], held \ {ex[w]})
BY NoneOutside, EntryTypes DEF HolderTypes, Holders

\* Context::Post writes into a queue that is gone: the object is lost.
LEMMA HoldLose ==
    ASSUME NEW po, NEW ct, NEW ex, NEW held,
           HolderTypes(po, ct, ex, held), Holders(po, ct, ex, held),
           NEW t \in Threads, po[t] # None
    PROVE  Holders([po EXCEPT ![t] = None], ct, ex, held \ {po[t]})
BY NoneOutside, EntryTypes DEF HolderTypes, Holders

\* Context::Post's push: the object becomes the last entry of queue q.
LEMMA HoldPush ==
    ASSUME NEW po, NEW ct, NEW ex, NEW held,
           HolderTypes(po, ct, ex, held), Holders(po, ct, ex, held),
           NEW t \in Threads, po[t] # None, NEW q \in Queues
    PROVE  Holders([po EXCEPT ![t] = None], [ct EXCEPT ![q] = Append(@, po[t])], ex, held)
<1> DEFINE cn == [ct EXCEPT ![q] = Append(@, po[t])]  n == Len(ct[q])
<1>1. po[t] \in Objects
  BY DEF HolderTypes
<1>2. /\ n \in Nat /\ Len(cn[q]) = n + 1
      /\ \A i \in 1 .. n : cn[q][i] = ct[q][i]
      /\ cn[q][n + 1] = po[t]
  BY <1>1, AppendEntries DEF HolderTypes
<1>3. \A p \in Queues \ {q} : cn[p] = ct[p]
  BY DEF HolderTypes
<1>4. \A i \in 1 .. n + 1 : i \in 1 .. n \/ i = n + 1
  BY <1>2
<1>5. n + 1 \in 1 .. n + 1 /\ \A i \in 1 .. n : i \in 1 .. n + 1
  BY <1>2
<1> HIDE DEF cn, n
<1>n. n = Len(ct[q])
  BY DEF n
<1>6. \A o : InQueues(cn, o) <=> InQueues(ct, o) \/ o = po[t]
  BY <1>2, <1>3, <1>4, <1>5, <1>n DEF InQueues
<1>7. EntriesApart(cn)
  <2>1. EntriesApart(ct) /\ ~InQueues(ct, po[t])
    BY DEF Holders
  <2> SUFFICES ASSUME NEW p \in Queues, NEW r \in Queues,
                      NEW i \in 1 .. Len(cn[p]), NEW j \in 1 .. Len(cn[r]), cn[p][i] = cn[r][j]
               PROVE  p = r /\ i = j
    BY DEF EntriesApart
  <2>2. \/ i \in 1 .. Len(ct[p]) /\ cn[p][i] = ct[p][i]
        \/ p = q /\ i = n + 1
    BY <1>2, <1>3, <1>4, <1>n
  <2>3. \/ j \in 1 .. Len(ct[r]) /\ cn[r][j] = ct[r][j]
        \/ r = q /\ j = n + 1
    BY <1>2, <1>3, <1>4, <1>n
  <2> QED
    BY <1>2, <2>1, <2>2, <2>3 DEF EntriesApart, InQueues
<1>8. Holders([po EXCEPT ![t] = None], cn, ex, held)
  BY <1>1, <1>6, <1>7, NoneOutside, EntryTypes DEF HolderTypes, Holders
<1> QED
  BY <1>8 DEF cn

\* SerializerQueue::Run's pop: the first entry of queue q goes on the worker's stack.
LEMMA HoldPop ==
    ASSUME NEW po, NEW ct, NEW ex, NEW held,
           HolderTypes(po, ct, ex, held), Holders(po, ct, ex, held),
           NEW w \in Workers, ex[w] = None, NEW q \in Queues, ct[q] # <<>>
    PROVE  Holders(po, [ct EXCEPT ![q] = Tail(ct[q])], [ex EXCEPT ![w] = Head(ct[q])], held)
<1> DEFINE cn == [ct EXCEPT ![q] = Tail(ct[q])]  n == Len(ct[q])  a == Head(ct[q])
           en == [ex EXCEPT ![w] = Head(ct[q])]
<1>1. /\ n \in Nat \ {0} /\ Len(cn[q]) = n - 1
      /\ \A i \in 1 .. n - 1 : cn[q][i] = ct[q][i + 1]
      /\ a = ct[q][1] /\ a \in Objects
  BY TailEntries DEF HolderTypes
<1>2. \A p \in Queues \ {q} : cn[p] = ct[p]
  BY DEF HolderTypes
<1>3. /\ 1 \in 1 .. n
      /\ \A i \in 1 .. n - 1 : i + 1 \in 1 .. n /\ i + 1 # 1
      /\ \A i \in 1 .. n : i = 1 \/ (i - 1 \in 1 .. n - 1 /\ (i - 1) + 1 = i)
      /\ \A i, j \in 1 .. n - 1 : i + 1 = j + 1 => i = j
  BY <1>1
<1>4. en[w] = a /\ \A v \in Workers \ {w} : en[v] = ex[v]
  BY DEF HolderTypes
<1> HIDE DEF cn, n, a, en
<1>n. n = Len(ct[q])
  BY DEF n
<1>5. EntriesApart(ct)
  BY DEF Holders
<1>6. InQueues(ct, a) /\ ~InQueues(cn, a)
  <2>1. InQueues(ct, a)
    BY <1>1, <1>3, <1>n DEF InQueues
  <2>2. ASSUME NEW p \in Queues, NEW i \in 1 .. Len(cn[p]), cn[p][i] = a PROVE FALSE
    <3>1. CASE p = q
      BY <1>1, <1>3, <1>5, <1>n, <2>2, <3>1 DEF EntriesApart
    <3>2. CASE p # q
      BY <1>1, <1>2, <1>3, <1>5, <1>n, <2>2, <3>2 DEF EntriesApart
    <3> QED
      BY <3>1, <3>2
  <2> QED
    BY <2>1, <2>2 DEF InQueues
<1>7. \A o : InQueues(cn, o) <=> InQueues(ct, o) /\ o # a
  <2>1. ASSUME NEW p \in Queues, NEW i \in 1 .. Len(cn[p])
        PROVE  InQueues(ct, cn[p][i])
    <3>1. CASE p = q
      BY <1>1, <1>3, <1>n, <2>1, <3>1 DEF InQueues
    <3>2. CASE p # q
      BY <1>2, <2>1, <3>2 DEF InQueues
    <3> QED
      BY <3>1, <3>2
  <2>2. ASSUME NEW p \in Queues, NEW i \in 1 .. Len(ct[p]), ct[p][i] # a
        PROVE  InQueues(cn, ct[p][i])
    <3>1. CASE p = q
      <4>1. i - 1 \in 1 .. n - 1 /\ (i - 1) + 1 = i
        BY <1>1, <1>3, <1>n, <2>2, <3>1
      <4> QED
        BY <1>1, <1>n, <2>2, <3>1, <4>1 DEF InQueues
    <3>2. CASE p # q
      BY <1>2, <2>2, <3>2 DEF InQueues
    <3> QED
      BY <3>1, <3>2
  <2>3. ASSUME NEW o, InQueues(cn, o) PROVE InQueues(ct, o)
    <3>1. PICK p \in Queues : \E i \in 1 .. Len(cn[p]) : cn[p][i] = o
      BY <2>3 DEF InQueues
    <3>2. PICK i \in 1 .. Len(cn[p]) : cn[p][i] = o
      BY <3>1
    <3> QED
      BY <2>1, <3>2
  <2>4. ASSUME NEW o, InQueues(ct, o), o # a PROVE InQueues(cn, o)
    <3>1. PICK p \in Queues : \E i \in 1 .. Len(ct[p]) : ct[p][i] = o
      BY <2>4 DEF InQueues
    <3>2. PICK i \in 1 .. Len(ct[p]) : ct[p][i] = o
      BY <3>1
    <3> QED
      BY <2>2, <2>4, <3>2
  <2> QED
    BY <1>6, <2>3, <2>4
<1>8. EntriesApart(cn)
  <2> SUFFICES ASSUME NEW p \in Queues, NEW r \in Queues,
                      NEW i \in 1 .. Len(cn[p]), NEW j \in 1 .. Len(cn[r]), cn[p][i] = cn[r][j]
               PROVE  p = r /\ i = j
    BY DEF EntriesApart
  <2>1. \/ p # q /\ i \in 1 .. Len(ct[p]) /\ cn[p][i] = ct[p][i]
        \/ p = q /\ i \in 1 .. n - 1 /\ i + 1 \in 1 .. Len(ct[p]) /\ cn[p][i] = ct[p][i + 1]
    BY <1>1, <1>2, <1>3, <1>n
  <2>2. \/ r # q /\ j \in 1 .. Len(ct[r]) /\ cn[r][j] = ct[r][j]
        \/ r = q /\ j \in 1 .. n - 1 /\ j + 1 \in 1 .. Len(ct[r]) /\ cn[r][j] = ct[r][j + 1]
    BY <1>1, <1>2, <1>3, <1>n
  <2> QED
    BY <1>3, <1>5, <2>1, <2>2 DEF EntriesApart
<1>9. /\ a # None /\ a \in held
      /\ \A t \in Threads : po[t] # a
      /\ \A v \in Workers : ex[v] # a
  BY <1>1, <1>6, NoneOutside DEF Holders
<1>10. \A o \in held : \/ \E t \in Threads : po[t] = o
                       \/ \E v \in Workers : en[v] = o
                       \/ InQueues(cn, o)
  <2>1. \A v \in Workers : ex[v] \in held => en[v] = ex[v]
    BY <1>4, NoneOutside DEF HolderTypes
  <2> QED
    BY <1>4, <1>7, <2>1 DEF Holders
<1>11. Holders(po, cn, en, held)
  BY <1>4, <1>6, <1>7, <1>8, <1>9, <1>10 DEF Holders
<1> QED
  BY <1>11 DEF cn, en

\* ~SerializerQueue: the entries of the queues of qs are destroyed unrun.
LEMMA HoldDrop ==
    ASSUME NEW po, NEW ct, NEW ex, NEW held,
           HolderTypes(po, ct, ex, held), Holders(po, ct, ex, held), NEW qs,
           NEW cn, \A q \in Queues : cn[q] = IF q \in qs THEN <<>> ELSE ct[q],
           NEW hn, \A o : o \in hn <=> /\ o \in held
                                       /\ \A q \in Queues \cap qs :
                                             \A i \in 1 .. Len(ct[q]) : ct[q][i] # o
    PROVE  Holders(po, cn, ex, hn)
<1>1. \A q \in Queues : \A i \in 1 .. Len(cn[q]) :
         q \notin qs /\ i \in 1 .. Len(ct[q]) /\ cn[q][i] = ct[q][i]
  OBVIOUS
<1>2. \A q \in Queues \ qs : cn[q] = ct[q]
  OBVIOUS
<1>3. \A o : InQueues(cn, o) => InQueues(ct, o)
  BY <1>1 DEF InQueues
<1>4. \A o \in Objects : InQueues(cn, o) => o \in hn
  <2> SUFFICES ASSUME NEW q \in Queues, NEW i \in 1 .. Len(cn[q]), cn[q][i] \in Objects
               PROVE  cn[q][i] \in hn
    BY DEF InQueues
  <2>1. q \notin qs /\ i \in 1 .. Len(ct[q]) /\ cn[q][i] = ct[q][i]
    BY <1>1
  <2>2. ct[q][i] \in held
    BY <2>1 DEF Holders, InQueues
  <2>3. \A p \in Queues \cap qs : \A j \in 1 .. Len(ct[p]) : ct[p][j] # ct[q][i]
    BY <2>1 DEF Holders, EntriesApart
  <2> QED
    BY <2>1, <2>2, <2>3
<1>5. \A o \in hn : InQueues(ct, o) => InQueues(cn, o)
  <2> SUFFICES ASSUME NEW o \in hn, NEW q \in Queues, NEW i \in 1 .. Len(ct[q]), ct[q][i] = o
               PROVE  InQueues(cn, o)
    BY DEF InQueues
  <2>1. q \notin qs
    OBVIOUS
  <2> QED
    BY <2>1, <1>2 DEF InQueues
<1>6. EntriesApart(cn)
  BY <1>1 DEF EntriesApart, Holders
<1>7. /\ \A t \in Threads : po[t] # None => po[t] \in hn
      /\ \A w \in Workers : ex[w] # None => ex[w] \in hn
  BY DEF Holders, InQueues
<1> QED
  BY <1>3, <1>4, <1>5, <1>6, <1>7 DEF Holders

-----------------------------------------------------------------------------
(* Who holds the objects.                                                   *)

LEMMA HolderTypesNow ==
    TypeOK => HolderTypes(pobj, content, executor, HeldObjects)
BY DEF TypeOK, HolderTypes, HeldObjects

LEMMA SameHolders ==
    ASSUME EntryOK, UNCHANGED <<pobj, content, executor, token>>,
           \A q \in Queues : q \in live => q \in live'
    PROVE  EntryOK'
BY DEF EntryOK, HeldObjects

\* Deleting queues: the objects in them are not held any more.
LEMMA DropHolders ==
    ASSUME TypeOK, EntryOK, NEW qs \in SUBSET Queues, Drop(qs), UNCHANGED <<pobj, executor>>
    PROVE  EntryOK'
<1>1. /\ content' = [q \in Queues |-> IF q \in qs THEN <<>> ELSE content[q]]
      /\ live' = live \ qs
  BY DEF Drop
<1>2. \A q \in Queues : \A o : o \in Range(content[q])
                                 <=> \E i \in 1 .. Len(content[q]) : content[q][i] = o
  BY DEF TypeOK, Range
<1>3. \A q \in Queues \ live : content[q] = <<>>
  BY DEF EntryOK
<1> DEFINE hn == {o \in HeldObjects : \A q \in Queues \cap qs :
                                  \A i \in 1 .. Len(content[q]) : content[q][i] # o}
<1>4. \A o \in Objects :
          token'[o] = IF \E q \in qs : o \in Range(content[q]) THEN "lost" ELSE token[o]
  BY DEF Drop
<1>5. \A o \in Objects : o \in HeldObjects' <=> o \in hn
  <2> SUFFICES ASSUME NEW o \in Objects PROVE token'[o] = "held" <=> o \in hn
    BY DEF HeldObjects
  <2>1. CASE \E q \in qs : o \in Range(content[q])
    BY <1>2, <1>4, <2>1
  <2>2. CASE ~\E q \in qs : o \in Range(content[q])
    BY <1>2, <1>4, <2>2 DEF HeldObjects
  <2> QED
    BY <2>1, <2>2
<1>6. HeldObjects' = hn
  BY <1>5 DEF HeldObjects
<1>7. Holders(pobj, content', executor, hn)
  <2>1. /\ HolderTypes(pobj, content, executor, HeldObjects)
        /\ Holders(pobj, content, executor, HeldObjects)
    BY HolderTypesNow DEF EntryOK
  <2>2. \A o : o \in hn <=> /\ o \in HeldObjects
                            /\ \A q \in Queues \cap qs :
                                  \A i \in 1 .. Len(content[q]) : content[q][i] # o
    OBVIOUS
  <2>3. \A q \in Queues : content'[q] = IF q \in qs THEN <<>> ELSE content[q]
    BY <1>1
  <2> HIDE DEF hn
  <2> QED
    BY <2>1, <2>2, <2>3, HoldDrop
<1>8. \A q \in Queues \ live' : content'[q] = <<>>
  BY <1>1, <1>3
<1> HIDE DEF hn
<1> QED
  BY <1>6, <1>7, <1>8 DEF EntryOK

LEMMA NextEntryOK ==
    TypeOK /\ LocalsOK /\ EntryOK /\ [Next]_vars => EntryOK'
<1> SUFFICES ASSUME TypeOK, LocalsOK, EntryOK, [Next]_vars PROVE EntryOK'
  OBVIOUS
<1>t. /\ content \in [Queues -> Seq(Objects)]
      /\ live \subseteq Queues
      /\ token \in [Objects -> Tokens]
      /\ executor \in [Workers -> Objects \cup {None}]
      /\ pobj \in [Threads -> Objects \cup {None}]
  BY DEF TypeOK
<1>h. /\ HolderTypes(pobj, content, executor, HeldObjects)
      /\ Holders(pobj, content, executor, HeldObjects)
      /\ \A q \in Queues \ live : content[q] = <<>>
  BY HolderTypesNow DEF EntryOK
<1>n. None \notin Objects
  BY NoneOutside
<1> USE DEF runVars, postVars, quitVars
<1>1. ASSUME NEW t \in Threads, NEW o \in Objects, Post(t, o) PROVE EntryOK'
  <2>1. /\ ppc[t] = "idle" /\ token[o] = "none"
        /\ pobj' = [pobj EXCEPT ![t] = o]
        /\ token' = [token EXCEPT ![o] = "held"]
        /\ UNCHANGED <<content, executor, live>>
    BY <1>1 DEF Post, StartPost
  <2>2. pobj[t] = None /\ o \in Objects \ HeldObjects
    BY <1>t, <2>1 DEF LocalsOK, HeldObjects
  <2>3. HeldObjects' = HeldObjects \cup {o}
    BY <1>t, <2>1 DEF HeldObjects
  <2>4. Holders(pobj', content, executor, HeldObjects \cup {o})
    BY <1>h, <2>1, <2>2, HoldNew
  <2> QED
    BY <1>h, <2>1, <2>3, <2>4 DEF EntryOK
<1>2. ASSUME NEW t \in Threads, PostLoad(t) PROVE EntryOK'
  BY <1>2, SameHolders DEF PostLoad
<1>3. ASSUME NEW t \in Threads, PostPush(t) PROVE EntryOK'
  <2>1. /\ ppc[t] = "loaded"
        /\ pobj' = [pobj EXCEPT ![t] = None]
        /\ UNCHANGED <<executor, live>>
    BY <1>3 DEF PostPush
  <2>2. pobj[t] \in Objects /\ pobj[t] # None
    BY <1>n, <2>1 DEF LocalsOK
  <2>3. CASE pque[t] \in live
    <3>1. /\ content' = [content EXCEPT ![pque[t]] = Append(@, pobj[t])]
          /\ UNCHANGED token
      BY <1>3, <2>3 DEF PostPush
    <3>2. pque[t] \in Queues
      BY <1>t, <2>3
    <3>3. Holders(pobj', content', executor, HeldObjects)
      BY <1>h, <2>1, <2>2, <3>1, <3>2, HoldPush
    <3>4. \A q \in Queues \ live : content'[q] = <<>>
      BY <1>h, <1>t, <2>3, <3>1
    <3>5. HeldObjects' = HeldObjects
      BY <3>1 DEF HeldObjects
    <3> QED
      BY <2>1, <3>3, <3>4, <3>5 DEF EntryOK
  <2>4. CASE pque[t] \notin live
    <3>1. /\ token' = [token EXCEPT ![pobj[t]] = "lost"]
          /\ UNCHANGED content
      BY <1>3, <2>4 DEF PostPush
    <3>2. HeldObjects' = HeldObjects \ {pobj[t]}
      BY <1>t, <2>2, <3>1 DEF HeldObjects
    <3>3. Holders(pobj', content, executor, HeldObjects \ {pobj[t]})
      BY <1>h, <2>1, <2>2, HoldLose
    <3> QED
      BY <1>h, <2>1, <3>1, <3>2, <3>3 DEF EntryOK
  <2> QED
    BY <2>3, <2>4
<1>4. ASSUME NEW w \in Workers, RunEnter(w) PROVE EntryOK'
  <2>1. UNCHANGED <<pobj, content, executor, token>> /\ live \subseteq live'
    BY <1>4 DEF RunEnter
  <2> QED
    BY <2>1, SameHolders
<1>5. ASSUME NEW w \in Workers,
             \/ RunNext(w) \/ RunLoad(w) \/ RunSwap(w) \/ RunWaitPush(w)
             \/ RunWaitPop(w) \/ RunReposted(w) \/ RunDrained(w) \/ Join(w)
      PROVE  EntryOK'
  <2>1. UNCHANGED <<pobj, content, executor, token, live>>
    BY <1>5 DEF RunNext, RunLoad, RunSwap, RunWaitPush, RunWaitPop, RunReposted,
                RunDrained, Join
  <2> QED
    BY <2>1, SameHolders
<1>6. ASSUME NEW w \in Workers, RunPop(w) PROVE EntryOK'
  <2> DEFINE q == localQue[w]
  <2>1. pc[w] = "drain" /\ q \in Queues /\ content[q] # <<>>
    BY <1>6 DEF RunPop, LocalsOK, Drained
  <2>2. executor[w] = None
    BY <1>t, <2>1 DEF LocalsOK
  <2>3. /\ executor' = [executor EXCEPT ![w] = Head(content[q])]
        /\ content' = [content EXCEPT ![q] = Tail(content[q])]
        /\ UNCHANGED <<live, pobj, token>>
    BY <1>6 DEF RunPop, AfterPop
  <2> HIDE DEF q
  <2>4. Holders(pobj, content', executor', HeldObjects)
    BY <1>h, <2>1, <2>2, <2>3, HoldPop
  <2>5. \A p \in Queues \ live : content'[p] = <<>>
    BY <1>h, <1>t, <2>1, <2>3
  <2>6. HeldObjects' = HeldObjects
    BY <2>3 DEF HeldObjects
  <2> QED
    BY <2>3, <2>4, <2>5, <2>6 DEF EntryOK
<1>7. ASSUME NEW w \in Workers, RunRepost(w) PROVE EntryOK'
  <2>1. /\ pc[w] = "exec" /\ ppc[w] = "idle"
        /\ pobj' = [pobj EXCEPT ![w] = executor[w]]
        /\ executor' = [executor EXCEPT ![w] = None]
        /\ UNCHANGED <<content, live, token>>
    BY <1>7 DEF RunRepost, StartPost
  <2>2. executor[w] # None /\ pobj[w] = None
    BY <1>n, <1>t, <2>1, WorkersAreThreads DEF LocalsOK
  <2>3. Holders(pobj', content, executor', HeldObjects)
    BY <1>h, <2>1, <2>2, HoldRepost
  <2>4. HeldObjects' = HeldObjects
    BY <2>1 DEF HeldObjects
  <2> QED
    BY <1>h, <2>1, <2>3, <2>4 DEF EntryOK
<1>8. ASSUME NEW w \in Workers, RunObjectEnd(w) \/ RunThrows(w) PROVE EntryOK'
  <2>1. /\ pc[w] = "exec"
        /\ executor' = [executor EXCEPT ![w] = None]
        /\ \E x \in {"none", "stuck"} : token' = [token EXCEPT ![executor[w]] = x]
        /\ UNCHANGED <<content, live, pobj>>
    BY <1>8 DEF RunObjectEnd, RunThrows
  <2>2. executor[w] \in Objects /\ executor[w] # None
    BY <1>n, <2>1 DEF LocalsOK
  <2>3. HeldObjects' = HeldObjects \ {executor[w]}
    BY <1>t, <2>1, <2>2 DEF HeldObjects
  <2>4. Holders(pobj, content, executor', HeldObjects \ {executor[w]})
    BY <1>h, <2>1, <2>2, HoldEnd
  <2> QED
    BY <1>h, <2>1, <2>3, <2>4 DEF EntryOK
<1>9. ASSUME NEW w \in Workers, RunExit(w) PROVE EntryOK'
  <2>1. localQue[w] \in Queues
    BY <1>9 DEF RunExit, LocalsOK
  <2> QED
    BY <1>9, <2>1, DropHolders DEF RunExit
<1>10. ASSUME Destroy PROVE EntryOK'
  <2>1. Owned \subseteq Queues
    BY DEF Owned, TypeOK, Range
  <2> QED
    BY <1>10, <2>1, DropHolders DEF Destroy
<1>11. ASSUME Stop \/ StopGroup \/ UNCHANGED vars PROVE EntryOK'
  BY <1>11, SameHolders DEF Stop, StopGroup, vars
<1> QED
  BY <1>1, <1>2, <1>3, <1>4, <1>5, <1>6, <1>7, <1>8, <1>9, <1>10, <1>11
    DEF Next, PostStep, RunStep

-----------------------------------------------------------------------------
(* The inductive invariant.                                                 *)

\* The slots and _waitQue start with different queues, and nobody holds an object.
LEMMA InitIInv == Init => IInv
<1> SUFFICES ASSUME Init PROVE IInv
  OBVIOUS
<1>1. PICK q \in [1 .. 2 * Slots -> Queues] :
         /\ IsInjective(q)
         /\ globalQue = [i \in SlotIdx |-> q[i + 1]]
         /\ waitQue = [i \in 1 .. Slots |-> q[Slots + i]]
         /\ live = Range(q)
  BY DEF Init
<1>2. Slots \in Nat \ {0}
  BY SlotsAssumption
<1>3. /\ \A i \in SlotIdx : i + 1 \in 1 .. 2 * Slots /\ i + 1 <= Slots
      /\ \A j \in 1 .. Slots : Slots + j \in 1 .. 2 * Slots /\ Slots + j > Slots
      /\ \A k \in 1 .. 2 * Slots : \/ k - 1 \in SlotIdx /\ (k - 1) + 1 = k
                                   \/ k - Slots \in 1 .. Slots /\ Slots + (k - Slots) = k
      /\ 0 \in SlotIdx
  BY <1>2 DEF SlotIdx
<1>4. waitQue \in Seq(Queues) /\ Len(waitQue) = Slots
  BY <1>1, <1>2, <1>3
<1>5. TypeOK
  <2>1. globalQue \in [SlotIdx -> Queues] /\ live \subseteq Queues
    BY <1>1, <1>3 DEF Range
  <2>2. /\ content \in [Queues -> Seq(Objects)]
        /\ swapCounter \in SlotIdx /\ globalCounter \in SlotIdx
        /\ swapIndx \in [Workers -> SlotIdx] /\ pidx \in [Threads -> SlotIdx]
    BY <1>3 DEF Init
  <2>3. /\ pc \in [Workers -> RunPC] /\ ppc \in [Threads -> PostPC]
        /\ token \in [Objects -> Tokens]
        /\ stop \in BOOLEAN /\ groupStop \in BOOLEAN /\ destroyed \in BOOLEAN
    BY DEF Init, RunPC, PostPC, Tokens
  <2>4. /\ localQue \in [Workers -> Queues \cup {None}]
        /\ expect \in [Workers -> Queues \cup {None}]
        /\ executor \in [Workers -> Objects \cup {None}]
        /\ pobj \in [Threads -> Objects \cup {None}]
        /\ pque \in [Threads -> Queues \cup {None}]
    BY DEF Init
  <2> QED
    BY <1>4, <2>1, <2>2, <2>3, <2>4 DEF TypeOK
<1>6. LocalsOK
  BY NoneOutside, WorkersAreThreads DEF Init, LocalsOK
<1>7. QuitOK
  BY DEF Init, QuitOK
<1>8. EntryOK
  <2>1. /\ \A s \in Queues : Len(content[s]) = 0
        /\ HeldObjects = {}
        /\ \A t \in Threads : pobj[t] = None
        /\ \A w \in Workers : executor[w] = None
    BY DEF Init, HeldObjects
  <2>2. \A o : ~InQueues(content, o)
    BY <2>1 DEF InQueues
  <2>3. EntriesApart(content)
    BY <2>1 DEF EntriesApart
  <2> QED
    BY <2>1, <2>2, <2>3 DEF Init, EntryOK, Holders
<1>9. WaitLen
  <2>1. Popping = {}
    BY DEF Init, Popping
  <2> QED
    BY <1>2, <1>4, <2>1, FS_EmptySet DEF WaitLen
<1>10. OwnOK
  <2>1. \A w \in Workers : Hand[w] = None
    BY DEF Init, Hand, InLocal
  <2>2. /\ \A i \in SlotIdx : globalQue[i] = q[i + 1]
        /\ \A j \in 1 .. Slots : waitQue[j] = q[Slots + j]
    BY <1>1
  <2>3. \A i, j \in 1 .. 2 * Slots : q[i] = q[j] => i = j
    BY <1>1 DEF IsInjective
  <2>4. /\ \A i, j \in SlotIdx : globalQue[i] = globalQue[j] => i = j
        /\ \A i, j \in 1 .. Slots : waitQue[i] = waitQue[j] => i = j
        /\ \A i \in SlotIdx, j \in 1 .. Slots : globalQue[i] # waitQue[j]
    <3>1. \A i, j \in SlotIdx : i + 1 = j + 1 => i = j
      BY DEF SlotIdx
    <3>2. \A i, j \in 1 .. Slots : Slots + i = Slots + j => i = j
      BY <1>2
    <3>3. \A i \in SlotIdx, j \in 1 .. Slots : i + 1 # Slots + j
      BY <1>2 DEF SlotIdx
    <3> QED
      BY <1>3, <2>2, <2>3, <3>1, <3>2, <3>3
  <2>5. /\ \A i \in SlotIdx : globalQue[i] \in live /\ globalQue[i] # None
        /\ \A j \in 1 .. Slots : waitQue[j] \in live /\ waitQue[j] # None
    BY <1>1, <1>3, <2>2, NoneOutside DEF Range
  <2>6. \A p \in live : \/ \E i \in SlotIdx : globalQue[i] = p
                        \/ \E j \in 1 .. Slots : waitQue[j] = p
    <3> SUFFICES ASSUME NEW p \in live
                 PROVE  \/ \E i \in SlotIdx : globalQue[i] = p
                        \/ \E j \in 1 .. Slots : waitQue[j] = p
      OBVIOUS
    <3>1. PICK k \in 1 .. 2 * Slots : q[k] = p
      BY <1>1 DEF Range
    <3> QED
      BY <1>3, <2>2, <3>1
  <2> QED
    BY <1>4, <2>1, <2>4, <2>5, <2>6 DEF OwnOK, Owners
<1> QED
  BY <1>5, <1>6, <1>7, <1>8, <1>9, <1>10 DEF IInv

LEMMA Inductive == Spec => []IInv
<1>1. IInv /\ [Next]_vars => IInv'
  <2> SUFFICES ASSUME IInv, [Next]_vars PROVE IInv'
    OBVIOUS
  <2>1. destroyed => destroyed'
    BY DEF Next, vars, runVars, postVars, quitVars, PostStep, RunStep, Post, PostLoad,
           PostPush, RunEnter, RunNext, RunLoad, RunSwap, RunWaitPush, RunWaitPop, RunPop,
           RunRepost, RunReposted, RunObjectEnd, RunThrows, RunDrained, RunExit, Join,
           Stop, StopGroup, Destroy
  <2> QED
    BY <2>1, NextTypeOK, NextLocalsOK, NextQuitOK, NextEntryOK, NextOwnOK, NextWaitLen
      DEF IInv
<1> QED
  BY InitIInv, <1>1, PTL DEF Spec

\* The members of Context and the locals of its functions keep their types.
THEOREM TypeCorrect == Spec => []TypeOK
BY Inductive, PTL DEF IInv

-----------------------------------------------------------------------------
(* The properties of Context.                                               *)

\* A set with at most one element has the cardinality of its being non-empty.
LEMMA AtMostOne ==
    ASSUME NEW S, \A x, y \in S : x = y
    PROVE  Cardinality(S) = IF S = {} THEN 0 ELSE 1
<1>1. CASE S = {}
  BY <1>1, FS_EmptySet
<1>2. CASE S # {}
  <2>1. PICK x \in S : TRUE
    BY <1>2
  <2>2. S = {x}
    BY <2>1
  <2> QED
    BY <1>2, <2>2, FS_Singleton
<1> QED
  BY <1>1, <1>2

LEMMA InHandsIsHand ==
    ASSUME TypeOK, NEW w \in Workers, NEW q \in Queues
    PROVE  q \in InHands(w) <=> Hand[w] = q
BY NoneOutside DEF InHands, Hand, InLocal, TypeOK, RunPC

\* README.md "Concurrency & Thread Safety Model": every SerializerQueue has one
\* consumer at a time and is deleted once, and the Pop of _waitQue in Context::Run
\* never fails, whatever the number of workers, slots and posts.
THEOREM QueuesOwnedOnce == Spec => []QueueOwnership
<1>1. IInv => QueueOwnership
  <2> SUFFICES ASSUME IInv, ~destroyed PROVE QueueOwnership
    BY DEF QueueOwnership
  <2>1. TypeOK /\ OwnOK /\ WaitLen
    BY DEF IInv
  <2>2. ASSUME NEW q \in Queues
        PROVE  Cardinality({i \in SlotIdx : globalQue[i] = q})
               + Cardinality({i \in DOMAIN waitQue : waitQue[i] = q})
               + Cardinality({w \in Workers : q \in InHands(w)})
                   = IF q \in live THEN 1 ELSE 0
    <3> DEFINE A == {i \in SlotIdx : globalQue[i] = q}
               B == {i \in DOMAIN waitQue : waitQue[i] = q}
               C == {w \in Workers : q \in InHands(w)}
    <3>1. C = {w \in Workers : Hand[w] = q} /\ DOMAIN waitQue = 1 .. Len(waitQue)
      BY <2>1, InHandsIsHand DEF TypeOK
    <3>2. q # None
      BY NoneOutside
    <3>3. /\ \A x, y \in A : x = y
          /\ \A x, y \in B : x = y
          /\ \A x, y \in C : x = y
      BY <2>1, <3>1, <3>2 DEF OwnOK, Owners
    <3>4. /\ A # {} => B = {} /\ C = {}
          /\ B # {} => C = {}
          /\ q \in live <=> A # {} \/ B # {} \/ C # {}
      BY <2>1, <3>1, <3>2 DEF OwnOK, Owners
    <3> HIDE DEF A, B, C
    <3>5. /\ Cardinality(A) = IF A = {} THEN 0 ELSE 1
          /\ Cardinality(B) = IF B = {} THEN 0 ELSE 1
          /\ Cardinality(C) = IF C = {} THEN 0 ELSE 1
      BY <3>3, AtMostOne
    <3>6. Cardinality(A) + Cardinality(B) + Cardinality(C) = IF q \in live THEN 1 ELSE 0
      BY <3>4, <3>5
    <3> QED
      BY <3>6 DEF A, B, C
  <2> QED
    BY <2>1, <2>2 DEF QueueOwnership, WaitLen, Popping
<1> QED
  BY <1>1, Inductive, PTL

\* README.md "Context-Based Execution": an object that was posted is in one place
\* until it is run; rotating queues lose no entry and hand out none twice.
THEOREM EntriesHeldOnce == Spec => []EntryExact
<1>1. IInv => EntryExact
  <2> SUFFICES ASSUME IInv, NEW o \in Objects
               PROVE  Cardinality({t \in Threads : pobj[t] = o})
                      + Cardinality(Entries(o))
                      + Cardinality({w \in Workers : executor[w] = o})
                          = IF token[o] = "held" THEN 1 ELSE 0
    BY DEF EntryExact
  <2>1. TypeOK /\ EntryOK /\ Holders(pobj, content, executor, HeldObjects)
    BY DEF IInv, EntryOK
  <2>2. o # None
    BY NoneOutside
  <2> DEFINE A == {t \in Threads : pobj[t] = o}
             C == {w \in Workers : executor[w] = o}
  <2>3. /\ \A x, y \in A : x = y
        /\ \A x, y \in C : x = y
    BY <2>1, <2>2 DEF Holders
  <2>4. \A e \in Entries(o) :
           \E q \in Queues : \E i \in 1 .. Len(content[q]) : e = <<q, i>> /\ content[q][i] = o
    BY <2>1 DEF Entries, TypeOK
  <2>5. \A x, y \in Entries(o) : x = y
    <3> SUFFICES ASSUME NEW x \in Entries(o), NEW y \in Entries(o) PROVE x = y
      OBVIOUS
    <3>1. PICK p \in Queues : \E i \in 1 .. Len(content[p]) : x = <<p, i>> /\ content[p][i] = o
      BY <2>4
    <3>2. PICK i \in 1 .. Len(content[p]) : x = <<p, i>> /\ content[p][i] = o
      BY <3>1
    <3>3. PICK q \in Queues : \E j \in 1 .. Len(content[q]) : y = <<q, j>> /\ content[q][j] = o
      BY <2>4
    <3>4. PICK j \in 1 .. Len(content[q]) : y = <<q, j>> /\ content[q][j] = o
      BY <3>3
    <3> QED
      BY <2>1, <3>2, <3>4 DEF Holders, EntriesApart
  <2>6. Entries(o) # {} <=> InQueues(content, o)
    <3>1. Entries(o) # {} => InQueues(content, o)
      BY <2>4 DEF InQueues
    <3>2. ASSUME InQueues(content, o) PROVE Entries(o) # {}
      <4>1. PICK q \in Queues : \E i \in 1 .. Len(content[q]) : content[q][i] = o
        BY <3>2 DEF InQueues
      <4>2. PICK i \in 1 .. Len(content[q]) : content[q][i] = o
        BY <4>1
      <4>3. q \in live
        BY <2>1, <4>2 DEF EntryOK
      <4>4. i \in DOMAIN content[q]
        BY <2>1, <4>2 DEF TypeOK
      <4>5. <<q, i>> \in {q} \X {k \in DOMAIN content[q] : content[q][k] = o}
        BY <4>2, <4>4
      <4> QED
        BY <4>3, <4>5 DEF Entries
    <3> QED
      BY <3>1, <3>2
  <2>7. /\ A # {} => C = {} /\ ~InQueues(content, o)
        /\ C # {} => ~InQueues(content, o)
        /\ token[o] = "held" <=> A # {} \/ C # {} \/ InQueues(content, o)
    BY <2>1, <2>2 DEF Holders, HeldObjects
  <2> DEFINE B == Entries(o)
  <2> HIDE DEF A, B, C
  <2>8. /\ Cardinality(A) = IF A = {} THEN 0 ELSE 1
        /\ Cardinality(B) = IF B = {} THEN 0 ELSE 1
        /\ Cardinality(C) = IF C = {} THEN 0 ELSE 1
    BY <2>3, <2>5, AtMostOne DEF B
  <2>9. B # {} <=> InQueues(content, o)
    BY <2>6 DEF B
  <2>10. Cardinality(A) + Cardinality(B) + Cardinality(C) = IF token[o] = "held" THEN 1 ELSE 0
    BY <2>7, <2>8, <2>9
  <2> QED
    BY <2>10 DEF A, B, C
<1> QED
  BY <1>1, Inductive, PTL

\* Before Context::Stop no posted object is lost, and ~Context leaves no
\* SerializerQueue behind.
THEOREM ShutsDownCleanly == Spec => []CleanShutdown
<1>1. IInv => CleanShutdown
  BY DEF IInv, QuitOK, CleanShutdown
<1> QED
  BY <1>1, Inductive, PTL
=============================================================================
