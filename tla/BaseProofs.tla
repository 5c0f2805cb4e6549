----------------------------- MODULE BaseProofs -----------------------------
(***************************************************************************)
(* Theorems about TSharedPtr, MemoryPool, Param and Calendar as MCBase has     *)
(* them, for any holders, objects, threads, chunks, blocks, limits and units.  *)
(*                                                                          *)
(* TSharedPtr: a reference count is exact, nobody holds a dead object, and    *)
(* an object is deleted once.  What RefsExact needs besides itself: a holder   *)
(* that has found the last reference (between Reset's fetch_sub and the        *)
(* deleter) is the only one that still names the object, whose count is zero,  *)
(* and a count that is zero has such a holder.                               *)
(*                                                                          *)
(* MemoryPool: every block of every chunk holds an object or is at one place  *)
(* of one thread's free list.  BlocksOnce says that such lists exist, so the   *)
(* proof names them: given the lists of a state it shows what each of the       *)
(* three ways to take or give back a block makes of them (the list without     *)
(* its first block, a new chunk, the block put first), and that the words of   *)
(* the blocks link exactly those.  A release on a thread without a pool ends    *)
(* the process and moves no block.                                           *)
(*                                                                          *)
(* Param: a tame value is inside the limits, and wrapping is the identity on    *)
(* a tame sum.                                                              *)
(*                                                                          *)
(* Calendar: a moment is a day times DayLength and a rest, and a day is in one    *)
(* month, since months begin one after the other (MonthsAscend).  That is the   *)
(* std::tm of the moment (TmOf); the periods have their values in days          *)
(* (PeriodsAt), and moving by months adds to the month (MoveAt).              *)
(***************************************************************************)
EXTENDS MCBase, FiniteSetTheorems, WellFoundedInduction, TLAPS

-----------------------------------------------------------------------------
(* TSharedPtr.                                                              *)

Pointers == Objects \cup {0}

SharedTypeOK ==
    /\ ptr \in [Holders -> Pointers]
    /\ member \in [Objects -> Pointers]
    /\ refCount \in [Objects -> Nat]
    /\ alive \subseteq Objects
    /\ deleting \in [Holders -> Pointers]
    /\ deletes \in [Objects -> Nat]

\* The holders and the members that count as references to o.
Held(o)   == {h \in Holders : ptr[h] = o /\ deleting[h] # o}
Inside(o) == {x \in alive : member[x] = o}

CountsOK == \A o \in alive : refCount[o] = Cardinality(Held(o)) + Cardinality(Inside(o))

\* Nobody names a dead object, and a dead one is as if new.
AliveOK ==
    /\ \A h \in Holders : ptr[h] # 0 => ptr[h] \in alive
    /\ \A x \in Objects : member[x] # 0 => member[x] \in alive
    /\ \A o \in Objects \ alive : refCount[o] = 0 /\ member[o] = 0

\* One holder deletes an object whose count has become zero.
DeletingOK ==
    /\ \A h \in Holders : deleting[h] # 0 => ptr[h] = deleting[h] /\ refCount[ptr[h]] = 0
    /\ \A h, g \in Holders : deleting[h] # 0 /\ deleting[h] = deleting[g] => h = g
    /\ \A o \in alive : refCount[o] = 0 => \E h \in Holders : deleting[h] = o
    /\ \A o \in alive : deletes[o] = 0
    /\ \A o \in Objects : deletes[o] <= 1

SharedInv == SharedTypeOK /\ CountsOK /\ AliveOK /\ DeletingOK

-----------------------------------------------------------------------------
(* Counting.                                                                *)

\* A finite set that differs from another in one element only.
LEMMA CardOne ==
    ASSUME NEW A, NEW B, IsFiniteSet(A), NEW x, \A y : y # x => (y \in A <=> y \in B)
    PROVE  /\ IsFiniteSet(B)
           /\ Cardinality(A) \in Nat /\ Cardinality(B) \in Nat
           /\ (x \in A <=> x \in B) => Cardinality(B) = Cardinality(A)
           /\ x \in A /\ x \notin B => Cardinality(A) = Cardinality(B) + 1
           /\ x \notin A /\ x \in B => Cardinality(B) = Cardinality(A) + 1
<1>1. CASE x \in A <=> x \in B
  <2>1. A = B
    BY <1>1
  <2> QED
    BY <1>1, <2>1, FS_CardinalityType
<1>2. CASE x \in A /\ x \notin B
  <2>1. B = A \ {x}
    BY <1>2
  <2>2. IsFiniteSet(B) /\ Cardinality(B) = Cardinality(A) - 1
    BY <1>2, <2>1, FS_RemoveElement
  <2>3. Cardinality(A) \in Nat /\ Cardinality(B) \in Nat
    BY <2>2, FS_CardinalityType
  <2> QED
    BY <1>2, <2>2, <2>3
<1>3. CASE x \notin A /\ x \in B
  <2>1. B = A \cup {x}
    BY <1>3
  <2>2. IsFiniteSet(B) /\ Cardinality(B) = Cardinality(A) + 1
    BY <1>3, <2>1, FS_AddElement
  <2>3. Cardinality(A) \in Nat /\ Cardinality(B) \in Nat
    BY <2>2, FS_CardinalityType
  <2> QED
    BY <1>3, <2>2, <2>3
<1> QED
  BY <1>1, <1>2, <1>3

LEMMA CardMember ==
    ASSUME NEW A, IsFiniteSet(A)
    PROVE  /\ Cardinality(A) \in Nat
           /\ Cardinality(A) = 0 <=> A = {}
           /\ Cardinality(A) = 1 => \A x, y \in A : x = y
<1>1. Cardinality(A) \in Nat /\ (Cardinality(A) = 0 <=> A = {})
  BY FS_CardinalityType, FS_EmptySet
<1>2. ASSUME Cardinality(A) = 1, NEW x \in A, NEW y \in A PROVE x = y
  <2>1. IsFiniteSet(A \ {x}) /\ Cardinality(A \ {x}) = 0
    BY <1>2, FS_RemoveElement
  <2>2. A \ {x} = {}
    BY <2>1, FS_EmptySet
  <2> QED
    BY <2>2
<1> QED
  BY <1>1, <1>2

\* What a count says about who names the object.
LEMMA CountSays ==
    ASSUME SharedInv
    PROVE  /\ \A o : IsFiniteSet(Held(o)) /\ IsFiniteSet(Inside(o))
           /\ \A o \in alive :
                 /\ refCount[o] = 0 <=> Held(o) = {} /\ Inside(o) = {}
                 /\ refCount[o] = 1 => \A h, g \in Held(o) : h = g
                 /\ refCount[o] = 1 => \A x, y \in Inside(o) : x = y
                 /\ refCount[o] = 1 => Held(o) = {} \/ Inside(o) = {}
<1>1. ASSUME NEW o PROVE IsFiniteSet(Held(o)) /\ IsFiniteSet(Inside(o))
  <2>1. Held(o) \subseteq Holders /\ Inside(o) \subseteq Objects
    BY DEF Held, Inside, SharedInv, SharedTypeOK
  <2> QED
    BY <2>1, FS_Subset, HoldersAssumption
<1>2. ASSUME NEW o \in alive
      PROVE  /\ refCount[o] = 0 <=> Held(o) = {} /\ Inside(o) = {}
             /\ refCount[o] = 1 => \A h, g \in Held(o) : h = g
             /\ refCount[o] = 1 => \A x, y \in Inside(o) : x = y
             /\ refCount[o] = 1 => Held(o) = {} \/ Inside(o) = {}
  <2> DEFINE A == Held(o)  B == Inside(o)  a == Cardinality(A)  b == Cardinality(B)
  <2>1. /\ a \in Nat /\ (a = 0 <=> A = {}) /\ (a = 1 => \A x, y \in A : x = y)
        /\ b \in Nat /\ (b = 0 <=> B = {}) /\ (b = 1 => \A x, y \in B : x = y)
    <3> HIDE DEF A, B
    <3>1. IsFiniteSet(A) /\ IsFiniteSet(B)
      BY <1>1 DEF A, B
    <3> QED
      BY <3>1, CardMember
  <2>2. refCount[o] = a + b
    BY DEF SharedInv, CountsOK
  <2> HIDE DEF a, b, A, B
  <2>3. refCount[o] = 0 <=> A = {} /\ B = {}
    BY <2>1, <2>2
  <2>4. refCount[o] = 1 => (a = 1 /\ b = 0) \/ (a = 0 /\ b = 1)
    BY <2>1, <2>2
  <2>5. /\ refCount[o] = 1 => \A x, y \in A : x = y
        /\ refCount[o] = 1 => \A x, y \in B : x = y
        /\ refCount[o] = 1 => A = {} \/ B = {}
    BY <2>1, <2>4
  <2> QED
    BY <2>3, <2>5 DEF A, B
<1> QED
  BY <1>1, <1>2

-----------------------------------------------------------------------------
(* The steps.                                                               *)

LEMMA InitShared == Shared!Init => SharedInv
BY HoldersAssumption DEF Shared!Init, SharedInv, SharedTypeOK, CountsOK, AliveOK, DeletingOK, Pointers

LEMMA NewShared ==
    ASSUME SharedInv, NEW h \in Holders, NEW o \in Objects, Shared!New(h, o)
    PROVE  SharedInv'
<1> USE DEF SharedInv, Shared!New, Shared!Idle, Shared!AddRef
<1>0. o # 0 /\ 0 \notin Objects
  BY HoldersAssumption
<1>1. SharedTypeOK'
  BY <1>0 DEF SharedTypeOK, Pointers
<1>2. AliveOK'
  BY <1>0 DEF AliveOK, SharedTypeOK
<1>3. DeletingOK'
  BY <1>0 DEF DeletingOK, AliveOK, SharedTypeOK
<1>4. ASSUME NEW p \in alive' PROVE refCount'[p] = Cardinality(Held(p)') + Cardinality(Inside(p)')
  <2>1. p \in Objects /\ p # 0
    BY <1>0, <1>1, <1>4 DEF SharedTypeOK
  <2>2. IsFiniteSet(Held(p)) /\ IsFiniteSet(Inside(p))
    BY CountSays
  <2>3. Inside(p)' = Inside(p)
    BY <1>0, <2>1 DEF Inside, AliveOK, SharedTypeOK
  <2>4. /\ \A y : y # h => (y \in Held(p) <=> y \in Held(p)')
        /\ h \notin Held(p)
        /\ h \in Held(p)' <=> p = o
    BY <1>0, <2>1 DEF Held, SharedTypeOK
  <2>5. /\ Cardinality(Held(p)) \in Nat /\ Cardinality(Inside(p)) \in Nat
        /\ p = o => Cardinality(Held(p)') = Cardinality(Held(p)) + 1
        /\ p # o => Cardinality(Held(p)') = Cardinality(Held(p))
    BY <2>2, <2>4, CardOne, FS_CardinalityType
  <2>6. refCount[p] = Cardinality(Held(p)) + Cardinality(Inside(p))
    <3>1. CASE p = o
      <4>1. Held(p) = {} /\ Inside(p) = {} /\ refCount[p] = 0
        BY <1>0, <3>1 DEF Held, Inside, AliveOK, SharedTypeOK
      <4> QED
        BY <4>1, FS_EmptySet
    <3>2. CASE p # o
      BY <1>4, <3>2 DEF CountsOK
    <3> QED
      BY <3>1, <3>2
  <2>7. refCount'[p] = IF p = o THEN refCount[p] + 1 ELSE refCount[p]
    BY <1>0, <2>1 DEF SharedTypeOK
  <2> QED
    BY <2>3, <2>5, <2>6, <2>7
<1> QED
  BY <1>1, <1>2, <1>3, <1>4 DEF CountsOK

\* Copy, Move and SetMember of a null holder change nothing that counts; what they
\* take from a holder that is not null has a count.
LEMMA HeldCounts ==
    ASSUME SharedInv, NEW g \in Holders, ptr[g] # 0, Shared!Idle(g)
    PROVE  /\ ptr[g] \in alive /\ ptr[g] \in Objects
           /\ g \in Held(ptr[g])
           /\ refCount[ptr[g]] # 0 /\ refCount[ptr[g]] \in Nat
           /\ \A k \in Holders : deleting[k] # ptr[g]
<1>1. ptr[g] \in alive /\ ptr[g] \in Objects
  BY DEF SharedInv, AliveOK, SharedTypeOK
<1>2. g \in Held(ptr[g])
  BY DEF Held, Shared!Idle
<1>3. refCount[ptr[g]] # 0
  BY <1>1, <1>2, CountSays
<1> QED
  BY <1>1, <1>2, <1>3 DEF SharedInv, DeletingOK, SharedTypeOK

LEMMA CopyShared ==
    ASSUME SharedInv, NEW h \in Holders, NEW g \in Holders, Shared!Copy(h, g)
    PROVE  SharedInv'
<1> USE DEF SharedInv, Shared!Copy, Shared!Idle, Shared!AddRef
<1>0. 0 \notin Objects
  BY HoldersAssumption
<1>1. CASE ptr[g] = 0
  <2>1. ptr' = ptr /\ refCount' = refCount
    BY <1>1 DEF SharedTypeOK
  <2> QED
    BY <2>1 DEF SharedTypeOK, CountsOK, AliveOK, DeletingOK, Held, Inside
<1>2. CASE ptr[g] # 0
  <2> DEFINE o == ptr[g]
  <2>0. /\ o \in alive /\ o \in Objects /\ refCount[o] # 0 /\ refCount[o] \in Nat
        /\ \A k \in Holders : deleting[k] # o
    BY <1>2, HeldCounts
  <2>1. SharedTypeOK'
    BY <1>2, <2>0 DEF SharedTypeOK
  <2>2. AliveOK'
    BY <1>0, <1>2, <2>0 DEF AliveOK, SharedTypeOK
  <2>3. DeletingOK'
    BY <1>0, <1>2, <2>0 DEF DeletingOK, SharedTypeOK
  <2>4. ASSUME NEW p \in alive'
        PROVE  refCount'[p] = Cardinality(Held(p)') + Cardinality(Inside(p)')
    <3>1. p \in Objects /\ p # 0 /\ p \in alive
      BY <1>0, <2>4 DEF SharedTypeOK
    <3>2. IsFiniteSet(Held(p)) /\ IsFiniteSet(Inside(p))
      BY CountSays
    <3>3. Inside(p)' = Inside(p)
      BY DEF Inside
    <3>4. /\ \A y : y # h => (y \in Held(p) <=> y \in Held(p)')
          /\ h \notin Held(p)
          /\ h \in Held(p)' <=> p = o
      BY <3>1 DEF Held, SharedTypeOK
    <3>5. /\ Cardinality(Held(p)) \in Nat /\ Cardinality(Inside(p)) \in Nat
          /\ p = o => Cardinality(Held(p)') = Cardinality(Held(p)) + 1
          /\ p # o => Cardinality(Held(p)') = Cardinality(Held(p))
      BY <3>2, <3>4, CardOne, FS_CardinalityType
    <3>6. refCount[p] = Cardinality(Held(p)) + Cardinality(Inside(p))
      BY <3>1 DEF CountsOK
    <3>7. refCount'[p] = IF p = o THEN refCount[p] + 1 ELSE refCount[p]
      BY <1>2, <3>1 DEF SharedTypeOK
    <3> HIDE DEF o
    <3> QED
      BY <3>3, <3>5, <3>6, <3>7
  <2> QED
    BY <2>1, <2>2, <2>3, <2>4 DEF CountsOK
<1> QED
  BY <1>1, <1>2

LEMMA MoveShared ==
    ASSUME SharedInv, NEW h \in Holders, NEW g \in Holders, Shared!Move(h, g)
    PROVE  SharedInv'
<1> USE DEF SharedInv, Shared!Move, Shared!Idle
<1> DEFINE o == ptr[g]
<1>0. /\ o \in alive /\ o \in Objects /\ h # g
      /\ \A k \in Holders : deleting[k] # o
      /\ 0 \notin Objects
  BY HeldCounts, HoldersAssumption
<1>1. SharedTypeOK'
  BY DEF SharedTypeOK, Pointers
<1>2. AliveOK'
  BY <1>0 DEF AliveOK, SharedTypeOK
<1>3. DeletingOK'
  BY <1>0 DEF DeletingOK, SharedTypeOK
<1>4. ASSUME NEW p \in alive' PROVE refCount'[p] = Cardinality(Held(p)') + Cardinality(Inside(p)')
  <2> DEFINE between == Held(p) \ {g}
  <2>1. p \in Objects /\ p # 0 /\ p \in alive
    BY <1>0, <1>4 DEF SharedTypeOK
  <2>2. IsFiniteSet(Held(p))
    BY CountSays
  <2>3. Inside(p)' = Inside(p)
    BY DEF Inside
  <2>4. /\ \A y : y # g => (y \in Held(p) <=> y \in between)
        /\ g \in Held(p) <=> p = o
        /\ g \notin between
        /\ \A y : y # h => (y \in between <=> y \in Held(p)')
        /\ h \notin between
        /\ h \in Held(p)' <=> p = o
    BY <1>0, <2>1 DEF Held, SharedTypeOK
  <2>5. Cardinality(Held(p)') = Cardinality(Held(p))
    <3> HIDE DEF between, o
    <3>1. /\ IsFiniteSet(between)
          /\ Cardinality(between) \in Nat /\ Cardinality(Held(p)) \in Nat
          /\ p = o => Cardinality(Held(p)) = Cardinality(between) + 1
          /\ p # o => Cardinality(Held(p)) = Cardinality(between)
      BY <2>2, <2>4, CardOne
    <3>2. /\ p = o => Cardinality(Held(p)') = Cardinality(between) + 1
          /\ p # o => Cardinality(Held(p)') = Cardinality(between)
      BY <2>4, <3>1, CardOne
    <3> QED
      BY <3>1, <3>2
  <2> QED
    BY <2>1, <2>3, <2>5 DEF CountsOK
<1> QED
  BY <1>1, <1>2, <1>3, <1>4 DEF CountsOK

LEMMA ResetShared ==
    ASSUME SharedInv, NEW h \in Holders, Shared!Reset(h)
    PROVE  SharedInv'
<1> USE DEF SharedInv, Shared!Reset, Shared!Idle, Shared!WasLast
<1> DEFINE o == ptr[h]
<1>0. /\ o \in alive /\ o \in Objects /\ h \in Held(o)
      /\ refCount[o] \in Nat /\ refCount[o] # 0
      /\ \A k \in Holders : deleting[k] # o
      /\ 0 \notin Objects
  BY HeldCounts, HoldersAssumption
<1>1. SharedTypeOK'
  BY <1>0 DEF SharedTypeOK, Pointers
<1>2. AliveOK'
  BY <1>0 DEF AliveOK, SharedTypeOK
<1>3. DeletingOK'
  BY <1>0 DEF DeletingOK, SharedTypeOK
<1>4. ASSUME NEW p \in alive' PROVE refCount'[p] = Cardinality(Held(p)') + Cardinality(Inside(p)')
  <2>1. p \in Objects /\ p # 0 /\ p \in alive
    BY <1>0, <1>4 DEF SharedTypeOK
  <2>2. IsFiniteSet(Held(p)) /\ IsFiniteSet(Inside(p))
    BY CountSays
  <2>3. Inside(p)' = Inside(p)
    BY DEF Inside
  <2>4. /\ \A y : y # h => (y \in Held(p) <=> y \in Held(p)')
        /\ h \in Held(p) <=> p = o
        /\ h \notin Held(p)'
    BY <1>0, <2>1 DEF Held, SharedTypeOK
  <2>5. /\ Cardinality(Held(p)) \in Nat /\ Cardinality(Inside(p)) \in Nat
        /\ Cardinality(Held(p)') \in Nat
        /\ p = o => Cardinality(Held(p)) = Cardinality(Held(p)') + 1
        /\ p # o => Cardinality(Held(p)') = Cardinality(Held(p))
    BY <2>2, <2>4, CardOne, FS_CardinalityType
  <2>6. refCount[p] = Cardinality(Held(p)) + Cardinality(Inside(p))
    BY <2>1 DEF CountsOK
  <2>7. refCount'[p] = IF p = o THEN refCount[p] - 1 ELSE refCount[p]
    BY <2>1 DEF SharedTypeOK
  <2> HIDE DEF o
  <2> QED
    BY <2>3, <2>5, <2>6, <2>7
<1> QED
  BY <1>1, <1>2, <1>3, <1>4 DEF CountsOK

LEMMA DeleteShared ==
    ASSUME SharedInv, NEW h \in Holders, Shared!Delete(h)
    PROVE  SharedInv'
<1> DEFINE o == deleting[h]
           m == member[o]
           next == IF m # 0 /\ Shared!WasLast(refCount[m]) THEN m ELSE 0
<1>a. /\ o # 0
      /\ alive' = alive \ {o}
      /\ deletes' = [deletes EXCEPT ![o] = @ + 1]
      /\ member' = [member EXCEPT ![o] = 0]
      /\ refCount' = IF m = 0 THEN refCount ELSE [refCount EXCEPT ![m] = @ - 1]
      /\ deleting' = [deleting EXCEPT ![h] = next]
      /\ ptr' = [ptr EXCEPT ![h] = next]
  BY DEF Shared!Delete
<1> USE DEF SharedInv
<1>0. /\ o \in alive /\ o \in Objects /\ ptr[h] = o /\ refCount[o] = 0
      /\ 0 \notin Objects
  BY <1>a, HoldersAssumption DEF DeletingOK, AliveOK, SharedTypeOK
<1>b. /\ \A k \in Holders : k # h => ptr[k] # o /\ deleting[k] # o
      /\ \A x \in Objects : member[x] # o
  <2>1. Held(o) = {} /\ Inside(o) = {}
    BY <1>0, CountSays
  <2>2. \A k \in Holders : k # h => deleting[k] # o
    BY <1>a DEF DeletingOK
  <2>3. \A x \in Objects : member[x] # o
    BY <1>0, <2>1 DEF Inside, AliveOK, SharedTypeOK
  <2> QED
    BY <2>1, <2>2, <2>3 DEF Held
<1>c. ASSUME m # 0
      PROVE  /\ m \in alive /\ m \in Objects /\ m # o
             /\ refCount[m] # 0 /\ refCount[m] \in Nat
             /\ \A k \in Holders : deleting[k] # m
  <2>1. m \in alive /\ m \in Objects /\ m # o /\ refCount[m] \in Nat
    BY <1>0, <1>b, <1>c DEF AliveOK, SharedTypeOK
  <2>2. o \in Inside(m)
    BY <1>0 DEF Inside
  <2>3. refCount[m] # 0
    BY <2>1, <2>2, CountSays
  <2> QED
    BY <1>c, <2>1, <2>3 DEF DeletingOK
<1>d. /\ next \in Pointers
      /\ next # 0 => next = m /\ m # 0 /\ refCount[m] = 1
      /\ m # 0 /\ next = 0 => refCount[m] # 1
  BY <1>c DEF Shared!WasLast, Pointers
<1>e. \A p \in Objects : refCount'[p] = IF p = m THEN refCount[p] - 1 ELSE refCount[p]
  BY <1>a, <1>0, <1>c DEF SharedTypeOK
<1> HIDE DEF m, next, o
<1>1. SharedTypeOK'
  <2>1. refCount' \in [Objects -> Nat]
    BY <1>a, <1>c DEF SharedTypeOK
  <2> QED
    BY <1>a, <1>0, <1>d, <2>1 DEF SharedTypeOK, Pointers
<1>2. AliveOK'
  BY <1>a, <1>0, <1>b, <1>c, <1>d, <1>e DEF AliveOK, SharedTypeOK
<1>3. DeletingOK'
  BY <1>a, <1>0, <1>b, <1>c, <1>d, <1>e DEF DeletingOK, SharedTypeOK, o
<1>4. ASSUME NEW p \in alive' PROVE refCount'[p] = Cardinality(Held(p)') + Cardinality(Inside(p)')
  <2>1. p \in Objects /\ p # 0 /\ p \in alive /\ p # o
    BY <1>a, <1>0, <1>4 DEF SharedTypeOK
  <2>2. IsFiniteSet(Held(p)) /\ IsFiniteSet(Inside(p))
    BY CountSays
  <2>3. Held(p)' = Held(p)
    BY <1>a, <1>0, <2>1 DEF Held, SharedTypeOK
  <2>4. /\ \A y : y # o => (y \in Inside(p) <=> y \in Inside(p)')
        /\ o \in Inside(p) <=> p = m
        /\ o \notin Inside(p)'
    BY <1>a, <1>0, <2>1 DEF Inside, SharedTypeOK, m
  <2>5. /\ Cardinality(Held(p)) \in Nat /\ Cardinality(Inside(p)) \in Nat
        /\ Cardinality(Inside(p)') \in Nat
        /\ p = m => Cardinality(Inside(p)) = Cardinality(Inside(p)') + 1
        /\ p # m => Cardinality(Inside(p)') = Cardinality(Inside(p))
    BY <2>2, <2>4, CardOne, FS_CardinalityType
  <2>6. refCount[p] = Cardinality(Held(p)) + Cardinality(Inside(p))
    BY <2>1 DEF CountsOK
  <2> QED
    BY <1>e, <2>1, <2>3, <2>5, <2>6
<1> QED
  BY <1>1, <1>2, <1>3, <1>4 DEF CountsOK

LEMMA AssignShared ==
    ASSUME SharedInv, NEW h \in Holders, NEW g \in Holders, Shared!Assign(h, g)
    PROVE  SharedInv'
<1> USE DEF SharedInv, Shared!Assign, Shared!Idle, Shared!WasLast, Shared!Same
<1> DEFINE a == ptr[h]  b == ptr[g]
<1>0. /\ a \in alive /\ a \in Objects
      /\ refCount[a] \in Nat \ {0, 1}
      /\ \A k \in Holders : deleting[k] # a
      /\ 0 \notin Objects /\ h # g /\ a # b
  BY HeldCounts, HoldersAssumption
<1>b. b # 0 => /\ b \in alive /\ b \in Objects
               /\ refCount[b] # 0
               /\ \A k \in Holders : deleting[k] # b
  BY HeldCounts
<1>e. /\ \A p \in Objects :
            /\ p = a => refCount'[p] = refCount[p] - 1
            /\ p = b => refCount'[p] = refCount[p] + 1
            /\ p # a /\ p # b => refCount'[p] = refCount[p]
      /\ refCount' \in [Objects -> Nat]
  BY <1>0 DEF SharedTypeOK
<1>f. /\ ptr' = [ptr EXCEPT ![h] = b]
      /\ UNCHANGED <<member, alive, deleting, deletes>>
  OBVIOUS
<1>1. SharedTypeOK'
  BY <1>e, <1>f DEF SharedTypeOK
<1>2. AliveOK'
  BY <1>0, <1>b, <1>e, <1>f DEF AliveOK, SharedTypeOK
<1>3. DeletingOK'
  <2>1. ASSUME NEW k \in Holders, deleting[k] # 0
        PROVE  ptr'[k] = deleting[k] /\ refCount'[ptr'[k]] = 0
    <3>1. ptr[k] = deleting[k] /\ refCount[ptr[k]] = 0 /\ ptr[k] \in Objects
      BY <2>1 DEF DeletingOK, SharedTypeOK, Pointers
    <3>2. k # h /\ ptr[k] # a /\ ptr[k] # b
      BY <1>0, <1>b, <2>1, <3>1
    <3>3. ptr'[k] = ptr[k]
      BY <1>f, <3>2 DEF SharedTypeOK
    <3> QED
      BY <1>e, <3>1, <3>2, <3>3
  <2>2. ASSUME NEW p \in alive, refCount'[p] = 0 PROVE \E k \in Holders : deleting[k] = p
    <3>1. p \in Objects /\ refCount[p] \in Nat /\ refCount[a] \in Nat \ {0, 1}
      BY <1>0 DEF SharedTypeOK
    <3>2. refCount[p] = 0
      BY <1>0, <1>e, <2>2, <3>1
    <3> QED
      BY <3>2 DEF DeletingOK
  <2> QED
    BY <1>f, <2>1, <2>2 DEF DeletingOK
<1>4. ASSUME NEW p \in alive' PROVE refCount'[p] = Cardinality(Held(p)') + Cardinality(Inside(p)')
  <2>1. p \in Objects /\ p # 0 /\ p \in alive
    BY <1>0, <1>4 DEF SharedTypeOK
  <2>2. IsFiniteSet(Held(p)) /\ IsFiniteSet(Inside(p))
    BY CountSays
  <2>3. Inside(p)' = Inside(p)
    BY DEF Inside
  <2>4. /\ \A y : y # h => (y \in Held(p) <=> y \in Held(p)')
        /\ h \in Held(p) <=> p = a
        /\ h \in Held(p)' <=> p = b
    BY <1>0, <2>1 DEF Held, SharedTypeOK
  <2>5. /\ Cardinality(Held(p)) \in Nat /\ Cardinality(Inside(p)) \in Nat
        /\ Cardinality(Held(p)') \in Nat
        /\ p = a => Cardinality(Held(p)) = Cardinality(Held(p)') + 1
        /\ p = b => Cardinality(Held(p)') = Cardinality(Held(p)) + 1
        /\ p # a /\ p # b => Cardinality(Held(p)') = Cardinality(Held(p))
    <3> HIDE DEF a, b
    <3> QED
      BY <1>0, <2>2, <2>4, CardOne, FS_CardinalityType
  <2>6. refCount[p] = Cardinality(Held(p)) + Cardinality(Inside(p))
    BY <2>1 DEF CountsOK
  <2> HIDE DEF a, b
  <2> QED
    BY <1>e, <2>1, <2>3, <2>5, <2>6
<1> QED
  BY <1>1, <1>2, <1>3, <1>4 DEF CountsOK

LEMMA SetMemberShared ==
    ASSUME SharedInv, NEW h \in Holders, NEW g \in Holders, Shared!SetMember(h, g)
    PROVE  SharedInv'
<1> USE DEF SharedInv, Shared!SetMember, Shared!Idle, Shared!AddRef
<1> DEFINE x == ptr[h]  m == ptr[g]
<1>0. /\ x \in alive /\ x \in Objects /\ x # m
      /\ m \in alive /\ m \in Objects /\ refCount[m] # 0 /\ refCount[m] \in Nat
      /\ \A k \in Holders : deleting[k] # m
      /\ 0 \notin Objects
  BY HeldCounts, HoldersAssumption
<1>1. SharedTypeOK'
  BY <1>0 DEF SharedTypeOK, Pointers
<1>2. AliveOK'
  BY <1>0 DEF AliveOK, SharedTypeOK
<1>3. DeletingOK'
  BY <1>0 DEF DeletingOK, SharedTypeOK
<1>4. ASSUME NEW p \in alive' PROVE refCount'[p] = Cardinality(Held(p)') + Cardinality(Inside(p)')
  <2>1. p \in Objects /\ p # 0 /\ p \in alive
    BY <1>0, <1>4 DEF SharedTypeOK
  <2>2. IsFiniteSet(Held(p)) /\ IsFiniteSet(Inside(p))
    BY CountSays
  <2>3. Held(p)' = Held(p)
    BY DEF Held
  <2>4. /\ \A y : y # x => (y \in Inside(p) <=> y \in Inside(p)')
        /\ x \notin Inside(p)
        /\ x \in Inside(p)' <=> p = m
    BY <1>0, <2>1 DEF Inside, SharedTypeOK
  <2>5. /\ Cardinality(Held(p)) \in Nat /\ Cardinality(Inside(p)) \in Nat
        /\ p = m => Cardinality(Inside(p)') = Cardinality(Inside(p)) + 1
        /\ p # m => Cardinality(Inside(p)') = Cardinality(Inside(p))
    BY ZenonT(40), <2>2, <2>4, CardOne, FS_CardinalityType
  <2>6. refCount[p] = Cardinality(Held(p)) + Cardinality(Inside(p))
    BY <2>1 DEF CountsOK
  <2>7. refCount'[p] = IF p = m THEN refCount[p] + 1 ELSE refCount[p]
    BY <1>0, <2>1 DEF SharedTypeOK
  <2> HIDE DEF x, m
  <2> QED
    BY <2>3, <2>5, <2>6, <2>7
<1> QED
  BY <1>1, <1>2, <1>3, <1>4 DEF CountsOK

-----------------------------------------------------------------------------
(* The theorems.                                                            *)

LEMMA SharedInductive ==
    Shared!Spec => []SharedInv
<1>1. Shared!Init => SharedInv
  BY InitShared
<1>2. SharedInv /\ [Shared!Next]_(Shared!vars) => SharedInv'
  <2> SUFFICES ASSUME SharedInv, [Shared!Next]_(Shared!vars) PROVE SharedInv'
    OBVIOUS
  <2>1. CASE Shared!Next
    <3>1. PICK h \in Holders :
             \/ Shared!Reset(h) \/ Shared!Delete(h)
             \/ \E o \in Objects : Shared!New(h, o)
             \/ \E g \in Holders : Shared!Copy(h, g) \/ Shared!Move(h, g) \/ Shared!Assign(h, g) \/ Shared!SetMember(h, g)
      BY <2>1 DEF Shared!Next
    <3> QED
      BY <3>1, ResetShared, DeleteShared, NewShared, CopyShared, MoveShared, AssignShared, SetMemberShared
  <2>2. CASE UNCHANGED Shared!vars
    BY <2>2 DEF Shared!vars, SharedInv, SharedTypeOK, CountsOK, AliveOK, DeletingOK, Held, Inside
  <2> QED
    BY <2>1, <2>2
<1> QED
  BY <1>1, <1>2, PTL DEF Shared!Spec

\* Every variable keeps to the values its code gives it; no count goes below zero.
THEOREM SharedTypeCorrect ==
    Shared!Spec => []SharedTypeOK
<1>1. SharedInv => SharedTypeOK
  BY DEF SharedInv
<1> QED
  BY SharedInductive, <1>1, PTL

\* An object's count is the number of TSharedPtrs and members that hold it, none of
\* them holds a destroyed object, and the deleter runs once, whichever threads copy,
\* move, assign and reset them in whatever order.
THEOREM CountsAreExact ==
    Shared!Spec => []RefsExact
<1>1. SharedInv => RefsExact
  <2> SUFFICES ASSUME SharedInv PROVE RefsExact
    OBVIOUS
  <2>1. ASSUME NEW o \in alive
        PROVE  refCount[o] = Cardinality({h \in Holders : ptr[h] = o /\ deleting[h] # o})
                             + Cardinality({x \in alive : member[x] = o})
    BY DEF SharedInv, CountsOK, Held, Inside
  <2>2. ASSUME NEW o \in Objects
        PROVE  deletes[o] <= 1 /\ (o \in alive => refCount[o] > 0
                                     \/ \E h \in Holders : deleting[h] = o)
    <3>1. refCount[o] \in Nat
      BY DEF SharedInv, SharedTypeOK
    <3>2. deletes[o] <= 1 /\ (o \in alive /\ refCount[o] = 0 => \E h \in Holders : deleting[h] = o)
      BY DEF SharedInv, DeletingOK
    <3> QED
      BY <3>1, <3>2
  <2>3. \A h \in Holders : ptr[h] # 0 => ptr[h] \in alive
    BY DEF SharedInv, AliveOK
  <2>4. \A S : Shared!Cardinality(S) = Cardinality(S)
    BY DEF Shared!Cardinality, Cardinality
  <2>5. Shared!RefsExact
    BY <2>1, <2>2, <2>3, <2>4, Zenon DEF Shared!RefsExact
  <2> QED
    BY <2>5 DEF RefsExact
<1> QED
  BY SharedInductive, <1>1, PTL

-----------------------------------------------------------------------------
(* MemoryPool.                                                              *)

Total == Count * chunks

PoolTypeOK ==
    /\ poolHead \in [PoolThreads -> Pool!Addresses \cup {0}]
    /\ hasPool \subseteq PoolThreads
    /\ chunks \in 0 .. MaxChunks
    /\ word \in [Pool!Addresses -> Pool!Addresses \cup {0}]
    /\ inUse \subseteq Pool!Addresses
    /\ crashed \in BOOLEAN

\* The heads and the words link the blocks of the lists l, in that order.
HeadsOK(l) == \A t \in PoolThreads :
    /\ Len(l[t]) = 0 => poolHead[t] = 0
    /\ Len(l[t]) > 0 => poolHead[t] = l[t][1]

WordsOK(l) == \A t \in PoolThreads : \A i \in 1 .. Len(l[t]) :
    /\ i = Len(l[t]) => word[l[t][i]] = 0
    /\ i # Len(l[t]) => word[l[t][i]] = l[t][i + 1]

\* The lists and the blocks in use share the blocks of all chunks.
FreeOK(l) == \A t \in PoolThreads : \A i \in 1 .. Len(l[t]) :
    l[t][i] \in 1 .. Total /\ l[t][i] \notin inUse

CoverOK(l) ==
    /\ inUse \subseteq 1 .. Total
    /\ \A a \in 1 .. Total : a \notin inUse =>
          \E t \in PoolThreads : \E i \in 1 .. Len(l[t]) : l[t][i] = a

OnceOK(l) == \A t, u \in PoolThreads : \A i \in 1 .. Len(l[t]), j \in 1 .. Len(l[u]) :
    l[t][i] = l[u][j] => t = u /\ i = j

Listed(l) ==
    /\ l \in [PoolThreads -> Seq(Pool!Addresses)]
    /\ HeadsOK(l) /\ WordsOK(l) /\ FreeOK(l) /\ CoverOK(l) /\ OnceOK(l)

PoolInv == PoolTypeOK /\ \E l \in [PoolThreads -> Seq(Pool!Addresses)] : Listed(l)

-----------------------------------------------------------------------------
(* Arithmetic: the blocks of the chunks allocated so far.                   *)

\* Products of naturals are naturals and grow with their factors.
LEMMA Products ==
    ASSUME NEW c \in Nat, NEW n \in Nat, NEW m \in Nat, n <= m
    PROVE  /\ c * n \in Nat /\ c * m \in Nat
           /\ c * n <= c * m
           /\ c * (n + 1) = c * n + c
<1> DEFINE d == m - n
<1>1. d \in Nat /\ m = n + d
  OBVIOUS
<1>2. c * n \in Nat /\ c * d \in Nat
  BY <1>1
<1>3. c * (n + d) = c * n + c * d
  BY <1>1
<1>4. c * (n + 1) = c * n + c
  OBVIOUS
<1> HIDE DEF d
<1> QED
  BY <1>1, <1>2, <1>3, <1>4

\* The blocks allocated so far are addresses, and a further chunk's come after them.
LEMMA TotalType ==
    ASSUME PoolTypeOK
    PROVE  /\ Total \in Nat
           /\ Count * MaxChunks \in Nat
           /\ Total <= Count * MaxChunks
           /\ 1 .. Total \subseteq Pool!Addresses
           /\ Count * (chunks + 1) = Total + Count
           /\ chunks < MaxChunks => Total + Count <= Count * MaxChunks
<1>1. Count \in Nat /\ chunks \in Nat /\ MaxChunks \in Nat /\ chunks <= MaxChunks
  BY PoolAssumption DEF PoolTypeOK
<1>2. Total \in Nat /\ Count * MaxChunks \in Nat /\ Total <= Count * MaxChunks
      /\ Count * (chunks + 1) = Total + Count
  BY <1>1, Products DEF Total
<1>3. ASSUME chunks < MaxChunks
      PROVE  Count * (chunks + 1) <= Count * MaxChunks
  BY <1>1, <1>3, Products
<1> QED
  BY <1>1, <1>2, <1>3 DEF Pool!Addresses

-----------------------------------------------------------------------------
(* BlocksOnce, from the lists of the invariant: their lengths are bounded     *)
(* because no block is listed twice.                                          *)

LEMMA ShortLists ==
    ASSUME PoolTypeOK, NEW l, Listed(l), NEW t \in PoolThreads
    PROVE  Len(l[t]) \in Nat /\ Len(l[t]) <= Total
<1> DEFINE s == l[t]
<1>1. s \in Seq(Pool!Addresses)
  BY DEF Listed
<1>2. Len(s) \in Nat /\ DOMAIN s = 1 .. Len(s) /\ s \in [1 .. Len(s) -> Pool!Addresses]
  BY <1>1
<1>3. \A i \in 1 .. Len(s) : s[i] \in 1 .. Total
  BY DEF Listed, FreeOK
<1>4. \A i, j \in 1 .. Len(s) : s[i] = s[j] => i = j
  BY DEF Listed, OnceOK
<1>5. Total \in Nat
  BY TotalType
<1> HIDE DEF s
<1>6. s \in [1 .. Len(s) -> 1 .. Total]
  BY <1>2, <1>3
<1>7. s \in Injection(1 .. Len(s), 1 .. Total)
  BY <1>4, <1>6 DEF Injection, IsInjective
<1>8. IsFiniteSet(1 .. Total) /\ Cardinality(1 .. Total) = Total
  <2>1. Total \in Int /\ 1 \in Int
    BY <1>5
  <2>2. IsFiniteSet(1 .. Total) /\ Cardinality(1 .. Total) = IF 1 > Total THEN 0 ELSE Total - 1 + 1
    BY <2>1, FS_Interval
  <2> QED
    BY <1>5, <2>2
<1>9. Cardinality(1 .. Len(s)) = Len(s)
  <2>1. Len(s) \in Int /\ 1 \in Int
    BY <1>2
  <2>2. Cardinality(1 .. Len(s)) = IF 1 > Len(s) THEN 0 ELSE Len(s) - 1 + 1
    BY <2>1, FS_Interval
  <2> QED
    BY <1>2, <2>2
<1>10. Cardinality(1 .. Len(s)) <= Cardinality(1 .. Total)
  BY <1>7, <1>8, FS_Injection
<1>11. Len(s) \in Nat /\ Len(s) <= Total
  BY <1>2, <1>8, <1>9, <1>10
<1> QED
  BY <1>11 DEF s

LEMMA ListsAreFreeLists ==
    ASSUME PoolTypeOK, NEW l, Listed(l)
    PROVE  BlocksOnce
<1>1. \A t \in PoolThreads : l[t] \in Seq(Pool!Addresses)
  BY DEF Listed
<1>2. \A t \in PoolThreads :
        /\ Len(l[t]) \in Nat /\ Len(l[t]) <= Total
        /\ DOMAIN l[t] = 1 .. Len(l[t]) /\ l[t] \in [1 .. Len(l[t]) -> Pool!Addresses]
  BY <1>1, ShortLists
<1>3. Total \in Nat
  BY TotalType
<1>4. ASSUME NEW t \in PoolThreads
      PROVE  l[t] \in Pool!FreeLists(t)
  <2> DEFINE s == l[t]
  <2>1. Len(s) \in 0 .. Total /\ s \in [1 .. Len(s) -> Pool!Addresses] /\ DOMAIN s = 1 .. Len(s)
    BY <1>2, <1>3
  <2>2. s \in UNION {[1 .. n -> Pool!Addresses] : n \in 0 .. Total}
    BY <2>1
  <2>3. poolHead[t] = IF s = <<>> THEN 0 ELSE s[1]
    <3>1. s \in Seq(Pool!Addresses)
      BY <1>1
    <3>2. s = <<>> <=> Len(s) = 0
      BY <3>1
    <3>3. /\ Len(s) = 0 => poolHead[t] = 0
          /\ Len(s) > 0 => poolHead[t] = s[1]
      BY DEF Listed, HeadsOK
    <3> QED
      BY <2>1, <3>2, <3>3
  <2>4. \A i \in DOMAIN s : word[s[i]] = IF i = Len(s) THEN 0 ELSE s[i + 1]
    BY <2>1 DEF Listed, WordsOK
  <2> HIDE DEF s
  <2>5. s \in Pool!FreeLists(t)
    BY <2>2, <2>3, <2>4 DEF Pool!FreeLists, Total
  <2> QED
    BY <2>5 DEF s
<1>5. ASSUME NEW t \in PoolThreads
      PROVE  Pool!Range(l[t]) = {l[t][i] : i \in 1 .. Len(l[t])}
  BY <1>2 DEF Pool!Range
<1>6. \A t \in PoolThreads : Pool!Range(l[t]) \cap inUse = {}
  BY <1>5 DEF Listed, FreeOK
<1>7. inUse \cup UNION {Pool!Range(l[t]) : t \in PoolThreads} = 1 .. Total
  <2>1. ASSUME NEW a \in inUse \cup UNION {Pool!Range(l[t]) : t \in PoolThreads}
        PROVE  a \in 1 .. Total
    BY <1>5 DEF Listed, FreeOK, CoverOK
  <2>2. ASSUME NEW a \in 1 .. Total, a \notin inUse
        PROVE  a \in UNION {Pool!Range(l[t]) : t \in PoolThreads}
    <3>1. PICK t \in PoolThreads : \E i \in 1 .. Len(l[t]) : l[t][i] = a
      BY <2>2 DEF Listed, CoverOK
    <3>2. a \in Pool!Range(l[t])
      BY <1>5, <3>1
    <3> QED
      BY <3>2
  <2> QED
    BY <2>1, <2>2
<1>8. \A t, u \in PoolThreads : \A i \in DOMAIN l[t], j \in DOMAIN l[u] :
        l[t][i] = l[u][j] => t = u /\ i = j
  BY <1>2 DEF Listed, OnceOK
<1>9. l \in [PoolThreads -> UNION {Pool!FreeLists(t) : t \in PoolThreads}]
  <2>1. l \in [PoolThreads -> Seq(Pool!Addresses)]
    BY DEF Listed
  <2> QED
    BY <1>4, <2>1
<1> QED
  BY <1>4, <1>6, <1>7, <1>8, <1>9 DEF BlocksOnce, Pool!BlocksOnce, Total

-----------------------------------------------------------------------------
(* The steps.  Each lemma gives the lists after the step.                   *)

LEMMA InitPool == ASSUME Pool!Init PROVE PoolInv
<1> DEFINE l == [t \in PoolThreads |-> <<>>]
<1>1. PoolTypeOK
  <2>1. crashed \in BOOLEAN
    BY Zenon DEF Pool!Init
  <2> QED
    BY <2>1, PoolAssumption DEF Pool!Init, PoolTypeOK
<1>2. l \in [PoolThreads -> Seq(Pool!Addresses)] /\ \A t \in PoolThreads : Len(l[t]) = 0
  OBVIOUS
<1>3. Total = 0
  BY PoolAssumption DEF Pool!Init, Total
<1> HIDE DEF l
<1>4. Listed(l)
  BY <1>2, <1>3 DEF Pool!Init, Listed, HeadsOK, WordsOK, FreeOK, CoverOK, OnceOK
<1> QED
  BY <1>1, <1>2, <1>4 DEF PoolInv

\* What the parts of Listed say of one position of one list.
LEMMA ListedAt ==
    ASSUME PoolTypeOK, NEW l, Listed(l), NEW t \in PoolThreads
    PROVE  /\ l[t] \in Seq(Pool!Addresses) /\ Len(l[t]) \in Nat
           /\ \A i \in 1 .. Len(l[t]) : l[t][i] \in Pool!Addresses /\ l[t][i] \in 1 .. Total
                                         /\ l[t][i] \notin inUse
           /\ poolHead[t] # 0 => Len(l[t]) > 0 /\ poolHead[t] = l[t][1]
           /\ poolHead[t] = 0 => Len(l[t]) = 0
<1>1. l[t] \in Seq(Pool!Addresses)
  BY DEF Listed
<1>2. Len(l[t]) \in Nat /\ \A i \in 1 .. Len(l[t]) : l[t][i] \in Pool!Addresses
  BY <1>1
<1>3. \A i \in 1 .. Len(l[t]) : l[t][i] \in 1 .. Total /\ l[t][i] \notin inUse
  BY DEF Listed, FreeOK
<1>4. /\ Len(l[t]) = 0 => poolHead[t] = 0
      /\ Len(l[t]) > 0 => poolHead[t] = l[t][1]
  BY DEF Listed, HeadsOK
<1>5. Len(l[t]) > 0 => l[t][1] \in Pool!Addresses /\ l[t][1] # 0
  BY <1>2 DEF Pool!Addresses
<1> QED
  BY <1>1, <1>2, <1>3, <1>4, <1>5

\* Get from a list with a block: the list without its first one.
LEMMA TakesHead ==
    ASSUME PoolTypeOK, NEW t \in PoolThreads,
           NEW l \in [PoolThreads -> Seq(Pool!Addresses)], Listed(l),
           Pool!EnterPool(t), poolHead[t] # 0, Pool!GetFrom(t, word, poolHead[t]),
           word' = [word EXCEPT ![poolHead[t]] = 0], UNCHANGED <<chunks, crashed>>
    PROVE  PoolInv'
<1> USE DEF Pool!EnterPool, Pool!GetFrom, Pool!NewHead
<1>1. PICK a : a = poolHead[t]
  OBVIOUS
<1>2. Len(l[t]) \in Nat /\ Len(l[t]) > 0 /\ a = l[t][1] /\ a \in Pool!Addresses /\ a \in 1 .. Total
      /\ a \notin inUse
  BY <1>1, ListedAt
<1>3. PICK m : m = [l EXCEPT ![t] = Tail(l[t])]
  OBVIOUS
<1>4. /\ m \in [PoolThreads -> Seq(Pool!Addresses)]
      /\ m[t] = Tail(l[t])
      /\ \A u \in PoolThreads : u # t => m[u] = l[u]
  <2>1. l[t] \in Seq(Pool!Addresses) /\ l[t] # <<>>
    BY <1>2, ListedAt
  <2>2. Tail(l[t]) \in Seq(Pool!Addresses)
    BY <2>1
  <2> QED
    BY <1>3, <2>2
<1>5. /\ Len(m[t]) \in Nat /\ Len(m[t]) = Len(l[t]) - 1
      /\ \A i \in 1 .. Len(m[t]) : i + 1 \in 1 .. Len(l[t]) /\ m[t][i] = l[t][i + 1]
  <2>1. l[t] \in Seq(Pool!Addresses) /\ l[t] # <<>>
    BY <1>2, ListedAt
  <2> QED
    BY <1>2, <1>4, <2>1
<1>6. \A u \in PoolThreads : Len(l[u]) \in Nat /\ Len(m[u]) \in Nat
  BY <1>4, <1>5, ListedAt
\* Where a position of the new lists was in the old ones.
<1> DEFINE Was(u, i) == IF u = t THEN i + 1 ELSE i
<1>7. \A u \in PoolThreads : \A i \in 1 .. Len(m[u]) :
        Was(u, i) \in 1 .. Len(l[u]) /\ m[u][i] = l[u][Was(u, i)]
  BY <1>4, <1>5
<1>8. ASSUME NEW u \in PoolThreads, NEW i \in 1 .. Len(m[u])
      PROVE  m[u][i] # a /\ m[u][i] \in Pool!Addresses
  <2>1. Was(u, i) \in 1 .. Len(l[u]) /\ m[u][i] = l[u][Was(u, i)] /\ 1 \in 1 .. Len(l[t])
    BY <1>2, <1>7
  <2>2. u = t => Was(u, i) # 1
    BY <1>6
  <2> HIDE DEF Was
  <2>3. PICK k : k = Was(u, i)
    OBVIOUS
  <2>4. k \in 1 .. Len(l[u]) /\ m[u][i] = l[u][k] /\ (u = t => k # 1)
    BY <2>1, <2>2, <2>3
  <2>5. l[u][k] = l[t][1] => u = t /\ k = 1
    BY <2>1, <2>4 DEF Listed, OnceOK
  <2>6. l[u][k] \in Pool!Addresses
    BY <2>4, ListedAt
  <2> QED
    BY <1>2, <2>4, <2>5, <2>6
<1>9. /\ \A x \in Pool!Addresses : x # a => word'[x] = word[x]
      /\ word'[a] = 0
      /\ poolHead'[t] = word[a]
      /\ \A u \in PoolThreads : u # t => poolHead'[u] = poolHead[u]
      /\ inUse' = inUse \cup {a}
      /\ Total' = Total
  <2>1. inUse' = inUse \cup {a} /\ Total' = Total
    BY <1>1 DEF Total
  <2>2. /\ word' = [word EXCEPT ![a] = 0] /\ word \in [Pool!Addresses -> Pool!Addresses \cup {0}]
        /\ poolHead' = [poolHead EXCEPT ![t] = word[a]]
        /\ poolHead \in [PoolThreads -> Pool!Addresses \cup {0}]
    BY <1>1 DEF PoolTypeOK
  <2> QED
    BY <1>2, <2>1, <2>2
<1>10. PoolTypeOK'
  <2>1. word[a] \in Pool!Addresses \cup {0}
    BY <1>2 DEF PoolTypeOK
  <2> HIDE DEF Pool!EnterPool, Pool!GetFrom
  <2>2. /\ poolHead' = [poolHead EXCEPT ![t] = word[a]] /\ hasPool' = hasPool \cup {t}
        /\ word' = [word EXCEPT ![a] = 0] /\ chunks' = chunks /\ inUse' = inUse \cup {a}
    BY <1>1 DEF Pool!EnterPool, Pool!GetFrom
  <2> QED
    BY <1>2, <2>1, <2>2 DEF PoolTypeOK
<1>11. HeadsOK(m)'
  <2>1. ASSUME NEW u \in PoolThreads, u # t
        PROVE  /\ Len(m[u]) = 0 => poolHead'[u] = 0
               /\ Len(m[u]) > 0 => poolHead'[u] = m[u][1]
    BY <1>4, <1>9, <2>1 DEF Listed, HeadsOK
  <2>2. /\ Len(m[t]) = 0 => poolHead'[t] = 0
        /\ Len(m[t]) > 0 => poolHead'[t] = m[t][1]
    <3>1. /\ 1 = Len(l[t]) => word[l[t][1]] = 0
          /\ 1 # Len(l[t]) => word[l[t][1]] = l[t][1 + 1]
      <4>1. 1 \in 1 .. Len(l[t])
        BY <1>2
      <4> QED
        BY <4>1 DEF Listed, WordsOK
    <3>2. Len(m[t]) = 0 => 1 = Len(l[t])
      <4>1. Len(l[t]) \in Nat /\ Len(m[t]) = Len(l[t]) - 1
        BY <1>2, <1>5
      <4>2. \A n \in Nat : n - 1 = 0 => 1 = n
        OBVIOUS
      <4> QED
        BY <4>1, <4>2
    <3>3. Len(m[t]) > 0 => 1 # Len(l[t]) /\ 1 \in 1 .. Len(m[t])
      BY <1>2, <1>5
    <3>4. 1 \in 1 .. Len(m[t]) => m[t][1] = l[t][1 + 1]
      BY <1>5
    <3>5. poolHead'[t] = word[l[t][1]]
      BY <1>2, <1>9
    <3>6. Len(m[t]) = 0 => poolHead'[t] = 0
      BY <3>1, <3>2, <3>5
    <3>7. Len(m[t]) > 0 => poolHead'[t] = l[t][1 + 1]
      BY <3>1, <3>3, <3>5
    <3> QED
      BY <3>3, <3>4, <3>6, <3>7
  <2> QED
    BY <2>1, <2>2 DEF HeadsOK
<1>12. WordsOK(m)'
  <2>1. ASSUME NEW u \in PoolThreads, NEW i \in 1 .. Len(m[u])
        PROVE  /\ i = Len(m[u]) => word'[m[u][i]] = 0
               /\ i # Len(m[u]) => word'[m[u][i]] = m[u][i + 1]
    <3>1. word'[m[u][i]] = word[m[u][i]]
      BY <1>8, <1>9
    <3>2. CASE u # t
      BY <1>4, <3>1, <3>2 DEF Listed, WordsOK
    <3>3. CASE u = t
      <4>1. PICK k : k = i + 1
        OBVIOUS
      <4>2. k \in 1 .. Len(l[t]) /\ m[t][i] = l[t][k]
        BY <1>5, <3>3, <4>1
      <4>3. /\ k = Len(l[t]) => word[l[t][k]] = 0
            /\ k # Len(l[t]) => word[l[t][k]] = l[t][k + 1]
        BY <4>2 DEF Listed, WordsOK
      <4>4. i # Len(m[t]) => m[t][i + 1] = l[t][k + 1]
        <5>1. i # Len(m[t]) => k \in 1 .. Len(m[t])
          BY <1>5, <3>3, <4>1
        <5>2. k \in 1 .. Len(m[t]) => m[t][k] = l[t][k + 1]
          BY <1>5
        <5> QED
          BY <4>1, <5>1, <5>2
      <4>5. i = Len(m[t]) <=> k = Len(l[t])
        BY <1>2, <1>5, <3>3, <4>1
      <4> QED
        BY <3>1, <3>3, <4>2, <4>3, <4>4, <4>5
    <3> QED
      BY <3>2, <3>3
  <2> QED
    BY <2>1 DEF WordsOK
<1>13. FreeOK(m)'
  <2>1. ASSUME NEW u \in PoolThreads, NEW i \in 1 .. Len(m[u])
        PROVE  m[u][i] \in 1 .. Total /\ m[u][i] \notin inUse
    <3>1. PICK k : k = Was(u, i)
      OBVIOUS
    <3>2. k \in 1 .. Len(l[u]) /\ m[u][i] = l[u][k]
      BY <1>7, <3>1
    <3> QED
      BY <3>2, ListedAt
  <2> QED
    BY <1>8, <1>9, <2>1 DEF FreeOK
<1>14. CoverOK(m)'
  <2>1. inUse' \subseteq 1 .. Total
    BY <1>2, <1>9 DEF Listed, CoverOK
  <2>2. ASSUME NEW x \in 1 .. Total, x \notin inUse, x # a
        PROVE  \E u \in PoolThreads : \E i \in 1 .. Len(m[u]) : m[u][i] = x
    <3>1. PICK u \in PoolThreads : \E i \in 1 .. Len(l[u]) : l[u][i] = x
      BY <2>2 DEF Listed, CoverOK
    <3>2. PICK k \in 1 .. Len(l[u]) : l[u][k] = x
      BY <3>1
    <3>3. CASE u # t
      BY <1>4, <3>2, <3>3
    <3>4. CASE u = t
      <4>1. k # 1
        BY <1>2, <2>2, <3>2, <3>4
      <4>2. PICK i : i = k - 1
        OBVIOUS
      <4>3. i \in 1 .. Len(m[t]) /\ i + 1 = k
        BY <1>2, <1>5, <3>4, <4>1, <4>2
      <4>4. m[t][i] = l[t][i + 1]
        BY <1>5, <4>3
      <4> QED
        BY <3>2, <3>4, <4>3, <4>4
    <3> QED
      BY <3>3, <3>4
  <2> QED
    BY <1>9, <2>1, <2>2 DEF CoverOK
<1>15. OnceOK(m)'
  <2>1. ASSUME NEW u \in PoolThreads, NEW v \in PoolThreads,
               NEW i \in 1 .. Len(m[u]), NEW j \in 1 .. Len(m[v]), m[u][i] = m[v][j]
        PROVE  u = v /\ i = j
    <3>1. u = v /\ Was(u, i) = Was(v, j)
      <4> HIDE DEF Was
      <4>1. PICK k, n : k = Was(u, i) /\ n = Was(v, j)
        OBVIOUS
      <4>2. k \in 1 .. Len(l[u]) /\ n \in 1 .. Len(l[v]) /\ l[u][k] = l[v][n]
        BY <1>7, <2>1, <4>1
      <4>3. u = v /\ k = n
        BY <4>2 DEF Listed, OnceOK
      <4> QED
        BY <4>1, <4>3
    <3> QED
      BY <1>6, <3>1
  <2> QED
    BY <2>1 DEF OnceOK
<1>16. Listed(m)'
  BY <1>4, <1>11, <1>12, <1>13, <1>14, <1>15 DEF Listed
<1> QED
  BY <1>4, <1>10, <1>16 DEF PoolInv

\* The words of the blocks when a new chunk has been linked in and its last block taken.
LEMMA NewWords ==
    ASSUME PoolTypeOK, NEW N \in Nat, N = Total, chunks < MaxChunks,
           word' = [Pool!LinkedIn(chunks) EXCEPT ![Count * (chunks + 1)] = 0]
    PROVE  /\ Count \in Nat /\ Count > 0 /\ \A x \in 1 .. N + Count : x \in Pool!Addresses
           /\ Count * (chunks + 1) = N + Count
           /\ \A x \in Pool!Addresses : x <= N => word'[x] = word[x]
           /\ \A x \in Pool!Addresses : x > N + 1 /\ x < N + Count => word'[x] = x - 1
           /\ \A x \in Pool!Addresses : x = N + 1 /\ x < N + Count => word'[x] = 0
           /\ Count > 1 => Pool!LinkedIn(chunks)[N + Count] = N + Count - 1
           /\ Count = 1 => Pool!LinkedIn(chunks)[N + Count] = 0
           /\ word' \in [Pool!Addresses -> Pool!Addresses \cup {0}]
<1>1. /\ Count \in Nat /\ Count > 0 /\ Count * (chunks + 1) = N + Count
      /\ Count * MaxChunks \in Nat /\ N + Count <= Count * MaxChunks
  BY TotalType, PoolAssumption
<1>2. \A x \in 1 .. N + Count : x \in Pool!Addresses
  BY <1>1 DEF Pool!Addresses
<1>3. Pool!Chunk(chunks) = N + 1 .. N + Count
  BY <1>1 DEF Pool!Chunk, Total
<1>4. Pool!LinkedIn(chunks) = [x \in Pool!Addresses |->
          IF x \in N + 1 .. N + Count /\ x - 1 \in N + 1 .. N + Count THEN x - 1
          ELSE IF x \in N + 1 .. N + Count THEN 0 ELSE word[x]]
  BY <1>3 DEF Pool!LinkedIn
<1>5. \A x \in Pool!Addresses : x \in Nat
  BY <1>1 DEF Pool!Addresses
<1>6. PICK f : f = Pool!LinkedIn(chunks)
  OBVIOUS
<1>7. /\ DOMAIN f = Pool!Addresses
      /\ \A x \in Pool!Addresses : /\ x <= N => f[x] = word[x]
                                   /\ x > N + 1 /\ x <= N + Count => f[x] = x - 1
                                   /\ x = N + 1 => f[x] = 0
  BY <1>1, <1>4, <1>5, <1>6
<1>8. f \in [Pool!Addresses -> Pool!Addresses \cup {0}]
  <2>1. ASSUME NEW x \in Pool!Addresses
        PROVE  f[x] \in Pool!Addresses \cup {0}
    <3>1. word[x] \in Pool!Addresses \cup {0}
      BY DEF PoolTypeOK
    <3>2. x \in N + 1 .. N + Count /\ x - 1 \in N + 1 .. N + Count => x - 1 \in Pool!Addresses
      BY <1>1, <1>2, <1>5
    <3>3. f[x] = IF x \in N + 1 .. N + Count /\ x - 1 \in N + 1 .. N + Count THEN x - 1
                 ELSE IF x \in N + 1 .. N + Count THEN 0 ELSE word[x]
      BY <1>4, <1>6
    <3> QED
      BY <3>1, <3>2, <3>3
  <2>2. f = [x \in Pool!Addresses |-> f[x]]
    BY <1>4, <1>6
  <2> QED
    BY <2>1, <2>2
<1>9. PICK b : b = N + Count
  OBVIOUS
<1>10. b \in Pool!Addresses
  BY <1>1, <1>2, <1>9
<1>11. word' = [f EXCEPT ![b] = 0]
  BY <1>1, <1>6, <1>9
<1>12. /\ word' \in [Pool!Addresses -> Pool!Addresses \cup {0}]
       /\ \A x \in Pool!Addresses : x # b => word'[x] = f[x]
  BY <1>8, <1>11
<1>13. /\ \A x \in Pool!Addresses : x <= N => word'[x] = word[x]
       /\ \A x \in Pool!Addresses : x > N + 1 /\ x < N + Count => word'[x] = x - 1
       /\ \A x \in Pool!Addresses : x = N + 1 /\ x < N + Count => word'[x] = 0
  BY <1>1, <1>5, <1>7, <1>9, <1>12
<1>14. /\ Count > 1 => f[b] = N + Count - 1
       /\ Count = 1 => f[b] = 0
  BY <1>1, <1>7, <1>9, <1>10
<1> QED
  BY <1>1, <1>2, <1>6, <1>9, <1>12, <1>13, <1>14

\* Get from an empty list: the blocks of a new chunk but the one taken, backwards.
LEMMA TakesNew ==
    ASSUME PoolTypeOK, NEW t \in PoolThreads,
           NEW l \in [PoolThreads -> Seq(Pool!Addresses)], Listed(l),
           Pool!EnterPool(t), poolHead[t] = 0, chunks < MaxChunks, chunks' = chunks + 1,
           Pool!GetFrom(t, Pool!LinkedIn(chunks), Count * (chunks + 1)),
           word' = [Pool!LinkedIn(chunks) EXCEPT ![Count * (chunks + 1)] = 0],
           UNCHANGED crashed
    PROVE  PoolInv'
<1>1. PICK N \in Nat : N = Total
  BY TotalType
<1>2. /\ Count \in Nat /\ Count > 0 /\ \A x \in 1 .. N + Count : x \in Pool!Addresses
      /\ Count * (chunks + 1) = N + Count
      /\ \A x \in Pool!Addresses : x <= N => word'[x] = word[x]
      /\ \A x \in Pool!Addresses : x > N + 1 /\ x < N + Count => word'[x] = x - 1
      /\ \A x \in Pool!Addresses : x = N + 1 /\ x < N + Count => word'[x] = 0
      /\ Count > 1 => Pool!LinkedIn(chunks)[N + Count] = N + Count - 1
      /\ Count = 1 => Pool!LinkedIn(chunks)[N + Count] = 0
      /\ word' \in [Pool!Addresses -> Pool!Addresses \cup {0}]
  BY <1>1, NewWords
<1>3. /\ Total' = N + Count
      /\ inUse' = inUse \cup {N + Count}
      /\ poolHead' = [poolHead EXCEPT ![t] = Pool!LinkedIn(chunks)[N + Count]]
      /\ hasPool' = hasPool \cup {t}
  BY <1>1, <1>2 DEF Total, Pool!GetFrom, Pool!NewHead, Pool!EnterPool
<1>4. /\ \A u \in PoolThreads : u # t => poolHead'[u] = poolHead[u]
      /\ Count > 1 => poolHead'[t] = N + Count - 1
      /\ Count = 1 => poolHead'[t] = 0
  BY <1>2, <1>3 DEF PoolTypeOK
<1>5. PoolTypeOK'
  <2>1. Pool!LinkedIn(chunks)[N + Count] \in Pool!Addresses \cup {0}
    BY <1>1, <1>2
  <2>2. N + Count \in Pool!Addresses
    BY <1>1, <1>2
  <2>3. chunks' \in 0 .. MaxChunks
    BY PoolAssumption DEF PoolTypeOK
  <2> QED
    BY <1>2, <1>3, <2>1, <2>2, <2>3 DEF PoolTypeOK
<1>6. \A x \in Pool!Addresses : x \in Nat
  BY TotalType DEF Pool!Addresses
<1>7. PICK s : s = [i \in 1 .. Count - 1 |-> N + Count - i]
  OBVIOUS
<1>8. /\ s \in Seq(Pool!Addresses) /\ Len(s) = Count - 1
      /\ \A i \in 1 .. Len(s) : s[i] = N + Count - i
  <2>1. Count - 1 \in Nat
    BY <1>2
  <2>2. s \in [1 .. Count - 1 -> Pool!Addresses]
    BY <1>1, <1>2, <1>7
  <2>3. \A n \in Nat : \A f \in [1 .. n -> Pool!Addresses] : f \in Seq(Pool!Addresses) /\ Len(f) = n
    OBVIOUS
  <2>4. s \in Seq(Pool!Addresses) /\ Len(s) = Count - 1
    BY <2>1, <2>2, <2>3
  <2> QED
    BY <1>7, <2>4
<1>9. PICK m : m = [l EXCEPT ![t] = s]
  OBVIOUS
<1>10. /\ m \in [PoolThreads -> Seq(Pool!Addresses)]
       /\ m[t] = s
       /\ \A u \in PoolThreads : u # t => m[u] = l[u]
  BY <1>8, <1>9
\* The new list's blocks lie above those of the others.
<1>11. \A u \in PoolThreads : u # t => \A i \in 1 .. Len(m[u]) :
          m[u][i] \in 1 .. N /\ m[u][i] \notin inUse
  BY <1>1, <1>10, ListedAt
<1>12. \A i \in 1 .. Len(s) : s[i] \in N + 1 .. N + Count - 1
  BY <1>1, <1>2, <1>8
<1>13. Len(l[t]) = 0 /\ inUse \subseteq 1 .. N
  BY <1>1, ListedAt DEF Listed, CoverOK
<1>14. HeadsOK(m)'
  <2>1. ASSUME NEW u \in PoolThreads, u # t
        PROVE  /\ Len(m[u]) = 0 => poolHead'[u] = 0
               /\ Len(m[u]) > 0 => poolHead'[u] = m[u][1]
    BY <1>4, <1>10, <2>1 DEF Listed, HeadsOK
  <2>2. /\ Len(s) = 0 => poolHead'[t] = 0
        /\ Len(s) > 0 => poolHead'[t] = s[1]
    BY <1>1, <1>2, <1>4, <1>8
  <2> QED
    BY <1>10, <2>1, <2>2 DEF HeadsOK
<1>15. WordsOK(m)'
  <2>1. ASSUME NEW u \in PoolThreads, NEW i \in 1 .. Len(m[u]), u # t
        PROVE  /\ i = Len(m[u]) => word'[m[u][i]] = 0
               /\ i # Len(m[u]) => word'[m[u][i]] = m[u][i + 1]
    <3>1. m[u][i] \in 1 .. N
      BY <1>11, <2>1
    <3>2. m[u][i] \in Pool!Addresses /\ m[u][i] <= N
      BY <1>1, <1>2, <3>1
    <3>3. word'[m[u][i]] = word[m[u][i]]
      BY <1>2, <3>2
    <3>4. /\ i = Len(l[u]) => word[l[u][i]] = 0
          /\ i # Len(l[u]) => word[l[u][i]] = l[u][i + 1]
      BY <1>10, <2>1 DEF Listed, WordsOK
    <3> QED
      BY <1>10, <2>1, <3>3, <3>4
  <2>2. ASSUME NEW i \in 1 .. Len(s)
        PROVE  /\ i = Len(s) => word'[s[i]] = 0
               /\ i # Len(s) => word'[s[i]] = s[i + 1]
    <3>1. s[i] = N + Count - i /\ s[i] \in Pool!Addresses /\ s[i] < N + Count
      BY <1>1, <1>2, <1>8, <2>2
    <3>2. i = Len(s) => s[i] = N + 1
      BY <1>1, <1>2, <1>8, <3>1
    <3>3. i # Len(s) => s[i] > N + 1 /\ i + 1 \in 1 .. Len(s)
      BY <1>1, <1>2, <1>8, <3>1
    <3>4. i + 1 \in 1 .. Len(s) => s[i + 1] = N + Count - (i + 1)
      BY <1>8
    <3>5. i = Len(s) => word'[s[i]] = 0
      BY <1>2, <3>1, <3>2
    <3>6. i # Len(s) => word'[s[i]] = s[i] - 1
      BY <1>2, <3>1, <3>3
    <3>7. i # Len(s) => s[i + 1] = s[i] - 1
      BY <1>1, <1>2, <3>1, <3>3, <3>4
    <3> QED
      BY <3>5, <3>6, <3>7
  <2> QED
    BY <1>10, <2>1, <2>2 DEF WordsOK
<1>16. FreeOK(m)'
  <2>1. ASSUME NEW u \in PoolThreads, NEW i \in 1 .. Len(m[u])
        PROVE  m[u][i] \in 1 .. N + Count /\ m[u][i] \notin inUse \cup {N + Count}
    <3>1. CASE u # t
      <4>1. m[u][i] \in 1 .. N /\ m[u][i] \notin inUse
        BY <1>11, <3>1
      <4> QED
        BY SMTT(30), <1>1, <1>2, <4>1
    <3>2. CASE u = t
      <4>1. m[u][i] \in N + 1 .. N + Count - 1
        BY <1>10, <1>12, <3>2
      <4> QED
        BY <1>1, <1>2, <1>13, <4>1
    <3> QED
      BY <3>1, <3>2
  <2> QED
    BY <1>3, <2>1 DEF FreeOK
<1>17. CoverOK(m)'
  <2>1. inUse \cup {N + Count} \subseteq 1 .. N + Count
    BY <1>1, <1>2, <1>13
  <2>2. ASSUME NEW x \in 1 .. N + Count, x \notin inUse, x # N + Count
        PROVE  \E u \in PoolThreads : \E i \in 1 .. Len(m[u]) : m[u][i] = x
    <3>1. CASE x <= N
      <4>1. x \in 1 .. Total
        BY <1>1, <3>1
      <4>2. PICK u \in PoolThreads : \E i \in 1 .. Len(l[u]) : l[u][i] = x
        BY <2>2, <4>1 DEF Listed, CoverOK
      <4>3. u # t
        BY <1>13, <4>2
      <4> QED
        BY <1>10, <4>2, <4>3
    <3>2. CASE x > N
      <4>1. PICK i : i = N + Count - x
        OBVIOUS
      <4>2. i \in 1 .. Len(s)
        BY <1>1, <1>2, <1>8, <2>2, <3>2, <4>1
      <4>3. s[i] = N + Count - i
        BY <1>8, <4>2
      <4>4. N + Count - i = x
        BY <1>1, <1>2, <4>1
      <4> QED
        BY <1>10, <4>2, <4>3, <4>4
    <3> QED
      BY <1>1, <3>1, <3>2
  <2> QED
    BY <1>3, <2>1, <2>2 DEF CoverOK
<1>18. OnceOK(m)'
  <2>1. ASSUME NEW u \in PoolThreads, NEW v \in PoolThreads,
               NEW i \in 1 .. Len(m[u]), NEW j \in 1 .. Len(m[v]), m[u][i] = m[v][j]
        PROVE  u = v /\ i = j
    <3>1. CASE u # t /\ v # t
      BY <1>10, <2>1, <3>1 DEF Listed, OnceOK
    <3>2. CASE u = t /\ v = t
      <4>1. s[i] = N + Count - i /\ s[j] = N + Count - j /\ i \in Int /\ j \in Int
        BY <1>8, <1>10, <3>2
      <4>2. N + Count - i = N + Count - j
        BY <1>10, <2>1, <3>2, <4>1
      <4> QED
        BY <1>1, <1>2, <3>2, <4>1, <4>2
    <3>3. CASE u = t /\ v # t
      <4>1. m[u][i] \in N + 1 .. N + Count - 1 /\ m[v][j] \in 1 .. N
        BY <1>10, <1>11, <1>12, <3>3
      <4> QED
        BY <1>1, <2>1, <4>1
    <3>4. CASE u # t /\ v = t
      <4>1. m[v][j] \in N + 1 .. N + Count - 1 /\ m[u][i] \in 1 .. N
        BY <1>10, <1>11, <1>12, <3>4
      <4> QED
        BY <1>1, <2>1, <4>1
    <3> QED
      BY <3>1, <3>2, <3>3, <3>4
  <2> QED
    BY <2>1 DEF OnceOK
<1>19. Listed(m)'
  BY <1>10, <1>14, <1>15, <1>16, <1>17, <1>18 DEF Listed
<1> QED
  BY <1>5, <1>10, <1>19 DEF PoolInv

\* Release puts the block before the others of the thread that calls it.
LEMMA PutsFirst ==
    ASSUME PoolTypeOK, NEW t \in PoolThreads,
           NEW l \in [PoolThreads -> Seq(Pool!Addresses)], Listed(l),
           NEW a \in Pool!Addresses, a \in inUse, Pool!PutBack(t, a)
    PROVE  PoolInv'
<1>1. /\ a \in inUse /\ inUse' = inUse \ {a} /\ Total' = Total
      /\ word' \in [Pool!Addresses -> Pool!Addresses \cup {0}]
      /\ poolHead' \in [PoolThreads -> Pool!Addresses \cup {0}]
      /\ \A x \in Pool!Addresses : x # a => word'[x] = word[x]
      /\ word'[a] = poolHead[t] /\ poolHead'[t] = a
      /\ \A u \in PoolThreads : u # t => poolHead'[u] = poolHead[u]
  <2>1. /\ word' = [word EXCEPT ![a] = poolHead[t]] /\ word \in [Pool!Addresses -> Pool!Addresses \cup {0}]
        /\ poolHead' = [poolHead EXCEPT ![t] = a] /\ poolHead \in [PoolThreads -> Pool!Addresses \cup {0}]
    BY DEF Pool!PutBack, PoolTypeOK
  <2>2. a \in inUse /\ inUse' = inUse \ {a} /\ chunks' = chunks
    BY DEF Pool!PutBack
  <2>3. Total' = Total
    BY <2>2 DEF Total
  <2> QED
    BY <2>1, <2>2, <2>3
<1>2. PoolTypeOK'
  BY <1>1 DEF PoolTypeOK, Pool!PutBack
<1>3. PICK s : s = <<a>> \o l[t]
  OBVIOUS
<1>4. l[t] \in Seq(Pool!Addresses) /\ Len(l[t]) \in Nat
  BY ListedAt
<1>5. /\ s \in Seq(Pool!Addresses) /\ Len(s) = Len(l[t]) + 1 /\ s[1] = a
      /\ \A i \in 1 .. Len(l[t]) : s[i + 1] = l[t][i]
  BY <1>3, <1>4
<1>6. \A i \in 1 .. Len(s) : i = 1 \/ \E k \in 1 .. Len(l[t]) : i = k + 1 /\ s[i] = l[t][k]
  <2>1. ASSUME NEW i \in 1 .. Len(s), i # 1
        PROVE  i - 1 \in 1 .. Len(l[t]) /\ i = (i - 1) + 1
    BY <1>4, <1>5, <2>1
  <2> QED
    BY <1>5, <2>1
<1>7. PICK m : m = [l EXCEPT ![t] = s]
  OBVIOUS
<1>8. /\ m \in [PoolThreads -> Seq(Pool!Addresses)]
      /\ m[t] = s
      /\ \A u \in PoolThreads : u # t => m[u] = l[u]
  BY <1>5, <1>7
\* No block of a list is the one that comes back.
<1>9. \A u \in PoolThreads : \A i \in 1 .. Len(l[u]) :
        l[u][i] # a /\ l[u][i] \in Pool!Addresses /\ l[u][i] \in 1 .. Total /\ l[u][i] \notin inUse
  BY <1>1, ListedAt
<1>10. HeadsOK(m)'
  <2>1. ASSUME NEW u \in PoolThreads, u # t
        PROVE  /\ Len(m[u]) = 0 => poolHead'[u] = 0
               /\ Len(m[u]) > 0 => poolHead'[u] = m[u][1]
    BY <1>1, <1>8, <2>1 DEF Listed, HeadsOK
  <2>2. Len(s) # 0 /\ poolHead'[t] = s[1]
    BY <1>1, <1>4, <1>5
  <2> QED
    BY <1>8, <2>1, <2>2 DEF HeadsOK
<1>11. WordsOK(m)'
  <2>1. ASSUME NEW u \in PoolThreads, NEW k \in 1 .. Len(l[u])
        PROVE  /\ k = Len(l[u]) => word'[l[u][k]] = 0
               /\ k # Len(l[u]) => word'[l[u][k]] = l[u][k + 1]
    <3>1. word'[l[u][k]] = word[l[u][k]]
      BY <1>1, <1>9
    <3> QED
      BY <3>1 DEF Listed, WordsOK
  <2>2. ASSUME NEW i \in 1 .. Len(s)
        PROVE  /\ i = Len(s) => word'[s[i]] = 0
               /\ i # Len(s) => word'[s[i]] = s[i + 1]
    <3>1. CASE i = 1
      <4>1. word'[s[i]] = poolHead[t]
        BY <1>1, <1>5, <3>1
      <4>2. i = Len(s) => Len(l[t]) = 0
        BY <1>4, <1>5, <3>1
      <4>3. i # Len(s) => Len(l[t]) > 0 /\ 1 \in 1 .. Len(l[t])
        BY <1>4, <1>5, <3>1
      <4>4. 1 \in 1 .. Len(l[t]) => s[i + 1] = l[t][1]
        BY <1>5, <3>1
      <4>5. /\ Len(l[t]) = 0 => poolHead[t] = 0
            /\ Len(l[t]) > 0 => poolHead[t] = l[t][1]
        BY DEF Listed, HeadsOK
      <4> QED
        BY <4>1, <4>2, <4>3, <4>4, <4>5
    <3>2. CASE i # 1
      <4>1. PICK k \in 1 .. Len(l[t]) : i = k + 1 /\ s[i] = l[t][k]
        BY <1>6, <3>2
      <4>2. i = Len(s) <=> k = Len(l[t])
        BY <1>4, <1>5, <4>1
      <4>3. k # Len(l[t]) => i \in 1 .. Len(l[t]) /\ s[i + 1] = l[t][i]
        BY <1>4, <1>5, <4>1
      <4>4. /\ k = Len(l[t]) => word'[l[t][k]] = 0
            /\ k # Len(l[t]) => word'[l[t][k]] = l[t][k + 1]
        BY <2>1
      <4> QED
        BY <4>1, <4>2, <4>3, <4>4
    <3> QED
      BY <3>1, <3>2
  <2>3. ASSUME NEW u \in PoolThreads, NEW i \in 1 .. Len(m[u])
        PROVE  /\ i = Len(m[u]) => word'[m[u][i]] = 0
               /\ i # Len(m[u]) => word'[m[u][i]] = m[u][i + 1]
    <3>1. CASE u = t
      <4>1. m[u] = s
        BY <1>8, <3>1
      <4> QED
        BY <2>2, <2>3, <4>1
    <3>2. CASE u # t
      <4>1. m[u] = l[u]
        BY <1>8, <3>2
      <4> QED
        BY <2>1, <2>3, <4>1
    <3> QED
      BY <3>1, <3>2
  <2> QED
    BY <2>3 DEF WordsOK
<1>12. FreeOK(m)'
  <2>1. a \in 1 .. Total
    BY <1>1 DEF Listed, CoverOK
  <2>2. ASSUME NEW i \in 1 .. Len(s)
        PROVE  s[i] \in 1 .. Total /\ s[i] \notin inUse \ {a}
    <3>1. CASE i = 1
      BY <1>5, <2>1, <3>1
    <3>2. CASE i # 1
      <4>1. PICK k \in 1 .. Len(l[t]) : s[i] = l[t][k]
        BY <1>6, <3>2
      <4> QED
        BY <1>9, <4>1
    <3> QED
      BY <3>1, <3>2
  <2> QED
    BY <1>1, <1>8, <1>9, <2>2 DEF FreeOK
<1>13. CoverOK(m)'
  <2>1. inUse \ {a} \subseteq 1 .. Total
    BY DEF Listed, CoverOK
  <2>2. ASSUME NEW x \in 1 .. Total, x \notin inUse \ {a}
        PROVE  \E u \in PoolThreads : \E i \in 1 .. Len(m[u]) : m[u][i] = x
    <3>1. CASE x = a
      <4>1. 1 \in 1 .. Len(s)
        BY <1>4, <1>5
      <4> QED
        BY <1>5, <1>8, <3>1, <4>1
    <3>2. CASE x # a
      <4>1. PICK u \in PoolThreads : \E i \in 1 .. Len(l[u]) : l[u][i] = x
        BY <2>2, <3>2 DEF Listed, CoverOK
      <4>2. PICK k \in 1 .. Len(l[u]) : l[u][k] = x
        BY <4>1
      <4>3. CASE u # t
        BY <1>8, <4>2, <4>3
      <4>4. CASE u = t
        <5>1. k + 1 \in 1 .. Len(s) /\ s[k + 1] = x
          BY <1>4, <1>5, <4>2, <4>4
        <5> QED
          BY <1>8, <5>1
      <4> QED
        BY <4>3, <4>4
    <3> QED
      BY <3>1, <3>2
  <2> QED
    BY <1>1, <2>1, <2>2 DEF CoverOK
<1>14. OnceOK(m)'
  <2>1. \A u, v \in PoolThreads : \A i \in 1 .. Len(l[u]), j \in 1 .. Len(l[v]) :
          l[u][i] = l[v][j] => u = v /\ i = j
    BY DEF Listed, OnceOK
  <2>2. ASSUME NEW i \in 1 .. Len(s), NEW j \in 1 .. Len(s), s[i] = s[j]
        PROVE  i = j
    <3>1. ASSUME NEW n \in 1 .. Len(s), n # 1
          PROVE  s[n] # a
      <4>1. PICK k \in 1 .. Len(l[t]) : s[n] = l[t][k]
        BY <1>6, <3>1
      <4> QED
        BY <1>9, <4>1
    <3>2. CASE i # 1 /\ j # 1
      <4>1. PICK k \in 1 .. Len(l[t]) : i = k + 1 /\ s[i] = l[t][k]
        BY <1>6, <3>2
      <4>2. PICK n \in 1 .. Len(l[t]) : j = n + 1 /\ s[j] = l[t][n]
        BY <1>6, <3>2
      <4>3. k = n
        BY <2>1, <2>2, <4>1, <4>2
      <4> QED
        BY <4>1, <4>2, <4>3
    <3> QED
      BY <1>5, <2>2, <3>1, <3>2
  <2>3. ASSUME NEW i \in 1 .. Len(s), NEW u \in PoolThreads, u # t,
               NEW j \in 1 .. Len(l[u])
        PROVE  s[i] # l[u][j]
    BY <1>5, <1>6, <1>9, <2>1, <2>3
  <2>4. ASSUME NEW u \in PoolThreads, NEW v \in PoolThreads,
               NEW i \in 1 .. Len(m[u]), NEW j \in 1 .. Len(m[v]), m[u][i] = m[v][j]
        PROVE  u = v /\ i = j
    <3>1. CASE u # t /\ v # t
      BY <1>8, <2>1, <2>4, <3>1
    <3>2. CASE u = t /\ v = t
      BY <1>8, <2>2, <2>4, <3>2
    <3>3. CASE u = t /\ v # t
      BY <1>8, <2>3, <2>4, <3>3
    <3>4. CASE u # t /\ v = t
      BY <1>8, <2>3, <2>4, <3>4
    <3> QED
      BY <3>1, <3>2, <3>3, <3>4
  <2> QED
    BY <2>4 DEF OnceOK
<1>15. Listed(m)'
  BY <1>8, <1>10, <1>11, <1>12, <1>13, <1>14 DEF Listed
<1> QED
  BY <1>2, <1>8, <1>15 DEF PoolInv

-----------------------------------------------------------------------------
(* The theorems.                                                            *)

LEMMA NextPool ==
    ASSUME PoolInv, [Pool!Next]_(Pool!vars)
    PROVE  PoolInv'
<1>1. PoolTypeOK
  BY DEF PoolInv
<1>2. PICK l \in [PoolThreads -> Seq(Pool!Addresses)] : Listed(l)
  BY DEF PoolInv
<1>3. ASSUME NEW t \in PoolThreads, Pool!Get(t)
      PROVE  PoolInv'
  <2>1. CASE poolHead[t] # 0
    BY <1>1, <1>2, <1>3, <2>1, TakesHead DEF Pool!Get
  <2>2. CASE poolHead[t] = 0
    BY <1>1, <1>2, <1>3, <2>2, TakesNew DEF Pool!Get
  <2> QED
    BY <2>1, <2>2
<1>4. ASSUME NEW t \in PoolThreads, NEW a \in Pool!Addresses, Pool!Release(t, a)
      PROVE  PoolInv'
  <2>1. CASE t \in hasPool /\ Pool!PutBack(t, a)
    <3>1. a \in inUse
      BY <1>4 DEF Pool!Release
    <3> QED
      BY <1>1, <1>2, <2>1, <3>1, PutsFirst
  <2>2. CASE t \notin hasPool /\ Pool!NullRelease
    <3>1. PoolTypeOK'
      BY <1>1, <2>2 DEF Pool!NullRelease, PoolTypeOK
    <3>2. Listed(l)'
      BY <1>2, <2>2
         DEF Pool!NullRelease, Listed, HeadsOK, WordsOK, FreeOK, CoverOK, OnceOK, Total
    <3> QED
      BY <1>2, <3>1, <3>2 DEF PoolInv
  <2> QED
    BY <1>4, <2>1, <2>2 DEF Pool!Release
<1>5. ASSUME UNCHANGED Pool!vars
      PROVE  PoolInv'
  <2>1. PoolTypeOK'
    BY <1>1, <1>5 DEF Pool!vars, PoolTypeOK
  <2>2. Listed(l)'
    BY <1>2, <1>5 DEF Pool!vars, Listed, HeadsOK, WordsOK, FreeOK, CoverOK, OnceOK, Total
  <2> QED
    BY <1>2, <2>1, <2>2 DEF PoolInv
<1> QED
  BY <1>3, <1>4, <1>5 DEF Pool!Next

THEOREM PoolInductive ==
    Pool!Spec => []PoolInv
<1>1. Pool!Init => PoolInv
  BY InitPool
<1>2. PoolInv /\ [Pool!Next]_(Pool!vars) => PoolInv'
  BY NextPool
<1> QED
  BY <1>1, <1>2, PTL DEF Pool!Spec

\* Heads, words and blocks in use keep to the addresses of the chunks.
THEOREM PoolTypeCorrect ==
    Pool!Spec => []PoolTypeOK
<1>1. PoolInv => PoolTypeOK
  BY DEF PoolInv
<1> QED
  BY PoolInductive, <1>1, PTL

\* Whatever threads take and give back blocks, every block of every chunk is in one
\* object or at one place of one thread's free list.
THEOREM BlocksNeverLost ==
    Pool!Spec => []BlocksOnce
<1>1. PoolInv => BlocksOnce
  BY ListsAreFreeLists DEF PoolInv
<1> QED
  BY PoolInductive, <1>1, PTL

-----------------------------------------------------------------------------
(* Param.                                                                   *)

\* A tame value is inside the limits, so that no tame sum can wrap twice.
NumberInv ==
    /\ value \in Int /\ tame \in BOOLEAN
    /\ tame => Number!Inside(value)

\* A remainder is the number itself when that is smaller than the divisor.
LEMMA SmallRemainder ==
    ASSUME NEW a \in Nat, NEW m \in Nat \ {0}, a < m
    PROVE  a % m = a
OBVIOUS

LEMMA RemainderType ==
    ASSUME NEW a \in Int, NEW m \in Nat \ {0}
    PROVE  a % m \in Int /\ a \div m \in Int
OBVIOUS

\* Clamp keeps to the limits, and keeps a value that does.
LEMMA Clamped ==
    ASSUME NEW x \in Int
    PROVE  Number!Clamp(x) \in Int /\ Number!Inside(Number!Clamp(x))
BY ParamAssumption DEF Number!Clamp, Number!Inside

\* The sum of an int32_t is an integer, and the right one unless it overflows.
LEMMA Sums ==
    ASSUME NEW x \in Int, NEW s \in Number!Ints(x)
    PROVE  s \in Int /\ (~Number!Overflow(x) => s = x)
<1> DEFINE m == 4 * Limit
           a == x + 2 * Limit
<1>1. m \in Nat \ {0} /\ a \in Int /\ Limit \in Nat
  BY ParamAssumption
<1>2. s = x \/ s = (a % m) - 2 * Limit
  BY DEF Number!Ints, Number!Wrapped
<1>3. ~Number!Overflow(x) => a \in Nat /\ a < m
  BY ParamAssumption DEF Number!Overflow
<1>4. a = x + 2 * Limit
  OBVIOUS
<1> HIDE DEF a, m
<1>5. a % m \in Int
  BY <1>1, RemainderType
<1>6. ~Number!Overflow(x) => a % m = a
  BY <1>1, <1>3, SmallRemainder
<1> QED
  BY <1>1, <1>2, <1>4, <1>5, <1>6

\* A quotient of integers is an integer.
LEMMA TruncType ==
    ASSUME NEW x \in Int, NEW y \in Int, y # 0
    PROVE  Number!Trunc(x, y) \in Int
<1>1. PICK a : a = IF x < 0 THEN -x ELSE x
  OBVIOUS
<1>2. PICK b : b = IF y < 0 THEN -y ELSE y
  OBVIOUS
<1>3. a \in Int /\ b \in Nat \ {0}
  BY <1>1, <1>2
<1>4. a \div b \in Int
  BY <1>3, RemainderType
<1>5. Number!Trunc(x, y) = (a \div b) * (IF (x < 0) = (y < 0) THEN 1 ELSE -1)
  BY <1>1, <1>2 DEF Number!Trunc
<1> QED
  BY <1>4, <1>5

\* Every operation leaves an integer, inside the limits if it was tame.
LEMMA NumberStep ==
    ASSUME NumberInv, NEW d \in Params, Number!Assign(d) \/ Number!Operate(d)
    PROVE  NumberInv'
<1>1. value \in Int /\ d \in Int /\ tame \in BOOLEAN /\ Decimal \in Int /\ Decimal # 0
  BY ParamAssumption DEF NumberInv
<1>2. CASE Number!Assign(d)
  <2>1. value' \in Int
    BY <1>1, <1>2 DEF Number!Assign
  <2>2. tame' = (d \in -Limit .. Limit) /\ value' = d
    BY ONLY <1>2, Zenon DEF Number!Assign, Number!Inside
  <2>3. tame' \in BOOLEAN /\ (tame' => value' \in -Limit .. Limit)
    <3>1. CASE d \in -Limit .. Limit
      <4>1. tame' = TRUE
        BY ONLY <2>2, <3>1, Zenon
      <4> QED
        BY ONLY <2>2, <3>1, <4>1, Zenon
    <3>2. CASE ~(d \in -Limit .. Limit)
      <4>1. (d \in -Limit .. Limit) = FALSE
        BY ONLY <3>2
      <4>2. tame' = FALSE
        BY ONLY <2>2, <4>1, Zenon
      <4> QED
        BY ONLY <4>2, Zenon
    <3> QED
      BY <3>1, <3>2
  <2> QED
    BY <2>1, <2>3 DEF NumberInv, Number!Inside
<1>3. CASE Number!Plus(d)
  <2>1. PICK s \in Number!Ints(value + d) : value' = Number!Clamp(s)
    BY <1>3 DEF Number!Plus
  <2>2. s \in Int
    BY <1>1, Sums
  <2>3. value' \in Int /\ Number!Inside(value')
    BY <2>1, <2>2, Clamped
  <2> QED
    BY <1>1, <1>3, <2>3 DEF Number!Plus, NumberInv, Number!Inside
<1>4. CASE Number!Minus(d)
  <2>1. PICK s \in Number!Ints(value - d) : value' = Number!Clamp(s)
    BY <1>4 DEF Number!Minus
  <2>2. s \in Int
    BY <1>1, Sums
  <2>3. value' \in Int /\ Number!Inside(value')
    BY <2>1, <2>2, Clamped
  <2> QED
    BY <1>1, <1>4, <2>3 DEF Number!Minus, NumberInv, Number!Inside
<1>5. CASE Number!Times(d)
  <2>1. Number!Trunc(value * d, Decimal * Decimal) \in Int
    BY <1>1, TruncType
  <2>2. value' \in Int /\ Number!Inside(value')
    BY <1>5, <2>1, Clamped DEF Number!Times
  <2> QED
    BY <1>1, <1>5, <2>2 DEF Number!Times, NumberInv, Number!Inside
<1>6. CASE Number!Over(d)
  <2>1. PICK q \in Int : value' = Number!Clamp(q)
    BY <1>1, <1>6, TruncType DEF Number!Over
  <2>2. value' \in Int /\ Number!Inside(value')
    BY <2>1, Clamped
  <2> QED
    BY <1>1, <1>6, <2>2 DEF Number!Over, NumberInv, Number!Inside
<1> QED
  BY <1>2, <1>3, <1>4, <1>5, <1>6 DEF Number!Operate

\* A sum or difference that is tame goes the way of its operand's sign.
LEMMA SumsGoTheirWay ==
    ASSUME NumberInv, tame', NEW d \in Params, d >= 0
    PROVE  /\ Number!Plus(d) => value' >= value
           /\ Number!Minus(d) => value' <= value
<1>1. value \in Int /\ d \in Int /\ Limit \in Nat
  BY ParamAssumption DEF NumberInv
<1>2. ASSUME Number!Plus(d) PROVE value' >= value
  <2>1. PICK s \in Number!Ints(value + d) : value' = Number!Clamp(s)
    BY <1>2 DEF Number!Plus
  <2>2. tame /\ ~Number!Overflow(value + d)
    BY <1>2 DEF Number!Plus
  <2>3. s = value + d
    BY <1>1, <2>2, Sums
  <2>4. -Limit <= value /\ value <= Limit
    BY <1>1, <2>2 DEF NumberInv, Number!Inside
  <2> QED
    BY <1>1, <2>1, <2>3, <2>4 DEF Number!Clamp
<1>3. ASSUME Number!Minus(d) PROVE value' <= value
  <2>1. PICK s \in Number!Ints(value - d) : value' = Number!Clamp(s)
    BY <1>3 DEF Number!Minus
  <2>2. tame /\ ~Number!Overflow(value - d)
    BY <1>3 DEF Number!Minus
  <2>3. s = value - d
    BY <1>1, <2>2, Sums
  <2>4. -Limit <= value /\ value <= Limit
    BY <1>1, <2>2 DEF NumberInv, Number!Inside
  <2> QED
    BY <1>1, <2>1, <2>3, <2>4 DEF Number!Clamp
<1> QED
  BY <1>2, <1>3

LEMMA NumberInductive == Number!Spec => []NumberInv
<1>1. Number!Init => NumberInv
  BY ParamAssumption DEF Number!Init, NumberInv, Number!Inside
<1>2. NumberInv /\ [Number!Next]_(Number!vars) => NumberInv'
  <2> SUFFICES ASSUME NumberInv, [Number!Next]_(Number!vars) PROVE NumberInv'
    OBVIOUS
  <2>1. CASE Number!Next
    BY <2>1, NumberStep DEF Number!Next
  <2>2. CASE UNCHANGED Number!vars
    BY <2>2 DEF Number!vars, NumberInv, Number!Inside
  <2> QED
    BY <2>1, <2>2
<1> QED
  BY <1>1, <1>2, PTL DEF Number!Spec

\* Whatever operations follow each other, a value that was assigned inside the limits
\* and met no overflow (MAX + MAX) stays inside, and adding never lowers it nor subtracting raises it.
THEOREM ValuesSaturate == Number!Spec => Saturates
<1> DEFINE Step == tame' =>
        /\ Number!Inside(value')
        /\ \A d \in Params : d >= 0 =>
              (Number!Plus(d) => value' >= value) /\ (Number!Minus(d) => value' <= value)
<1>1. ASSUME NumberInv, NumberInv', [Number!Next]_(Number!vars)
      PROVE  [Step]_(Number!vars)
  BY <1>1, SumsGoTheirWay DEF NumberInv
<1>2. [][Step]_(Number!vars) => Saturates
  BY PTL DEF Saturates, Number!Saturates
<1> QED
  BY NumberInductive, <1>1, <1>2, PTL DEF Number!Spec

-----------------------------------------------------------------------------
(* Calendar.                                                                *)

\* The days of a year before the first of month r.
Before(r) == <<0, 31, 59, 90, 120, 151, 181, 212, 243, 273, 304, 334>>[r + 1]

\* Months of a year, without a division.
LEMMA FirstDayAt ==
    ASSUME NEW y \in Nat, NEW r \in 0 .. 11
    PROVE  Dates!FirstDay(12 * y + r)
              = 365 * y + (y + 1) \div 4 + Before(r) + (IF r > 1 /\ y % 4 = 2 THEN 1 ELSE 0)
<1>1. (12 * y + r) \div 12 = y /\ (12 * y + r) % 12 = r
  OBVIOUS
<1>2. PICK mon : mon = 12 * y + r
  OBVIOUS
<1>3. mon \div 12 = y /\ mon % 12 = r
  BY <1>1, <1>2
<1>4. Dates!FirstDay(mon) = 365 * y + (y + 1) \div 4 + Before(r) + (IF r > 1 /\ y % 4 = 2 THEN 1 ELSE 0)
  BY <1>3 DEF Dates!FirstDay, Before
<1> QED
  BY <1>2, <1>4

\* A division of integers, told by its remainder.
LEMMA Quotients ==
    ASSUME NEW m \in Nat \ {0}, NEW a \in Int, NEW q \in Int, NEW r \in 0 .. m - 1, a = m * q + r
    PROVE  a \div m = q /\ a % m = r
<1>1. PICK p : p = a \div m
  OBVIOUS
<1>2. PICK s : s = a % m
  OBVIOUS
<1>3. p \in Int /\ s \in 0 .. m - 1 /\ a = m * p + s
  BY <1>1, <1>2
<1>4. PICK k : k = p - q
  OBVIOUS
<1>5. k \in Int /\ m * k = r - s /\ p = q + k
  BY <1>3, <1>4
<1>6. ~(k >= 1)
  <2>1. k >= 1 => m * k >= m
    BY <1>5
  <2> QED
    BY <1>3, <1>5, <2>1
<1>7. ~(k <= -1)
  <2>1. k <= -1 => m * k <= -m
    BY <1>5
  <2> QED
    BY <1>3, <1>5, <2>1
<1>8. k = 0
  BY <1>5, <1>6, <1>7
<1> QED
  BY <1>1, <1>2, <1>3, <1>5, <1>8

\* A month has 28 to 31 days.
LEMMA MonthLength ==
    ASSUME NEW m \in Nat
    PROVE  /\ Dates!FirstDay(m) \in Nat /\ Dates!FirstDay(m + 1) \in Nat
           /\ Dates!FirstDay(m) + 28 <= Dates!FirstDay(m + 1)
           /\ Dates!FirstDay(m + 1) <= Dates!FirstDay(m) + 31
<1>1. PICK y \in Nat, r \in 0 .. 11 : m = 12 * y + r
  <2>1. PICK a : a = m \div 12
    OBVIOUS
  <2>2. PICK b : b = m % 12
    OBVIOUS
  <2>3. a \in Nat /\ b \in 0 .. 11 /\ m = 12 * a + b
    BY <2>1, <2>2
  <2> QED
    BY <2>3
<1>2. Dates!FirstDay(m) = 365 * y + (y + 1) \div 4 + Before(r) + (IF r > 1 /\ y % 4 = 2 THEN 1 ELSE 0)
  BY <1>1, FirstDayAt
<1>3. /\ Before(0) = 0 /\ Before(1) = 31 /\ Before(2) = 59 /\ Before(3) = 90
      /\ Before(4) = 120 /\ Before(5) = 151 /\ Before(6) = 181 /\ Before(7) = 212
      /\ Before(8) = 243 /\ Before(9) = 273 /\ Before(10) = 304 /\ Before(11) = 334
  BY DEF Before
<1>4. CASE r < 11
  <2>1. Dates!FirstDay(12 * y + (r + 1))
          = 365 * y + (y + 1) \div 4 + Before(r + 1) + (IF r + 1 > 1 /\ y % 4 = 2 THEN 1 ELSE 0)
    BY <1>4, FirstDayAt
  <2>2. 12 * y + (r + 1) = m + 1
    BY <1>1
  <2>3. r \in {0, 1, 2, 3, 4, 5, 6, 7, 8, 9, 10}
    BY <1>4
  <2>4. PICK q \in Nat : q = (y + 1) \div 4
    OBVIOUS
  <2>5. /\ Before(r) \in Nat /\ Before(r + 1) \in Nat
        /\ Before(r) + 28 <= Before(r + 1) /\ Before(r + 1) <= Before(r) + 31
        /\ r = 1 => Before(r + 1) = Before(r) + 28
    BY <1>3, <2>3
  <2>6. PICK leap \in {0, 1} : leap = IF y % 4 = 2 THEN 1 ELSE 0
    OBVIOUS
  <2>7. /\ Dates!FirstDay(m) = 365 * y + q + Before(r) + (IF r > 1 THEN leap ELSE 0)
        /\ Dates!FirstDay(m + 1) = 365 * y + q + Before(r + 1) + (IF r >= 1 THEN leap ELSE 0)
    <3>1. CASE y % 4 = 2
      BY <1>2, <2>1, <2>2, <2>3, <2>4, <2>5, <2>6, <3>1
    <3>2. CASE y % 4 # 2
      BY <1>2, <2>1, <2>2, <2>3, <2>4, <2>5, <2>6, <3>2
    <3> QED
      BY <3>1, <3>2
  <2>8. PICK f, g : f = Dates!FirstDay(m) /\ g = Dates!FirstDay(m + 1)
    OBVIOUS
  <2>9. PICK b, c : b = Before(r) /\ c = Before(r + 1)
    OBVIOUS
  <2>10. f \in Nat /\ g \in Nat /\ f + 28 <= g /\ g <= f + 31
    <3>1. CASE r = 0
      BY <2>4, <2>5, <2>6, <2>7, <2>8, <2>9, <3>1
    <3>2. CASE r = 1
      BY <2>4, <2>5, <2>6, <2>7, <2>8, <2>9, <3>2
    <3>3. CASE r > 1
      BY <2>4, <2>5, <2>6, <2>7, <2>8, <2>9, <3>3
    <3> QED
      BY <3>1, <3>2, <3>3
  <2> QED
    BY <2>8, <2>10
<1>5. CASE r = 11
  <2>1. PICK z \in Nat : z = y + 1
    OBVIOUS
  <2>2. 12 * z + 0 = m + 1
    BY <1>1, <1>5, <2>1
  <2>3. Dates!FirstDay(m + 1) = 365 * (y + 1) + (y + 2) \div 4
    <3>1. Dates!FirstDay(12 * z + 0)
            = 365 * z + (z + 1) \div 4 + Before(0) + (IF 0 > 1 /\ z % 4 = 2 THEN 1 ELSE 0)
      BY FirstDayAt
    <3>2. Dates!FirstDay(m + 1) = 365 * z + (z + 1) \div 4
      BY <1>3, <2>1, <2>2, <3>1
    <3>3. z + 1 = y + 2
      BY <2>1
    <3> QED
      BY <2>1, <3>2, <3>3
  <2>4. Dates!FirstDay(m) = 365 * y + (y + 1) \div 4 + 334 + (IF y % 4 = 2 THEN 1 ELSE 0)
    BY <1>2, <1>3, <1>5
  <2>5. /\ (y + 2) \div 4 = (y + 1) \div 4 + (IF y % 4 = 2 THEN 1 ELSE 0)
        /\ (y + 1) \div 4 \in Nat /\ (y + 2) \div 4 \in Nat
    OBVIOUS
  <2> QED
    BY <2>3, <2>4, <2>5
<1> QED
  BY <1>4, <1>5

\* Later months begin later.
LEMMA MonthsAscend ==
    ASSUME NEW m \in Nat, NEW n \in Nat, m < n
    PROVE  Dates!FirstDay(m + 1) <= Dates!FirstDay(n)
<1> DEFINE T == {k \in Nat : k > m /\ Dates!FirstDay(k) < Dates!FirstDay(m + 1)}
<1>1. SUFFICES ASSUME n \in T PROVE FALSE
  BY MonthLength
<1>2. PICK k \in T : \A i \in T : ~(<<i, k>> \in OpToRel(<, Nat))
  <2>1. T \subseteq Nat /\ T # {}
    BY <1>1
  <2> HIDE DEF T
  <2> QED
    BY <2>1, NatLessThanWellFounded, WFMin
<1>3. \A i \in T : ~(i < k)
  BY <1>2 DEF OpToRel
<1>4. k \in Nat /\ k > m + 1
  BY MonthLength
<1>5. PICK i \in Nat : i + 1 = k
  <2>1. k - 1 \in Nat /\ (k - 1) + 1 = k
    BY <1>4
  <2> QED
    BY <2>1
<1>6. Dates!FirstDay(i) + 28 <= Dates!FirstDay(i + 1) /\ Dates!FirstDay(i) \in Nat
      /\ Dates!FirstDay(m + 1) \in Nat
  BY MonthLength
<1>7. i \in T
  <2>1. Dates!FirstDay(k) < Dates!FirstDay(m + 1) /\ Dates!FirstDay(k) \in Nat
    BY <1>2, <1>5, <1>6, MonthLength
  <2>2. Dates!FirstDay(i) < Dates!FirstDay(m + 1)
    BY <1>5, <1>6, <2>1
  <2>3. i > m
    BY <1>4, <1>5
  <2> QED
    BY <2>2, <2>3
<1>8. i < k
  BY <1>5
<1> HIDE DEF T
<1> QED
  BY <1>3, <1>7, <1>8

\* Every day is in a month, before the months that begin after it.
LEMMA MonthOf ==
    ASSUME NEW day \in Nat, NEW n \in Nat, day < Dates!FirstDay(n)
    PROVE  \E m \in 0 .. n - 1 : Dates!FirstDay(m) <= day /\ day < Dates!FirstDay(m + 1)
<1> DEFINE T == {k \in Nat : day < Dates!FirstDay(k)}
<1>1. PICK k \in T : \A i \in T : ~(<<i, k>> \in OpToRel(<, Nat))
  <2>1. T \subseteq Nat /\ n \in T
    OBVIOUS
  <2> HIDE DEF T
  <2> QED
    BY <2>1, NatLessThanWellFounded, WFMin
<1>2. \A i \in T : ~(i < k)
  BY <1>1 DEF OpToRel
<1>3. k \in Nat /\ day < Dates!FirstDay(k) /\ k <= n
  BY <1>2
<1>4. k # 0
  <2>1. Dates!FirstDay(0) = 0
    BY DEF Dates!FirstDay
  <2> QED
    BY <1>3, <2>1
<1>5. PICK i \in Nat : i + 1 = k
  <2>1. k - 1 \in Nat /\ (k - 1) + 1 = k
    BY <1>3, <1>4
  <2> QED
    BY <2>1
<1>6. ~(day < Dates!FirstDay(i))
  BY <1>2, <1>5
<1>7. Dates!FirstDay(i) \in Nat
  BY MonthLength
<1>8. Dates!FirstDay(i) <= day /\ day < Dates!FirstDay(i + 1)
  BY <1>3, <1>5, <1>6, <1>7
<1> QED
  BY <1>3, <1>5, <1>8

\* A day is in one month only.
LEMMA MonthIs ==
    ASSUME NEW day \in Nat, NEW mon \in 0 .. LastMonth + 12,
           Dates!FirstDay(mon) <= day, day < Dates!FirstDay(mon + 1)
    PROVE  (CHOOSE m \in 0 .. LastMonth + 12 :
                Dates!FirstDay(m) <= day /\ day < Dates!FirstDay(m + 1)) = mon
<1> DEFINE InMonth(m) == Dates!FirstDay(m) <= day /\ day < Dates!FirstDay(m + 1)
<1>1. LastMonth \in Nat /\ 0 .. LastMonth + 12 \subseteq Nat
  BY CalendarAssumption
<1>2. ASSUME NEW m \in 0 .. LastMonth + 12, InMonth(m) PROVE m = mon
  <2>1. m \in Nat /\ mon \in Nat
    BY <1>1
  <2>2. /\ Dates!FirstDay(m) \in Nat /\ Dates!FirstDay(m + 1) \in Nat
        /\ Dates!FirstDay(mon) \in Nat /\ Dates!FirstDay(mon + 1) \in Nat
    BY <2>1, MonthLength
  <2>3. CASE m < mon
    BY <1>2, <2>1, <2>2, <2>3, MonthsAscend
  <2>4. CASE mon < m
    BY <1>2, <2>1, <2>2, <2>4, MonthsAscend
  <2> QED
    BY <2>1, <2>3, <2>4
<1>3. InMonth(mon)
  OBVIOUS
<1> HIDE DEF InMonth
<1>4. (CHOOSE m \in 0 .. LastMonth + 12 : InMonth(m)) = mon
  BY <1>2, <1>3
<1> QED
  BY <1>4 DEF InMonth

LEMMA DayLengthType == Dates!DayLength \in Nat \ {0}
<1>1. DaySeconds \in Nat \ {0} /\ SecondLength \in Nat \ {0}
  BY CalendarAssumption
<1> QED
  BY <1>1 DEF Dates!DayLength

\* The std::tm of a moment.
LEMMA TmOf ==
    ASSUME NEW day \in Nat, NEW mon \in 0 .. LastMonth + 12,
           Dates!FirstDay(mon) <= day, day < Dates!FirstDay(mon + 1),
           NEW r \in 0 .. Dates!DayLength - 1, NEW count \in Int,
           count = Dates!DayLength * day + r
    PROVE  Dates!CountToTm(count)
             = [mon |-> mon, mday |-> day - Dates!FirstDay(mon) + 1,
                sec |-> r \div SecondLength, wday |-> (day + 4) % 7]
<1>1. Dates!DayLength \in Nat \ {0}
  BY DayLengthType
<1>2. count \div Dates!DayLength = day /\ count % Dates!DayLength = r
  BY <1>1, Quotients
<1>3. (CHOOSE m \in 0 .. LastMonth + 12 :
         Dates!FirstDay(m) <= day /\ day < Dates!FirstDay(m + 1)) = mon
  BY MonthIs
<1> QED
  BY <1>2, <1>3, Zenon DEF Dates!CountToTm

\* A count of days at midnight.
LEMMA Midnights ==
    ASSUME NEW d \in Int
    PROVE  SecondLength * (DaySeconds * d + 0) = Dates!DayLength * d
<1>1. DaySeconds \in Nat \ {0} /\ SecondLength \in Nat \ {0}
  BY CalendarAssumption
<1> QED
  BY <1>1 DEF Dates!DayLength

LEMMA CountAt ==
    ASSUME NEW mon \in Nat, NEW mday \in Int, NEW wday
    PROVE  Dates!TmToCount([mon |-> mon, mday |-> mday, sec |-> 0, wday |-> wday])
             = Dates!DayLength * (Dates!FirstDay(mon) + mday - 1)
<1>1. Dates!FirstDay(mon) + mday - 1 \in Int
  BY MonthLength
<1>2. PICK d \in Int : d = Dates!FirstDay(mon) + mday - 1
  BY <1>1
<1>3. Dates!TmToCount([mon |-> mon, mday |-> mday, sec |-> 0, wday |-> wday])
        = SecondLength * (DaySeconds * d + 0)
  BY <1>2 DEF Dates!TmToCount
<1> QED
  BY <1>2, <1>3, Midnights

\* A period begins at the midnight of its first day, and ends before the midnight of
\* the first day after it.
LEMMA PeriodsAt ==
    ASSUME NEW day \in Nat, NEW mon \in 0 .. LastMonth + 12,
           Dates!FirstDay(mon) <= day, day < Dates!FirstDay(mon + 1),
           NEW r \in 0 .. Dates!DayLength - 1, NEW count \in Int,
           count = Dates!DayLength * day + r, NEW w \in 0 .. 6, w = (day + 4) % 7
    PROVE  /\ Dates!DayStart(count) = Dates!DayLength * day
           /\ Dates!DayEnd(count) = Dates!DayLength * (day + 1) - 1
           /\ Dates!MonthStart(count) = Dates!DayLength * Dates!FirstDay(mon)
           /\ Dates!MonthEnd(count) = Dates!DayLength * Dates!FirstDay(mon + 1) - 1
           /\ Dates!WeekStart(count) = Dates!DayLength * (day - w)
           /\ Dates!WeekEnd(count) = Dates!DayLength * (day - w + 7) - 1
<1>2. PICK f \in Nat : f = Dates!FirstDay(mon)
  <2>1. mon \in Nat
    BY CalendarAssumption
  <2> QED
    BY <2>1, MonthLength
<1>3. PICK next \in Nat : next = mon + 1
  BY CalendarAssumption
<1>4. Dates!CountToTm(count)
        = [mon |-> mon, mday |-> day - f + 1, sec |-> r \div SecondLength, wday |-> w]
  BY <1>2, TmOf
<1>5. Dates!MidnightOf(count) = [mon |-> mon, mday |-> day - f + 1, sec |-> 0, wday |-> w]
  BY <1>4 DEF Dates!MidnightOf
<1>6. Dates!SundayOf(count) = [mon |-> mon, mday |-> day - f + 1 - w, sec |-> 0, wday |-> w]
  BY <1>4, <1>5 DEF Dates!SundayOf
<1>7. mon \in Nat /\ f + (day - f + 1) - 1 = day
  BY CalendarAssumption
<1>8. PICK g \in Nat : g = Dates!FirstDay(mon + 1)
  BY <1>7, MonthLength
<1>9. Dates!DayStart(count) = Dates!DayLength * day
  <2>1. Dates!TmToCount([mon |-> mon, mday |-> day - f + 1, sec |-> 0, wday |-> w])
          = Dates!DayLength * (f + (day - f + 1) - 1)
    BY <1>2, <1>7, CountAt
  <2> QED
    BY <1>5, <1>7, <2>1 DEF Dates!DayStart
<1>10. Dates!DayEnd(count) = Dates!DayLength * (day + 1) - 1
  <2>1. PICK mday \in Int : mday = day - f + 1 + 1
    OBVIOUS
  <2>2. Dates!TmToCount([mon |-> mon, mday |-> mday, sec |-> 0, wday |-> w])
          = Dates!DayLength * (f + mday - 1)
    BY <1>2, <1>7, CountAt
  <2>3. f + mday - 1 = day + 1
    BY <2>1
  <2>4. [Dates!MidnightOf(count) EXCEPT !.mday = @ + 1]
          = [mon |-> mon, mday |-> mday, sec |-> 0, wday |-> w]
    BY <1>5, <2>1
  <2> QED
    BY <2>2, <2>3, <2>4 DEF Dates!DayEnd
<1>11. Dates!MonthStart(count) = Dates!DayLength * f
  <2>1. Dates!TmToCount([mon |-> mon, mday |-> 1, sec |-> 0, wday |-> w])
          = Dates!DayLength * (f + 1 - 1)
    BY <1>2, <1>7, CountAt
  <2>2. f + 1 - 1 = f
    OBVIOUS
  <2>3. [Dates!MidnightOf(count) EXCEPT !.mday = 1]
          = [mon |-> mon, mday |-> 1, sec |-> 0, wday |-> w]
    BY <1>5
  <2> QED
    BY <2>1, <2>2, <2>3 DEF Dates!MonthStart
<1>12. Dates!MonthEnd(count) = Dates!DayLength * g - 1
  <2>1. Dates!TmToCount([mon |-> next, mday |-> 1, sec |-> 0, wday |-> w])
          = Dates!DayLength * (Dates!FirstDay(next) + 1 - 1)
    BY CountAt
  <2>2. Dates!FirstDay(next) = g /\ g + 1 - 1 = g
    BY <1>3, <1>8
  <2>3. PICK tm : tm = [Dates!MidnightOf(count) EXCEPT !.mday = 1, !.mon = @ + 1]
    OBVIOUS
  <2>4. tm.mon = next /\ tm.mday = 1 /\ tm.sec = 0
    BY <1>3, <1>5, <2>3
  <2>5. Dates!TmToCount(tm)
          = Dates!TmToCount([mon |-> next, mday |-> 1, sec |-> 0, wday |-> w])
    BY <2>4 DEF Dates!TmToCount
  <2> QED
    BY <2>1, <2>2, <2>3, <2>5 DEF Dates!MonthEnd
<1>13. Dates!WeekStart(count) = Dates!DayLength * (day - w)
  <2>1. PICK mday \in Int : mday = day - f + 1 - w
    OBVIOUS
  <2>2. Dates!TmToCount([mon |-> mon, mday |-> mday, sec |-> 0, wday |-> w])
          = Dates!DayLength * (f + mday - 1)
    BY <1>2, <1>7, CountAt
  <2>3. f + mday - 1 = day - w
    BY <2>1
  <2> QED
    BY <1>6, <2>1, <2>2, <2>3 DEF Dates!WeekStart
<1>14. Dates!WeekEnd(count) = Dates!DayLength * (day - w + 7) - 1
  <2>1. PICK mday \in Int : mday = day - f + 1 - w + 7
    OBVIOUS
  <2>2. Dates!TmToCount([mon |-> mon, mday |-> mday, sec |-> 0, wday |-> w])
          = Dates!DayLength * (f + mday - 1)
    BY <1>2, <1>7, CountAt
  <2>3. f + mday - 1 = day - w + 7
    BY <2>1
  <2>4. [Dates!SundayOf(count) EXCEPT !.mday = @ + 7]
          = [mon |-> mon, mday |-> mday, sec |-> 0, wday |-> w]
    BY <1>6, <2>1
  <2> QED
    BY <2>2, <2>3, <2>4 DEF Dates!WeekEnd
<1> QED
  <2>1. Dates!MonthStart(count) = Dates!DayLength * Dates!FirstDay(mon)
    BY ONLY <1>2, <1>11, Zenon
  <2>2. Dates!MonthEnd(count) = Dates!DayLength * Dates!FirstDay(mon + 1) - 1
    BY ONLY <1>8, <1>12, Zenon
  <2> QED
    BY ONLY <1>9, <1>10, <1>13, <1>14, <2>1, <2>2, Zenon

\* Later days begin later.
LEMMA Ordered ==
    ASSUME NEW a \in Int, NEW b \in Int, a <= b
    PROVE  /\ Dates!DayLength * a \in Int /\ Dates!DayLength * b \in Int
           /\ Dates!DayLength * a <= Dates!DayLength * b
           /\ Dates!DayLength * (a + 1) = Dates!DayLength * a + Dates!DayLength
<1>1. PICK l \in Nat \ {0} : l = Dates!DayLength
  BY DayLengthType
<1>2. PICK k \in Nat : b = a + k
  <2>1. b - a \in Nat /\ b = a + (b - a)
    OBVIOUS
  <2> QED
    BY <2>1
<1>3. l * k >= 0 /\ l * k \in Int /\ l * a \in Int
  BY <1>1, <1>2
<1>4. l * b = l * a + l * k
  BY <1>1, <1>2
<1>5. l * (a + 1) = l * a + l
  BY <1>1
<1> QED
  BY <1>1, <1>3, <1>4, <1>5

\* A moment is a day, which is in a month, and what of the day is over.
LEMMA Split ==
    ASSUME moment \in 0 .. Dates!LastMoment
    PROVE  \E day \in Nat, mon \in 0 .. LastMonth - 1, r \in 0 .. Dates!DayLength - 1 :
               /\ moment = Dates!DayLength * day + r
               /\ Dates!FirstDay(mon) <= day /\ day < Dates!FirstDay(mon + 1)
               /\ day < Dates!FirstDay(LastMonth)
<1>1. PICK l \in Nat \ {0} : l = Dates!DayLength
  BY DayLengthType
<1>2. LastMonth \in Nat
  BY CalendarAssumption
<1>3. PICK f \in Nat : f = Dates!FirstDay(LastMonth)
  BY <1>2, MonthLength
<1>4. moment \in Nat /\ moment < l * f
  BY <1>1, <1>3 DEF Dates!LastMoment
<1>5. PICK day : day = moment \div l
  OBVIOUS
<1>6. PICK r : r = moment % l
  OBVIOUS
<1>7. day \in Nat /\ r \in 0 .. l - 1 /\ moment = l * day + r
  BY <1>4, <1>5, <1>6
<1>8. day < f
  <2>1. SUFFICES ASSUME f <= day PROVE FALSE
    BY <1>3, <1>7
  <2>2. l * f \in Int /\ l * day \in Int /\ l * f <= l * day
    BY <1>1, <1>3, <1>7, <2>1, Ordered
  <2> QED
    BY <1>4, <1>7, <2>2
<1>9. PICK mon \in 0 .. LastMonth - 1 : Dates!FirstDay(mon) <= day /\ day < Dates!FirstDay(mon + 1)
  BY <1>2, <1>3, <1>7, <1>8, MonthOf
<1> QED
  BY <1>1, <1>3, <1>7, <1>8, <1>9

\* The day and the week of a moment a little after the last one, too.
LEMMA StartsAt ==
    ASSUME NEW day \in Nat, day < Dates!FirstDay(LastMonth) + 28,
           NEW r \in 0 .. Dates!DayLength - 1, NEW count \in Int,
           count = Dates!DayLength * day + r, NEW w \in 0 .. 6, w = (day + 4) % 7
    PROVE  /\ Dates!DayStart(count) = Dates!DayLength * day
           /\ Dates!WeekStart(count) = Dates!DayLength * (day - w)
<1>1. LastMonth \in Nat
  BY CalendarAssumption
<1>2. PICK n \in Nat : n = LastMonth + 1
  BY <1>1
<1>3. day < Dates!FirstDay(n)
  BY <1>1, <1>2, MonthLength
<1>4. PICK mon \in 0 .. n - 1 : Dates!FirstDay(mon) <= day /\ day < Dates!FirstDay(mon + 1)
  BY <1>3, MonthOf
<1>5. mon \in 0 .. LastMonth + 12
  BY <1>1, <1>2, <1>4
<1> QED
  BY <1>4, <1>5, PeriodsAt

\* Days, weeks and months cover the time line.
LEMMA DaysTile ==
    ASSUME NEW day \in Nat, NEW mon \in 0 .. LastMonth - 1, NEW r \in 0 .. Dates!DayLength - 1,
           moment = Dates!DayLength * day + r,
           Dates!FirstDay(mon) <= day, day < Dates!FirstDay(mon + 1),
           day < Dates!FirstDay(LastMonth)
    PROVE  Dates!Tiles(Dates!DayStart, Dates!DayEnd)
<1>1. PICK l \in Nat \ {0} : l = Dates!DayLength
  BY DayLengthType
<1>2. LastMonth \in Nat /\ mon \in 0 .. LastMonth + 12
  BY CalendarAssumption
<1>3. Dates!FirstDay(LastMonth) \in Nat
  BY <1>2, MonthLength
<1>4. l * (day + 1) = l * day + l /\ l * day \in Int /\ moment \in Int
  BY <1>1, Ordered
<1>5. PICK w \in 0 .. 6 : w = (day + 4) % 7
  OBVIOUS
<1>6. Dates!DayStart(moment) = l * day /\ Dates!DayEnd(moment) = l * (day + 1) - 1
  BY ZenonT(40), <1>1, <1>2, <1>4, <1>5, PeriodsAt
<1>7. Dates!DayStart(moment) <= moment /\ moment <= Dates!DayEnd(moment)
  BY <1>1, <1>4, <1>6
<1>8. Dates!DayStart(Dates!DayEnd(moment)) = l * day
  <2>1. PICK last \in Int : last = Dates!DayEnd(moment)
    BY <1>4, <1>6
  <2>2. PICK s \in 0 .. l - 1 : s = l - 1
    OBVIOUS
  <2>3. last = l * day + s
    BY <1>4, <1>6, <2>1, <2>2
  <2>4. Dates!DayStart(last) = l * day
    BY <1>1, <1>3, <1>5, <2>2, <2>3, StartsAt
  <2> QED
    BY <2>1, <2>4
<1>9. Dates!DayStart(Dates!DayEnd(moment) + 1) = Dates!DayEnd(moment) + 1
  <2>1. PICK next \in Int : next = Dates!DayEnd(moment) + 1
    BY <1>4, <1>6
  <2>2. PICK d \in Nat : d = day + 1
    OBVIOUS
  <2>3. PICK v \in 0 .. 6 : v = (d + 4) % 7
    OBVIOUS
  <2>4. next = l * d + 0 /\ next = l * d
    BY <1>4, <1>6, <2>1, <2>2
  <2>5. d < Dates!FirstDay(LastMonth) + 28
    BY <1>3, <2>2
  <2>6. 0 \in 0 .. l - 1
    OBVIOUS
  <2>7. Dates!DayStart(next) = l * d
    BY <1>1, <2>3, <2>4, <2>5, <2>6, StartsAt
  <2> QED
    BY <2>1, <2>4, <2>7
<1> QED
  BY <1>6, <1>7, <1>8, <1>9 DEF Dates!Tiles

LEMMA WeeksTile ==
    ASSUME NEW day \in Nat, NEW mon \in 0 .. LastMonth - 1, NEW r \in 0 .. Dates!DayLength - 1,
           moment = Dates!DayLength * day + r,
           Dates!FirstDay(mon) <= day, day < Dates!FirstDay(mon + 1),
           day < Dates!FirstDay(LastMonth)
    PROVE  Dates!Tiles(Dates!WeekStart, Dates!WeekEnd)
<1>1. PICK l \in Nat \ {0} : l = Dates!DayLength
  BY DayLengthType
<1>2. LastMonth \in Nat /\ mon \in 0 .. LastMonth + 12
  BY CalendarAssumption
<1>3. Dates!FirstDay(LastMonth) \in Nat
  BY <1>2, MonthLength
<1>4. PICK w \in 0 .. 6 : w = (day + 4) % 7
  OBVIOUS
<1>5. PICK sunday \in Int : sunday = day - w
  OBVIOUS
<1>6. PICK saturday \in Nat : saturday = sunday + 6
  BY <1>4, <1>5
<1>7. PICK d \in Nat : d = sunday + 7
  BY <1>4, <1>5
<1>8. /\ l * day \in Int /\ l * sunday \in Int /\ l * saturday \in Int /\ l * d \in Int
      /\ l * sunday <= l * day /\ l * (day + 1) = l * day + l /\ l * (day + 1) <= l * d
      /\ l * d = l * saturday + l
  <2>1. sunday <= day /\ day + 1 <= d /\ d = saturday + 1
    BY <1>4, <1>5, <1>6, <1>7
  <2>2. l * day \in Int /\ l * sunday \in Int /\ l * saturday \in Int /\ l * d \in Int
    BY <1>1
  <2>3. l * sunday <= l * day
    BY <1>1, <2>1, Ordered
  <2>4. l * (day + 1) = l * day + l
    BY <1>1, Ordered
  <2>5. PICK next \in Int : next = day + 1
    OBVIOUS
  <2>6. l * next <= l * d
    BY <1>1, <2>1, <2>5, Ordered
  <2>7. l * (saturday + 1) = l * saturday + l
    BY <1>1, Ordered
  <2> QED
    BY <2>1, <2>2, <2>3, <2>4, <2>5, <2>6, <2>7
<1>9. Dates!WeekStart(moment) = l * sunday /\ Dates!WeekEnd(moment) = l * d - 1
  <2>1. moment \in Int
    BY <1>1, <1>8
  <2>2. Dates!WeekStart(moment) = l * (day - w) /\ Dates!WeekEnd(moment) = l * (day - w + 7) - 1
    <3>1. /\ Dates!WeekStart(moment) = Dates!DayLength * (day - w)
          /\ Dates!WeekEnd(moment) = Dates!DayLength * (day - w + 7) - 1
      BY ONLY SMTT(30), <1>2, <1>4, <2>1, PeriodsAt, day \in Nat, r \in 0 .. Dates!DayLength - 1,
              moment = Dates!DayLength * day + r,
              Dates!FirstDay(mon) <= day, day < Dates!FirstDay(mon + 1)
    <3> QED
      BY <1>1, <3>1
  <2>3. day - w + 7 = d
    BY <1>5, <1>7
  <2> QED
    BY <1>5, <2>2, <2>3
<1>10. Dates!WeekStart(moment) <= moment /\ moment <= Dates!WeekEnd(moment)
  BY <1>1, <1>8, <1>9
<1>11. Dates!WeekStart(Dates!WeekEnd(moment)) = l * sunday
  <2>1. PICK last \in Int : last = Dates!WeekEnd(moment)
    BY <1>8, <1>9
  <2>2. PICK s \in 0 .. l - 1 : s = l - 1
    OBVIOUS
  <2>3. last = l * saturday + s
    BY <1>8, <1>9, <2>1, <2>2
  <2>4. PICK v \in 0 .. 6 : v = (saturday + 4) % 7
    OBVIOUS
  <2>5. v = 6
    BY <1>4, <1>5, <1>6, <2>4
  <2>6. saturday < Dates!FirstDay(LastMonth) + 28
    BY <1>3, <1>4, <1>5, <1>6
  <2>7. Dates!WeekStart(last) = l * (saturday - v)
    BY <1>1, <2>2, <2>3, <2>4, <2>6, StartsAt
  <2>8. saturday - v = sunday
    BY <1>6, <2>5
  <2> QED
    BY <2>1, <2>7, <2>8
<1>12. Dates!WeekStart(Dates!WeekEnd(moment) + 1) = Dates!WeekEnd(moment) + 1
  <2>1. PICK next \in Int : next = Dates!WeekEnd(moment) + 1
    BY <1>8, <1>9
  <2>2. next = l * d + 0 /\ next = l * d
    BY <1>8, <1>9, <2>1
  <2>3. PICK v \in 0 .. 6 : v = (d + 4) % 7
    OBVIOUS
  <2>4. v = 0
    BY <1>4, <1>5, <1>7, <2>3
  <2>5. d < Dates!FirstDay(LastMonth) + 28
    BY <1>3, <1>4, <1>5, <1>7
  <2>6. 0 \in 0 .. l - 1
    OBVIOUS
  <2>7. Dates!WeekStart(next) = l * (d - v)
    BY <1>1, <2>2, <2>3, <2>5, <2>6, StartsAt
  <2>8. d - v = d
    BY <2>4
  <2> QED
    BY <2>1, <2>2, <2>7, <2>8
<1> QED
  BY <1>9, <1>10, <1>11, <1>12 DEF Dates!Tiles

LEMMA MonthsTile ==
    ASSUME NEW day \in Nat, NEW mon \in 0 .. LastMonth - 1, NEW r \in 0 .. Dates!DayLength - 1,
           moment = Dates!DayLength * day + r,
           Dates!FirstDay(mon) <= day, day < Dates!FirstDay(mon + 1)
    PROVE  Dates!Tiles(Dates!MonthStart, Dates!MonthEnd)
<1>1. PICK l \in Nat \ {0} : l = Dates!DayLength
  BY DayLengthType
<1>2. LastMonth \in Nat /\ mon \in Nat /\ mon \in 0 .. LastMonth + 12
  BY CalendarAssumption
<1>3. PICK m \in Nat : m = mon + 1
  BY <1>2
<1>4. m \in 0 .. LastMonth + 12
  BY <1>2, <1>3
<1>5. PICK f \in Nat : f = Dates!FirstDay(mon)
  BY <1>2, MonthLength
<1>6. PICK g \in Nat : g = Dates!FirstDay(m)
  BY MonthLength
<1>7. g < Dates!FirstDay(m + 1) /\ f + 28 <= g
  BY <1>2, <1>3, <1>5, <1>6, MonthLength
<1>8. PICK d \in Nat : d + 1 = g
  <2>1. g - 1 \in Nat /\ (g - 1) + 1 = g
    BY <1>7
  <2> QED
    BY <2>1
<1>9. f <= day /\ day + 1 <= g /\ d < g /\ f <= d
  BY <1>3, <1>5, <1>6, <1>7, <1>8
<1>10. /\ l * day \in Int /\ l * f \in Int /\ l * d \in Int /\ l * g \in Int
       /\ l * f <= l * day /\ l * day + l <= l * g /\ l * g = l * d + l
  <2>1. l * day \in Int /\ l * f \in Int /\ l * d \in Int /\ l * g \in Int
    BY <1>1
  <2>2. l * f <= l * day
    BY <1>1, <1>9, Ordered
  <2>3. l * (day + 1) = l * day + l
    BY <1>1, Ordered
  <2>4. PICK next \in Int : next = day + 1
    OBVIOUS
  <2>5. l * next <= l * g
    BY <1>1, <1>9, <2>4, Ordered
  <2>6. l * (d + 1) = l * d + l
    BY <1>1, Ordered
  <2> QED
    BY <1>8, <2>1, <2>2, <2>3, <2>4, <2>5, <2>6
<1>11. Dates!MonthStart(moment) = l * f /\ Dates!MonthEnd(moment) = l * g - 1
  <2>1. moment \in Int
    BY <1>1, <1>10
  <2>2. PICK w \in 0 .. 6 : w = (day + 4) % 7
    OBVIOUS
  <2>3. /\ Dates!MonthStart(moment) = l * Dates!FirstDay(mon)
        /\ Dates!MonthEnd(moment) = l * Dates!FirstDay(mon + 1) - 1
    <3>1. /\ Dates!MonthStart(moment) = Dates!DayLength * Dates!FirstDay(mon)
          /\ Dates!MonthEnd(moment) = Dates!DayLength * Dates!FirstDay(mon + 1) - 1
      BY ONLY <1>2, <2>1, <2>2, PeriodsAt, day \in Nat, r \in 0 .. Dates!DayLength - 1,
              moment = Dates!DayLength * day + r,
              Dates!FirstDay(mon) <= day, day < Dates!FirstDay(mon + 1)
    <3> QED
      BY <1>1, <3>1
  <2> QED
    BY <1>3, <1>5, <1>6, <2>3
<1>12. Dates!MonthStart(moment) <= moment /\ moment <= Dates!MonthEnd(moment)
  BY <1>1, <1>10, <1>11
<1>13. Dates!MonthStart(Dates!MonthEnd(moment)) = l * f
  <2>1. PICK last \in Int : last = Dates!MonthEnd(moment)
    BY <1>10, <1>11
  <2>2. PICK s \in 0 .. l - 1 : s = l - 1
    OBVIOUS
  <2>3. last = l * d + s
    BY <1>10, <1>11, <2>1, <2>2
  <2>4. PICK w \in 0 .. 6 : w = (d + 4) % 7
    OBVIOUS
  <2>5. Dates!FirstDay(mon) <= d /\ d < Dates!FirstDay(mon + 1)
    BY <1>3, <1>5, <1>6, <1>9
  <2>6. Dates!MonthStart(last) = l * Dates!FirstDay(mon)
    <3>1. last = Dates!DayLength * d + s /\ s \in 0 .. Dates!DayLength - 1
      BY <1>1, <2>2, <2>3
    <3>2. Dates!MonthStart(last) = Dates!DayLength * Dates!FirstDay(mon)
      BY ONLY <1>2, <3>1, <2>4, <2>5, PeriodsAt, d \in Nat, last \in Int
    <3> QED
      BY <1>1, <3>2
  <2> QED
    BY <1>5, <2>1, <2>6
<1>14. Dates!MonthStart(Dates!MonthEnd(moment) + 1) = Dates!MonthEnd(moment) + 1
  <2>1. PICK next \in Int : next = Dates!MonthEnd(moment) + 1
    BY <1>10, <1>11
  <2>2. next = l * g + 0 /\ next = l * g
    BY <1>10, <1>11, <2>1
  <2>3. PICK w \in 0 .. 6 : w = (g + 4) % 7
    OBVIOUS
  <2>4. 0 \in 0 .. l - 1 /\ Dates!FirstDay(m) <= g
    BY <1>6
  <2>5. Dates!MonthStart(next) = l * Dates!FirstDay(m)
    <3>1. next = Dates!DayLength * g + 0 /\ 0 \in 0 .. Dates!DayLength - 1
      BY <1>1, <2>2, <2>4
    <3>2. Dates!MonthStart(next) = Dates!DayLength * Dates!FirstDay(m)
      BY ONLY <1>4, <1>7, <3>1, <2>3, <2>4, PeriodsAt, g \in Nat, next \in Int
    <3> QED
      BY <1>1, <3>2
  <2> QED
    BY <1>6, <2>1, <2>2, <2>5
<1> QED
  BY <1>11, <1>12, <1>13, <1>14 DEF Dates!Tiles

\* Seconds and the rest of a second of what of the day is over.
LEMMA Seconds ==
    ASSUME NEW day \in Nat, NEW r \in 0 .. Dates!DayLength - 1, NEW count \in Int,
           count = Dates!DayLength * day + r
    PROVE  /\ r \div SecondLength \in Int
           /\ SecondLength * (r \div SecondLength) + (count % SecondLength) = r
<1>1. SecondLength \in Nat \ {0} /\ DaySeconds \in Nat \ {0}
  BY CalendarAssumption
<1>2. r \in Nat
  OBVIOUS
<1>3. PICK s : s = r \div SecondLength
  OBVIOUS
<1>4. PICK u : u = r % SecondLength
  OBVIOUS
<1>5. s \in Nat /\ u \in 0 .. SecondLength - 1 /\ r = SecondLength * s + u
  BY <1>1, <1>2, <1>3, <1>4
<1>6. PICK q \in Int : q = DaySeconds * day + s
  BY <1>1, <1>5
<1>7. count = SecondLength * q + u
  <2>1. SecondLength * q = SecondLength * (DaySeconds * day) + SecondLength * s
    BY <1>1, <1>5, <1>6
  <2>2. Dates!DayLength * day = SecondLength * (DaySeconds * day)
    BY <1>1 DEF Dates!DayLength
  <2>3. PICK a \in Int : a = SecondLength * (DaySeconds * day)
    BY <1>1
  <2>4. PICK b \in Int : b = SecondLength * s
    BY <1>1, <1>5
  <2>5. count = a + r /\ SecondLength * q = a + b /\ r = b + u
    BY <1>5, <2>1, <2>2, <2>3, <2>4
  <2>6. count = (a + b) + u
    BY ONLY <1>1, <1>5, <2>3, <2>4, <2>5
  <2> QED
    BY <2>5, <2>6
<1>8. count % SecondLength = u
  BY <1>1, <1>5, <1>7, Quotients
<1> QED
  BY <1>3, <1>5, <1>8

\* Moving by months keeps the day's place in the month and the time of day.
LEMMA MoveAt ==
    ASSUME NEW day \in Nat, NEW mon \in 0 .. LastMonth + 12,
           Dates!FirstDay(mon) <= day, day < Dates!FirstDay(mon + 1),
           NEW r \in 0 .. Dates!DayLength - 1, NEW count \in Int,
           count = Dates!DayLength * day + r, NEW n \in Int, NEW to \in Nat, to = mon + n
    PROVE  Dates!MoveMonth(count, n)
             = Dates!DayLength * (Dates!FirstDay(to) + day - Dates!FirstDay(mon)) + r
<1>1. SecondLength \in Nat \ {0} /\ DaySeconds \in Nat \ {0} /\ mon \in Nat
  BY CalendarAssumption
<1>2. PICK f \in Nat : f = Dates!FirstDay(mon)
  BY <1>1, MonthLength
<1>3. PICK g \in Nat : g = Dates!FirstDay(to)
  BY MonthLength
<1>4. PICK s : s = r \div SecondLength
  OBVIOUS
<1>5. PICK u : u = count % SecondLength
  OBVIOUS
<1>6. s \in Int /\ SecondLength * s + u = r /\ u \in Int
  <2>1. s \in Int /\ SecondLength * s + u = r
    BY <1>4, <1>5, Seconds
  <2>2. u \in Int
    BY <1>1, <1>5
  <2> QED
    BY <2>1, <2>2
<1>7. PICK w : w = (day + 4) % 7
  OBVIOUS
<1>8. Dates!CountToTm(count) = [mon |-> mon, mday |-> day - f + 1, sec |-> s, wday |-> w]
  BY <1>2, <1>4, <1>7, TmOf
<1>9. PICK tm : tm = [Dates!CountToTm(count) EXCEPT !.mon = @ + n]
  OBVIOUS
<1>10. tm.mon = to /\ tm.mday = day - f + 1 /\ tm.sec = s
  BY <1>8, <1>9
<1>11. PICK d \in Int : d = g + day - f
  OBVIOUS
<1>12. Dates!TmToCount(tm) = SecondLength * (DaySeconds * d + s)
  <2>1. g + (day - f + 1) - 1 = d
    BY <1>11
  <2>2. Dates!TmToCount(tm) = SecondLength * (DaySeconds * (g + (day - f + 1) - 1) + s)
    BY <1>3, <1>10 DEF Dates!TmToCount
  <2> QED
    BY <2>1, <2>2
<1>13. SecondLength * (DaySeconds * d + s) = Dates!DayLength * d + SecondLength * s
  BY <1>1, <1>6 DEF Dates!DayLength
<1>14. Dates!MoveMonth(count, n) = Dates!TmToCount(tm) + u
  BY <1>5, <1>9 DEF Dates!MoveMonth
<1>15. PICK p \in Int : p = Dates!DayLength * d
  BY <1>1 DEF Dates!DayLength
<1>16. PICK t \in Int : t = SecondLength * s
  BY <1>1, <1>6
<1>17. Dates!MoveMonth(count, n) = Dates!DayLength * d + r
  BY <1>6, <1>12, <1>13, <1>14, <1>15, <1>16
<1> QED
  BY <1>2, <1>3, <1>11, <1>17

\* A day that every month has comes back.
LEMMA MonthsMoveBack ==
    ASSUME NEW day \in Nat, NEW mon \in 0 .. LastMonth - 1, NEW r \in 0 .. Dates!DayLength - 1,
           moment = Dates!DayLength * day + r,
           Dates!FirstDay(mon) <= day, day < Dates!FirstDay(mon + 1),
           Dates!CountToTm(moment).mday <= 28, NEW n \in 1 .. 12
    PROVE  Dates!MovesBack(n)
<1>1. PICK l \in Nat \ {0} : l = Dates!DayLength
  BY DayLengthType
<1>2. mon \in Nat /\ mon \in 0 .. LastMonth + 12 /\ mon + n \in 0 .. LastMonth + 12
  BY CalendarAssumption
<1>3. PICK to \in Nat : to = mon + n
  BY <1>2
<1>4. PICK f \in Nat : f = Dates!FirstDay(mon)
  BY <1>2, MonthLength
<1>5. PICK g \in Nat : g = Dates!FirstDay(to)
  BY MonthLength
<1>6. moment \in Int
  BY <1>1
<1>7. PICK mday : mday = Dates!CountToTm(moment).mday
  OBVIOUS
<1>8. mday = day - f + 1
  BY <1>2, <1>4, <1>6, <1>7, TmOf
<1>9. PICK d \in Nat : d = g + day - f
  BY <1>4
<1>10. Dates!FirstDay(to) <= d /\ d < Dates!FirstDay(to + 1)
  <2>1. Dates!FirstDay(to + 1) \in Nat /\ g + 28 <= Dates!FirstDay(to + 1)
    BY <1>5, MonthLength
  <2> QED
    BY <1>4, <1>5, <1>7, <1>8, <1>9, <2>1
<1>11. PICK there \in Int : there = Dates!MoveMonth(moment, n) /\ there = Dates!DayLength * d + r
  <2>1. Dates!MoveMonth(moment, n)
          = Dates!DayLength * (Dates!FirstDay(to) + day - Dates!FirstDay(mon)) + r
    BY <1>2, <1>3, <1>6, MoveAt
  <2>2. Dates!DayLength * d + r \in Int
    BY <1>1
  <2> QED
    BY <1>4, <1>5, <1>9, <2>1, <2>2
<1>12. Dates!MoveMonth(there, -n) = moment
  <2>1. mon = to + (-n) /\ -n \in Int /\ to \in 0 .. LastMonth + 12
    BY <1>2, <1>3
  <2>2. PICK back \in Int : back = -n
    BY <2>1
  <2>3. Dates!MoveMonth(there, back)
          = Dates!DayLength * (Dates!FirstDay(mon) + d - Dates!FirstDay(to)) + r
    BY <1>2, <1>10, <1>11, <2>1, <2>2, MoveAt
  <2>4. f + d - g = day
    BY <1>9
  <2> QED
    BY <1>4, <1>5, <2>2, <2>3, <2>4
<1>13. Dates!CountToTm(there).mday = mday
  <2>1. to \in 0 .. LastMonth + 12
    BY <1>2, <1>3
  <2>2. Dates!CountToTm(there).mday = d - Dates!FirstDay(to) + 1
    BY <1>10, <1>11, <2>1, TmOf
  <2> QED
    BY <1>5, <1>8, <1>9, <2>2
<1>14. there % Dates!DayLength = r /\ moment % Dates!DayLength = r
  <2>1. Dates!DayLength \in Nat \ {0} /\ there = Dates!DayLength * d + r
    BY <1>1, <1>11
  <2>2. there % Dates!DayLength = r
    BY ONLY <2>1, Quotients, there \in Int, d \in Nat, r \in 0 .. Dates!DayLength - 1
  <2>3. moment % Dates!DayLength = r
    BY ONLY <1>6, <2>1, Quotients, day \in Nat, r \in 0 .. Dates!DayLength - 1,
            moment = Dates!DayLength * day + r
  <2> QED
    BY <2>2, <2>3
<1> QED
  BY <1>7, <1>11, <1>12, <1>13, <1>14 DEF Dates!MovesBack

\* A moment stays between the first and the last one.
LEMMA MomentsInside == Dates!Spec => [](moment \in 0 .. Dates!LastMoment)
<1> DEFINE Inv == moment \in 0 .. Dates!LastMoment
<1>1. Dates!Init => Inv
  <2>1. PICK l \in Nat \ {0} : l = Dates!DayLength
    BY DayLengthType
  <2>2. LastMonth \in Nat \ {0}
    BY CalendarAssumption
  <2>3. PICK m \in Nat : m + 1 = LastMonth
    <3>1. LastMonth - 1 \in Nat /\ (LastMonth - 1) + 1 = LastMonth
      BY <2>2
    <3> QED
      BY <3>1
  <2>4. PICK f \in Nat : f = Dates!FirstDay(LastMonth) /\ 1 <= f
    <3>1. Dates!FirstDay(m) \in Nat /\ Dates!FirstDay(m + 1) \in Nat
          /\ Dates!FirstDay(m) + 28 <= Dates!FirstDay(m + 1)
      BY MonthLength
    <3> QED
      BY <2>3, <3>1
  <2>5. l * f \in Int /\ l * 1 <= l * f
    BY <2>1, <2>4, Ordered
  <2>6. l * f - 1 \in Nat
    BY <2>1, <2>5
  <2> QED
    BY <2>1, <2>4, <2>6 DEF Dates!Init, Dates!LastMoment
<1>2. Inv /\ [Dates!Next]_moment => Inv'
  BY DEF Dates!Next, Dates!To, Dates!LastMoment, Dates!DayLength, Dates!FirstDay
<1> QED
  BY <1>1, <1>2, PTL DEF Dates!Spec

\* DateTime: at every moment the periods tile the time line, and a move by months and
\* back returns.
THEOREM PeriodsTile == Dates!Spec => []DatesHold
<1>1. ASSUME moment \in 0 .. Dates!LastMoment PROVE DatesHold
  <2>1. PICK day \in Nat, mon \in 0 .. LastMonth - 1, r \in 0 .. Dates!DayLength - 1 :
            /\ moment = Dates!DayLength * day + r
            /\ Dates!FirstDay(mon) <= day /\ day < Dates!FirstDay(mon + 1)
            /\ day < Dates!FirstDay(LastMonth)
    BY <1>1, Split
  <2>2. Dates!Tiles(Dates!MonthStart, Dates!MonthEnd)
    BY <2>1, MonthsTile
  <2>3. Dates!Tiles(Dates!WeekStart, Dates!WeekEnd)
    BY <2>1, WeeksTile
  <2>4. Dates!Tiles(Dates!DayStart, Dates!DayEnd)
    BY <2>1, DaysTile
  <2>5. Dates!CountToTm(moment).mday <= 28 => \A n \in 1 .. 12 : Dates!MovesBack(n)
    BY <2>1, MonthsMoveBack
  <2> QED
    BY <2>2, <2>3, <2>4, <2>5 DEF DatesHold, Dates!DatesHold
<1> QED
  BY <1>1, MomentsInside, PTL

-----------------------------------------------------------------------------
(* The parts together.                                                      *)

\* What MCBase runs is a behaviour of every part, so the run's properties follow.
THEOREM PartsHold == MCSpec => []RefsExact /\ []BlocksOnce /\ []DatesHold /\ Saturates
<1>1. MCInit => Shared!Init /\ Pool!Init /\ Dates!Init /\ Number!Init
  BY DEF MCInit
<1>2. ASSUME [MCNext]_MCVars PROVE [Shared!Next]_(Shared!vars)
  BY <1>2 DEF MCNext, MCVars, sharedVars, Shared!vars
<1>3. ASSUME [MCNext]_MCVars PROVE [Pool!Next]_(Pool!vars)
  BY <1>3 DEF MCNext, MCVars, poolVars, Pool!vars
<1>4. ASSUME [MCNext]_MCVars PROVE [Dates!Next]_moment
  BY <1>4 DEF MCNext, MCVars
<1>5. ASSUME [MCNext]_MCVars PROVE [Number!Next]_(Number!vars)
  BY <1>5 DEF MCNext, MCVars, numberVars, Number!vars
<1>6. MCSpec => Shared!Spec /\ Pool!Spec /\ Dates!Spec /\ Number!Spec
  BY <1>1, <1>2, <1>3, <1>4, <1>5, PTL DEF MCSpec, Shared!Spec, Pool!Spec, Dates!Spec, Number!Spec
<1> QED
  BY <1>6, CountsAreExact, BlocksNeverLost, PeriodsTile, ValuesSaturate
=============================================================================
