----------------------------- MODULE TSharedPtr -----------------------------
(***************************************************************************)
(* Core/memory/TSharedPtr.h: intrusive reference counts.  A holder is one     *)
(* TSharedPtr: a local of a thread, or the member of an object (as            *)
(* Session::_connection and RecvPacket::_block are).  Threads share objects,   *)
(* never a holder; Reset is two steps, the fetch_sub and what follows it.      *)
(***************************************************************************)
EXTENDS Naturals, FiniteSets

CONSTANTS
    Holders,        \* <<thread, n>>: locals of a thread
    Objects         \* bound: objects, 1 .. n

VARIABLES
    ptr,            \* [Holders -> _ptr, 0 for nullptr]
    member,         \* [Objects -> _ptr of the object's member]
    refCount,       \* [Objects -> RefCountable::_refCount]
    alive,          \* objects constructed and not destroyed
    deleting,       \* [Holders -> object the holder's Reset is about to delete, or 0]
    deletes         \* [Objects -> times the deleter ran]

vars == <<ptr, member, refCount, alive, deleting, deletes>>

Init ==
    /\ ptr = [h \in Holders |-> 0] /\ member = [o \in Objects |-> 0]
    /\ refCount = [o \in Objects |-> 0] /\ alive = {}
    /\ deleting = [h \in Holders |-> 0]
    /\ deletes = [o \in Objects |-> 0]

Idle(h)     == deleting[h] = 0
SameThread(h, g) == h[1] = g[1]
AddRef(o)   == IF o = 0 THEN refCount ELSE [refCount EXCEPT ![o] = @ + 1]

-----------------------------------------------------------------------------
\* TSharedPtr(T*), TSharedPtr(T*, deleter) of a new object.
New(h, o) ==
    /\ ptr[h] = 0 /\ Idle(h) /\ o \notin alive /\ deletes[o] = 0
    /\ alive' = alive \cup {o}
    /\ ptr' = [ptr EXCEPT ![h] = o]
    /\ refCount' = AddRef(o)
    /\ UNCHANGED <<member, deleting, deletes>>

\* The copy constructors, StaticPointerCast, and TSharedPtr(this) in a method of an
\* object that the thread reaches through g.
Copy(h, g) ==
    /\ ptr[h] = 0 /\ Idle(h) /\ Idle(g) /\ SameThread(h, g)
    /\ ptr' = [ptr EXCEPT ![h] = ptr[g]]
    /\ refCount' = AddRef(ptr[g])
    /\ UNCHANGED <<member, alive, deleting, deletes>>

\* The move constructor: also how a reference travels to another thread in a task.
Move(h, g) ==
    /\ ptr[h] = 0 /\ Idle(h) /\ Idle(g) /\ ptr[g] # 0
    /\ ptr' = [ptr EXCEPT ![h] = ptr[g], ![g] = 0]
    /\ UNCHANGED <<member, refCount, alive, deleting, deletes>>

MutWasLast(count) == count <= 2
WasLast(count)    == count = 1

\* Reset, the destructor, operator=(nullptr): fetch_sub ...
Reset(h) ==
    /\ ptr[h] # 0 /\ Idle(h)
    /\ refCount' = [refCount EXCEPT ![ptr[h]] = @ - 1]
    /\ IF WasLast(refCount[ptr[h]])
       THEN deleting' = [deleting EXCEPT ![h] = ptr[h]] /\ UNCHANGED ptr
       ELSE ptr' = [ptr EXCEPT ![h] = 0] /\ UNCHANGED deleting
    /\ UNCHANGED <<member, alive, deletes>>

\* ... and the deleter or delete; the object's destructor resets its member, which
\* may be the last reference to the next object.
Delete(h) ==
    LET o == deleting[h]
        m == member[o]
    IN
    /\ o # 0
    /\ alive' = alive \ {o}
    /\ deletes' = [deletes EXCEPT ![o] = @ + 1]
    /\ member' = [member EXCEPT ![o] = 0]
    /\ refCount' = IF m = 0 THEN refCount ELSE [refCount EXCEPT ![m] = @ - 1]
    /\ LET next == IF m # 0 /\ WasLast(refCount[m]) THEN m ELSE 0
       IN  /\ deleting' = [deleting EXCEPT ![h] = next]
           /\ ptr' = [ptr EXCEPT ![h] = next]

Same(a, b)    == a = b

\* operator= of one holder to another: nothing if they are equal, else Reset, then
\* the copy (the Reset that finds the last reference is Reset and Delete before it).
Assign(h, g) ==
    /\ Idle(h) /\ Idle(g) /\ SameThread(h, g) /\ h # g
    /\ ptr[h] # 0 /\ ~Same(ptr[h], ptr[g]) /\ ~WasLast(refCount[ptr[h]])
    /\ ptr' = [ptr EXCEPT ![h] = ptr[g]]
    /\ refCount' = [o \in Objects |-> refCount[o] + (IF o = ptr[g] THEN 1 ELSE 0)
                                                  - (IF o = ptr[h] THEN 1 ELSE 0)]
    /\ UNCHANGED <<member, alive, deleting, deletes>>

\* Setting an object's member once, before others can see it.
SetMember(h, g) ==
    /\ Idle(h) /\ Idle(g) /\ SameThread(h, g)
    /\ ptr[h] # 0 /\ refCount[ptr[h]] = 1 /\ member[ptr[h]] = 0
    /\ ptr[g] \notin {0, ptr[h]}
    /\ member' = [member EXCEPT ![ptr[h]] = ptr[g]]
    /\ refCount' = AddRef(ptr[g])
    /\ UNCHANGED <<ptr, alive, deleting, deletes>>

Next ==
    \E h \in Holders :
        \/ Reset(h) \/ Delete(h)
        \/ \E o \in Objects : New(h, o)
        \/ \E g \in Holders : Copy(h, g) \/ Move(h, g) \/ Assign(h, g) \/ SetMember(h, g)

Spec == Init /\ [][Next]_vars

-----------------------------------------------------------------------------
\* An object lives exactly as long as somebody holds it: its count is the number of
\* holders and members that name it, none of them names a dead object, and the
\* deleter runs once, whichever threads drop the last references.
RefsExact ==
    /\ \A o \in alive :
          refCount[o] = Cardinality({h \in Holders : ptr[h] = o /\ deleting[h] # o})
                        + Cardinality({x \in alive : member[x] = o})
    /\ \A h \in Holders : ptr[h] # 0 => ptr[h] \in alive
    /\ \A o \in Objects : deletes[o] <= 1 /\ (o \in alive => refCount[o] > 0
                             \/ \E h \in Holders : deleting[h] = o)
=============================================================================
