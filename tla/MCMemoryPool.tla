---------------------------- MODULE MCMemoryPool ----------------------------
(* MemoryPool for TLC as ObjectPoolTest uses it: any of two threads takes       *)
(* objects and any drops them.                                                *)
EXTENDS MemoryPool
CONSTANTS t1, t2
TwoThreads == {t1, t2}
=============================================================================
