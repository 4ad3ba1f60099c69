---------------------------- MODULE MCMemoryStore ----------------------------
(* Small instances of MemoryStore.                                          *)
EXTENDS MemoryStore, TLC

CONSTANTS m1, m2, b1, b2, t1, t2, v1, v2

AnyBucket == [m \in Memories |-> Buckets]
Symmetric == Permutations(Memories) \cup Permutations(Buckets)
             \cup Permutations(Contents) \cup Permutations(Vectors)
=============================================================================
