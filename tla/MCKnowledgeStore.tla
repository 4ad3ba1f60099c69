-------------------------- MODULE MCKnowledgeStore --------------------------
(* Small instances of KnowledgeStore: an empty content, one of a single     *)
(* word and one that can be cut.                                            *)
EXTENDS KnowledgeStore, TLC

CONSTANTS p1, p2, k1, k2, a, b, u1, u2, u3

SomeContents == {{}, {a}, {a, b}}
Symmetric == Permutations(Callers) \cup Permutations(Items) \cup Permutations(Batches)
=============================================================================
