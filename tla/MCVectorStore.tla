---------------------------- MODULE MCVectorStore ----------------------------
(* Small instances of VectorStore: all embeddings belong to one document.   *)
EXTENDS VectorStore, TLC

CONSTANTS p1, p2, k1, k2, e1, e2, d1

OneDoc == [e \in Embs |-> d1]
AllOps == OpKinds
AllSetups == Setup
Symmetric == Permutations(Callers) \cup Permutations(Colls) \cup Permutations(Embs)
=============================================================================
