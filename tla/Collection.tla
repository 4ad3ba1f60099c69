------------------------------ MODULE Collection ------------------------------
(***************************************************************************)
(* What the vector store promises to a program that uses one collection    *)
(* name: the name is unused, or names a set of embeddings to which an      *)
(* upsert adds all its embeddings at once and from which a delete takes    *)
(* some away; dropping the collection frees the name.                      *)
(***************************************************************************)
CONSTANTS Embs, Absent

VARIABLE held

Init == held = Absent

Create == held = Absent /\ held' = {}

Upsert(E) == held # Absent /\ E \cap held = {} /\ held' = held \cup E

Delete(E) == held # Absent /\ held' = held \ E

Drop == held # Absent /\ held' = Absent

Next ==
  \/ Create \/ Drop
  \/ \E E \in SUBSET Embs : Upsert(E) \/ Delete(E)

Spec == Init /\ [][Next]_held
=============================================================================
