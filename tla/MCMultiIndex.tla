---------------------------- MODULE MCMultiIndex ----------------------------
(* Vectors on a line, a < b < c: similarity and distance follow the        *)
(* places.  One LSH table tells a from b, the other puts both together.     *)
EXTENDS MultiIndex, TLC

CONSTANTS i1, i2, i3

Place == [v \in {"a", "b", "c"} |-> IF v = "a" THEN 0 ELSE IF v = "b" THEN 1 ELSE 3]
Apart(v, w) == IF Place[v] < Place[w] THEN Place[w] - Place[v] ELSE Place[v] - Place[w]
LineDist == [v \in Vectors |-> [w \in Vectors |-> Apart(v, w)]]
LineSim == [v \in Vectors |-> [w \in Vectors |-> 2 - Apart(v, w)]]
LineHash == [t \in Tables |-> [v \in Vectors |->
              IF t = 1 THEN (IF v = "a" THEN 0 ELSE 1) ELSE (IF v = "c" THEN 1 ELSE 0)]]
Symmetric == Permutations(Ids)
Lists == {<<"flat">>, <<"ivf", "flat">>, <<"hnsw", "flat", "lsh">>}
=============================================================================
