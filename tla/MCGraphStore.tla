----------------------------- MODULE MCGraphStore -----------------------------
(* Small instances of the property graph.                                   *)
EXTENDS GraphTraversal, TLC

CONSTANTS a, b, c, e1, e2, e3, e4, t, r1

Arc(m, n, type) == [from |-> m, to |-> n, type |-> type]

(* A cycle of three nodes and a shortcut; each edge keeps its endpoints.    *)
FixedForms ==
  e1 :> {Arc(a, b, t)} @@ e2 :> {Arc(b, c, t)}
  @@ e3 :> {Arc(a, c, NoType)} @@ e4 :> {Arc(c, a, NoType)}
=============================================================================
