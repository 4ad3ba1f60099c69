---------------------------- MODULE GraphTraversal ----------------------------
(***************************************************************************)
(* The traversals of the property graph (src/pkg/graph/traversal.go),      *)
(* which repeat GetNeighbors, on a graph that stands still meanwhile.      *)
(***************************************************************************)
EXTENDS GraphStore, SequencesExt

CONSTANT MaxDepth  \* the bound on the depth of traversals checked

ASSUME TraversalAssumption == MaxDepth \in Nat /\ IsFiniteSet(Nodes)

(* What GetNeighbors answers when nothing is written meanwhile.            *)
EdgesOf(n, dir) == {e \in Scanned(n, dir) : edge[e] # NoEdge}
Neighbors(n, dir) ==
  {m \in {FarEnd(edge[e], dir) : e \in EdgesOf(n, dir)} : node[m] # NoNode}

(* Mutant: one level more is expanded.                                     *)
BFSDeeper(start, dir, depth) ==
  LET level[d \in 0..depth + 1] ==
        IF d = 0 THEN [queue |-> {start}, visited |-> {start}]
        ELSE LET prev == level[d - 1]
                 new == (UNION {Neighbors(n, dir) : n \in prev.queue}) \ prev.visited
             IN  [queue |-> new, visited |-> prev.visited \cup new]
  IN  level[depth + 1].visited \ {start}

(* BFS: the nodes found by expanding one level after the other.            *)
BFS(start, dir, depth) ==
  LET level[d \in 0..depth] ==
        IF d = 0 THEN [queue |-> {start}, visited |-> {start}]
        ELSE LET prev == level[d - 1]
                 new == (UNION {Neighbors(n, dir) : n \in prev.queue}) \ prev.visited
             IN  [queue |-> new, visited |-> prev.visited \cup new]
  IN  level[depth].visited \ {start}

(* ShortestPath: a queue of nodes; each neighbour not visited is entered   *)
(* with its parent and with some edge that leads to it.  The search ends   *)
(* with the queue or with toID at its head.                                *)
NoPath == [nodes |-> <<>>, edges |-> <<>>]

(* Mutant: the first edge of the node is taken.                            *)
EdgeToFirst(n, m) == CHOOSE e \in EdgesOf(n, "out") : TRUE

EdgeTo(n, m) == CHOOSE e \in EdgesOf(n, "out") : edge[e].to = m

Expand(s) ==
  LET n == Head(s.queue)
      new == Neighbors(n, "out") \ s.visited
  IN  [queue |-> Tail(s.queue) \o SetToSeq(new),
       visited |-> s.visited \cup new,
       parent |-> [m \in Nodes |-> IF m \in new THEN n ELSE s.parent[m]],
       edgeTo |-> [m \in Nodes |-> IF m \in new THEN EdgeTo(n, m) ELSE s.edgeTo[m]]]

ShortestPath(from, to) ==
  LET start == [queue |-> <<from>>, visited |-> {from},
                parent |-> [m \in Nodes |-> m],
                edgeTo |-> [m \in Nodes |-> CHOOSE e \in Edges : TRUE]]
      Ended(s) == s.queue = <<>> \/ Head(s.queue) = to
      search[k \in 0..Cardinality(Nodes)] ==
        IF k = 0 THEN start
        ELSE LET s == search[k - 1] IN IF Ended(s) THEN s ELSE Expand(s)
      end == search[Cardinality(Nodes)]
      back[k \in 0..Cardinality(Nodes)] ==
        IF k = 0 THEN <<to>>
        ELSE LET path == back[k - 1]
             IN  IF Head(path) = from THEN path ELSE <<end.parent[Head(path)]>> \o path
      path == back[Cardinality(Nodes)]
  IN  IF from = to THEN [nodes |-> <<from>>, edges |-> <<>>]
      ELSE IF end.queue = <<>> THEN NoPath
      ELSE [nodes |-> path, edges |-> [i \in 1..Len(path) - 1 |-> end.edgeTo[path[i + 1]]]]

-----------------------------------------------------------------------------
(* The nodes that the stored edges, followed forwards or backwards, lead   *)
(* to over stored nodes, in depth steps or fewer.                          *)
Joins(e, m, n, dir) ==
  edge[e] # NoEdge /\ edge[e] = [edge[e] EXCEPT !.from = IF dir = "in" THEN n ELSE m,
                                               !.to = IF dir = "in" THEN m ELSE n]
Within(start, dir, depth) ==
  LET Walk(n, k) ==
        \E p \in [0..k -> Nodes] :
          /\ p[0] = start /\ p[k] = n
          /\ \A i \in 1..k : node[p[i]] # NoNode /\ \E e \in Edges : Joins(e, p[i - 1], p[i], dir)
  IN  {n \in Nodes : \E k \in 1..depth : Walk(n, k)}

Still == \A r \in Readers : query[r].pc = "idle"

(* BFS finds the nodes within the depth asked for and no others, reading   *)
(* only index keys, after any sequence of writes (api-reference-en.md:369, *)
(* "Breadth-first traversal").                                             *)
BFSReaches ==
  Still => \A n \in Nodes, dir \in Directions, depth \in 1..MaxDepth :
             BFS(n, dir, depth) = Within(n, dir, depth) \ {n}

(* ShortestPath answers with a walk over stored edges that no other walk   *)
(* between the two nodes is shorter than, and with none only when there is *)
(* none (api-reference-en.md:377, "Shortest path").                        *)
PathShortest ==
  Still => \A m \in Nodes : \A n \in Nodes \ {m} :
    LET p == ShortestPath(m, n)
        length == Len(p.nodes) - 1
    IN  IF p = NoPath THEN n \notin Within(m, "out", Cardinality(Nodes))
        ELSE /\ p.nodes[1] = m /\ p.nodes[length + 1] = n
             /\ \A i \in 1..length : Joins(p.edges[i], p.nodes[i], p.nodes[i + 1], "out")
             /\ length > 1 => n \notin Within(m, "out", length - 1)
=============================================================================
