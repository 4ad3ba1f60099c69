------------------------------ MODULE GraphStore ------------------------------
(***************************************************************************)
(* The property graph (src/pkg/graph/store.go): the records of nodes and   *)
(* edges, the index keys that lead from a node or a type to edges, and     *)
(* GetNeighbors, which reads them in several transactions.                 *)
(*                                                                         *)
(* Each writing operation is one transaction under g.mu, hence one action. *)
(* Properties, weights and the filters and limit of GetNeighbors are left  *)
(* out.  IDs are such that no ID followed by a colon begins another.       *)
(***************************************************************************)
EXTENDS Naturals, FiniteSets

CONSTANTS
  Nodes, Edges, Types,
  NodeTypes,   \* the types the callers give nodes
  Forms,       \* the endpoints and types the callers give each edge
  Readers,     \* goroutines in GetNeighbors
  Directions,  \* the directions they ask for, of "out", "in" and "both"
  NoType, NoNode, NoEdge

Form == [from : Nodes, to : Nodes, type : Types \cup {NoType}]

ASSUME GraphAssumption ==
  /\ NodeTypes \subseteq Types \cup {NoType}
  /\ Forms \in [Edges -> SUBSET Form]
  /\ Directions \subseteq {"out", "in", "both"}
  /\ NoNode \notin Types \cup {NoType}
  /\ NoEdge \notin Form

VARIABLES
  node,      \* graph:node:<id>, the type of each stored node
  edge,      \* graph:edge:<id>
  fromKeys,  \* graph:edge:from:<from>:<type>:<id>
  toKeys,    \* graph:edge:to:<to>:<type>:<id>
  typeKeys,  \* graph:edge:type:<type>:<id>
  nodeTypes, \* graph:node:type:<type>:<id>
  query      \* the GetNeighbors each reader is in

db == <<node, edge, fromKeys, toKeys, typeKeys, nodeTypes>>
vars == <<node, edge, fromKeys, toKeys, typeKeys, nodeTypes, query>>

EndKeys == Nodes \X (Types \cup {NoType}) \X Edges

(* ids: edges still to load; edges: those loaded, as they were; next: the  *)
(* neighbour to load; nodes: those found; owed and kept: the edges of the  *)
(* node, and the nodes, that have stayed since the query began.            *)
Idle == [pc |-> "idle"]
Queries == {Idle} \cup
  [pc : {"edges", "node", "answered"}, n : Nodes, dir : {"out", "in", "both"},
   ids : SUBSET Edges, edges : SUBSET (Edges \X Form), next : Nodes,
   nodes : SUBSET Nodes, owed : SUBSET Edges, kept : SUBSET Nodes]

TypeOK ==
  /\ node \in [Nodes -> Types \cup {NoType, NoNode}]
  /\ edge \in [Edges -> Form \cup {NoEdge}]
  /\ fromKeys \subseteq EndKeys /\ toKeys \subseteq EndKeys
  /\ typeKeys \subseteq Types \X Edges
  /\ nodeTypes \subseteq Types \X Nodes
  /\ query \in [Readers -> Queries]

Init ==
  /\ node = [n \in Nodes |-> NoNode]
  /\ edge = [e \in Edges |-> NoEdge]
  /\ fromKeys = {} /\ toKeys = {} /\ typeKeys = {} /\ nodeTypes = {}
  /\ query = [r \in Readers |-> Idle]

FromKey(e, f) == <<f.from, f.type, e>>
ToKey(e, f) == <<f.to, f.type, e>>

OfType(t, x) == IF t = NoType THEN {} ELSE {<<t, x>>}

(* The IDs below the index keys of node n.                                 *)
Under(keys, n) == {e \in Edges : \E t \in Types \cup {NoType} : <<n, t, e>> \in keys}

(* Open queries are owed no edge of E and no node of N any more.           *)
Withdraw(E, N) ==
  query' = [r \in Readers |->
             IF query[r].pc = "idle" THEN Idle
             ELSE [query[r] EXCEPT !.owed = @ \ E, !.kept = @ \ N]]

-----------------------------------------------------------------------------
(* The type key of an earlier type stays.                                  *)
UpsertNode(n, t) ==
  /\ node' = [node EXCEPT ![n] = t]
  /\ nodeTypes' = nodeTypes \cup OfType(t, n)
  /\ UNCHANGED <<edge, fromKeys, toKeys, typeKeys, query>>

(* Mutant: only outgoing edges are collected.                              *)
DeleteNodeOut(n) ==
  LET dead == Under(fromKeys, n) IN
  /\ node' = [node EXCEPT ![n] = NoNode]
  /\ fromKeys' = {k \in fromKeys : k[1] # n}
  /\ toKeys' = {k \in toKeys : k[1] # n}
  /\ edge' = [e \in Edges |-> IF e \in dead THEN NoEdge ELSE edge[e]]
  /\ Withdraw(dead, {n})
  /\ UNCHANGED <<typeKeys, nodeTypes>>

(* The edges are those that the keys of the node lead to; their keys at    *)
(* the other endpoint and their type keys stay.                            *)
DeleteNode(n) ==
  LET dead == Under(fromKeys, n) \cup Under(toKeys, n) IN
  /\ node' = [node EXCEPT ![n] = NoNode]
  /\ fromKeys' = {k \in fromKeys : k[1] # n}
  /\ toKeys' = {k \in toKeys : k[1] # n}
  /\ edge' = [e \in Edges |-> IF e \in dead THEN NoEdge ELSE edge[e]]
  /\ Withdraw(dead, {n})
  /\ UNCHANGED <<typeKeys, nodeTypes>>

(* The endpoints need not be stored; the keys of earlier endpoints and of  *)
(* an earlier type stay.                                                   *)
UpsertEdge(e, f) ==
  /\ edge' = [edge EXCEPT ![e] = f]
  /\ fromKeys' = fromKeys \cup {FromKey(e, f)}
  /\ toKeys' = toKeys \cup {ToKey(e, f)}
  /\ typeKeys' = typeKeys \cup OfType(f.type, e)
  /\ Withdraw(IF edge[e] \in {NoEdge, f} THEN {} ELSE {e}, {})
  /\ UNCHANGED <<node, nodeTypes>>

DeleteEdge(e) ==
  LET f == edge[e] IN
  /\ f # NoEdge
  /\ edge' = [edge EXCEPT ![e] = NoEdge]
  /\ fromKeys' = fromKeys \ {FromKey(e, f)}
  /\ toKeys' = toKeys \ {ToKey(e, f)}
  /\ typeKeys' = typeKeys \ OfType(f.type, e)
  /\ Withdraw({e}, {})
  /\ UNCHANGED <<node, nodeTypes>>

-----------------------------------------------------------------------------
(* GetNeighbors, without g.mu: one transaction for the index keys, one for *)
(* each edge and one for each neighbour.                                   *)

Scanned(n, dir) ==
  (IF dir \in {"out", "both"} THEN Under(fromKeys, n) ELSE {})
  \cup (IF dir \in {"in", "both"} THEN Under(toKeys, n) ELSE {})

Leaves(f, n, dir) ==
  \/ dir \in {"out", "both"} /\ f.from = n
  \/ dir \in {"in", "both"} /\ f.to = n
Incident(n, dir) == {e \in Edges : edge[e] # NoEdge /\ Leaves(edge[e], n, dir)}

(* The endpoint GetNeighbors takes for the neighbour.                      *)
FarEnd(f, dir) == IF dir = "in" THEN f.from ELSE f.to

GoOn(q) == IF q.ids = {} THEN [q EXCEPT !.pc = "answered"] ELSE [q EXCEPT !.pc = "edges"]

GetNeighbors(r, n, dir) ==
  /\ query[r].pc = "idle"
  /\ query' = [query EXCEPT ![r] =
       GoOn([pc |-> "edges", n |-> n, dir |-> dir, ids |-> Scanned(n, dir),
             edges |-> {}, next |-> n, nodes |-> {}, owed |-> Incident(n, dir),
             kept |-> {m \in Nodes : node[m] # NoNode}])]
  /\ UNCHANGED db

(* Mutant: a missing edge ends the loop.                                   *)
GetEdgeBreak(r, e) ==
  LET q == query[r]
      rest == [q EXCEPT !.ids = @ \ {e}] IN
  /\ q.pc = "edges" /\ e \in q.ids
  /\ query' = [query EXCEPT ![r] =
       IF edge[e] = NoEdge THEN [q EXCEPT !.pc = "answered", !.ids = {}]
       ELSE IF FarEnd(edge[e], q.dir) \in q.nodes
         THEN GoOn([rest EXCEPT !.edges = @ \cup {<<e, edge[e]>>}])
         ELSE [rest EXCEPT !.edges = @ \cup {<<e, edge[e]>>}, !.pc = "node",
                           !.next = FarEnd(edge[e], q.dir)]]
  /\ UNCHANGED db

GetEdge(r, e) ==
  LET q == query[r]
      rest == [q EXCEPT !.ids = @ \ {e}] IN
  /\ q.pc = "edges" /\ e \in q.ids
  /\ query' = [query EXCEPT ![r] =
       IF edge[e] = NoEdge THEN GoOn(rest)
       ELSE IF FarEnd(edge[e], q.dir) \in q.nodes
         THEN GoOn([rest EXCEPT !.edges = @ \cup {<<e, edge[e]>>}])
         ELSE [rest EXCEPT !.edges = @ \cup {<<e, edge[e]>>}, !.pc = "node",
                           !.next = FarEnd(edge[e], q.dir)]]
  /\ UNCHANGED db

GetNode(r) ==
  LET q == query[r] IN
  /\ q.pc = "node"
  /\ query' = [query EXCEPT ![r] =
       GoOn(IF node[q.next] = NoNode THEN q ELSE [q EXCEPT !.nodes = @ \cup {q.next}])]
  /\ UNCHANGED db

Return(r) ==
  /\ query[r].pc = "answered"
  /\ query' = [query EXCEPT ![r] = Idle]
  /\ UNCHANGED db

-----------------------------------------------------------------------------
Write ==
  \/ \E n \in Nodes, t \in NodeTypes : UpsertNode(n, t)
  \/ \E n \in Nodes : DeleteNode(n)
  \/ \E e \in Edges : \E f \in Forms[e] : UpsertEdge(e, f)
  \/ \E e \in Edges : DeleteEdge(e)

Read(r) ==
  \/ \E n \in Nodes, dir \in Directions : GetNeighbors(r, n, dir)
  \/ \E e \in Edges : GetEdge(r, e)
  \/ GetNode(r) \/ Return(r)

Next == Write \/ \E r \in Readers : Read(r)

Spec == Init /\ [][Next]_vars

-----------------------------------------------------------------------------
(* Every stored edge is reachable from both endpoints and from its type,   *)
(* although deletions of nodes and changes of edges leave other keys       *)
(* behind (api-reference-en.md:355, "Auto-maintains from/to/type indexes").*)
Indexed(e) ==
  edge[e] # NoEdge =>
    /\ FromKey(e, edge[e]) \in fromKeys
    /\ ToKey(e, edge[e]) \in toKeys
    /\ OfType(edge[e].type, e) \subseteq typeKeys
IndexComplete == \A e \in Edges : Indexed(e)

(* The deletion of a node leaves no edge that begins or ends there, though *)
(* it finds edges by their index keys alone (store.go:79, "removes a node  *)
(* and its incident edges").                                               *)
NoEdgeOfDeleted ==
  [][\A n \in Nodes : node[n] # NoNode /\ node'[n] = NoNode =>
       \A e \in Edges : edge'[e] # NoEdge => edge'[e].from # n /\ edge'[e].to # n]_vars

(* GetNeighbors answers with edges of the node it was asked for, whatever  *)
(* stale keys it has followed and whatever has been written meanwhile      *)
(* (store.go:219, "returns neighbors of a node").                          *)
NeighborsIncident ==
  \A r \in Readers : query[r].pc = "answered" =>
    \A x \in query[r].edges : Leaves(x[2], query[r].n, query[r].dir)

(* GetNeighbors finds every edge that was there all the time, and the node *)
(* at the other end if that has been there too.                            *)
NeighborsComplete ==
  \A r \in Readers : query[r].pc = "answered" =>
    \A e \in query[r].owed : \E x \in query[r].edges :
      /\ x[1] = e
      /\ \A m \in {x[2].from, x[2].to} \cap query[r].kept :
           m # query[r].n => m \in query[r].nodes

(* Both together: an answer has the node's edges and no others.            *)
NeighborsExact == NeighborsIncident /\ NeighborsComplete
=============================================================================
