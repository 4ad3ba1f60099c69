--------------------------- MODULE GraphStoreProofs ---------------------------
(***************************************************************************)
(* Proofs about GraphStore and GraphTraversal for any nodes, edges, types  *)
(* and readers.  For callers that change the endpoints of edges at will: a *)
(* stored edge is found through its index keys, and so the deletion of a   *)
(* node finds all edges that begin or end there.  For edges that keep      *)
(* their endpoints: GetNeighbors returns neighbours only, and misses none  *)
(* that was there while it ran; BFS finds what walks of the depth asked    *)
(* for reach; and no walk is shorter than the path ShortestPath answers.   *)
(***************************************************************************)
EXTENDS GraphTraversal, TLAPS, FiniteSetTheorems, SequenceTheorems

DbOK ==
  /\ node \in [Nodes -> Types \cup {NoType, NoNode}]
  /\ edge \in [Edges -> Form \cup {NoEdge}]
  /\ fromKeys \subseteq EndKeys /\ toKeys \subseteq EndKeys
  /\ typeKeys \subseteq Types \X Edges
  /\ nodeTypes \subseteq Types \X Nodes

LEMMA KeyTypes ==
  ASSUME NEW e \in Edges, NEW f \in Form
  PROVE  /\ FromKey(e, f) \in EndKeys /\ ToKey(e, f) \in EndKeys
         /\ FromKey(e, f)[1] = f.from /\ FromKey(e, f)[3] = e
         /\ ToKey(e, f)[1] = f.to /\ ToKey(e, f)[3] = e
         /\ OfType(f.type, e) \subseteq Types \X Edges
BY DEF FromKey, ToKey, EndKeys, Form, OfType

(* What the reads leave alone is all that DbOK and IndexComplete speak of. *)
LEMMA ReadsChangeNothing ==
  ASSUME NEW r \in Readers, Read(r)
  PROVE  UNCHANGED db
BY DEF Read, GetNeighbors, GetEdge, GetNode, Return

(* A stored edge is among those the keys of its endpoints lead to.         *)
LEMMA FoundUnder ==
  ASSUME DbOK, IndexComplete, NEW e \in Edges, edge[e] # NoEdge
  PROVE  /\ e \in Under(fromKeys, edge[e].from)
         /\ e \in Under(toKeys, edge[e].to)
<1>1. edge[e] \in Form
  BY DEF DbOK
<1>2. FromKey(e, edge[e]) \in fromKeys /\ ToKey(e, edge[e]) \in toKeys
  BY DEF IndexComplete, Indexed
<1> QED
  BY <1>1, <1>2 DEF FromKey, ToKey, Under, Form

LEMMA DbInit == Init => DbOK /\ IndexComplete
BY DEF Init, DbOK, IndexComplete, Indexed

LEMMA DbTypes == ASSUME DbOK, [Next]_vars PROVE DbOK'
<1> USE DEF DbOK
<1>1. ASSUME NEW n \in Nodes, NEW t \in NodeTypes, UpsertNode(n, t)
      PROVE  DbOK'
  <2>1. t \in Types \cup {NoType}
    BY GraphAssumption
  <2> QED
    BY <1>1, <2>1 DEF UpsertNode, OfType
<1>2. ASSUME NEW n \in Nodes, DeleteNode(n)
      PROVE  DbOK'
  BY <1>2 DEF DeleteNode
<1>3. ASSUME NEW e \in Edges, NEW f \in Forms[e], UpsertEdge(e, f)
      PROVE  DbOK'
  <2>1. f \in Form
    BY GraphAssumption
  <2> QED
    BY <1>3, <2>1, KeyTypes DEF UpsertEdge
<1>4. ASSUME NEW e \in Edges, DeleteEdge(e)
      PROVE  DbOK'
  BY <1>4 DEF DeleteEdge
<1>5. ASSUME NEW r \in Readers, Read(r)
      PROVE  DbOK'
  BY <1>5, ReadsChangeNothing DEF db
<1>6. CASE UNCHANGED vars
  BY <1>6 DEF vars
<1> QED
  BY <1>1, <1>2, <1>3, <1>4, <1>5, <1>6 DEF Next, Write

LEMMA IndexStep == ASSUME DbOK, IndexComplete, [Next]_vars PROVE IndexComplete'
<1>1. ASSUME NEW n \in Nodes, NEW t \in NodeTypes, UpsertNode(n, t)
      PROVE  IndexComplete'
  BY <1>1 DEF UpsertNode, IndexComplete, Indexed
<1>2. ASSUME NEW n \in Nodes, DeleteNode(n)
      PROVE  IndexComplete'
  <2> SUFFICES ASSUME NEW e \in Edges, edge'[e] # NoEdge
               PROVE  Indexed(e)'
    BY DEF IndexComplete, Indexed
  <2>1. edge'[e] = edge[e] /\ edge[e] # NoEdge
        /\ e \notin Under(fromKeys, n) \cup Under(toKeys, n)
    BY <1>2 DEF DeleteNode
  <2>2. edge[e] \in Form
    BY <2>1 DEF DbOK
  <2>3. edge[e].from # n /\ edge[e].to # n
    BY <2>1, FoundUnder
  <2>4. FromKey(e, edge[e])[1] # n /\ ToKey(e, edge[e])[1] # n
    BY <2>2, <2>3, KeyTypes
  <2>5. FromKey(e, edge[e]) \in fromKeys /\ ToKey(e, edge[e]) \in toKeys
        /\ OfType(edge[e].type, e) \subseteq typeKeys
    BY <2>1 DEF IndexComplete, Indexed
  <2> QED
    BY <1>2, <2>1, <2>4, <2>5 DEF DeleteNode, Indexed
<1>3. ASSUME NEW d \in Edges, NEW f \in Forms[d], UpsertEdge(d, f)
      PROVE  IndexComplete'
  <2> SUFFICES ASSUME NEW e \in Edges, edge'[e] # NoEdge
               PROVE  Indexed(e)'
    BY DEF IndexComplete, Indexed
  <2>1. CASE e = d
    BY <1>3, <2>1 DEF UpsertEdge, DbOK, Indexed
  <2>2. CASE e # d
    BY <1>3, <2>2 DEF UpsertEdge, DbOK, IndexComplete, Indexed
  <2> QED
    BY <2>1, <2>2
<1>4. ASSUME NEW d \in Edges, DeleteEdge(d)
      PROVE  IndexComplete'
  <2> SUFFICES ASSUME NEW e \in Edges, edge'[e] # NoEdge
               PROVE  Indexed(e)'
    BY DEF IndexComplete, Indexed
  <2>1. e # d /\ edge'[e] = edge[e] /\ edge[e] # NoEdge
    BY <1>4 DEF DeleteEdge, DbOK
  <2>2. edge[e] \in Form /\ edge[d] \in Form
    BY <1>4, <2>1 DEF DeleteEdge, DbOK
  <2>3. /\ FromKey(e, edge[e]) # FromKey(d, edge[d])
        /\ ToKey(e, edge[e]) # ToKey(d, edge[d])
    BY <2>1 DEF FromKey, ToKey
  <2>4. OfType(edge[e].type, e) \cap OfType(edge[d].type, d) = {}
    BY <2>1 DEF OfType
  <2> QED
    BY <1>4, <2>1, <2>3, <2>4 DEF DeleteEdge, IndexComplete, Indexed
<1>5. ASSUME NEW r \in Readers, Read(r)
      PROVE  IndexComplete'
  BY <1>5, ReadsChangeNothing DEF db, IndexComplete, Indexed
<1>6. CASE UNCHANGED vars
  BY <1>6 DEF vars, IndexComplete, Indexed
<1> QED
  BY <1>1, <1>2, <1>3, <1>4, <1>5, <1>6 DEF Next, Write

(* A stored edge has its index keys at both endpoints and at its type,     *)
(* however its endpoints have been changed and its nodes deleted.          *)
THEOREM EdgesAreIndexed == Spec => []IndexComplete
<1>1. Init => DbOK /\ IndexComplete
  BY DbInit
<1>2. DbOK /\ IndexComplete /\ [Next]_vars => DbOK' /\ IndexComplete'
  BY DbTypes, IndexStep
<1> QED
  BY <1>1, <1>2, PTL DEF Spec

LEMMA DeletionStep ==
  ASSUME DbOK, IndexComplete, [Next]_vars,
         NEW n \in Nodes, node[n] # NoNode, node'[n] = NoNode
  PROVE  \A e \in Edges : edge'[e] # NoEdge => edge'[e].from # n /\ edge'[e].to # n
<1>1. ASSUME NEW m \in Nodes, NEW t \in NodeTypes, UpsertNode(m, t)
      PROVE  FALSE
  BY <1>1, GraphAssumption DEF UpsertNode, DbOK
<1>2. ASSUME NEW m \in Nodes, DeleteNode(m)
      PROVE  m = n
  BY <1>2 DEF DeleteNode, DbOK
<1>3. DeleteNode(n)
  BY <1>1, <1>2, ReadsChangeNothing
     DEF Next, Write, UpsertEdge, DeleteEdge, vars, db
<1> QED
  BY <1>3, FoundUnder DEF DeleteNode

(* The deletion of a node leaves no edge that begins or ends there.        *)
THEOREM DeletionIsComplete == Spec => NoEdgeOfDeleted
<1>1. Init => DbOK /\ IndexComplete
  BY DbInit
<1>2. DbOK /\ IndexComplete /\ [Next]_vars => DbOK' /\ IndexComplete'
  BY DbTypes, IndexStep
<1>3. DbOK /\ IndexComplete /\ [Next]_vars =>
        [\A n \in Nodes : node[n] # NoNode /\ node'[n] = NoNode =>
           \A e \in Edges : edge'[e] # NoEdge => edge'[e].from # n /\ edge'[e].to # n]_vars
  BY DeletionStep
<1> QED
  BY <1>1, <1>2, <1>3, PTL DEF Spec, NoEdgeOfDeleted

-----------------------------------------------------------------------------
(* GetNeighbors.                                                           *)

Started == Queries \ {Idle}

LEMMA QueryUpdates ==
  ASSUME NEW q \in Started
  PROVE  /\ q.pc # "idle" /\ q.n \in Nodes
         /\ \A E \in SUBSET Edges : [q EXCEPT !.ids = E] \in Started
         /\ \A E \in SUBSET (Edges \X Form) : [q EXCEPT !.edges = E] \in Started
         /\ \A pc \in {"edges", "node", "answered"} : [q EXCEPT !.pc = pc] \in Started
         /\ \A m \in Nodes : [q EXCEPT !.next = m] \in Started
         /\ \A N \in SUBSET Nodes : [q EXCEPT !.nodes = N] \in Started
         /\ \A E \in SUBSET Edges, N \in SUBSET Nodes : [q EXCEPT !.owed = E, !.kept = N] \in Started
BY DEF Started, Queries, Idle

LEMMA GoOnStarted == ASSUME NEW q \in Started PROVE GoOn(q) \in Started
BY QueryUpdates DEF GoOn

LEMMA WithdrawTypes ==
  ASSUME query \in [Readers -> Queries], NEW E, NEW N, Withdraw(E, N)
  PROVE  query' \in [Readers -> Queries]
<1>1. ASSUME NEW r \in Readers PROVE query'[r] \in Queries
  <2>1. CASE query[r] = Idle
    BY <1>1, <2>1 DEF Withdraw, Idle, Queries
  <2>2. CASE query[r] # Idle
    <3>1. query[r] \in Started
      BY <2>2 DEF Started
    <3>2. query[r].owed \ E \in SUBSET Edges /\ query[r].kept \ N \in SUBSET Nodes
      BY <3>1 DEF Started, Queries, Idle
    <3>3. [query[r] EXCEPT !.owed = query[r].owed \ E, !.kept = query[r].kept \ N] \in Started
      BY <3>1, <3>2, QueryUpdates
    <3>4. QED
      BY <3>1, <3>3, QueryUpdates DEF Withdraw, Started
  <2>3. QED
    BY <2>1, <2>2
<1>2. QED
  BY <1>1 DEF Withdraw

LEMMA FarEndIsNode == ASSUME NEW f \in Form, NEW dir PROVE FarEnd(f, dir) \in Nodes
BY DEF Form, FarEnd

(* What one edge adds to an answer.                                        *)
LEMMA GetEdgeStarted ==
  ASSUME DbOK, NEW q \in Started, NEW e \in q.ids
  PROVE  LET rest == [q EXCEPT !.ids = @ \ {e}]
             more == [rest EXCEPT !.edges = @ \cup {<<e, edge[e]>>}]
         IN  /\ e \in Edges
             /\ rest \in Started
             /\ edge[e] # NoEdge =>
                  /\ more \in Started
                  /\ [rest EXCEPT !.edges = @ \cup {<<e, edge[e]>>}, !.pc = "node",
                                  !.next = FarEnd(edge[e], q.dir)] \in Started
<1> DEFINE rest == [q EXCEPT !.ids = @ \ {e}]
           E == q.edges \cup {<<e, edge[e]>>}
           more == [rest EXCEPT !.edges = @ \cup {<<e, edge[e]>>}]
<1>1. q.ids \in SUBSET Edges /\ q.edges \in SUBSET (Edges \X Form) /\ e \in Edges
  BY DEF Started, Queries, Idle
<1>2. rest \in Started /\ rest.edges = q.edges
  <2> DEFINE I == q.ids \ {e}
  <2>1. I \in SUBSET Edges /\ rest = [q EXCEPT !.ids = I]
    BY <1>1
  <2> HIDE DEF I
  <2>2. [q EXCEPT !.ids = I] \in Started
    BY <2>1, QueryUpdates
  <2>3. [q EXCEPT !.ids = I].edges = q.edges
    BY DEF Started, Queries, Idle
  <2>4. QED
    BY <2>1, <2>2, <2>3
<1>3. ASSUME edge[e] # NoEdge
      PROVE  /\ more \in Started
             /\ [rest EXCEPT !.edges = @ \cup {<<e, edge[e]>>}, !.pc = "node",
                             !.next = FarEnd(edge[e], q.dir)] \in Started
  <2>1. edge[e] \in Form /\ E \in SUBSET (Edges \X Form)
    BY <1>1, <1>3 DEF DbOK
  <2>2. more = [rest EXCEPT !.edges = E]
    BY <1>2
  <2> HIDE DEF rest, E
  <2>3. [rest EXCEPT !.edges = E] \in Started
    BY <1>2, <2>1, QueryUpdates
  <2>4. more \in Started
    BY <2>2, <2>3
  <2>5. [more EXCEPT !.pc = "node"] \in Started
    BY <2>4, QueryUpdates
  <2>6. [[more EXCEPT !.pc = "node"] EXCEPT !.next = FarEnd(edge[e], q.dir)] \in Started
    BY <2>1, <2>5, QueryUpdates, FarEndIsNode
  <2>7. QED
    BY <2>4, <2>6
<1>4. QED
  BY <1>1, <1>2, <1>3

LEMMA ReadTypes ==
  ASSUME TypeOK, NEW r \in Readers, Read(r)
  PROVE  query' \in [Readers -> Queries]
<1>1. DbOK /\ query \in [Readers -> Queries] /\ Idle \in Queries
  BY DEF TypeOK, DbOK, Queries
<1>2. ASSUME query[r].pc # "idle" PROVE query[r] \in Started
  BY <1>1, <1>2 DEF Started, Idle
<1>3. ASSUME NEW q \in Queries, query' = [query EXCEPT ![r] = q]
      PROVE  query' \in [Readers -> Queries]
  BY <1>1, <1>3
<1>4. ASSUME NEW n \in Nodes, NEW dir \in Directions, GetNeighbors(r, n, dir)
      PROVE  query' \in [Readers -> Queries]
  <2> DEFINE q == [pc |-> "edges", n |-> n, dir |-> dir, ids |-> Scanned(n, dir),
                   edges |-> {}, next |-> n, nodes |-> {}, owed |-> Incident(n, dir),
                   kept |-> {m \in Nodes : node[m] # NoNode}]
  <2>1. Scanned(n, dir) \subseteq Edges /\ Incident(n, dir) \subseteq Edges
    BY DEF Scanned, Under, Incident
  <2>2. q \in Started
    BY <2>1, GraphAssumption DEF Started, Queries, Idle
  <2> HIDE DEF q
  <2>3. GoOn(q) \in Queries
    BY <2>2, GoOnStarted DEF Started
  <2>4. query' = [query EXCEPT ![r] = GoOn(q)]
    BY <1>4 DEF GetNeighbors, q
  <2>5. QED
    BY <1>3, <2>3, <2>4
<1>5. ASSUME NEW e \in Edges, GetEdge(r, e) PROVE query' \in [Readers -> Queries]
  <2> DEFINE q == query[r]
             rest == [q EXCEPT !.ids = @ \ {e}]
             more == [rest EXCEPT !.edges = @ \cup {<<e, edge[e]>>}]
             far == [rest EXCEPT !.edges = @ \cup {<<e, edge[e]>>}, !.pc = "node",
                                 !.next = FarEnd(edge[e], q.dir)]
  <2>1. q \in Started /\ e \in q.ids
    BY <1>2, <1>5 DEF GetEdge
  <2>2. rest \in Started /\ (edge[e] # NoEdge => more \in Started /\ far \in Started)
    BY <1>1, <2>1, GetEdgeStarted
  <2>3. query' = [query EXCEPT ![r] =
          IF edge[e] = NoEdge THEN GoOn(rest)
          ELSE IF FarEnd(edge[e], q.dir) \in q.nodes THEN GoOn(more) ELSE far]
    BY <1>5 DEF GetEdge
  <2> HIDE DEF rest, more, far
  <2>4. QED
    BY <1>3, <2>2, <2>3, GoOnStarted DEF Started
<1>6. CASE GetNode(r)
  <2> DEFINE q == query[r]
             N == q.nodes \cup {q.next}
  <2>1. q \in Started /\ N \in SUBSET Nodes
    BY <1>2, <1>6 DEF GetNode, Started, Queries, Idle
  <2>2. [q EXCEPT !.nodes = N] \in Started
    BY <2>1, QueryUpdates
  <2>3. query' = [query EXCEPT ![r] = GoOn(IF node[q.next] = NoNode THEN q ELSE [q EXCEPT !.nodes = N])]
    BY <1>6 DEF GetNode
  <2> HIDE DEF q, N
  <2>4. QED
    BY <1>3, <2>1, <2>2, <2>3, GoOnStarted DEF Started
<1>7. CASE Return(r)
  BY <1>1, <1>3, <1>7 DEF Return
<1>8. QED
  BY <1>4, <1>5, <1>6, <1>7 DEF Read

(* Every part of the state has its type.                                   *)
THEOREM WellTyped == Spec => []TypeOK
<1>1. Init => TypeOK
  BY DEF Init, TypeOK, Queries
<1>2. ASSUME TypeOK, [Next]_vars PROVE TypeOK'
  <2>1. DbOK /\ query \in [Readers -> Queries]
    BY <1>2 DEF TypeOK, DbOK
  <2>2. DbOK'
    BY <1>2, <2>1, DbTypes
  <2>3. ASSUME Write PROVE query' \in [Readers -> Queries]
    BY <2>1, <2>3, WithdrawTypes DEF Write, UpsertNode, DeleteNode, UpsertEdge, DeleteEdge
  <2>4. ASSUME NEW r \in Readers, Read(r) PROVE query' \in [Readers -> Queries]
    BY <1>2, <2>4, ReadTypes
  <2>5. query' \in [Readers -> Queries]
    BY <1>2, <2>1, <2>3, <2>4 DEF Next, vars
  <2>6. QED
    BY <2>2, <2>5 DEF TypeOK, DbOK
<1>3. QED
  BY <1>1, <1>2, PTL DEF Spec

(* Callers that give each edge its endpoints once and for all, and ask for *)
(* one direction at a time.                                                *)
Endpoints ==
  /\ \A e \in Edges : \A f, g \in Forms[e] : f.from = g.from /\ f.to = g.to
  /\ Directions \subseteq {"out", "in"}

(* Index keys, stale ones too, lie at the endpoints of their edge.         *)
KeysAtEnds ==
  /\ \A e \in Edges : edge[e] # NoEdge => edge[e] \in Forms[e]
  /\ \A k \in fromKeys : \A f \in Forms[k[3]] : k[1] = f.from
  /\ \A k \in toKeys : \A f \in Forms[k[3]] : k[1] = f.to

LEMMA KeysAtEndsStep ==
  ASSUME Endpoints, TypeOK, KeysAtEnds, [Next]_vars
  PROVE  KeysAtEnds'
<1> USE DEF KeysAtEnds
<1>1. ASSUME NEW e \in Edges, NEW f \in Forms[e], UpsertEdge(e, f) PROVE KeysAtEnds'
  <2>1. FromKey(e, f)[1] = f.from /\ FromKey(e, f)[3] = e /\ ToKey(e, f)[1] = f.to /\ ToKey(e, f)[3] = e
    BY DEF FromKey, ToKey
  <2>2. edge \in [Edges -> Form \cup {NoEdge}]
    BY DEF TypeOK
  <2>3. QED
    BY <1>1, <2>1, <2>2 DEF UpsertEdge, Endpoints
<1>2. ASSUME NEW e \in Edges, DeleteEdge(e) PROVE KeysAtEnds'
  BY <1>2 DEF DeleteEdge, TypeOK
<1>3. ASSUME NEW n \in Nodes, DeleteNode(n) PROVE KeysAtEnds'
  BY <1>3 DEF DeleteNode
<1>4. ASSUME NEW n \in Nodes, NEW t \in NodeTypes, UpsertNode(n, t) PROVE KeysAtEnds'
  BY <1>4 DEF UpsertNode
<1>5. ASSUME NEW r \in Readers, Read(r) PROVE KeysAtEnds'
  BY <1>5, ReadsChangeNothing DEF db
<1>6. CASE UNCHANGED vars
  BY <1>6 DEF vars
<1>7. QED
  BY <1>1, <1>2, <1>3, <1>4, <1>5, <1>6 DEF Next, Write

-----------------------------------------------------------------------------
(* What a query has still to do, has found and owes.                       *)

Traced(e, x, q) == x[1] = e /\ (FarEnd(x[2], q.dir) \in q.kept =>
                                  \/ FarEnd(x[2], q.dir) \in q.nodes
                                  \/ q.pc = "node" /\ q.next = FarEnd(x[2], q.dir))

QueryOK(q, edges, nodes) ==
  /\ q.dir \in {"out", "in"}
  /\ \A e \in q.ids : \A f \in Forms[e] : Leaves(f, q.n, q.dir)
  /\ \A x \in q.edges : x[2] \in Forms[x[1]] /\ Leaves(x[2], q.n, q.dir)
  /\ \A e \in q.owed : edges[e] # NoEdge /\ (e \in q.ids \/ \E x \in q.edges : Traced(e, x, q))
  /\ \A m \in q.kept : nodes[m] # NoNode
  /\ q.pc = "answered" => q.ids = {}

QueriesOK == \A r \in Readers : query[r] # Idle => QueryOK(query[r], edge, node)

(* A write that the open queries are told of.                              *)
LEMMA WithdrawKeeps ==
  ASSUME TypeOK, QueriesOK, NEW E, NEW N, Withdraw(E, N),
         \A e \in Edges \ E : edge[e] # NoEdge => edge'[e] # NoEdge,
         \A m \in Nodes \ N : node[m] # NoNode => node'[m] # NoNode
  PROVE  QueriesOK'
<1> SUFFICES ASSUME NEW r \in Readers, query'[r] # Idle PROVE QueryOK(query'[r], edge', node')
  BY DEF QueriesOK
<1>1. query \in [Readers -> Queries]
  BY DEF TypeOK
<1>2. query[r] \in Started /\ query'[r] = [query[r] EXCEPT !.owed = @ \ E, !.kept = @ \ N]
  BY <1>1 DEF Withdraw, Started, Queries, Idle
<1>3. QueryOK(query[r], edge, node)
  BY <1>2 DEF QueriesOK, Started
<1> DEFINE q == query[r]
           new == query'[r]
<1>4. /\ new.dir = q.dir /\ new.n = q.n /\ new.ids = q.ids /\ new.edges = q.edges
      /\ new.pc = q.pc /\ new.next = q.next /\ new.nodes = q.nodes
      /\ new.owed = q.owed \ E /\ new.kept = q.kept \ N
      /\ q.owed \subseteq Edges /\ q.kept \subseteq Nodes
  BY <1>2 DEF Started, Queries, Idle
<1> HIDE DEF q, new
<1>5. QueryOK(q, edge, node)
  BY <1>3 DEF q
<1>6. QueryOK(new, edge', node')
  BY <1>4, <1>5 DEF QueryOK, Traced
<1>7. QED
  BY <1>6 DEF new

(* A step of reader r that gives it the query q.                           *)
LEMMA ReadKeeps ==
  ASSUME TypeOK, QueriesOK, NEW r \in Readers, NEW q, UNCHANGED db,
         query' = [query EXCEPT ![r] = q], q # Idle => QueryOK(q, edge, node)
  PROVE  QueriesOK'
BY DEF TypeOK, QueriesOK, db

LEMMA GoOnOK ==
  ASSUME NEW q \in Started, q.pc # "node", QueryOK(q, edge, node)
  PROVE  QueryOK(GoOn(q), edge, node)
<1>1. ASSUME NEW pc \in {"edges", "answered"}, pc = "answered" => q.ids = {}
      PROVE  QueryOK([q EXCEPT !.pc = pc], edge, node)
  <2> DEFINE new == [q EXCEPT !.pc = pc]
  <2>1. /\ new.dir = q.dir /\ new.n = q.n /\ new.ids = q.ids /\ new.edges = q.edges
        /\ new.pc = pc /\ new.nodes = q.nodes /\ new.owed = q.owed /\ new.kept = q.kept
    BY <1>1 DEF Started, Queries, Idle
  <2> HIDE DEF new
  <2>2. QED
    BY <1>1, <2>1 DEF QueryOK, Traced
<1>2. QED
  BY <1>1 DEF GoOn

LEMMA NeighborsBegin ==
  ASSUME TypeOK, IndexComplete, KeysAtEnds, Endpoints, QueriesOK,
         NEW r \in Readers, NEW n \in Nodes, NEW dir \in Directions, GetNeighbors(r, n, dir)
  PROVE  QueriesOK'
<1> DEFINE q == [pc |-> "edges", n |-> n, dir |-> dir, ids |-> Scanned(n, dir),
                 edges |-> {}, next |-> n, nodes |-> {}, owed |-> Incident(n, dir),
                 kept |-> {m \in Nodes : node[m] # NoNode}]
<1>1. DbOK /\ dir \in {"out", "in"}
  BY DEF TypeOK, DbOK, Endpoints
<1>2. ASSUME NEW e \in Scanned(n, dir), NEW f \in Forms[e] PROVE Leaves(f, n, dir)
  BY <1>1, <1>2 DEF Scanned, Under, Leaves, KeysAtEnds
<1>3. ASSUME NEW e \in Incident(n, dir) PROVE edge[e] # NoEdge /\ e \in Scanned(n, dir)
  BY <1>1, <1>3, FoundUnder DEF Incident, Leaves, Scanned
<1>4. QueryOK(q, edge, node)
  BY <1>1, <1>2, <1>3 DEF QueryOK, Traced
<1>5. q \in Started /\ q.pc # "node"
  BY <1>1 DEF Started, Queries, Idle, Scanned, Under, Incident
<1>6. query' = [query EXCEPT ![r] = GoOn(q)] /\ UNCHANGED db
  BY DEF GetNeighbors
<1> HIDE DEF q
<1>7. QED
  BY <1>4, <1>5, <1>6, GoOnOK, ReadKeeps

LEMMA NeighborEdge ==
  ASSUME TypeOK, KeysAtEnds, QueriesOK, NEW r \in Readers, NEW e \in Edges, GetEdge(r, e)
  PROVE  QueriesOK'
<1> DEFINE q == query[r]
           rest == [q EXCEPT !.ids = @ \ {e}]
           more == [rest EXCEPT !.edges = @ \cup {<<e, edge[e]>>}]
           far == [rest EXCEPT !.edges = @ \cup {<<e, edge[e]>>}, !.pc = "node",
                               !.next = FarEnd(edge[e], q.dir)]
<1>1. q \in Started /\ q.pc = "edges" /\ e \in q.ids /\ QueryOK(q, edge, node)
  BY DEF GetEdge, TypeOK, QueriesOK, Started, Idle
<1>2. /\ DbOK
      /\ edge[e] # NoEdge => edge[e] \in Forms[e] /\ Leaves(edge[e], q.n, q.dir)
  BY <1>1 DEF TypeOK, DbOK, KeysAtEnds, QueryOK
<1>3. rest \in Started /\ (edge[e] # NoEdge => more \in Started)
  BY <1>1, <1>2, GetEdgeStarted
<1>4. /\ rest.pc = "edges" /\ rest.n = q.n /\ rest.dir = q.dir /\ rest.ids = q.ids \ {e}
      /\ rest.edges = q.edges /\ rest.nodes = q.nodes /\ rest.owed = q.owed /\ rest.kept = q.kept
  BY <1>1 DEF Started, Queries, Idle
<1>5. /\ more.pc = "edges" /\ more.n = q.n /\ more.dir = q.dir /\ more.ids = q.ids \ {e}
      /\ more.edges = q.edges \cup {<<e, edge[e]>>} /\ more.nodes = q.nodes
      /\ more.owed = q.owed /\ more.kept = q.kept
  BY <1>1 DEF Started, Queries, Idle
<1>6. /\ far.pc = "node" /\ far.n = q.n /\ far.dir = q.dir /\ far.ids = q.ids \ {e}
      /\ far.edges = q.edges \cup {<<e, edge[e]>>} /\ far.nodes = q.nodes
      /\ far.owed = q.owed /\ far.kept = q.kept /\ far.next = FarEnd(edge[e], q.dir)
  BY <1>1 DEF Started, Queries, Idle
<1>7. /\ UNCHANGED db
      /\ query' = [query EXCEPT ![r] =
           IF edge[e] = NoEdge THEN GoOn(rest)
           ELSE IF FarEnd(edge[e], q.dir) \in q.nodes THEN GoOn(more) ELSE far]
  BY DEF GetEdge
<1> HIDE DEF q, rest, more, far
<1>8. CASE edge[e] = NoEdge
  <2>1. QueryOK(rest, edge, node)
    BY <1>1, <1>4, <1>8 DEF QueryOK, Traced
  <2>2. QED
    BY <1>3, <1>4, <1>7, <1>8, <2>1, GoOnOK, ReadKeeps
<1>9. CASE edge[e] # NoEdge /\ FarEnd(edge[e], q.dir) \in q.nodes
  <2>1. Traced(e, <<e, edge[e]>>, more)
    BY <1>5, <1>9 DEF Traced
  <2>2. \A d \in q.owed, x \in q.edges : Traced(d, x, q) => Traced(d, x, more)
    BY <1>1, <1>5 DEF Traced
  <2>3. QueryOK(more, edge, node)
    BY <1>1, <1>2, <1>5, <1>9, <2>1, <2>2 DEF QueryOK
  <2>4. QED
    BY <1>3, <1>5, <1>7, <1>9, <2>3, GoOnOK, ReadKeeps
<1>10. CASE edge[e] # NoEdge /\ FarEnd(edge[e], q.dir) \notin q.nodes
  <2>1. Traced(e, <<e, edge[e]>>, far)
    BY <1>6 DEF Traced
  <2>2. \A d \in q.owed, x \in q.edges : Traced(d, x, q) => Traced(d, x, far)
    BY <1>1, <1>6 DEF Traced
  <2>3. QueryOK(far, edge, node)
    BY <1>1, <1>2, <1>6, <1>10, <2>1, <2>2 DEF QueryOK
  <2>4. QED
    BY <1>7, <1>10, <2>3, ReadKeeps
<1>11. QED
  BY <1>8, <1>9, <1>10

LEMMA NeighborNode ==
  ASSUME TypeOK, QueriesOK, NEW r \in Readers, GetNode(r)
  PROVE  QueriesOK'
<1> DEFINE q == query[r]
           N == IF node[q.next] = NoNode THEN q.nodes ELSE q.nodes \cup {q.next}
           new == [q EXCEPT !.nodes = N, !.pc = "edges"]
<1>1. q \in Started /\ q.pc = "node" /\ QueryOK(q, edge, node)
  BY DEF GetNode, TypeOK, QueriesOK, Started, Idle
<1>2. N \in SUBSET Nodes /\ q.nodes \subseteq N /\ (node[q.next] # NoNode => q.next \in N)
  BY <1>1 DEF Started, Queries, Idle
<1>3. /\ new.pc = "edges" /\ new.n = q.n /\ new.dir = q.dir /\ new.ids = q.ids /\ new.nodes = N
      /\ new.edges = q.edges /\ new.owed = q.owed /\ new.kept = q.kept
  BY <1>1 DEF Started, Queries, Idle
<1>4. UNCHANGED db /\ query' = [query EXCEPT ![r] = GoOn(new)]
  <2>1. GoOn(IF node[q.next] = NoNode THEN q ELSE [q EXCEPT !.nodes = @ \cup {q.next}]) = GoOn(new)
    BY <1>1 DEF GoOn, Started, Queries, Idle
  <2>2. QED
    BY <2>1 DEF GetNode
<1> HIDE DEF N
<1>5. new \in Started
  BY <1>1, <1>2, QueryUpdates
<1> HIDE DEF q, new
<1>6. \A e \in q.owed, x \in q.edges : Traced(e, x, q) => Traced(e, x, new)
  BY <1>1, <1>2, <1>3 DEF Traced, QueryOK
<1>7. QueryOK(new, edge, node)
  BY <1>1, <1>3, <1>6 DEF QueryOK
<1>8. QED
  BY <1>3, <1>4, <1>5, <1>7, GoOnOK, ReadKeeps

LEMMA QueriesStep ==
  ASSUME TypeOK, IndexComplete, KeysAtEnds, Endpoints, QueriesOK, [Next]_vars
  PROVE  QueriesOK'
<1>1. ASSUME NEW n \in Nodes, NEW t \in NodeTypes, UpsertNode(n, t) PROVE QueriesOK'
  <2>1. UNCHANGED <<edge, query>> /\ \A m \in Nodes : node[m] # NoNode => node'[m] # NoNode
    BY <1>1, GraphAssumption DEF UpsertNode, TypeOK
  <2>2. ASSUME NEW r \in Readers, query[r] # Idle PROVE query[r].kept \subseteq Nodes
    BY <2>2 DEF TypeOK, Queries
  <2>3. QED
    BY <2>1, <2>2 DEF QueriesOK, QueryOK
<1>2. ASSUME NEW n \in Nodes, DeleteNode(n) PROVE QueriesOK'
  <2> DEFINE dead == Under(fromKeys, n) \cup Under(toKeys, n)
  <2>1. /\ Withdraw(dead, {n})
        /\ \A e \in Edges \ dead : edge[e] # NoEdge => edge'[e] # NoEdge
        /\ \A m \in Nodes \ {n} : node[m] # NoNode => node'[m] # NoNode
    BY <1>2 DEF DeleteNode, TypeOK
  <2> HIDE DEF dead
  <2>2. QED
    BY <2>1, WithdrawKeeps
<1>3. ASSUME NEW e \in Edges, NEW f \in Forms[e], UpsertEdge(e, f) PROVE QueriesOK'
  <2> DEFINE E == IF edge[e] \in {NoEdge, f} THEN {} ELSE {e}
  <2>1. /\ Withdraw(E, {})
        /\ \A d \in Edges \ E : edge[d] # NoEdge => edge'[d] # NoEdge
        /\ \A m \in Nodes \ {} : node[m] # NoNode => node'[m] # NoNode
    <3>1. f # NoEdge
      BY GraphAssumption
    <3>2. QED
      BY <1>3, <3>1 DEF UpsertEdge, TypeOK
  <2> HIDE DEF E
  <2>2. QED
    BY <2>1, WithdrawKeeps
<1>4. ASSUME NEW e \in Edges, DeleteEdge(e) PROVE QueriesOK'
  <2>1. /\ Withdraw({e}, {})
        /\ \A d \in Edges \ {e} : edge[d] # NoEdge => edge'[d] # NoEdge
        /\ \A m \in Nodes \ {} : node[m] # NoNode => node'[m] # NoNode
    BY <1>4 DEF DeleteEdge, TypeOK
  <2>2. QED
    BY <2>1, WithdrawKeeps
<1>5. ASSUME NEW r \in Readers, Return(r) PROVE QueriesOK'
  BY <1>5, ReadKeeps DEF Return
<1>6. ASSUME NEW r \in Readers, Read(r) PROVE QueriesOK'
  BY <1>5, <1>6, NeighborsBegin, NeighborEdge, NeighborNode DEF Read
<1>7. CASE UNCHANGED vars
  BY <1>7 DEF vars, QueriesOK, QueryOK
<1>8. QED
  BY <1>1, <1>2, <1>3, <1>4, <1>6, <1>7 DEF Next, Write

LEMMA AnswersExact == Endpoints /\ TypeOK /\ KeysAtEnds /\ QueriesOK => NeighborsExact
<1> SUFFICES ASSUME Endpoints, TypeOK, QueriesOK, NEW r \in Readers, query[r].pc = "answered"
             PROVE  /\ \A x \in query[r].edges : Leaves(x[2], query[r].n, query[r].dir)
                    /\ \A e \in query[r].owed : \E x \in query[r].edges :
                         /\ x[1] = e
                         /\ \A m \in {x[2].from, x[2].to} \cap query[r].kept :
                              m # query[r].n => m \in query[r].nodes
  BY DEF NeighborsExact, NeighborsIncident, NeighborsComplete
<1> DEFINE q == query[r]
<1>1. QueryOK(q, edge, node)
  BY DEF QueriesOK, Idle
<1> HIDE DEF q
<1>2. q.pc = "answered"
  BY DEF q
<1>3. ASSUME NEW e \in q.owed
      PROVE  \E x \in q.edges :
               x[1] = e /\ \A m \in {x[2].from, x[2].to} \cap q.kept : m # q.n => m \in q.nodes
  <2>1. PICK x \in q.edges : Traced(e, x, q)
    BY <1>1, <1>2 DEF QueryOK
  <2>2. q.dir \in {"out", "in"} /\ Leaves(x[2], q.n, q.dir)
    BY <1>1 DEF QueryOK
  <2>3. ASSUME NEW m \in {x[2].from, x[2].to} \cap q.kept, m # q.n PROVE m \in q.nodes
    <3>1. m = FarEnd(x[2], q.dir)
      BY <2>2, <2>3 DEF Leaves, FarEnd
    <3>2. QED
      BY <1>2, <2>1, <2>3, <3>1 DEF Traced
  <2>4. QED
    BY <2>1, <2>3 DEF Traced
<1>4. QED
  BY <1>1, <1>3 DEF QueryOK, q

(* GetNeighbors answers with the node's edges and no others, whatever is   *)
(* written while it reads, if callers let each edge keep its endpoints and *)
(* ask for one direction.                                                  *)
THEOREM NeighborsAreExact == ASSUME Endpoints PROVE Spec => []NeighborsExact
<1>1. Init => TypeOK /\ IndexComplete /\ KeysAtEnds /\ QueriesOK
  BY DbInit DEF Init, TypeOK, Queries, KeysAtEnds, QueriesOK
<1>2. KeysAtEnds /\ QueriesOK /\ TypeOK /\ IndexComplete /\ [Next]_vars
        => KeysAtEnds' /\ QueriesOK'
  BY KeysAtEndsStep, QueriesStep
<1>3. TypeOK /\ KeysAtEnds /\ QueriesOK => NeighborsExact
  BY AnswersExact
<1>4. QED
  BY <1>1, <1>2, <1>3, WellTyped, EdgesAreIndexed, PTL DEF Spec

-----------------------------------------------------------------------------
(* Numbers, and functions defined by recursion on them.                    *)

LEMMA LeastNatural ==
  ASSUME NEW S \in SUBSET Nat, S # {}
  PROVE  \E m \in S : \A n \in S : m <= n
<1> DEFINE less == {p \in Nat \X Nat : p[1] < p[2]}
<1>1. IsWellFoundedOn(less, Nat)
  BY NatLessThanWellFounded DEF OpToRel
<1>2. PICK m \in S : \A n \in S : ~ (<<n, m>> \in less)
  <2> HIDE DEF less
  <2> QED BY <1>1, WFMin
<1>3. \A n \in S : ~ (n < m)
  BY <1>2
<1> QED BY <1>3

LEMMA AllNumbers ==
  ASSUME NEW S \in SUBSET Nat, 0 \in S, \A n \in S : n + 1 \in S
  PROVE  \A n \in Nat : n \in S
<1> SUFFICES ASSUME Nat \ S # {} PROVE FALSE
  OBVIOUS
<1>1. PICK m \in Nat \ S : \A n \in Nat \ S : m <= n
  BY LeastNatural
<1>2. m # 0 /\ m - 1 \in Nat /\ ~(m <= m - 1) /\ (m - 1) + 1 = m
  BY <1>1
<1>3. m - 1 \in S
  BY <1>1, <1>2
<1> QED BY <1>1, <1>2, <1>3

(* From a first value and a step there is a function on 0..n.              *)
Steps(f, b, step, n) == f[0] = b /\ \A i \in 1..n : f[i] = step[<<i, f[i - 1]>>]

LEMMA StepByStep ==
  ASSUME NEW G, NEW b \in G, NEW step \in [Nat \X G -> G]
  PROVE  \A n \in Nat : \E f \in [0..n -> G] : Steps(f, b, step, n)
<1> DEFINE S == {n \in Nat : \E f \in [0..n -> G] : Steps(f, b, step, n)}
<1>1. 0 \in S
  <2>1. [i \in 0..0 |-> b] \in [0..0 -> G] /\ Steps([i \in 0..0 |-> b], b, step, 0)
    BY DEF Steps
  <2> QED BY <2>1
<1>2. ASSUME NEW n \in S PROVE n + 1 \in S
  <2>1. PICK f \in [0..n -> G] : Steps(f, b, step, n)
    OBVIOUS
  <2> DEFINE g == [i \in 0..n + 1 |-> IF i = n + 1 THEN step[<<n + 1, f[n]>>] ELSE f[i]]
  <2>2. n \in Nat /\ n + 1 \in Nat /\ f[n] \in G
    OBVIOUS
  <2>3. g \in [0..n + 1 -> G]
    <3>1. step[<<n + 1, f[n]>>] \in G
      BY <2>2
    <3>2. \A i \in 0..n + 1 : i # n + 1 => i \in 0..n
      BY <2>2
    <3> QED BY <3>1, <3>2
  <2>4. ASSUME NEW i \in 1..n + 1 PROVE g[i] = step[<<i, g[i - 1]>>]
    <3>1. CASE i = n + 1
      <4>1. g[i] = step[<<n + 1, f[n]>>] /\ g[i - 1] = f[n]
        BY <2>2, <3>1
      <4> QED BY <3>1, <4>1
    <3>2. CASE i # n + 1
      <4>1. i \in 1..n /\ i - 1 \in 0..n /\ g[i] = f[i] /\ g[i - 1] = f[i - 1]
        BY <2>2, <3>2
      <4> QED BY <2>1, <4>1 DEF Steps
    <3> QED BY <3>1, <3>2
  <2>5. g[0] = b
    BY <2>1, <2>2 DEF Steps
  <2> HIDE DEF g
  <2>6. Steps(g, b, step, n + 1)
    BY <2>4, <2>5 DEF Steps
  <2> QED BY <2>2, <2>3, <2>6
<1> HIDE DEF S
<1>3. \A n \in Nat : n \in S
  <2>1. S \in SUBSET Nat
    BY DEF S
  <2> QED BY <1>1, <1>2, <2>1, AllNumbers
<1> QED BY <1>3 DEF S

-----------------------------------------------------------------------------
(* One step of a traversal.                                                *)

Hop(m, n, dir) == node[n] # NoNode /\ \E e \in Edges : Joins(e, m, n, dir)

LEMMA JoinsIs ==
  ASSUME NEW f \in Form, NEW m \in Nodes, NEW n \in Nodes
  PROVE  f = [f EXCEPT !.from = m, !.to = n] <=> f.from = m /\ f.to = n
BY DEF Form

LEMMA JoinsEnds ==
  ASSUME DbOK, NEW e \in Edges, NEW m \in Nodes, NEW n \in Nodes, NEW dir \in {"out", "in"}
  PROVE  Joins(e, m, n, dir) <=>
           /\ edge[e] # NoEdge
           /\ edge[e].from = IF dir = "in" THEN n ELSE m
           /\ edge[e].to = IF dir = "in" THEN m ELSE n
<1>1. edge[e] # NoEdge => edge[e] \in Form
  BY DEF DbOK
<1> DEFINE f == edge[e]
           first == IF dir = "in" THEN n ELSE m
           second == IF dir = "in" THEN m ELSE n
<1>2. first \in Nodes /\ second \in Nodes
  OBVIOUS
<1>3. Joins(e, m, n, dir) <=> f # NoEdge /\ f = [f EXCEPT !.from = first, !.to = second]
  BY DEF Joins
<1>4. f # NoEdge => (f = [f EXCEPT !.from = first, !.to = second] <=> f.from = first /\ f.to = second)
  <2> HIDE DEF first, second, f
  <2>1. f # NoEdge => f \in Form
    BY <1>1 DEF f
  <2> QED BY <1>2, <2>1, JoinsIs
<1> QED
  <2> HIDE DEF first, second
  <2>1. Joins(e, m, n, dir) <=> f # NoEdge /\ f.from = first /\ f.to = second
    BY <1>3, <1>4
  <2> QED BY <2>1 DEF first, second

(* Index keys lead over the stored edges and over no others.               *)
LEMMA EdgesOfJoin ==
  ASSUME DbOK, IndexComplete, KeysAtEnds, NEW n \in Nodes, NEW dir \in {"out", "in"},
         NEW e \in Edges
  PROVE  /\ e \in EdgesOf(n, dir) =>
              FarEnd(edge[e], dir) \in Nodes /\ Joins(e, n, FarEnd(edge[e], dir), dir)
         /\ \A m \in Nodes : Joins(e, n, m, dir) => e \in EdgesOf(n, dir) /\ FarEnd(edge[e], dir) = m
<1>1. edge[e] # NoEdge => edge[e] \in Form /\ edge[e] \in Forms[e]
  BY DEF DbOK, KeysAtEnds
<1>2. ASSUME e \in EdgesOf(n, dir)
      PROVE  FarEnd(edge[e], dir) \in Nodes /\ Joins(e, n, FarEnd(edge[e], dir), dir)
  <2>1. edge[e] # NoEdge /\ edge[e] \in Form /\ FarEnd(edge[e], dir) \in Nodes
    BY <1>1, <1>2 DEF EdgesOf, FarEnd, Form
  <2>2. IF dir = "in" THEN edge[e].to = n ELSE edge[e].from = n
    BY <1>1, <1>2 DEF EdgesOf, Scanned, Under, KeysAtEnds
  <2> QED BY <2>1, <2>2, JoinsEnds DEF FarEnd
<1>3. ASSUME NEW m \in Nodes, Joins(e, n, m, dir)
      PROVE  e \in EdgesOf(n, dir) /\ FarEnd(edge[e], dir) = m
  <2>1. edge[e] # NoEdge /\ IF dir = "in" THEN edge[e].to = n /\ edge[e].from = m
                                         ELSE edge[e].from = n /\ edge[e].to = m
    BY <1>3, JoinsEnds
  <2> QED BY <2>1, FoundUnder DEF EdgesOf, Scanned, FarEnd
<1> QED BY <1>2, <1>3

LEMMA NeighborsHop ==
  ASSUME DbOK, IndexComplete, KeysAtEnds, NEW n \in Nodes, NEW dir \in {"out", "in"}
  PROVE  Neighbors(n, dir) = {m \in Nodes : Hop(n, m, dir)}
<1>1. EdgesOf(n, dir) \subseteq Edges
  BY DEF EdgesOf, Scanned, Under
<1>2. ASSUME NEW m \in Neighbors(n, dir) PROVE m \in Nodes /\ Hop(n, m, dir)
  <2>1. PICK e \in EdgesOf(n, dir) : m = FarEnd(edge[e], dir) /\ node[m] # NoNode
    BY <1>2 DEF Neighbors
  <2> QED BY <1>1, <2>1, EdgesOfJoin DEF Hop
<1>3. ASSUME NEW m \in Nodes, Hop(n, m, dir) PROVE m \in Neighbors(n, dir)
  <2>1. PICK e \in Edges : Joins(e, n, m, dir)
    BY <1>3 DEF Hop
  <2> QED BY <1>3, <2>1, EdgesOfJoin DEF Hop, Neighbors
<1> QED BY <1>2, <1>3

-----------------------------------------------------------------------------
(* Walks of a number of steps.                                             *)

Walk(start, n, dir, k) ==
  \E p \in [0..k -> Nodes] :
    /\ p[0] = start /\ p[k] = n
    /\ \A i \in 1..k : node[p[i]] # NoNode /\ \E e \in Edges : Joins(e, p[i - 1], p[i], dir)

LEMMA WithinIs ==
  ASSUME NEW start, NEW dir, NEW depth
  PROVE  Within(start, dir, depth) = {n \in Nodes : \E k \in 1..depth : Walk(start, n, dir, k)}
BY DEF Within, Walk

LEMMA WalkNowhere ==
  ASSUME NEW start \in Nodes, NEW n \in Nodes, NEW dir
  PROVE  Walk(start, n, dir, 0) <=> n = start
<1>1. ASSUME n = start PROVE Walk(start, n, dir, 0)
  <2> DEFINE p == [i \in 0..0 |-> start]
  <2>1. p \in [0..0 -> Nodes] /\ p[0] = start
    OBVIOUS
  <2>2. \A i \in 1..0 : FALSE
    OBVIOUS
  <2> HIDE DEF p
  <2> QED BY <1>1, <2>1, <2>2 DEF Walk
<1> QED BY <1>1 DEF Walk

LEMMA WalkOn ==
  ASSUME NEW start \in Nodes, NEW m \in Nodes, NEW n \in Nodes, NEW dir, NEW k \in Nat,
         Walk(start, m, dir, k), Hop(m, n, dir)
  PROVE  Walk(start, n, dir, k + 1)
<1>1. PICK p \in [0..k -> Nodes] :
        /\ p[0] = start /\ p[k] = m
        /\ \A i \in 1..k : node[p[i]] # NoNode /\ \E e \in Edges : Joins(e, p[i - 1], p[i], dir)
  BY DEF Walk
<1> DEFINE q == [i \in 0..k + 1 |-> IF i = k + 1 THEN n ELSE p[i]]
<1>2. q \in [0..k + 1 -> Nodes]
  <2>1. \A i \in 0..k + 1 : i # k + 1 => i \in 0..k
    OBVIOUS
  <2> QED BY <2>1
<1>3. q[0] = start /\ q[k] = m /\ q[k + 1] = n
  BY <1>1
<1>4. ASSUME NEW i \in 1..k + 1
      PROVE  node[q[i]] # NoNode /\ \E e \in Edges : Joins(e, q[i - 1], q[i], dir)
  <2>1. CASE i = k + 1
    <3>1. q[i] = n /\ q[i - 1] = m
      BY <1>3, <2>1
    <3> QED BY <3>1 DEF Hop
  <2>2. CASE i # k + 1
    <3>1. i \in 1..k /\ q[i] = p[i] /\ q[i - 1] = p[i - 1]
      BY <2>2
    <3> QED BY <1>1, <3>1
  <2> QED BY <2>1, <2>2
<1> HIDE DEF q
<1> QED BY <1>2, <1>3, <1>4 DEF Walk

LEMMA WalkBack ==
  ASSUME NEW start \in Nodes, NEW n \in Nodes, NEW dir, NEW k \in Nat, Walk(start, n, dir, k + 1)
  PROVE  \E m \in Nodes : Walk(start, m, dir, k) /\ Hop(m, n, dir)
<1>1. PICK p \in [0..k + 1 -> Nodes] :
        /\ p[0] = start /\ p[k + 1] = n
        /\ \A i \in 1..k + 1 : node[p[i]] # NoNode /\ \E e \in Edges : Joins(e, p[i - 1], p[i], dir)
  BY DEF Walk
<1> DEFINE q == [i \in 0..k |-> p[i]]
<1>2. q \in [0..k -> Nodes] /\ q[0] = start /\ q[k] = p[k] /\ p[k] \in Nodes
  BY <1>1
<1>3. ASSUME NEW i \in 1..k
      PROVE  node[q[i]] # NoNode /\ \E e \in Edges : Joins(e, q[i - 1], q[i], dir)
  <2>1. i \in 1..k + 1 /\ q[i] = p[i] /\ q[i - 1] = p[i - 1]
    OBVIOUS
  <2> QED BY <1>1, <2>1
<1>4. Hop(p[k], n, dir)
  <2>1. k + 1 \in 1..k + 1 /\ (k + 1) - 1 = k
    OBVIOUS
  <2> QED BY <1>1, <2>1 DEF Hop
<1>5. Walk(start, p[k], dir, k)
  <2> HIDE DEF q
  <2> QED BY <1>2, <1>3 DEF Walk
<1> QED BY <1>2, <1>4, <1>5

-----------------------------------------------------------------------------
(* BFS: a level has the nodes that so many steps lead to, and leaves open  *)
(* the neighbours of its queue only.                                       *)

LevelOK(l, start, dir, d) ==
  /\ l.visited = {n \in Nodes : \E k \in 0..d : Walk(start, n, dir, k)}
  /\ l.queue \subseteq l.visited
  /\ \A n \in l.visited \ l.queue : \A m \in Nodes : Hop(n, m, dir) => m \in l.visited

Expanded(l, dir) ==
  LET new == (UNION {Neighbors(n, dir) : n \in l.queue}) \ l.visited
  IN  [queue |-> new, visited |-> l.visited \cup new]

LEMMA LevelUp ==
  ASSUME DbOK, IndexComplete, KeysAtEnds, NEW start \in Nodes, NEW dir \in {"out", "in"},
         NEW d \in Nat, NEW l \in [queue : SUBSET Nodes, visited : SUBSET Nodes],
         LevelOK(l, start, dir, d)
  PROVE  LevelOK(Expanded(l, dir), start, dir, d + 1)
<1> DEFINE new == (UNION {Neighbors(n, dir) : n \in l.queue}) \ l.visited
           V == l.visited \cup new
<1>1. new = {m \in Nodes : m \notin l.visited /\ \E n \in l.queue : Hop(n, m, dir)}
  <2>1. \A n \in l.queue : Neighbors(n, dir) = {m \in Nodes : Hop(n, m, dir)}
    BY NeighborsHop
  <2>2. \A m : m \in UNION {Neighbors(n, dir) : n \in l.queue} <=> \E n \in l.queue : m \in Neighbors(n, dir)
    OBVIOUS
  <2>3. \A m : m \in new <=> m \in Nodes /\ m \notin l.visited /\ \E n \in l.queue : Hop(n, m, dir)
    <3> DEFINE U == UNION {Neighbors(n, dir) : n \in l.queue}
    <3>1. \A n \in l.queue : \A m : m \in Neighbors(n, dir) <=> m \in Nodes /\ Hop(n, m, dir)
      BY <2>1
    <3>2. new = U \ l.visited
      OBVIOUS
    <3>3. \A m : m \in U <=> \E n \in l.queue : m \in Neighbors(n, dir)
      BY <2>2
    <3> HIDE DEF new, U
    <3> QED BY <3>1, <3>2, <3>3
  <2> HIDE DEF new
  <2> QED BY <2>3
<1>2. Expanded(l, dir) = [queue |-> new, visited |-> V]
  BY DEF Expanded
<1> HIDE DEF new
<1>3. ASSUME NEW n \in Nodes, NEW k \in 0..d + 1, Walk(start, n, dir, k) PROVE n \in V
  <2>1. CASE k = d + 1
    <3>1. PICK m \in Nodes : Walk(start, m, dir, d) /\ Hop(m, n, dir)
      BY <1>3, <2>1, WalkBack
    <3>2. m \in l.visited
      BY <3>1 DEF LevelOK
    <3> QED BY <1>1, <3>1, <3>2 DEF LevelOK
  <2>2. CASE k # d + 1
    <3>1. k \in 0..d
      BY <2>2
    <3> QED BY <1>3, <3>1 DEF LevelOK
  <2> QED BY <2>1, <2>2
<1>4. ASSUME NEW n \in V PROVE n \in Nodes /\ \E k \in 0..d + 1 : Walk(start, n, dir, k)
  <2>1. CASE n \in l.visited
    BY <2>1 DEF LevelOK
  <2>2. CASE n \in new
    <3>1. PICK m \in l.queue : Hop(m, n, dir)
      BY <1>1, <2>2
    <3>2. m \in Nodes /\ n \in Nodes
      BY <1>1, <2>2
    <3>3. PICK k \in 0..d : Walk(start, m, dir, k)
      BY DEF LevelOK
    <3>4. Walk(start, n, dir, k + 1)
      BY <3>1, <3>2, <3>3, WalkOn
    <3> QED BY <3>2, <3>4
  <2> QED BY <2>1, <2>2
<1>5. ASSUME NEW n \in V \ new, NEW m \in Nodes, Hop(n, m, dir) PROVE m \in V
  BY <1>1, <1>5 DEF LevelOK
<1> HIDE DEF V
<1>6. V = {n \in Nodes : \E k \in 0..d + 1 : Walk(start, n, dir, k)}
  BY <1>3, <1>4
<1>7. new \subseteq V
  BY DEF V
<1> QED BY <1>2, <1>5, <1>6, <1>7 DEF LevelOK

LEMMA FoundByBFS ==
  ASSUME DbOK, IndexComplete, KeysAtEnds, NEW start \in Nodes, NEW dir \in {"out", "in"},
         NEW depth \in Nat
  PROVE  BFS(start, dir, depth) = Within(start, dir, depth) \ {start}
<1> DEFINE G == [queue : SUBSET Nodes, visited : SUBSET Nodes]
           b == [queue |-> {start}, visited |-> {start}]
           level[d \in 0..depth] ==
             IF d = 0 THEN [queue |-> {start}, visited |-> {start}]
             ELSE LET prev == level[d - 1]
                      new == (UNION {Neighbors(n, dir) : n \in prev.queue}) \ prev.visited
                  IN  [queue |-> new, visited |-> prev.visited \cup new]
           A == {d \in Nat : d \in 0..depth => level[d] \in G /\ LevelOK(level[d], start, dir, d)}
<1>1. BFS(start, dir, depth) = level[depth].visited \ {start}
  BY DEF BFS
<1>2. ASSUME NEW l \in G PROVE Expanded(l, dir) \in G
  <2>1. \A n \in l.queue : Neighbors(n, dir) \subseteq Nodes
    BY NeighborsHop
  <2> QED BY <2>1 DEF Expanded
<1>3. /\ level[0] = b
      /\ \A d \in 1..depth : level[d] = Expanded(level[d - 1], dir)
  <2> DEFINE step == [x \in Nat \X G |-> Expanded(x[2], dir)]
  <2>1. b \in G
    OBVIOUS
  <2> HIDE DEF G, b
  <2>2. step \in [Nat \X G -> G]
    BY <1>2
  <2>3. PICK g \in [0..depth -> G] : Steps(g, b, step, depth)
    <3> HIDE DEF step
    <3> QED BY <2>1, <2>2, StepByStep
  <2>4. ASSUME NEW d \in 0..depth PROVE g[d] = IF d = 0 THEN b ELSE Expanded(g[d - 1], dir)
    <3>1. CASE d = 0
      BY <2>3, <3>1 DEF Steps
    <3>2. CASE d # 0
      <4>1. d \in 1..depth /\ d - 1 \in 0..depth /\ d \in Nat
        BY <3>2
      <4>2. g[d] = step[<<d, g[d - 1]>>] /\ g[d - 1] \in G
        BY <2>3, <4>1 DEF Steps
      <4> QED BY <3>2, <4>1, <4>2
    <3> QED BY <3>1, <3>2
  <2>5. g = [d \in 0..depth |-> IF d = 0 THEN b ELSE Expanded(g[d - 1], dir)]
    BY <2>4
  <2>6. \E h : h = [d \in 0..depth |->
             IF d = 0 THEN [queue |-> {start}, visited |-> {start}]
             ELSE LET prev == h[d - 1]
                      new == (UNION {Neighbors(n, dir) : n \in prev.queue}) \ prev.visited
                  IN  [queue |-> new, visited |-> prev.visited \cup new]]
    BY <2>5 DEF Expanded, b
  <2>7. level = [d \in 0..depth |->
             IF d = 0 THEN [queue |-> {start}, visited |-> {start}]
             ELSE LET prev == level[d - 1]
                      new == (UNION {Neighbors(n, dir) : n \in prev.queue}) \ prev.visited
                  IN  [queue |-> new, visited |-> prev.visited \cup new]]
    BY <2>6
  <2> HIDE DEF level
  <2>8. level = [d \in 0..depth |-> IF d = 0 THEN b ELSE Expanded(level[d - 1], dir)]
    BY <2>7 DEF Expanded, b
  <2>9. 0 \in 0..depth /\ \A d \in 1..depth : d \in 0..depth /\ d # 0
    OBVIOUS
  <2> QED BY <2>8, <2>9
<1> HIDE DEF level
<1>4. 0 \in A
  <2>1. LevelOK(b, start, dir, 0)
    <3>1. \A n \in Nodes : (\E k \in 0..0 : Walk(start, n, dir, k)) <=> n = start
      BY WalkNowhere
    <3> QED BY <3>1 DEF LevelOK
  <2> QED BY <1>3, <2>1
<1>5. ASSUME NEW d \in A PROVE d + 1 \in A
  <2> SUFFICES ASSUME d + 1 \in 0..depth
               PROVE  level[d + 1] \in G /\ LevelOK(level[d + 1], start, dir, d + 1)
    OBVIOUS
  <2>1. d \in Nat /\ d \in 0..depth /\ d + 1 \in 1..depth /\ (d + 1) - 1 = d
    OBVIOUS
  <2>2. level[d] \in G /\ LevelOK(level[d], start, dir, d)
    BY <2>1
  <2>3. level[d + 1] = Expanded(level[d], dir)
    BY <1>3, <2>1
  <2> QED BY <1>2, <2>1, <2>2, <2>3, LevelUp
<1>6. depth \in A
  <2>1. A \in SUBSET Nat
    OBVIOUS
  <2> HIDE DEF A
  <2> QED BY <1>4, <1>5, <2>1, AllNumbers
<1>7. level[depth].visited = {n \in Nodes : \E k \in 0..depth : Walk(start, n, dir, k)}
  BY <1>6 DEF LevelOK
<1>8. \A n \in Nodes \ {start} :
        (\E k \in 0..depth : Walk(start, n, dir, k)) <=> \E k \in 1..depth : Walk(start, n, dir, k)
  <2>1. \A k \in 0..depth : k = 0 \/ k \in 1..depth
    OBVIOUS
  <2>2. \A k \in 1..depth : k \in 0..depth
    OBVIOUS
  <2> QED BY <2>1, <2>2, WalkNowhere
<1> QED BY <1>1, <1>7, <1>8, WithinIs

(* BFS finds the nodes that stored edges lead to over stored nodes in the  *)
(* depth asked for or less, whatever was written before, if callers let    *)
(* each edge keep its endpoints and ask for one direction.                 *)
THEOREM TraversalReaches == ASSUME Endpoints PROVE Spec => []BFSReaches
<1>1. Init => TypeOK /\ KeysAtEnds
  BY DEF Init, TypeOK, Queries, KeysAtEnds
<1>2. KeysAtEnds /\ TypeOK /\ [Next]_vars => KeysAtEnds'
  BY KeysAtEndsStep
<1>3. TypeOK /\ IndexComplete /\ KeysAtEnds => BFSReaches
  <2> SUFFICES ASSUME TypeOK, IndexComplete, KeysAtEnds,
                      NEW n \in Nodes, NEW dir \in Directions, NEW depth \in 1..MaxDepth
               PROVE  BFS(n, dir, depth) = Within(n, dir, depth) \ {n}
    BY DEF BFSReaches
  <2>1. DbOK /\ dir \in {"out", "in"} /\ depth \in Nat
    BY TraversalAssumption DEF TypeOK, DbOK, Endpoints
  <2> QED BY <2>1, FoundByBFS
<1> QED BY <1>1, <1>2, <1>3, WellTyped, EdgesAreIndexed, PTL DEF Spec

-----------------------------------------------------------------------------
(* ShortestPath.  Its queue loses its head and is given new nodes.         *)

Waiting(q) == {q[i] : i \in 1..Len(q)}
Distinct(q) == \A i, j \in 1..Len(q) : q[i] = q[j] => i = j

LEMMA SetToSeqIs ==
  ASSUME NEW T, NEW S \in SUBSET T, IsFiniteSet(S)
  PROVE  SetToSeq(S) \in Seq(T) /\ Distinct(SetToSeq(S)) /\ Waiting(SetToSeq(S)) = S
<1> DEFINE n == Cardinality(S)
           f == SetToSeq(S)
<1>1. n \in Nat /\ ExistsBijection(1..n, S)
  BY FS_CardinalityType
<1>2. PICK g \in [1..n -> S] : IsInjective(g)
  BY <1>1 DEF ExistsBijection, Bijection, Injection
<1>3. f \in [1..n -> S] /\ IsInjective(f)
  BY <1>2 DEF SetToSeq
<1> HIDE DEF f
<1>4. f \in Seq(T) /\ Len(f) = n
  BY <1>1, <1>3
<1>5. f \in Surjection(1..n, S)
  <2>1. IsFiniteSet(1..n) /\ Cardinality(1..n) = n
    BY <1>1, FS_Interval
  <2>2. f \in Injection(1..n, S)
    BY <1>3 DEF Injection
  <2> QED BY <2>1, <2>2, FS_Injection
<1>6. Waiting(f) = S
  BY <1>3, <1>4, <1>5 DEF Surjection, Waiting
<1>7. Distinct(f)
  BY <1>3, <1>4 DEF IsInjective, Distinct
<1> QED BY <1>4, <1>6, <1>7 DEF f

LEMMA QueueAfter ==
  ASSUME NEW T, NEW q \in Seq(T), q # <<>>, Distinct(q),
         NEW z \in Seq(T), Distinct(z), Waiting(z) \cap Waiting(q) = {}
  PROVE  /\ Tail(q) \o z \in Seq(T) /\ Distinct(Tail(q) \o z)
         /\ Waiting(Tail(q) \o z) = (Waiting(q) \ {Head(q)}) \cup Waiting(z)
         /\ Len(Tail(q) \o z) = Len(q) - 1 + Len(z)
         /\ \A i \in 1..Len(q) - 1 : (Tail(q) \o z)[i] = q[i + 1]
         /\ \A i \in Len(q)..Len(q) - 1 + Len(z) : (Tail(q) \o z)[i] \in Waiting(z)
<1> DEFINE t == Tail(q)
           w == t \o z
           l == Len(q)
           k == Len(z)
<1>1. l \in Nat /\ l >= 1 /\ k \in Nat /\ Head(q) = q[1]
  BY EmptySeq, LenProperties
<1>2. t \in Seq(T) /\ Len(t) = l - 1 /\ \A i \in 1..l - 1 : t[i] = q[i + 1]
  BY HeadTailProperties
<1> HIDE DEF t
<1>3. /\ w \in Seq(T) /\ Len(w) = l - 1 + k
      /\ \A i \in 1..l - 1 + k : w[i] = IF i <= l - 1 THEN t[i] ELSE z[i - (l - 1)]
  BY <1>2, ConcatProperties
<1> HIDE DEF w
<1>4. \A i \in 1..l - 1 : w[i] = q[i + 1] /\ i + 1 \in 1..l /\ i + 1 # 1
  <2> SUFFICES ASSUME NEW i \in 1..l - 1 PROVE w[i] = q[i + 1] /\ i + 1 \in 1..l /\ i + 1 # 1
    OBVIOUS
  <2>1. i \in 1..l - 1 + k /\ i <= l - 1 /\ i + 1 \in 1..l /\ i + 1 # 1
    BY <1>1
  <2>2. w[i] = t[i]
    BY <1>3, <2>1
  <2>3. t[i] = q[i + 1]
    BY <1>2
  <2> QED BY <2>1, <2>2, <2>3
<1>5. \A i \in l..l - 1 + k : w[i] = z[i - (l - 1)] /\ i - (l - 1) \in 1..k
  BY <1>1, <1>3
<1>6. \A i \in 1..l - 1 + k : i \in 1..l - 1 \/ i \in l..l - 1 + k
  BY <1>1
<1>7. Waiting(w) = (Waiting(q) \ {q[1]}) \cup Waiting(z)
  <2>1. ASSUME NEW x \in Waiting(w) PROVE x \in (Waiting(q) \ {q[1]}) \cup Waiting(z)
    <3>1. PICK i \in 1..l - 1 + k : x = w[i]
      BY <1>3 DEF Waiting
    <3>2. CASE i \in 1..l - 1
      <4>1. x = q[i + 1] /\ i + 1 \in 1..l /\ i + 1 # 1 /\ 1 \in 1..l
        BY <1>1, <1>4, <3>1, <3>2
      <4> QED BY <4>1 DEF Waiting, Distinct
    <3>3. CASE i \in l..l - 1 + k
      BY <1>5, <3>1, <3>3 DEF Waiting
    <3> QED BY <1>6, <3>2, <3>3
  <2>2. ASSUME NEW x \in Waiting(q), x # q[1] PROVE x \in Waiting(w)
    <3>1. PICK i \in 1..l : x = q[i]
      BY DEF Waiting
    <3>2. i - 1 \in 1..l - 1 /\ i - 1 \in 1..Len(w) /\ (i - 1) + 1 = i
      BY <1>1, <1>3, <2>2, <3>1
    <3>3. x = w[i - 1]
      BY <1>4, <3>1, <3>2
    <3> QED BY <3>2, <3>3 DEF Waiting
  <2>3. ASSUME NEW x \in Waiting(z) PROVE x \in Waiting(w)
    <3>1. PICK i \in 1..k : x = z[i]
      BY DEF Waiting
    <3>2. i + (l - 1) \in l..l - 1 + k /\ i + (l - 1) \in 1..Len(w) /\ (i + (l - 1)) - (l - 1) = i
      BY <1>1, <1>3
    <3>3. x = w[i + (l - 1)]
      BY <1>5, <3>1, <3>2
    <3> QED BY <3>2, <3>3 DEF Waiting
  <2> QED BY <2>1, <2>2, <2>3
<1>8. Distinct(w)
  <2> SUFFICES ASSUME NEW i \in 1..l - 1 + k, NEW j \in 1..l - 1 + k, w[i] = w[j] PROVE i = j
    BY <1>3 DEF Distinct
  <2>1. ASSUME NEW u \in 1..l - 1, NEW v \in l..l - 1 + k PROVE w[u] # w[v]
    <3>1. w[u] \in Waiting(q) /\ w[v] \in Waiting(z)
      BY <1>4, <1>5 DEF Waiting
    <3> QED BY <3>1
  <2>2. CASE i \in 1..l - 1 /\ j \in 1..l - 1
    <3>1. i + 1 = j + 1
      BY <1>4, <2>2 DEF Distinct
    <3> QED BY <3>1
  <2>3. CASE i \in l..l - 1 + k /\ j \in l..l - 1 + k
    <3>1. i - (l - 1) = j - (l - 1)
      BY <1>5, <2>3 DEF Distinct
    <3> QED BY <1>1, <3>1
  <2> QED BY <1>6, <2>1, <2>2, <2>3
<1>9. \A i \in l..l - 1 + k : w[i] \in Waiting(z)
  BY <1>5 DEF Waiting
<1> QED BY <1>1, <1>3, <1>4, <1>7, <1>8, <1>9 DEF w, t

-----------------------------------------------------------------------------
(* The search: D is the length of the walk by which a node was found.  The *)
(* queue is in the order of that length; the nodes taken from it have all  *)
(* their neighbours found.                                                 *)

Searches == [queue : Seq(Nodes), visited : SUBSET Nodes, parent : [Nodes -> Nodes],
             edgeTo : [Nodes -> Edges \cup {CHOOSE e \in Edges : TRUE}]]

Done(s) == s.visited \ Waiting(s.queue)

FoundOK(s, D, from) ==
  /\ from \in s.visited /\ D[from] = 0
  /\ \A v \in s.visited \ {from} : /\ s.parent[v] \in s.visited /\ D[v] = D[s.parent[v]] + 1
                                   /\ Joins(s.edgeTo[v], s.parent[v], v, "out")

OrderOK(s, D) ==
  /\ Waiting(s.queue) \subseteq s.visited /\ Distinct(s.queue)
  /\ \A i, j \in 1..Len(s.queue) : i <= j => D[s.queue[i]] <= D[s.queue[j]]
  /\ s.queue # <<>> => \A v \in s.visited : D[v] <= D[Head(s.queue)] + 1

SearchOK(s, D, k, from, to) ==
  /\ D \in [Nodes -> Nat] /\ FoundOK(s, D, from) /\ OrderOK(s, D)
  /\ \A u \in Done(s), m \in Nodes : Hop(u, m, "out") => m \in s.visited /\ D[m] <= D[u] + 1
  /\ to \notin Done(s)
  /\ \A v \in s.visited : D[v] <= k
  /\ k <= Cardinality(Done(s))

LEMMA SearchGoesOn ==
  ASSUME DbOK, IndexComplete, KeysAtEnds, NEW from \in Nodes, NEW to \in Nodes,
         NEW s \in Searches, NEW D, NEW k \in Nat, SearchOK(s, D, k, from, to),
         s.queue # <<>>, Head(s.queue) # to
  PROVE  Expand(s) \in Searches /\ \E C : SearchOK(Expand(s), C, k + 1, from, to)
<1> DEFINE q == s.queue
           n == Head(q)
           new == Neighbors(n, "out") \ s.visited
           z == SetToSeq(new)
           w == Tail(q) \o z
           V == s.visited \cup new
           parent == [m \in Nodes |-> IF m \in new THEN n ELSE s.parent[m]]
           edgeTo == [m \in Nodes |-> IF m \in new THEN EdgeTo(n, m) ELSE s.edgeTo[m]]
           x == [queue |-> w, visited |-> V, parent |-> parent, edgeTo |-> edgeTo]
           C == [m \in Nodes |-> IF m \in new THEN D[n] + 1 ELSE D[m]]
<1>1. Expand(s) = x
  BY DEF Expand
<1>2. /\ q \in Seq(Nodes) /\ q # <<>> /\ Len(q) \in Nat /\ Len(q) >= 1 /\ n = q[1] /\ n \in Nodes
      /\ n \in Waiting(q) /\ n \in s.visited /\ s.visited \subseteq Nodes
  <2>1. q \in Seq(Nodes) /\ q # <<>> /\ s.visited \subseteq Nodes
    BY DEF Searches
  <2>2. Len(q) \in Nat /\ Len(q) >= 1 /\ n = q[1] /\ n \in Nodes
    <3> HIDE DEF q
    <3> QED BY <2>1, EmptySeq, HeadTailProperties
  <2>3. n \in Waiting(q)
    BY <2>2 DEF Waiting
  <2>4. Waiting(q) \subseteq s.visited
    BY DEF SearchOK, OrderOK
  <2> QED BY <2>1, <2>2, <2>3, <2>4
<1>3. new = {m \in Nodes : Hop(n, m, "out") /\ m \notin s.visited}
  BY <1>2, NeighborsHop
<1>4. /\ new \subseteq Nodes /\ IsFiniteSet(new) /\ IsFiniteSet(Nodes)
  BY <1>3, TraversalAssumption, FS_Subset
<1>5. z \in Seq(Nodes) /\ Distinct(z) /\ Waiting(z) = new
  <2> HIDE DEF new
  <2> QED BY <1>4, SetToSeqIs
<1>6. Distinct(q) /\ Waiting(q) \subseteq s.visited
  BY DEF SearchOK, OrderOK
<1> HIDE DEF z, q
<1>7. Waiting(z) \cap Waiting(q) = {}
  BY <1>5, <1>6
<1> HIDE DEF new, n
<1>8. /\ w \in Seq(Nodes) /\ Distinct(w)
      /\ Waiting(w) = (Waiting(q) \ {n}) \cup new
      /\ Len(w) = Len(q) - 1 + Len(z)
      /\ \A i \in 1..Len(q) - 1 : w[i] = q[i + 1]
      /\ \A i \in Len(q)..Len(q) - 1 + Len(z) : w[i] \in new
  BY <1>2, <1>5, <1>6, <1>7, QueueAfter DEF n
<1> HIDE DEF w
<1>9. ASSUME NEW m \in new PROVE EdgeTo(n, m) \in Edges /\ Joins(EdgeTo(n, m), n, m, "out")
  <2>1. PICK e \in Edges : Joins(e, n, m, "out")
    BY <1>3 DEF Hop
  <2>2. EdgesOf(n, "out") \subseteq Edges
    BY DEF EdgesOf, Scanned, Under
  <2>3. m \in Nodes
    BY <1>3
  <2>4. e \in EdgesOf(n, "out") /\ edge[e].to = m
    BY <1>2, <2>1, <2>3, EdgesOfJoin DEF FarEnd
  <2>5. EdgeTo(n, m) \in EdgesOf(n, "out") /\ edge[EdgeTo(n, m)].to = m
    BY <2>4 DEF EdgeTo
  <2>6. FarEnd(edge[EdgeTo(n, m)], "out") = m
    BY <2>5 DEF FarEnd
  <2> HIDE DEF EdgeTo
  <2> QED BY <1>2, <2>2, <2>5, <2>6, EdgesOfJoin
<1>10. x \in Searches
  <2>1. parent \in [Nodes -> Nodes]
    BY <1>2 DEF Searches
  <2>2. edgeTo \in [Nodes -> Edges \cup {CHOOSE e \in Edges : TRUE}]
    BY <1>9 DEF Searches
  <2>3. V \in SUBSET Nodes
    BY <1>2, <1>4
  <2> HIDE DEF parent, edgeTo, V
  <2> QED BY <1>8, <2>1, <2>2, <2>3 DEF Searches
<1>11. /\ D \in [Nodes -> Nat] /\ C \in [Nodes -> Nat]
       /\ \A m \in s.visited : C[m] = D[m]
       /\ \A m \in new : C[m] = D[n] + 1
       /\ new \cap s.visited = {}
  BY <1>2, <1>3, <1>4 DEF SearchOK
<1>12. FoundOK(x, C, from)
  <2>1. x.visited = V /\ x.parent = parent /\ x.edgeTo = edgeTo
    OBVIOUS
  <2>2. FoundOK(s, D, from)
    BY DEF SearchOK
  <2>3. from \in V /\ C[from] = 0
    BY <1>11, <2>2 DEF FoundOK
  <2>4. ASSUME NEW v \in V \ {from}
        PROVE  parent[v] \in V /\ C[v] = C[parent[v]] + 1 /\ Joins(edgeTo[v], parent[v], v, "out")
    <3>1. CASE v \in new
      <4>1. parent[v] = n /\ edgeTo[v] = EdgeTo(n, v)
        BY <1>4, <3>1
      <4> QED BY <1>2, <1>9, <1>11, <3>1, <4>1
    <3>2. CASE v \in s.visited
      <4>1. parent[v] = s.parent[v] /\ edgeTo[v] = s.edgeTo[v]
        BY <1>2, <1>11, <3>2
      <4> QED BY <1>11, <2>2, <3>2, <4>1 DEF FoundOK
    <3> QED BY <3>1, <3>2
  <2> HIDE DEF x, V, parent, edgeTo, C
  <2> QED BY <2>1, <2>3, <2>4 DEF FoundOK
<1>13. \A v \in V : C[v] <= D[n] + 1
  BY <1>2, <1>11 DEF SearchOK, OrderOK, n, q
<1>14. \A v \in Waiting(w) : D[n] <= C[v]
  <2>1. \A i \in 1..Len(q) : D[q[1]] <= D[q[i]]
    BY <1>2 DEF SearchOK, OrderOK, q
  <2>2. \A v \in Waiting(q) : D[n] <= D[v]
    BY <1>2, <2>1 DEF Waiting
  <2> QED BY <1>2, <1>6, <1>8, <1>11, <2>2
<1>15. OrderOK(x, C)
  <2>1. x.queue = w /\ x.visited = V
    OBVIOUS
  <2>2. Waiting(w) \subseteq V /\ Distinct(w)
    BY <1>6, <1>8
  <2>3. ASSUME NEW i \in 1..Len(w), NEW j \in 1..Len(w), i <= j PROVE C[w[i]] <= C[w[j]]
    <3>0. w[i] \in Waiting(w) /\ w[j] \in Waiting(w) /\ w[i] \in V /\ w[j] \in V /\ Len(z) \in Nat
      BY <1>5, <2>2, LenProperties DEF Waiting
    <3>1. CASE j \in 1..Len(q) - 1
      <4>1. i \in 1..Len(q) - 1 /\ i + 1 \in 1..Len(q) /\ j + 1 \in 1..Len(q) /\ i + 1 <= j + 1
        BY <1>2, <2>3, <3>1
      <4>2. w[i] = q[i + 1] /\ w[j] = q[j + 1]
        BY <1>8, <3>1, <4>1
      <4>3. D[q[i + 1]] <= D[q[j + 1]]
        BY <4>1 DEF SearchOK, OrderOK, q
      <4>4. q[i + 1] \in s.visited /\ q[j + 1] \in s.visited
        BY <1>6, <4>1 DEF Waiting
      <4> QED BY <1>11, <4>2, <4>3, <4>4
    <3>2. CASE j \notin 1..Len(q) - 1
      <4>1. j \in Len(q)..Len(q) - 1 + Len(z)
        BY <1>2, <1>8, <3>0, <3>2
      <4>2. C[w[j]] = D[n] + 1
        BY <1>8, <1>11, <4>1
      <4> QED BY <1>13, <3>0, <4>2
    <3> QED BY <3>1, <3>2
  <2>4. ASSUME w # <<>>, NEW v \in V PROVE C[v] <= C[Head(w)] + 1
    <3>1. Head(w) = w[1] /\ 1 \in 1..Len(w)
      BY <1>8, <2>4, EmptySeq
    <3>2. Head(w) \in Waiting(w) /\ Head(w) \in Nodes /\ v \in Nodes
      BY <1>2, <1>4, <1>8, <2>2, <3>1 DEF Waiting
    <3>3. D[n] <= C[Head(w)] /\ C[v] <= D[n] + 1
      BY <1>13, <1>14, <3>2
    <3>4. C[Head(w)] \in Nat /\ C[v] \in Nat /\ D[n] \in Nat
      BY <1>2, <1>11, <3>2
    <3> HIDE DEF C
    <3> QED BY <3>3, <3>4
  <2> HIDE DEF x, V, C
  <2> QED BY <2>1, <2>2, <2>3, <2>4 DEF OrderOK
<1>16. Done(x) = Done(s) \cup {n}
  <2>1. Done(x) = V \ Waiting(w) /\ Done(s) = s.visited \ Waiting(q)
    BY DEF Done, q
  <2>2. /\ n \in Waiting(q) /\ Waiting(q) \subseteq s.visited /\ new \cap s.visited = {}
        /\ Waiting(w) = (Waiting(q) \ {n}) \cup new /\ V = s.visited \cup new
    BY <1>2, <1>6, <1>8, <1>11
  <2> HIDE DEF x, V
  <2> QED BY <2>1, <2>2
<1>17. ASSUME NEW u \in Done(x), NEW m \in Nodes, Hop(u, m, "out")
       PROVE  m \in V /\ C[m] <= C[u] + 1
  <2>1. CASE u = n
    <3>1. m \in V
      BY <1>3, <1>17, <2>1
    <3>2. C[n] = D[n]
      BY <1>2, <1>11
    <3> QED BY <1>13, <2>1, <3>1, <3>2
  <2>2. CASE u \in Done(s)
    <3>1. m \in s.visited /\ D[m] <= D[u] + 1
      BY <1>17, <2>2 DEF SearchOK
    <3>2. u \in s.visited
      BY <2>2 DEF Done
    <3> QED BY <1>11, <3>1, <3>2
  <2> QED BY <1>16, <2>1, <2>2
<1>18. to \notin Done(x)
  BY <1>16 DEF SearchOK, n, q
<1>19. \A v \in V : C[v] <= k + 1
  <2>1. \A v \in s.visited : D[v] <= k /\ D[v] \in Nat
    BY <1>2, <1>11 DEF SearchOK
  <2> QED BY SMTT(60), <1>2, <1>11, <2>1
<1>20. k + 1 <= Cardinality(Done(x))
  <2>1. IsFiniteSet(Done(s)) /\ n \notin Done(s)
    <3>1. Done(s) \subseteq Nodes /\ n \notin Done(s)
      BY <1>2 DEF Done, q
    <3> QED BY <1>4, <3>1, FS_Subset
  <2>2. Cardinality(Done(x)) = Cardinality(Done(s)) + 1 /\ Cardinality(Done(s)) \in Nat
    BY <1>16, <2>1, FS_AddElement, FS_CardinalityType
  <2>3. k <= Cardinality(Done(s))
    BY DEF SearchOK
  <2> QED BY <2>2, <2>3
<1>21. SearchOK(x, C, k + 1, from, to)
  <2>1. x.visited = V
    OBVIOUS
  <2>2. C \in [Nodes -> Nat]
    BY <1>11
  <2> HIDE DEF x, C, V
  <2> QED BY <1>12, <1>15, <1>17, <1>18, <1>19, <1>20, <2>1, <2>2 DEF SearchOK
<1> HIDE DEF x, C
<1> QED BY <1>1, <1>10, <1>21

(* No walk is shorter than the one by which a node was found.              *)
LEMMA NearestFirst ==
  ASSUME NEW from \in Nodes, NEW to \in Nodes, NEW s \in Searches, NEW D, NEW k,
         SearchOK(s, D, k, from, to)
  PROVE  \A j \in Nat : \A n \in Nodes : Walk(from, n, "out", j) =>
           \/ n \in Done(s) /\ D[n] <= j
           \/ s.queue # <<>> /\ D[Head(s.queue)] <= j
<1> DEFINE Near(n, j) == \/ n \in Done(s) /\ D[n] <= j
                         \/ s.queue # <<>> /\ D[Head(s.queue)] <= j
           A == {j \in Nat : \A n \in Nodes : Walk(from, n, "out", j) => Near(n, j)}
<1>1. /\ D \in [Nodes -> Nat] /\ s.visited \subseteq Nodes /\ s.queue \in Seq(Nodes)
      /\ Waiting(s.queue) \subseteq s.visited
      /\ from \in s.visited /\ D[from] = 0
  BY DEF Searches, SearchOK, FoundOK, OrderOK
<1>2. ASSUME NEW v \in s.visited, v \notin Done(s), NEW j \in Nat, D[v] <= j
      PROVE  s.queue # <<>> /\ D[Head(s.queue)] <= j
  <2>1. PICK i \in 1..Len(s.queue) : v = s.queue[i]
    BY <1>2 DEF Done, Waiting
  <2>2. Len(s.queue) \in Nat
    BY <1>1, LenProperties
  <2>3. s.queue # <<>>
    BY <2>1, <2>2, EmptySeq
  <2>4. Head(s.queue) = s.queue[1] /\ 1 \in 1..Len(s.queue) /\ 1 <= i
    BY <1>1, <2>1, <2>2, <2>3
  <2>5. D[s.queue[1]] <= D[s.queue[i]]
    BY <2>1, <2>4 DEF SearchOK, OrderOK
  <2>6. D[v] \in Nat /\ D[s.queue[1]] \in Nat
    BY <1>1, <2>4, ElementOfSeq
  <2> QED BY <1>2, <2>1, <2>3, <2>4, <2>5, <2>6
<1>3. 0 \in A
  <2>1. Near(from, 0)
    BY <1>1, <1>2
  <2> QED BY <2>1, WalkNowhere
<1>4. ASSUME NEW j \in A PROVE j + 1 \in A
  <2> SUFFICES ASSUME NEW n \in Nodes, Walk(from, n, "out", j + 1) PROVE Near(n, j + 1)
    OBVIOUS
  <2>1. PICK m \in Nodes : Walk(from, m, "out", j) /\ Hop(m, n, "out")
    BY WalkBack
  <2>2. Near(m, j)
    BY <2>1
  <2>3. CASE m \in Done(s) /\ D[m] <= j
    <3>1. n \in s.visited /\ D[n] <= D[m] + 1
      BY <2>1, <2>3 DEF SearchOK
    <3>2. D[n] <= j + 1
      BY <1>1, <2>3, <3>1
    <3> QED BY <1>2, <3>1, <3>2
  <2>4. CASE s.queue # <<>> /\ D[Head(s.queue)] <= j
    <3>1. D[Head(s.queue)] \in Nat
      BY <1>1, <2>4, HeadTailProperties
    <3> QED BY <2>4, <3>1
  <2> QED BY <2>2, <2>3, <2>4
<1>5. A \in SUBSET Nat
  OBVIOUS
<1>6. \A j \in Nat : j \in A
  <2> HIDE DEF A
  <2> QED BY <1>3, <1>4, <1>5, AllNumbers
<1> QED BY <1>6

(* What is repeated n times is a function on 0..n.                         *)
LEMMA Iterates ==
  ASSUME NEW G, NEW b \in G, NEW step \in [G -> G], NEW n \in Nat
  PROVE  \E h \in [0..n -> G] : h = [i \in 0..n |-> IF i = 0 THEN b ELSE step[h[i - 1]]]
<1> DEFINE st == [x \in Nat \X G |-> step[x[2]]]
<1>1. st \in [Nat \X G -> G]
  OBVIOUS
<1>2. PICK h \in [0..n -> G] : Steps(h, b, st, n)
  <2> HIDE DEF st
  <2> QED BY <1>1, StepByStep
<1>3. ASSUME NEW i \in 0..n PROVE h[i] = IF i = 0 THEN b ELSE step[h[i - 1]]
  <2>1. CASE i = 0
    BY <1>2, <2>1 DEF Steps
  <2>2. CASE i # 0
    <3>1. i \in 1..n /\ i - 1 \in 0..n /\ i \in Nat
      BY <2>2
    <3>2. h[i] = st[<<i, h[i - 1]>>] /\ h[i - 1] \in G
      BY <1>2, <3>1 DEF Steps
    <3> QED BY <2>2, <3>1, <3>2
  <2> QED BY <2>1, <2>2
<1>4. h = [i \in 0..n |-> IF i = 0 THEN b ELSE step[h[i - 1]]]
  BY <1>3
<1> QED BY <1>4

(* From the end of the search, the parents lead back to the first node.    *)
Backs(s, D, from, to, p, j) ==
  /\ p \in Seq(Nodes) /\ Len(p) >= 1 /\ p[Len(p)] = to
  /\ \A i \in 1..Len(p) : p[i] \in s.visited /\ D[p[i]] + Len(p) = D[to] + i
  /\ \A i \in 1..Len(p) - 1 : p[i + 1] # from /\ p[i] = s.parent[p[i + 1]]
  /\ p[1] = from \/ Len(p) = j + 1

Back(s, from, p) == IF Head(p) = from THEN p ELSE <<s.parent[Head(p)]>> \o p

LEMMA BackStep ==
  ASSUME NEW from \in Nodes, NEW to \in Nodes, NEW s \in Searches, NEW D, NEW k,
         SearchOK(s, D, k, from, to), NEW p, NEW j \in Nat, Backs(s, D, from, to, p, j)
  PROVE  Backs(s, D, from, to, Back(s, from, p), j + 1)
<1>1. p \in Seq(Nodes) /\ Len(p) \in Nat /\ Len(p) >= 1 /\ p # <<>> /\ Head(p) = p[1]
  BY LenProperties, EmptySeq DEF Backs
<1>2. CASE Head(p) = from
  BY <1>1, <1>2 DEF Backs, Back
<1>3. CASE Head(p) # from
  <2> DEFINE f == s.parent[p[1]]
             r == <<f>> \o p
             l == Len(p)
  <2>1. p[1] \in s.visited \ {from} /\ D[p[1]] + l = D[to] + 1
    BY <1>1, <1>3 DEF Backs
  <2>2. f \in s.visited /\ D[p[1]] = D[f] + 1 /\ f \in Nodes /\ D[f] \in Nat /\ D[to] \in Nat
    BY <2>1 DEF SearchOK, FoundOK, Searches
  <2> HIDE DEF f
  <2>3. r \in Seq(Nodes) /\ Len(r) = l + 1 /\ r[1] = f /\ \A i \in 2..l + 1 : r[i] = p[i - 1]
    <3>1. <<f>> \in Seq(Nodes) /\ Len(<<f>>) = 1 /\ <<f>>[1] = f
      BY <2>2
    <3> DEFINE g == <<f>>
    <3> HIDE DEF g
    <3>2. g \o p \in Seq(Nodes) /\ Len(g \o p) = 1 + l
          /\ \A i \in 1..1 + l : (g \o p)[i] = IF i <= 1 THEN g[i] ELSE p[i - 1]
      BY <1>1, <3>1, ConcatProperties DEF g
    <3>3. r = g \o p
      BY DEF g
    <3> HIDE DEF r
    <3> QED BY <1>1, <3>1, <3>2, <3>3 DEF g
  <2> HIDE DEF r
  <2>4. Back(s, from, p) = r
    BY <1>1, <1>3 DEF Back, r, f
  <2>5. r[Len(r)] = to
    BY <1>1, <2>3 DEF Backs
  <2>6. ASSUME NEW i \in 1..l + 1 PROVE r[i] \in s.visited /\ D[r[i]] + (l + 1) = D[to] + i
    <3>1. CASE i = 1
      <4>1. D[f] + (l + 1) = D[to] + 1
        BY <1>1, <2>1, <2>2
      <4> QED BY <2>2, <2>3, <3>1, <4>1
    <3>2. CASE i # 1
      <4>1. i \in 2..l + 1 /\ i - 1 \in 1..l
        BY <1>1, <3>2
      <4>2. p[i - 1] \in s.visited /\ D[p[i - 1]] + l = D[to] + (i - 1)
        BY <4>1 DEF Backs
      <4>3. D[p[i - 1]] \in Nat
        BY <4>2 DEF SearchOK, Searches
      <4>4. D[p[i - 1]] + (l + 1) = D[to] + i
        <5> DEFINE u == D[p[i - 1]]
                   v == D[to]
        <5>1. u \in Nat /\ v \in Nat /\ l \in Nat /\ i \in Nat /\ u + l = v + (i - 1)
          BY <1>1, <2>2, <4>2, <4>3
        <5> HIDE DEF u, v, l
        <5>2. u + (l + 1) = v + i
          BY <5>1
        <5> QED BY <5>2 DEF u, v
      <4> QED BY <2>3, <4>1, <4>2, <4>4
    <3> QED BY <3>1, <3>2
  <2>7. ASSUME NEW i \in 1..l PROVE r[i + 1] # from /\ r[i] = s.parent[r[i + 1]]
    <3>1. i + 1 \in 2..l + 1 /\ (i + 1) - 1 = i /\ r[i + 1] = p[i]
      BY <1>1, <2>3
    <3>2. CASE i = 1
      BY <1>1, <1>3, <2>3, <3>1, <3>2 DEF f
    <3>3. CASE i # 1
      <4>1. i \in 2..l + 1 /\ i - 1 \in 1..l - 1 /\ (i - 1) + 1 = i
        BY <1>1, <3>3
      <4>2. p[i] # from /\ p[i - 1] = s.parent[p[i]]
        BY <4>1 DEF Backs
      <4> QED BY <2>3, <3>1, <4>1, <4>2
    <3> QED BY <3>2, <3>3
  <2>8. Len(r) = (j + 1) + 1
    BY <1>1, <1>3, <2>3 DEF Backs
  <2>9. Len(r) >= 1 /\ Len(r) - 1 = l
    BY <1>1, <2>3
  <2> QED BY <2>3, <2>4, <2>5, <2>6, <2>7, <2>8, <2>9 DEF Backs
<1> QED BY <1>2, <1>3

LEMMA ExpandTyped ==
  ASSUME DbOK, IndexComplete, KeysAtEnds, NEW s \in Searches, s.queue # <<>>
  PROVE  Expand(s) \in Searches
<1> DEFINE n == Head(s.queue)
           new == Neighbors(n, "out") \ s.visited
           w == Tail(s.queue) \o SetToSeq(new)
           V == s.visited \cup new
           parent == [m \in Nodes |-> IF m \in new THEN n ELSE s.parent[m]]
           edgeTo == [m \in Nodes |-> IF m \in new THEN EdgeTo(n, m) ELSE s.edgeTo[m]]
<1>1. Expand(s) = [queue |-> w, visited |-> V, parent |-> parent, edgeTo |-> edgeTo]
  BY DEF Expand
<1>2. /\ s.queue \in Seq(Nodes) /\ s.visited \subseteq Nodes /\ s.parent \in [Nodes -> Nodes]
      /\ s.edgeTo \in [Nodes -> Edges \cup {CHOOSE e \in Edges : TRUE}]
  BY DEF Searches
<1>3. n \in Nodes /\ Tail(s.queue) \in Seq(Nodes)
  BY <1>2, HeadTailProperties
<1>4. new \subseteq Nodes /\ IsFiniteSet(new)
  <2>1. new \subseteq Nodes
    BY <1>3, NeighborsHop
  <2> QED BY <2>1, TraversalAssumption, FS_Subset
<1>5. ASSUME NEW m \in new PROVE EdgeTo(n, m) \in Edges
  <2>1. PICK e \in EdgesOf(n, "out") : m = FarEnd(edge[e], "out")
    BY <1>5 DEF Neighbors
  <2>2. EdgesOf(n, "out") \subseteq Edges
    BY DEF EdgesOf, Scanned, Under
  <2>3. edge[e].to = m
    BY <2>1 DEF FarEnd
  <2> QED BY <2>2, <2>3 DEF EdgeTo
<1> HIDE DEF new, n
<1>6. w \in Seq(Nodes)
  <2>1. SetToSeq(new) \in Seq(Nodes)
    BY <1>4, SetToSeqIs
  <2> QED BY <1>3, <2>1, ConcatProperties
<1>7. V \in SUBSET Nodes /\ parent \in [Nodes -> Nodes]
  BY <1>2, <1>3, <1>4
<1>8. edgeTo \in [Nodes -> Edges \cup {CHOOSE e \in Edges : TRUE}]
  BY <1>2, <1>5
<1> HIDE DEF w, V, parent, edgeTo
<1> QED BY <1>1, <1>6, <1>7, <1>8 DEF Searches

Ended(s, to) == s.queue = <<>> \/ Head(s.queue) = to

Unsought(from) == [queue |-> <<from>>, visited |-> {from}, parent |-> [m \in Nodes |-> m],
                   edgeTo |-> [m \in Nodes |-> CHOOSE e \in Edges : TRUE]]

LEMMA SearchBegins ==
  ASSUME NEW from \in Nodes, NEW to \in Nodes, from # to
  PROVE  /\ Unsought(from) \in Searches
         /\ SearchOK(Unsought(from), [m \in Nodes |-> 0], 0, from, to)
<1> DEFINE s == Unsought(from)
           D == [m \in Nodes |-> 0]
<1>1. s.queue = <<from>> /\ s.visited = {from}
  BY DEF Unsought
<1>2. s \in Searches
  BY DEF Unsought, Searches
<1>3. Len(<<from>>) = 1 /\ <<from>>[1] = from /\ Head(<<from>>) = from /\ 1..1 = {1}
  OBVIOUS
<1> HIDE DEF s
<1>4. Waiting(s.queue) = {from} /\ Distinct(s.queue) /\ Done(s) = {}
  BY <1>1, <1>3 DEF Waiting, Distinct, Done
<1>5. D \in [Nodes -> Nat] /\ D[from] = 0
  OBVIOUS
<1> HIDE DEF D
<1>6. FoundOK(s, D, from)
  BY <1>1, <1>5 DEF FoundOK
<1>7. OrderOK(s, D)
  BY <1>1, <1>3, <1>4, <1>5 DEF OrderOK
<1>8. Cardinality(Done(s)) = 0
  BY <1>4, FS_EmptySet
<1>9. SearchOK(s, D, 0, from, to)
  BY <1>1, <1>4, <1>5, <1>6, <1>7, <1>8 DEF SearchOK
<1> QED BY <1>2, <1>9 DEF s, D

LEMMA OnlyZero == 0 \in Nat /\ 0 \in 0..0
OBVIOUS

(* So many steps as there are nodes end the search.                        *)
LEMMA SearchEnds ==
  ASSUME DbOK, IndexComplete, KeysAtEnds, NEW from \in Nodes, NEW to \in Nodes, from # to,
         NEW N, N = Cardinality(Nodes), NEW search \in [0..N -> Searches],
         search = [k \in 0..N |-> IF k = 0 THEN Unsought(from)
                                  ELSE IF Ended(search[k - 1], to) THEN search[k - 1]
                                  ELSE Expand(search[k - 1])]
  PROVE  /\ search[N] \in Searches /\ Ended(search[N], to)
         /\ \E k \in 0..N : \E D : SearchOK(search[N], D, k, from, to)
<1> DEFINE P(i) == \E k \in 0..i : /\ k = i \/ Ended(search[i], to)
                                   /\ \E D : SearchOK(search[i], D, k, from, to)
           A == {i \in Nat : i \in 0..N => P(i)}
<1>1. N \in Nat /\ IsFiniteSet(Nodes)
  BY TraversalAssumption, FS_CardinalityType
<1>2. P(0)
  <2>1. search[0] = Unsought(from)
    BY <1>1
  <2>2. \E D : SearchOK(search[0], D, 0, from, to)
    BY <2>1, SearchBegins, Zenon
  <2> QED BY <2>2, OnlyZero, Zenon
<1>3. ASSUME NEW i \in Nat, i + 1 \in 0..N, P(i) PROVE P(i + 1)
  <2>1. i \in 0..N /\ i + 1 # 0 /\ (i + 1) - 1 = i
    BY <1>1, <1>3
  <2>2. search[i + 1] = IF Ended(search[i], to) THEN search[i] ELSE Expand(search[i])
    BY <1>3, <2>1
  <2>3. PICK k \in 0..i : /\ k = i \/ Ended(search[i], to)
                          /\ \E D : SearchOK(search[i], D, k, from, to)
    BY <1>3
  <2>4. PICK D : SearchOK(search[i], D, k, from, to)
    BY <2>3
  <2>5. CASE Ended(search[i], to)
    <3>1. k \in 0..i + 1
      BY <2>1
    <3> QED BY <2>2, <2>4, <2>5, <3>1
  <2>6. CASE ~Ended(search[i], to)
    <3>1. k = i /\ k \in Nat /\ i + 1 \in 0..i + 1 /\ search[i] \in Searches
      <4>1. \A j \in 0..i : j \in Nat
        BY <2>1
      <4>2. i + 1 \in 0..i + 1
        BY <2>1
      <4> QED BY <2>1, <2>3, <2>6, <4>1, <4>2
    <3>2. search[i].queue # <<>> /\ Head(search[i].queue) # to
      BY <2>6 DEF Ended
    <3>3. \E C : SearchOK(Expand(search[i]), C, k + 1, from, to)
      BY <2>4, <3>1, <3>2, SearchGoesOn
    <3> QED BY <2>2, <2>6, <3>1, <3>3
  <2> QED BY <2>5, <2>6
<1> HIDE DEF P
<1>4. A \in SUBSET Nat /\ 0 \in A
  BY <1>2
<1>5. P(N)
  <2>1. ASSUME NEW i \in A PROVE i + 1 \in A
    <3>1. i \in Nat /\ i + 1 \in Nat
      OBVIOUS
    <3>2. i + 1 \in 0..N => i \in 0..N
      BY <1>1, <3>1
    <3> QED BY <1>3, <3>1, <3>2
  <2>2. N \in A
    <3> HIDE DEF A
    <3> QED BY <1>1, <1>4, <2>1, AllNumbers
  <2> QED BY <1>1, <2>2
<1>6. N \in 0..N /\ search[N] \in Searches
  BY <1>1
<1>7. PICK k \in 0..N : (k = N \/ Ended(search[N], to)) /\ \E D : SearchOK(search[N], D, k, from, to)
  BY <1>5 DEF P
<1>8. PICK D : SearchOK(search[N], D, k, from, to)
  BY <1>7
<1>9. Ended(search[N], to)
  <2> DEFINE s == search[N]
  <2> SUFFICES ASSUME k = N PROVE FALSE
    BY <1>7
  <2>1. Done(s) \subseteq Nodes /\ to \notin Done(s) /\ k <= Cardinality(Done(s))
    BY <1>6, <1>8 DEF Searches, SearchOK, Done
  <2> HIDE DEF s
  <2>2. Cardinality(Done(s)) <= N /\ Cardinality(Done(s)) \in Nat
        /\ (Cardinality(Nodes) = Cardinality(Done(s)) => Nodes = Done(s))
    BY <1>1, <2>1, FS_Subset, FS_CardinalityType
  <2> QED BY <1>1, <2>1, <2>2
<1> QED BY <1>6, <1>8, <1>9

LEMMA BackEnds ==
  ASSUME NEW from \in Nodes, NEW to \in Nodes, from # to, NEW s \in Searches, NEW D,
         NEW N \in Nat, NEW k \in 0..N, SearchOK(s, D, k, from, to), to \in s.visited,
         NEW back, back = [i \in 0..N |-> IF i = 0 THEN <<to>> ELSE Back(s, from, back[i - 1])]
  PROVE  LET p == back[N] IN Backs(s, D, from, to, p, N) /\ p[1] = from /\ Len(p) = D[to] + 1
<1> DEFINE A == {i \in Nat : i \in 0..N => Backs(s, D, from, to, back[i], i)}
           p == back[N]
<1>1. D \in [Nodes -> Nat] /\ s.visited \subseteq Nodes /\ D[to] <= k /\ D[from] = 0
  BY DEF SearchOK, FoundOK, Searches
<1>2. 0 \in A
  <2>1. back[0] = <<to>>
    OBVIOUS
  <2> DEFINE q == <<to>>
  <2>2. q \in Seq(Nodes) /\ Len(q) = 1 /\ q[1] = to
    OBVIOUS
  <2> HIDE DEF q
  <2>3. \A i \in 1..1 : i = 1
    OBVIOUS
  <2>4. \A i \in 1..1 - 1 : FALSE
    OBVIOUS
  <2>5. Backs(s, D, from, to, q, 0)
    BY <1>1, <2>2, <2>3, <2>4 DEF Backs
  <2> QED BY <2>1, <2>5 DEF q
<1>3. ASSUME NEW i \in A PROVE i + 1 \in A
  <2> SUFFICES ASSUME i + 1 \in 0..N PROVE Backs(s, D, from, to, back[i + 1], i + 1)
    OBVIOUS
  <2>1. i \in Nat /\ i \in 0..N /\ i + 1 # 0 /\ (i + 1) - 1 = i
    OBVIOUS
  <2>2. back[i + 1] = Back(s, from, back[i]) /\ Backs(s, D, from, to, back[i], i)
    BY <2>1
  <2> QED BY <2>1, <2>2, BackStep
<1>4. A \in SUBSET Nat
  OBVIOUS
<1>5. Backs(s, D, from, to, p, N)
  <2>1. N \in A
    <3> HIDE DEF A
    <3> QED BY <1>2, <1>3, <1>4, AllNumbers
  <2> QED BY <2>1
<1> HIDE DEF p
<1>6. p \in Seq(Nodes) /\ Len(p) \in Nat /\ Len(p) >= 1
  BY <1>5, LenProperties DEF Backs
<1>7. p[1] \in s.visited /\ D[p[1]] + Len(p) = D[to] + 1 /\ D[p[1]] \in Nat /\ D[to] \in Nat
  BY <1>1, <1>5, <1>6 DEF Backs
<1>8. p[1] = from
  <2> SUFFICES ASSUME p[1] # from PROVE FALSE
    OBVIOUS
  <2>1. Len(p) = N + 1
    BY <1>5 DEF Backs
  <2>2. p[1] \in s.visited \ {from}
    BY <1>7
  <2>3. D[p[1]] = D[s.parent[p[1]]] + 1 /\ D[s.parent[p[1]]] \in Nat
    BY <1>1, <2>2 DEF SearchOK, FoundOK
  <2> QED BY <1>1, <1>7, <2>1, <2>3
<1> QED BY <1>1, <1>5, <1>7, <1>8 DEF p

LEMMA ShortestIs ==
  ASSUME DbOK, IndexComplete, KeysAtEnds, NEW from \in Nodes, NEW to \in Nodes, from # to
  PROVE  \E s \in Searches, k \in Nat : \E D :
           /\ SearchOK(s, D, k, from, to) /\ Ended(s, to)
           /\ s.queue = <<>> => ShortestPath(from, to) = NoPath
           /\ s.queue # <<>> => \E p \in Seq(Nodes) :
                /\ Backs(s, D, from, to, p, Cardinality(Nodes)) /\ p[1] = from /\ Len(p) = D[to] + 1
                /\ ShortestPath(from, to) =
                     [nodes |-> p, edges |-> [i \in 1..Len(p) - 1 |-> s.edgeTo[p[i + 1]]]]
<1> DEFINE start == [queue |-> <<from>>, visited |-> {from},
                     parent |-> [m \in Nodes |-> m],
                     edgeTo |-> [m \in Nodes |-> CHOOSE e \in Edges : TRUE]]
           Stop(s) == s.queue = <<>> \/ Head(s.queue) = to
           search[k \in 0..Cardinality(Nodes)] ==
             IF k = 0 THEN start
             ELSE LET s == search[k - 1] IN IF Stop(s) THEN s ELSE Expand(s)
           end == search[Cardinality(Nodes)]
           back[k \in 0..Cardinality(Nodes)] ==
             IF k = 0 THEN <<to>>
             ELSE LET way == back[k - 1]
                  IN  IF Head(way) = from THEN way ELSE <<end.parent[Head(way)]>> \o way
           path == back[Cardinality(Nodes)]
           N == Cardinality(Nodes)
<1>1. ShortestPath(from, to) =
        IF end.queue = <<>> THEN NoPath
        ELSE [nodes |-> path, edges |-> [i \in 1..Len(path) - 1 |-> end.edgeTo[path[i + 1]]]]
  BY DEF ShortestPath
<1>2. N \in Nat
  BY TraversalAssumption, FS_CardinalityType
<1>3. /\ search \in [0..N -> Searches]
      /\ search = [k \in 0..N |-> IF k = 0 THEN Unsought(from)
                                  ELSE IF Ended(search[k - 1], to) THEN search[k - 1]
                                  ELSE Expand(search[k - 1])]
  <2> DEFINE step == [s \in Searches |-> IF Ended(s, to) THEN s ELSE Expand(s)]
             b == Unsought(from)
  <2>1. b \in Searches
    BY SearchBegins
  <2>2. \A s \in Searches : ~Ended(s, to) => Expand(s) \in Searches
    BY ExpandTyped DEF Ended
  <2>3. step \in [Searches -> Searches]
    BY <2>2
  <2> HIDE DEF step, b
  <2>4. PICK h \in [0..N -> Searches] : h = [i \in 0..N |-> IF i = 0 THEN b ELSE step[h[i - 1]]]
    <3> HIDE DEF N
    <3> QED BY SMTT(60), <1>2, <2>1, <2>3, Iterates
  <2>5. ASSUME NEW i \in 0..N
        PROVE  h[i] = IF i = 0 THEN start
                      ELSE LET s == h[i - 1] IN IF Stop(s) THEN s ELSE Expand(s)
    <3> HIDE DEF N
    <3>1. CASE i = 0
      BY <2>4, <3>1 DEF b, Unsought
    <3>2. CASE i # 0
      <4>1. i - 1 \in 0..N
        BY <1>2, <3>2
      <4>2. h[i] = step[h[i - 1]] /\ h[i - 1] \in Searches
        BY <2>4, <3>2, <4>1
      <4> QED BY <3>2, <4>2 DEF step, Ended
    <3> QED BY <3>1, <3>2
  <2>6. h = [k \in 0..Cardinality(Nodes) |-> IF k = 0 THEN start
               ELSE LET s == h[k - 1] IN IF Stop(s) THEN s ELSE Expand(s)]
    BY <2>4, <2>5
  <2>7. search = [k \in 0..Cardinality(Nodes) |-> IF k = 0 THEN start
               ELSE LET s == search[k - 1] IN IF Stop(s) THEN s ELSE Expand(s)]
    BY <2>6
  <2> HIDE DEF search
  <2>8. search = [k \in 0..N |-> IF k = 0 THEN Unsought(from)
                                  ELSE IF Ended(search[k - 1], to) THEN search[k - 1]
                                  ELSE Expand(search[k - 1])]
    BY <2>7 DEF Unsought, Ended
  <2>9. search \in [0..N -> Searches]
    <3> DEFINE I == {i \in Nat : i \in 0..N => search[i] \in Searches}
    <3>1. 0 \in I
      <4>1. 0 \in 0..N
        BY <1>2
      <4> QED BY <2>1, <2>8, <4>1 DEF b
    <3>2. ASSUME NEW i \in I PROVE i + 1 \in I
      <4> SUFFICES ASSUME i + 1 \in 0..N PROVE search[i + 1] \in Searches
        OBVIOUS
      <4>1. i \in 0..N /\ i + 1 # 0 /\ (i + 1) - 1 = i /\ search[i] \in Searches
        BY <1>2
      <4>2. search[i + 1] = IF Ended(search[i], to) THEN search[i] ELSE Expand(search[i])
        BY <2>8, <4>1
      <4> QED BY <2>2, <4>1, <4>2
    <3>3. I \in SUBSET Nat
      OBVIOUS
    <3>4. \A i \in Nat : i \in I
      <4> HIDE DEF I
      <4> QED BY <3>1, <3>2, <3>3, AllNumbers
    <3> HIDE DEF N
    <3>5. ASSUME NEW i \in 0..N PROVE search[i] \in Searches
      <4>1. i \in Nat
        BY <1>2
      <4> QED BY <3>4, <4>1
    <3>6. search = [i \in 0..N |-> search[i]]
      <4> DEFINE F(i) == IF i = 0 THEN Unsought(from)
                         ELSE IF Ended(search[i - 1], to) THEN search[i - 1] ELSE Expand(search[i - 1])
      <4>1. search = [i \in 0..N |-> F(i)]
        BY <2>8
      <4> HIDE DEF F
      <4> QED BY <4>1
    <3> QED BY <3>5, <3>6
  <2> QED BY <2>8, <2>9
<1> HIDE DEF search
<1>4. end \in Searches /\ Ended(end, to) /\ \E k \in 0..N : \E D : SearchOK(end, D, k, from, to)
  <2> HIDE DEF N
  <2>1. N = Cardinality(Nodes) /\ end = search[N]
    BY DEF N
  <2> HIDE DEF end
  <2> QED BY <1>3, <2>1, SearchEnds
<1>5. PICK k \in 0..N : \E D : SearchOK(end, D, k, from, to)
  BY <1>4
<1>6. PICK D : SearchOK(end, D, k, from, to)
  BY <1>5
<1>7. k \in Nat
  BY <1>2
<1> HIDE DEF end
<1>8. CASE end.queue = <<>>
  BY <1>1, <1>4, <1>6, <1>7, <1>8
<1>9. CASE end.queue # <<>>
  <2>1. to \in end.visited
    <3>1. Head(end.queue) = to /\ end.queue \in Seq(Nodes)
      BY <1>4, <1>9 DEF Ended, Searches
    <3>2. 1 \in 1..Len(end.queue) /\ end.queue[1] = to
      BY <1>9, <3>1, EmptySeq
    <3> QED BY <1>6, <3>2 DEF SearchOK, OrderOK, Waiting
  <2>2. back = [i \in 0..N |-> IF i = 0 THEN <<to>> ELSE Back(end, from, back[i - 1])]
    <3> DEFINE NE == {p \in Seq(Nodes) : p # <<>>}
               step == [p \in NE |-> Back(end, from, p)]
               b == <<to>>
    <3>1. b \in NE
      OBVIOUS
    <3>2. ASSUME NEW p \in NE PROVE Back(end, from, p) \in NE
      <4>1. p \in Seq(Nodes) /\ Head(p) \in Nodes
        BY HeadTailProperties
      <4>2. end.parent[Head(p)] \in Nodes
        BY <1>4, <4>1 DEF Searches
      <4>3. <<end.parent[Head(p)]>> \in Seq(Nodes)
        BY <4>2
      <4>4. <<end.parent[Head(p)]>> \o p \in Seq(Nodes) /\ <<end.parent[Head(p)]>> \o p # <<>>
        <5> DEFINE g == <<end.parent[Head(p)]>>
        <5>1. g \in Seq(Nodes) /\ g # <<>>
          BY <4>3
        <5> HIDE DEF g
        <5>2. g \o p \in Seq(Nodes) /\ g \o p # <<>>
          BY <4>1, <5>1, ConcatProperties, ConcatEqualIffEmpty
        <5> QED BY <5>2 DEF g
      <4> QED BY <4>1, <4>4 DEF Back
    <3>3. step \in [NE -> NE]
      BY <3>2
    <3> HIDE DEF step, NE, b
    <3>4. PICK h \in [0..N -> NE] : h = [i \in 0..N |-> IF i = 0 THEN b ELSE step[h[i - 1]]]
      <4> HIDE DEF N
      <4> QED BY <1>2, <3>1, <3>3, Iterates
    <3>5. ASSUME NEW i \in 0..N
          PROVE  h[i] = IF i = 0 THEN <<to>> ELSE Back(end, from, h[i - 1])
      <4> HIDE DEF N
      <4>1. CASE i = 0
        BY <3>4, <4>1 DEF b
      <4>2. CASE i # 0
        <5>1. i - 1 \in 0..N
          BY <1>2, <4>2
        <5>2. h[i] = step[h[i - 1]] /\ h[i - 1] \in NE
          BY <3>4, <4>2, <5>1
        <5> QED BY <4>2, <5>2 DEF step
      <4> QED BY <4>1, <4>2
    <3>6. h = [i \in 0..N |-> IF i = 0 THEN <<to>> ELSE Back(end, from, h[i - 1])]
      BY <3>4, <3>5
    <3>7. \E f : f = [i \in 0..Cardinality(Nodes) |->
             IF i = 0 THEN <<to>>
             ELSE LET way == f[i - 1]
                  IN  IF Head(way) = from THEN way ELSE <<end.parent[Head(way)]>> \o way]
      BY <3>6 DEF Back
    <3>8. back = [i \in 0..Cardinality(Nodes) |->
             IF i = 0 THEN <<to>>
             ELSE LET way == back[i - 1]
                  IN  IF Head(way) = from THEN way ELSE <<end.parent[Head(way)]>> \o way]
      BY <3>7
    <3> HIDE DEF back
    <3> QED BY <3>8 DEF Back
  <2> HIDE DEF back
  <2>3. Backs(end, D, from, to, path, N) /\ path[1] = from /\ Len(path) = D[to] + 1
    <3> HIDE DEF N
    <3>1. path = back[N]
      BY DEF N
    <3> HIDE DEF path
    <3> QED BY SMTT(60), <1>2, <1>4, <1>6, <2>1, <2>2, <3>1, BackEnds
  <2>4. path \in Seq(Nodes)
    BY <2>3 DEF Backs
  <2> HIDE DEF path
  <2> QED BY <1>1, <1>4, <1>6, <1>7, <1>9, <2>3, <2>4
<1> QED BY <1>8, <1>9

LEMMA AnswerIsShortest ==
  ASSUME DbOK, IndexComplete, KeysAtEnds, NEW m \in Nodes, NEW n \in Nodes, m # n,
         NEW p, p = ShortestPath(m, n), NEW length, length = Len(p.nodes) - 1
  PROVE  IF p = NoPath THEN n \notin Within(m, "out", Cardinality(Nodes))
         ELSE /\ p.nodes[1] = m /\ p.nodes[length + 1] = n
              /\ \A i \in 1..length : Joins(p.edges[i], p.nodes[i], p.nodes[i + 1], "out")
              /\ length > 1 => n \notin Within(m, "out", length - 1)
<1>1. PICK s \in Searches, k \in Nat : \E D :
           /\ SearchOK(s, D, k, m, n) /\ Ended(s, n)
           /\ s.queue = <<>> => ShortestPath(m, n) = NoPath
           /\ s.queue # <<>> => \E q \in Seq(Nodes) :
                /\ Backs(s, D, m, n, q, Cardinality(Nodes)) /\ q[1] = m /\ Len(q) = D[n] + 1
                /\ ShortestPath(m, n) =
                     [nodes |-> q, edges |-> [i \in 1..Len(q) - 1 |-> s.edgeTo[q[i + 1]]]]
  BY ShortestIs
<1>2. PICK D :
           /\ SearchOK(s, D, k, m, n) /\ Ended(s, n)
           /\ s.queue = <<>> => p = NoPath
           /\ s.queue # <<>> => \E q \in Seq(Nodes) :
                /\ Backs(s, D, m, n, q, Cardinality(Nodes)) /\ q[1] = m /\ Len(q) = D[n] + 1
                /\ p = [nodes |-> q, edges |-> [i \in 1..Len(q) - 1 |-> s.edgeTo[q[i + 1]]]]
  BY <1>1
<1>3. \A j \in Nat : Walk(m, n, "out", j) => s.queue # <<>> /\ D[Head(s.queue)] <= j
  <2>1. n \notin Done(s)
    BY <1>2 DEF SearchOK
  <2> QED BY <1>2, <2>1, NearestFirst
<1>4. CASE s.queue = <<>>
  <2>1. Cardinality(Nodes) \in Nat
    BY TraversalAssumption, FS_CardinalityType
  <2>2. \A j \in 1..Cardinality(Nodes) : ~ Walk(m, n, "out", j)
    BY <1>3, <1>4, <2>1
  <2> QED BY <1>2, <1>4, <2>2, WithinIs
<1>5. CASE s.queue # <<>>
  <2>1. PICK q \in Seq(Nodes) :
                /\ Backs(s, D, m, n, q, Cardinality(Nodes)) /\ q[1] = m /\ Len(q) = D[n] + 1
                /\ p = [nodes |-> q, edges |-> [i \in 1..Len(q) - 1 |-> s.edgeTo[q[i + 1]]]]
    BY <1>2, <1>5
  <2>2. Len(q) \in Nat /\ Len(q) >= 1 /\ length \in Nat /\ length = Len(q) - 1 /\ D[n] = length
    BY <1>2, <2>1, LenProperties DEF Backs, SearchOK
  <2>3. p.nodes = q /\ p.edges = [i \in 1..length |-> s.edgeTo[q[i + 1]]] /\ p # NoPath
    <3>1. q # <<>>
      BY <2>1, <2>2, EmptySeq
    <3> QED BY <2>1, <2>2, <3>1 DEF NoPath
  <2>4. q[1] = m /\ q[length + 1] = n
    BY <2>1, <2>2 DEF Backs
  <2>5. ASSUME NEW i \in 1..length PROVE Joins(p.edges[i], q[i], q[i + 1], "out")
    <3>1. p.edges[i] = s.edgeTo[q[i + 1]] /\ i + 1 \in 1..Len(q) /\ i \in 1..Len(q) - 1
      BY <2>2, <2>3
    <3>2. q[i + 1] \in s.visited \ {m} /\ q[i] = s.parent[q[i + 1]]
      BY <2>1, <3>1 DEF Backs
    <3>3. Joins(s.edgeTo[q[i + 1]], s.parent[q[i + 1]], q[i + 1], "out")
      BY <1>2, <3>2 DEF SearchOK, FoundOK
    <3> QED BY <3>1, <3>2, <3>3
  <2>6. n \notin Within(m, "out", length - 1)
    <3>1. Head(s.queue) = n
      BY <1>2, <1>5 DEF Ended
    <3>2. ASSUME NEW j \in 1..length - 1, Walk(m, n, "out", j) PROVE FALSE
      <4>1. j \in Nat /\ ~(length <= j)
        BY <2>2
      <4> QED BY <1>3, <2>2, <3>1, <3>2, <4>1
    <3> QED BY <3>2, WithinIs
  <2> QED BY <2>2, <2>3, <2>4, <2>5, <2>6
<1> QED BY <1>4, <1>5

(* ShortestPath answers with a walk over stored edges that no walk between *)
(* the two nodes is shorter than, and with none only when there is none,   *)
(* whatever was written before, if callers are as Endpoints has them.      *)
THEOREM PathsAreShortest == ASSUME Endpoints PROVE Spec => []PathShortest
<1>1. Init => TypeOK /\ KeysAtEnds
  BY DEF Init, TypeOK, Queries, KeysAtEnds
<1>2. KeysAtEnds /\ TypeOK /\ [Next]_vars => KeysAtEnds'
  BY KeysAtEndsStep
<1>3. TypeOK /\ IndexComplete /\ KeysAtEnds => PathShortest
  <2> SUFFICES ASSUME TypeOK, IndexComplete, KeysAtEnds,
                      NEW m \in Nodes, NEW n \in Nodes \ {m}
               PROVE  LET p == ShortestPath(m, n)
                          length == Len(p.nodes) - 1
                      IN  IF p = NoPath THEN n \notin Within(m, "out", Cardinality(Nodes))
                          ELSE /\ p.nodes[1] = m /\ p.nodes[length + 1] = n
                               /\ \A i \in 1..length : Joins(p.edges[i], p.nodes[i], p.nodes[i + 1], "out")
                               /\ length > 1 => n \notin Within(m, "out", length - 1)
    BY DEF PathShortest
  <2>1. DbOK
    BY DEF TypeOK, DbOK
  <2> QED BY <2>1, AnswerIsShortest
<1> QED BY <1>1, <1>2, <1>3, WellTyped, EdgesAreIndexed, PTL DEF Spec
=============================================================================
