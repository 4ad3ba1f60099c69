------------------------------ MODULE HnswIndex ------------------------------
(***************************************************************************)
(* The HNSW index (src/pkg/index/hnsw.go): vectors by ID, the nodes on     *)
(* every layer, weighted links between the nodes of a layer and the entry  *)
(* point of all searches.                                                  *)
(*                                                                         *)
(* searchLayer and searchLayerVec visit their start first and then skip    *)
(* every candidate they have visited: both return the start alone.  So a   *)
(* new node is linked to the entry point on each of its layers, and a      *)
(* search answers with the node its descent ends at.                       *)
(***************************************************************************)
EXTENDS Integers, FiniteSets

CONSTANTS
  Ids, Vectors, NoVector, NoId, NoLink,
  Sim,        \* similarity of two vectors
  M,          \* links a node keeps on a layer
  TopLevel    \* bound of this model on the random level of a node

Levels == 0..TopLevel

VARIABLES
  hnswVectors,  \* h.vectors
  layers,       \* h.layers: how often each ID is listed on a layer
  links,        \* h.neighbors: score of the link between two nodes of a layer
  enter,        \* h.enter
  maxLevel      \* h.maxLevel

hnswVars == <<hnswVectors, layers, links, enter, maxLevel>>

TypeOK ==
  /\ hnswVectors \in [Ids -> Vectors \cup {NoVector}]
  /\ layers \in [Levels -> [Ids -> Nat]]
  /\ links \in [Levels -> [Ids -> [Ids -> Int \cup {NoLink}]]]
  /\ enter \in Ids \cup {NoId}
  /\ maxLevel \in Levels

Init ==
  /\ hnswVectors = [i \in Ids |-> NoVector]
  /\ layers = [l \in Levels |-> [i \in Ids |-> 0]]
  /\ links = [l \in Levels |-> [i \in Ids |-> [j \in Ids |-> NoLink]]]
  /\ enter = NoId
  /\ maxLevel = 0

Stored == {i \in Ids : hnswVectors[i] # NoVector}
Neighbors(graph, i) == {j \in Ids : graph[i][j] # NoLink}

(* The sets selectNeighbors can keep of S: the M best, ties in any order.  *)
Best(graph, i, S) ==
  {T \in SUBSET S :
     /\ Cardinality(T) = IF Cardinality(S) < M THEN Cardinality(S) ELSE M
     /\ \A j \in T, k \in S \ T : graph[i][j] >= graph[i][k]}

(* The graphs left when every node of a layer is cut down to M links.      *)
Pruned(graph) ==
  LET keeps(i) == Best(graph, i, Neighbors(graph, i))
      choices  == {f \in [Ids -> UNION {keeps(i) : i \in Ids}] : \A i \in Ids : f[i] \in keeps(i)}
  IN  {[i \in Ids |-> [j \in Ids |-> IF j \in f[i] THEN graph[i][j] ELSE NoLink]] : f \in choices}

(* Linking both ways: to the entry point, which is the node itself below   *)
(* the top layer of the first one.                                         *)
Linked(graph, i, e, score) ==
  [graph EXCEPT ![i][e] = score, ![e][i] = score]

-----------------------------------------------------------------------------
Insert(v, i, level) ==
  LET entry == IF enter = NoId THEN i ELSE enter
      score == IF entry = i THEN Sim[v][v] ELSE Sim[v][hnswVectors[entry]]
      joins(l) == l <= level /\ ~(enter = NoId /\ l = level)
      after(l) == IF joins(l) THEN Pruned(Linked(links[l], i, entry, score)) ELSE {links[l]}
  IN
  /\ hnswVectors' = [hnswVectors EXCEPT ![i] = v]
  /\ maxLevel' = IF level > maxLevel THEN level ELSE maxLevel
  /\ layers' = [l \in Levels |-> IF l <= level THEN [layers[l] EXCEPT ![i] = @ + 1] ELSE layers[l]]
  /\ enter' = entry
  /\ links' \in {f \in [Levels -> UNION {after(l) : l \in Levels}] :
                   \A l \in Levels : f[l] \in after(l)}

(* Mutant: the links that lead to the node stay.                           *)
RemoveOutLinks(i) ==
  /\ hnswVectors' = [hnswVectors EXCEPT ![i] = NoVector]
  /\ layers' = [l \in Levels |-> [layers[l] EXCEPT ![i] = IF @ > 0 THEN @ - 1 ELSE 0]]
  /\ links' = [l \in Levels |-> [links[l] EXCEPT ![i] = [j \in Ids |-> NoLink]]]
  /\ LET listed == {j \in Ids : layers'[0][j] > 0 /\ hnswVectors'[j] # NoVector} IN
     IF enter # i THEN enter' = enter
     ELSE IF listed = {} THEN enter' = NoId
     ELSE enter' \in listed
  /\ UNCHANGED maxLevel

(* RemoveVector takes out one entry per layer and every link.  The new     *)
(* entry point is one listed on layer 0 that still has its vector; maxLevel*)
(* stays.                                                                  *)
Remove(i) ==
  /\ hnswVectors' = [hnswVectors EXCEPT ![i] = NoVector]
  /\ layers' = [l \in Levels |-> [layers[l] EXCEPT ![i] = IF @ > 0 THEN @ - 1 ELSE 0]]
  /\ links' = [l \in Levels |-> [j \in Ids |-> [k \in Ids |-> IF i \in {j, k} THEN NoLink
                                                               ELSE links[l][j][k]]]]
  /\ LET listed == {j \in Ids : layers'[0][j] > 0 /\ hnswVectors'[j] # NoVector} IN
     IF enter # i THEN enter' = enter
     ELSE IF listed = {} THEN enter' = NoId
     ELSE enter' \in listed
  /\ UNCHANGED maxLevel

-----------------------------------------------------------------------------
Score(q, i) == IF hnswVectors[i] = NoVector THEN 0 ELSE Sim[q][hnswVectors[i]]

(* One layer of the descent: the best strictly better neighbour, if any.   *)
Closer(q, i, l) ==
  LET better == {j \in Neighbors(links[l], i) : Score(q, j) > Score(q, i)} IN
  IF better = {} THEN {i}
  ELSE {j \in better : \A k \in better : Score(q, j) >= Score(q, k)}

(* Mutant: searches enter at a node listed on the top layer.               *)
DescentListed(q) ==
  LET listed == {j \in Ids : layers[maxLevel][j] > 0}
      at[n \in 0..maxLevel] ==
        IF n = 0 THEN IF listed = {} THEN {enter} ELSE listed
        ELSE UNION {Closer(q, i, maxLevel + 1 - n) : i \in at[n - 1]}
  IN  at[maxLevel]

(* at[n]: where the descent can be after n layers.                         *)
Descent(q) ==
  LET at[n \in 0..maxLevel] ==
        IF n = 0 THEN {enter}
        ELSE UNION {Closer(q, i, maxLevel + 1 - n) : i \in at[n - 1]}
  IN  at[maxLevel]

(* What Search can return for k > 0: at most one hit.                      *)
Answers(q) ==
  IF enter = NoId \/ Stored = {} THEN {<<>>} ELSE {<<i>> : i \in Descent(q)}

-----------------------------------------------------------------------------
(* The search enters at a stored vector as long as there is one, and every *)
(* stored vector is listed on layer 0, where the next entry point is taken *)
(* from.                                                                   *)
EntryStored ==
  /\ \A i \in Stored : layers[0][i] > 0
  /\ IF Stored = {} THEN enter = NoId ELSE enter \in Stored

(* Links join stored vectors only: no search meets a removed one.          *)
LinksStored ==
  \A l \in Levels, i, j \in Ids : links[l][i][j] # NoLink => {i, j} \subseteq Stored

(* No node keeps more than M links on a layer.                             *)
DegreeBounded ==
  \A l \in Levels, i \in Ids : Cardinality(Neighbors(links[l], i)) <= M

(* An index that holds vectors answers every search, with one of them,     *)
(* whatever was inserted, replaced and removed before.                     *)
AnswersStored ==
  Stored # {} => \A q \in Vectors : \A s \in Answers(q) : s # <<>> /\ s[1] \in Stored

(* hnsw.go: "Search queries the index for the topK nearest neighbors."     *)
FillsTopK ==
  \A q \in Vectors : \A k \in 1..Cardinality(Stored) :
    \A s \in Answers(q) : Cardinality({s[n] : n \in DOMAIN s}) >= k
=============================================================================
