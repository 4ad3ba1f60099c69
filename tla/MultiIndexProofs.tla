--------------------------- MODULE MultiIndexProofs ---------------------------
(***************************************************************************)
(* Proofs about MultiIndex for any vectors, similarities, hash functions,  *)
(* layers and clusters: the graph of HNSW stays sound and its searches end *)
(* at stored vectors, no structure answers with a removed vector, a vector *)
(* finds itself, and fused answers are full and keep what all agree on.    *)
(*                                                                         *)
(* The descent of a search is a recursive function.  What it is and where  *)
(* it ends is proved with the least-number principle for sets of naturals, *)
(* where one would otherwise use induction.                                *)
(***************************************************************************)
EXTENDS MultiIndex, TLAPS, FiniteSetTheorems

Links == [Ids -> [Ids -> Int \cup {NoLink}]]

-----------------------------------------------------------------------------
(* The graph of HNSW.                                                      *)

(* The instances count with the same cardinality.                          *)
LEMMA SameCount ==
  \A S : /\ Hnsw!Cardinality(S) = Cardinality(S) /\ Ivf!Cardinality(S) = Cardinality(S)
         /\ Lsh!Cardinality(S) = Cardinality(S) /\ Rank!Cardinality(S) = Cardinality(S)
BY DEF Hnsw!Cardinality, Ivf!Cardinality, Lsh!Cardinality, Rank!Cardinality, Cardinality

LEMMA PrunedKeeps ==
  ASSUME NEW graph \in Links, NEW h \in Hnsw!Pruned(graph)
  PROVE  /\ h \in Links
         /\ \A i, j \in Ids : h[i][j] # NoLink => graph[i][j] # NoLink
         /\ \A i \in Ids : Cardinality(Hnsw!Neighbors(h, i)) <= M
<1> DEFINE keeps(i) == Hnsw!Best(graph, i, Hnsw!Neighbors(graph, i))
<1>1. PICK f : /\ \A i \in Ids : f[i] \in keeps(i)
               /\ h = [i \in Ids |-> [j \in Ids |-> IF j \in f[i] THEN graph[i][j] ELSE NoLink]]
  BY DEF Hnsw!Pruned
<1>2. h \in Links
  BY <1>1 DEF Links
<1>3. \A i, j \in Ids : h[i][j] = IF j \in f[i] THEN graph[i][j] ELSE NoLink
  BY <1>1
<1>4. ASSUME NEW i \in Ids PROVE Cardinality(Hnsw!Neighbors(h, i)) <= M
  <2>1. f[i] \subseteq Hnsw!Neighbors(graph, i)
    BY <1>1 DEF Hnsw!Best
  <2>2. IsFiniteSet(Hnsw!Neighbors(graph, i)) /\ IsFiniteSet(f[i])
    BY <2>1, MultiAssumption, FS_Subset DEF Hnsw!Neighbors
  <2>3. Cardinality(f[i]) <= M
    <3>1. Cardinality(f[i]) = IF Cardinality(Hnsw!Neighbors(graph, i)) < M
                              THEN Cardinality(Hnsw!Neighbors(graph, i)) ELSE M
      BY <1>1, SameCount DEF Hnsw!Best
    <3>2. Cardinality(Hnsw!Neighbors(graph, i)) \in Nat
      BY <2>2, FS_CardinalityType
    <3>3. QED
      BY <3>1, <3>2, MultiAssumption
  <2>4. Hnsw!Neighbors(h, i) \subseteq f[i]
    BY <1>3 DEF Hnsw!Neighbors
  <2>5. QED
    BY <2>2, <2>3, <2>4, FS_Subset, FS_CardinalityType, MultiAssumption
<1>5. QED
  BY <1>2, <1>3, <1>4

HnswInv == Hnsw!TypeOK /\ HnswSound

LEMMA HnswInit == Hnsw!Init => HnswInv
<1> SUFFICES ASSUME Hnsw!Init PROVE HnswInv
  OBVIOUS
<1>1. Hnsw!TypeOK
  BY MultiAssumption DEF Hnsw!Init, Hnsw!TypeOK, Hnsw!Levels
<1>2. Hnsw!Stored = {}
  BY DEF Hnsw!Init, Hnsw!Stored
<1>3. \A l \in Hnsw!Levels, i \in Ids : Hnsw!Neighbors(links[l], i) = {}
  BY DEF Hnsw!Init, Hnsw!Neighbors
<1>4. Hnsw!DegreeBounded
  <2>1. ASSUME NEW l \in Hnsw!Levels, NEW i \in Ids
        PROVE  Cardinality(Hnsw!Neighbors(links[l], i)) <= M
    <3>1. Cardinality(Hnsw!Neighbors(links[l], i)) = 0
      BY <1>3, FS_EmptySet
    <3>2. QED
      BY <3>1, MultiAssumption
  <2>2. QED
    BY <2>1, SameCount DEF Hnsw!DegreeBounded
<1>5. Hnsw!EntryStored /\ Hnsw!LinksStored
  BY <1>2 DEF Hnsw!Init, Hnsw!EntryStored, Hnsw!LinksStored, Hnsw!Levels
<1>6. QED
  BY <1>1, <1>4, <1>5 DEF HnswInv, HnswSound

LEMMA HnswInsertKeeps ==
  ASSUME HnswInv, NEW v \in Vectors, NEW i \in Ids, NEW level \in Hnsw!Levels,
         Hnsw!Insert(v, i, level)
  PROVE  HnswInv'
<1> DEFINE entry == IF enter = NoId THEN i ELSE enter
<1> DEFINE score == IF entry = i THEN Sim[v][v] ELSE Sim[v][hnswVectors[entry]]
<1> DEFINE graph(l) == Hnsw!Linked(links[l], i, entry, score)
<1>1. /\ Hnsw!TypeOK /\ Hnsw!EntryStored /\ Hnsw!LinksStored /\ Hnsw!DegreeBounded
  BY DEF HnswInv, HnswSound
<1>2. /\ hnswVectors' = [hnswVectors EXCEPT ![i] = v]
      /\ maxLevel' = IF level > maxLevel THEN level ELSE maxLevel
      /\ layers' = [l \in Hnsw!Levels |-> IF l <= level THEN [layers[l] EXCEPT ![i] = @ + 1]
                                          ELSE layers[l]]
      /\ enter' = entry
      /\ DOMAIN links' = Hnsw!Levels
      /\ \A l \in Hnsw!Levels : links'[l] = links[l] \/ links'[l] \in Hnsw!Pruned(graph(l))
  BY DEF Hnsw!Insert
<1>3. entry \in Ids /\ entry \in Hnsw!Stored \cup {i}
  BY <1>1 DEF Hnsw!TypeOK, Hnsw!EntryStored, Hnsw!Stored
<1>4. score \in Int
  BY <1>1, <1>3, MultiAssumption DEF Hnsw!Stored, Hnsw!TypeOK
<1>5. Hnsw!Stored' = Hnsw!Stored \cup {i}
  BY <1>1, <1>2, MultiAssumption DEF Hnsw!Stored, Hnsw!TypeOK
<1>6. ASSUME NEW l \in Hnsw!Levels
      PROVE  /\ graph(l) \in Links
             /\ \A j, k \in Ids : graph(l)[j][k] # NoLink => {j, k} \subseteq Hnsw!Stored'
  <2>1. links[l] \in Links
    BY <1>1 DEF Hnsw!TypeOK, Links
  <2>2. graph(l) \in Links
    BY <1>3, <1>4, <2>1 DEF Links, Hnsw!Linked
  <2>3. ASSUME NEW j \in Ids, NEW k \in Ids, graph(l)[j][k] # NoLink
        PROVE  \/ links[l][j][k] # NoLink
               \/ {j, k} \subseteq {i, entry}
    BY <1>3, <1>4, <2>1, <2>3 DEF Links, Hnsw!Linked
  <2>4. QED
    BY <1>1, <1>3, <1>5, <2>2, <2>3 DEF Hnsw!LinksStored
<1>7. ASSUME NEW l \in Hnsw!Levels
      PROVE  /\ links'[l] \in Links
             /\ \A j, k \in Ids : links'[l][j][k] # NoLink => {j, k} \subseteq Hnsw!Stored'
             /\ \A j \in Ids : Cardinality(Hnsw!Neighbors(links'[l], j)) <= M
  <2>1. CASE links'[l] = links[l]
    BY <1>1, <1>5, <2>1, SameCount DEF Hnsw!TypeOK, Links, Hnsw!LinksStored, Hnsw!DegreeBounded
  <2>2. CASE links'[l] \in Hnsw!Pruned(graph(l))
    <3> HIDE DEF graph
    <3>1. graph(l) \in Links
      BY <1>6
    <3>2. QED
      BY <1>6, <2>2, <3>1, PrunedKeeps
  <2>3. QED
    BY <1>2, <2>1, <2>2
<1>8. Hnsw!TypeOK'
  <2>1. links' \in [Hnsw!Levels -> Links]
    <3>1. links' = [l \in Hnsw!Levels |-> links'[l]]
      BY DEF Hnsw!Insert
    <3>2. QED
      BY <1>7, <3>1
  <2>2. layers' \in [Hnsw!Levels -> [Ids -> Nat]]
    BY <1>1, <1>2 DEF Hnsw!TypeOK
  <2>3. QED
    BY <1>1, <1>2, <1>3, <2>1, <2>2 DEF Hnsw!TypeOK, Links, Hnsw!Levels
<1>9. Hnsw!EntryStored'
  <2>1. ASSUME NEW j \in Hnsw!Stored' PROVE layers'[0][j] > 0
    <3>1. 0 \in Hnsw!Levels /\ level \in Nat
      BY MultiAssumption DEF Hnsw!Levels
    <3>2. layers[0] \in [Ids -> Nat] /\ layers'[0] = [layers[0] EXCEPT ![i] = @ + 1]
      BY <1>1, <1>2, <3>1 DEF Hnsw!TypeOK
    <3>3. j \in Ids /\ (j # i => layers[0][j] > 0)
      BY <1>1, <1>5 DEF Hnsw!EntryStored, Hnsw!Stored
    <3>4. QED
      BY <3>2, <3>3
  <2>2. enter' \in Hnsw!Stored' /\ Hnsw!Stored' # {}
    BY <1>2, <1>3, <1>5
  <2>3. QED
    BY <2>1, <2>2 DEF Hnsw!EntryStored
<1>10. QED
  BY <1>7, <1>8, <1>9, SameCount DEF HnswInv, HnswSound, Hnsw!LinksStored, Hnsw!DegreeBounded

LEMMA HnswRemoveKeeps ==
  ASSUME HnswInv, NEW i \in Ids, Hnsw!Remove(i)
  PROVE  HnswInv'
<1>1. /\ Hnsw!TypeOK /\ Hnsw!EntryStored /\ Hnsw!LinksStored /\ Hnsw!DegreeBounded
  BY DEF HnswInv, HnswSound
<1>2. /\ hnswVectors' = [hnswVectors EXCEPT ![i] = NoVector]
      /\ layers' = [l \in Hnsw!Levels |-> [layers[l] EXCEPT ![i] = IF @ > 0 THEN @ - 1 ELSE 0]]
      /\ maxLevel' = maxLevel
  BY DEF Hnsw!Remove
<1>3. links' = [l \in Hnsw!Levels |-> [j \in Ids |-> [k \in Ids |->
                  IF i \in {j, k} THEN NoLink ELSE links[l][j][k]]]]
  BY DEF Hnsw!Remove
<1>4. Hnsw!Stored' = Hnsw!Stored \ {i}
  BY <1>1, <1>2, MultiAssumption DEF Hnsw!Stored, Hnsw!TypeOK
<1>5. \A j \in Hnsw!Stored' : layers'[0][j] > 0
  <2>1. 0 \in Hnsw!Levels /\ layers[0] \in [Ids -> Nat]
    BY <1>1, MultiAssumption DEF Hnsw!Levels, Hnsw!TypeOK
  <2>2. layers'[0] = [layers[0] EXCEPT ![i] = IF @ > 0 THEN @ - 1 ELSE 0]
    BY <1>2, <2>1
  <2>3. ASSUME NEW j \in Hnsw!Stored' PROVE layers'[0][j] = layers[0][j] /\ j \in Hnsw!Stored
    BY <1>4, <2>1, <2>2, <2>3 DEF Hnsw!Stored
  <2>4. QED
    BY <1>1, <2>3 DEF Hnsw!EntryStored
<1>6. IF Hnsw!Stored' = {} THEN enter' = NoId ELSE enter' \in Hnsw!Stored'
  <2>1. {j \in Ids : layers'[0][j] > 0 /\ hnswVectors'[j] # NoVector} = Hnsw!Stored'
    BY <1>5 DEF Hnsw!Stored
  <2>2. IF enter # i THEN enter' = enter
        ELSE IF Hnsw!Stored' = {} THEN enter' = NoId ELSE enter' \in Hnsw!Stored'
    BY <2>1 DEF Hnsw!Remove
  <2>3. QED
    BY <1>1, <1>4, <2>2 DEF Hnsw!EntryStored
<1>7. Hnsw!TypeOK'
  <2>1. layers' \in [Hnsw!Levels -> [Ids -> Nat]]
    BY <1>1, <1>2 DEF Hnsw!TypeOK
  <2>2. links' \in [Hnsw!Levels -> [Ids -> [Ids -> Int \cup {NoLink}]]]
    BY <1>1, <1>3 DEF Hnsw!TypeOK
  <2>3. enter' \in Ids \cup {NoId}
    BY <1>6 DEF Hnsw!Stored
  <2>4. QED
    BY <1>1, <1>2, <2>1, <2>2, <2>3 DEF Hnsw!TypeOK
<1>8. ASSUME NEW l \in Hnsw!Levels, NEW j \in Ids
      PROVE  /\ \A k \in Ids : links'[l][j][k] # NoLink => {j, k} \subseteq Hnsw!Stored'
             /\ Cardinality(Hnsw!Neighbors(links'[l], j)) <= M
  <2>1. \A k \in Ids : links'[l][j][k] = IF i \in {j, k} THEN NoLink ELSE links[l][j][k]
    BY <1>3
  <2>2. \A k \in Ids : links'[l][j][k] # NoLink => {j, k} \subseteq Hnsw!Stored'
    BY <1>1, <1>4, <2>1 DEF Hnsw!LinksStored
  <2>3. /\ Hnsw!Neighbors(links'[l], j) \subseteq Hnsw!Neighbors(links[l], j)
        /\ IsFiniteSet(Hnsw!Neighbors(links[l], j))
    BY <2>1, MultiAssumption, FS_Subset DEF Hnsw!Neighbors
  <2>4. Cardinality(Hnsw!Neighbors(links[l], j)) <= M
    BY <1>1, SameCount DEF Hnsw!DegreeBounded
  <2>5. QED
    BY <2>2, <2>3, <2>4, FS_Subset, FS_CardinalityType, MultiAssumption
<1>9. QED
  BY <1>5, <1>6, <1>7, <1>8, SameCount
     DEF HnswInv, HnswSound, Hnsw!EntryStored, Hnsw!LinksStored, Hnsw!DegreeBounded

LEMMA HnswStutterKeeps == HnswInv /\ UNCHANGED Hnsw!hnswVars => HnswInv'
BY DEF HnswInv, HnswSound, Hnsw!hnswVars, Hnsw!TypeOK, Hnsw!EntryStored, Hnsw!LinksStored,
       Hnsw!DegreeBounded, Hnsw!Stored, Hnsw!Neighbors

-----------------------------------------------------------------------------
(* Numbers.                                                                *)

LEMMA LeastNatural ==
  ASSUME NEW S \in SUBSET Nat, S # {}
  PROVE  \E m \in S : \A n \in S : m <= n
<1> DEFINE less == {p \in Nat \X Nat : p[1] < p[2]}
<1>1. IsWellFoundedOn(less, Nat)
  BY NatLessThanWellFounded DEF OpToRel
<1>2. PICK m \in S : \A n \in S : ~ (<<n, m>> \in less)
  <2> HIDE DEF less
  <2>1. QED
    BY <1>1, WFMin
<1>3. \A n \in S : ~ (n < m)
  BY <1>2
<1>4. QED
  BY <1>3

(* A finite set that is not empty has a member with the highest score:     *)
(* one with the fewest members above it.                                   *)
LEMMA HighestScore ==
  ASSUME NEW S, IsFiniteSet(S), S # {}, NEW score \in [S -> Int]
  PROVE  \E j \in S : \A k \in S : score[j] >= score[k]
<1> DEFINE above == [j \in S |-> {k \in S : score[k] > score[j]}]
<1> DEFINE count == [j \in S |-> Cardinality(above[j])]
<1>1. \A j \in S : above[j] \in SUBSET S /\ IsFiniteSet(above[j])
  BY FS_Subset
<1>2. \A j \in S : count[j] \in Nat
  BY <1>1, FS_CardinalityType
<1>3. PICK j \in S : \A k \in S : count[j] <= count[k]
  <2> HIDE DEF count
  <2>1. {count[k] : k \in S} \in SUBSET Nat /\ {count[k] : k \in S} # {}
    BY <1>2
  <2>2. PICK m \in {count[k] : k \in S} : \A n \in {count[k] : k \in S} : m <= n
    BY <2>1, LeastNatural
  <2>3. QED
    BY <2>2
<1>4. ASSUME NEW k \in S, ~ (score[j] >= score[k]) PROVE FALSE
  <2>1. score[k] \in Int /\ score[j] \in Int /\ score[k] > score[j]
    BY <1>4
  <2>2. above[k] \subseteq above[j] /\ k \in above[j] /\ k \notin above[k]
    BY <2>1
  <2>3. above[k] # above[j] /\ above[k] \in SUBSET above[j]
    BY <2>2
  <2> HIDE DEF above
  <2>4. count[k] <= count[j] /\ count[k] # count[j]
    BY <1>1, <2>3, FS_Subset
  <2>5. QED
    BY <1>2, <1>3, <2>4
<1>5. QED
  BY <1>4

-----------------------------------------------------------------------------
(* The descent of a search.                                                *)

LEMMA CloserStays ==
  ASSUME HnswInv, NEW q \in Vectors, NEW i \in Hnsw!Stored, NEW l \in Hnsw!Levels
  PROVE  Hnsw!Closer(q, i, l) \subseteq Hnsw!Stored /\ Hnsw!Closer(q, i, l) # {}
<1> DEFINE better == {j \in Hnsw!Neighbors(links[l], i) : Hnsw!Score(q, j) > Hnsw!Score(q, i)}
<1> DEFINE score == [j \in better |-> Hnsw!Score(q, j)]
<1>1. better \subseteq Hnsw!Stored /\ better \subseteq Ids
  BY DEF HnswInv, HnswSound, Hnsw!LinksStored, Hnsw!Neighbors, Hnsw!Stored
<1>2. score \in [better -> Int]
  BY <1>1, MultiAssumption DEF HnswInv, Hnsw!TypeOK, Hnsw!Score
<1>3. Hnsw!Closer(q, i, l) = IF better = {} THEN {i}
                             ELSE {j \in better : \A k \in better : score[j] >= score[k]}
  BY DEF Hnsw!Closer
<1>4. IsFiniteSet(better)
  BY <1>1, MultiAssumption, FS_Subset
<1>5. CASE better = {}
  BY <1>3, <1>5
<1>6. CASE better # {}
  <2> HIDE DEF better, score
  <2>1. PICK j \in better : \A k \in better : score[j] >= score[k]
    BY <1>2, <1>4, <1>6, HighestScore
  <2>2. QED
    BY <1>1, <1>3, <1>6, <2>1
<1>7. QED
  BY <1>5, <1>6

(* After every number of layers the descent is at a stored vector.  The    *)
(* function at is what its recursive definition says: the least number of  *)
(* layers for which no such function existed would follow one for which    *)
(* one does.                                                               *)
LEMMA DescentStays ==
  ASSUME HnswInv, Hnsw!Stored # {}, NEW q \in Vectors
  PROVE  Hnsw!Descent(q) \subseteq Hnsw!Stored /\ Hnsw!Descent(q) # {}
<1> DEFINE Go(A, n) == UNION {Hnsw!Closer(q, i, maxLevel + 1 - n) : i \in A}
<1> DEFINE Layers(g, k) == g = [n \in 0..k |-> IF n = 0 THEN {enter} ELSE Go(g[n - 1], n)]
<1> DEFINE at[n \in 0..maxLevel] == IF n = 0 THEN {enter} ELSE Go(at[n - 1], n)
<1>1. Hnsw!Descent(q) = at[maxLevel]
  BY DEF Hnsw!Descent
<1>2. maxLevel \in Nat /\ enter \in Hnsw!Stored
  BY MultiAssumption DEF HnswInv, HnswSound, Hnsw!TypeOK, Hnsw!Levels, Hnsw!EntryStored
<1>3. \A k \in 0..maxLevel : \E g : Layers(g, k)
  <2> DEFINE bad == {k \in 0..maxLevel : ~ \E g : Layers(g, k)}
  <2> SUFFICES ASSUME bad # {} PROVE FALSE
    OBVIOUS
  <2> HIDE DEF Go
  <2>1. PICK k \in bad : \A j \in bad : k <= j
    <3>1. bad \in SUBSET Nat
      BY <1>2
    <3> HIDE DEF bad
    <3>2. QED
      BY <3>1, LeastNatural
  <2>2. CASE k = 0
    <3>1. Layers([n \in 0..k |-> {enter}], k)
      BY <2>2
    <3>2. QED
      BY <2>1, <3>1
  <2>3. CASE k # 0
    <3>1. k \in 0..maxLevel /\ k - 1 \in 0..maxLevel /\ k - 1 \notin bad
      <4>1. k \in 0..maxLevel
        BY <2>1
      <4>2. k - 1 \in 0..maxLevel /\ ~ (k <= k - 1)
        BY <1>2, <2>3, <4>1
      <4> HIDE DEF bad
      <4>3. QED
        BY <2>1, <4>1, <4>2
    <3>2. PICK g : Layers(g, k - 1)
      BY <3>1
    <3> DEFINE h == [n \in 0..k |-> IF n = k THEN Go(g[k - 1], k) ELSE g[n]]
    <3>3. ASSUME NEW n \in 0..k
          PROVE  h[n] = IF n = 0 THEN {enter} ELSE Go(h[n - 1], n)
      <4>1. CASE n = k
        <5>1. h[n] = Go(g[k - 1], k) /\ h[n - 1] = g[k - 1]
          BY <1>2, <3>1, <4>1
        <5>2. QED
          BY <2>3, <4>1, <5>1
      <4>2. CASE n # k
        <5>1. n \in 0..k - 1 /\ h[n] = g[n] /\ (n # 0 => h[n - 1] = g[n - 1])
          BY <1>2, <3>1, <4>2
        <5>2. QED
          BY <3>2, <5>1
      <4>3. QED
        BY <4>1, <4>2
    <3>4. Layers(h, k)
      <4>1. h = [n \in 0..k |-> h[n]]
        OBVIOUS
      <4> HIDE DEF h
      <4>2. QED
        BY <3>3, <4>1
    <3>5. QED
      BY <2>1, <3>4
  <2>4. QED
    BY <2>2, <2>3
<1>4. Layers(at, maxLevel)
  <2>1. maxLevel \in 0..maxLevel
    BY <1>2
  <2>2. \E g : Layers(g, maxLevel)
    <3> HIDE DEF Layers, at
    <3>1. QED
      BY <1>3, <2>1
  <2> HIDE DEF Go
  <2>3. QED
    BY <2>2
<1>5. \A n \in 0..maxLevel : at[n] \subseteq Hnsw!Stored /\ at[n] # {}
  <2> DEFINE bad == {n \in 0..maxLevel : ~ (at[n] \subseteq Hnsw!Stored /\ at[n] # {})}
  <2> HIDE DEF at
  <2> SUFFICES ASSUME bad # {} PROVE FALSE
    OBVIOUS
  <2>1. PICK n \in bad : \A j \in bad : n <= j
    <3>1. bad \in SUBSET Nat
      BY <1>2
    <3> HIDE DEF bad
    <3>2. QED
      BY <3>1, LeastNatural
  <2>2. n # 0
    BY <1>2, <1>4, <2>1
  <2>3. n - 1 \in 0..maxLevel /\ n - 1 \notin bad
    BY <1>2, <2>1, <2>2
  <2>4. maxLevel + 1 - n \in Hnsw!Levels
    BY <1>2, <2>1, <2>2, MultiAssumption DEF Hnsw!Levels, HnswInv, Hnsw!TypeOK
  <2>5. at[n] = Go(at[n - 1], n)
    BY <1>4, <2>1, <2>2
  <2>6. at[n - 1] \subseteq Hnsw!Stored /\ at[n - 1] # {}
    BY <2>3
  <2>7. Go(at[n - 1], n) \subseteq Hnsw!Stored /\ Go(at[n - 1], n) # {}
    <3>1. \A i \in at[n - 1] : /\ Hnsw!Closer(q, i, maxLevel + 1 - n) \subseteq Hnsw!Stored
                              /\ Hnsw!Closer(q, i, maxLevel + 1 - n) # {}
      BY <2>4, <2>6, CloserStays
    <3>2. QED
      BY <2>6, <3>1
  <2> HIDE DEF Go
  <2>8. QED
    BY <2>1, <2>5, <2>7
<1>6. at[maxLevel] \subseteq Hnsw!Stored /\ at[maxLevel] # {}
  <2> HIDE DEF at
  <2>1. QED
    BY <1>2, <1>5
<1>7. QED
  BY <1>1, <1>6
-----------------------------------------------------------------------------
(* Ranked answers.                                                         *)

LEMMA SameRanking ==
  \A S, score, k : /\ Lsh!TopRanked(S, score, k) = Rank!TopRanked(S, score, k)
                   /\ Ivf!TopRanked(S, score, k) = Rank!TopRanked(S, score, k)
<1>1. \A S, score : /\ Lsh!Ranked(S, score) = Rank!Ranked(S, score)
                    /\ Ivf!Ranked(S, score) = Rank!Ranked(S, score)
  BY SameCount DEF Lsh!Ranked, Ivf!Ranked, Rank!Ranked
<1>2. \A s, k : Lsh!Cut(s, k) = Rank!Cut(s, k) /\ Ivf!Cut(s, k) = Rank!Cut(s, k)
  BY DEF Lsh!Cut, Ivf!Cut, Rank!Cut
<1>3. QED
  BY <1>1, <1>2 DEF Lsh!TopRanked, Ivf!TopRanked, Rank!TopRanked

LEMMA RankedFrom ==
  ASSUME NEW S, IsFiniteSet(S), NEW score, NEW k \in Nat, NEW s \in Rank!TopRanked(S, score, k)
  PROVE  \A n \in DOMAIN s : s[n] \in S
<1>1. PICK r \in [1..Cardinality(S) -> S] : s = Rank!Cut(r, k)
  BY SameCount DEF Rank!TopRanked, Rank!Ranked
<1>2. Cardinality(S) \in Nat
  BY FS_CardinalityType
<1>3. r \in Seq(S) /\ Len(r) = Cardinality(S)
  BY <1>2
<1>4. QED
  BY <1>1, <1>2, <1>3 DEF Rank!Cut

-----------------------------------------------------------------------------
(* Buckets and clusters.                                                   *)

LEMMA NearestExists ==
  ASSUME NEW cents \in [Ivf!ClusterIds -> Vectors], NEW v \in Vectors
  PROVE  LET c == Ivf!Assigned(cents, v) IN
         /\ c \in Ivf!ClusterIds
         /\ \A d \in Ivf!ClusterIds : \/ Dist[v][cents[c]] < Dist[v][cents[d]]
                                      \/ Dist[v][cents[c]] = Dist[v][cents[d]] /\ c <= d
<1> DEFINE far == [d \in Ivf!ClusterIds |-> Dist[v][cents[d]]]
<1>1. far \in [Ivf!ClusterIds -> Nat] /\ 1 \in Ivf!ClusterIds /\ Ivf!ClusterIds \subseteq Nat
  <2>1. 1 \in Ivf!ClusterIds /\ Ivf!ClusterIds \subseteq Nat
    BY MultiAssumption DEF Ivf!ClusterIds
  <2>2. \A w \in Vectors : Dist[v][w] \in Nat
    BY MultiAssumption
  <2>3. QED
    BY <2>1, <2>2
<1>2. cents # <<>>
  BY <1>1
<1>3. Ivf!Assigned(cents, v) =
        CHOOSE c \in Ivf!ClusterIds :
          \A d \in Ivf!ClusterIds : far[c] < far[d] \/ (far[c] = far[d] /\ c <= d)
  BY <1>2 DEF Ivf!Assigned
<1> HIDE DEF far
<1>4. PICK m \in Ivf!ClusterIds : \A d \in Ivf!ClusterIds : far[m] <= far[d]
  <2>1. {far[d] : d \in Ivf!ClusterIds} \in SUBSET Nat /\ {far[d] : d \in Ivf!ClusterIds} # {}
    BY <1>1
  <2>2. PICK x \in {far[d] : d \in Ivf!ClusterIds} :
               \A y \in {far[d] : d \in Ivf!ClusterIds} : x <= y
    BY <2>1, LeastNatural
  <2>3. QED
    BY <2>2
<1>5. PICK c \in {d \in Ivf!ClusterIds : far[d] = far[m]} :
             \A d \in {e \in Ivf!ClusterIds : far[e] = far[m]} : c <= d
  BY <1>1, LeastNatural
<1>6. \A d \in Ivf!ClusterIds : far[c] < far[d] \/ (far[c] = far[d] /\ c <= d)
  BY <1>1, <1>4, <1>5
<1>7. /\ Ivf!Assigned(cents, v) \in Ivf!ClusterIds
      /\ \A d \in Ivf!ClusterIds : LET e == Ivf!Assigned(cents, v) IN
           far[e] < far[d] \/ (far[e] = far[d] /\ e <= d)
  BY <1>3, <1>5, <1>6
<1>8. QED
  BY <1>7 DEF far

-----------------------------------------------------------------------------
(* All structures hold the vectors of flat.  A held vector is in the bucket*)
(* of its hash value in every table and, after a training, in the cluster  *)
(* of the nearest centroid; as long as no ID was inserted twice, it is     *)
(* nowhere twice, and an ID that is not held is nowhere.                   *)

Copies == hnswVectors = flat /\ lshVectors = flat /\ ivfVectors = flat

Bucketed == \A t \in Tables, i \in Held : buckets[t][Hash[t][flat[i]]][i] > 0

Clustered ==
  centroids # <<>> => \A i \in Held : clusters[Ivf!Assigned(centroids, flat[i])][i] > 0

Once ==
  again = 0 =>
    \A i \in Ids :
      /\ \A t \in Tables, h \in Hashes :
           buckets[t][h][i] <= 1 /\ (i \notin Held => buckets[t][h][i] = 0)
      /\ \A c \in Ivf!ClusterIds :
           clusters[c][i] <= 1 /\ (i \notin Held => clusters[c][i] = 0)

Inv == TypeOK /\ HnswSound /\ Copies /\ Bucketed /\ Clustered /\ Once

LEMMA InitInv == Init => Inv
<1> SUFFICES ASSUME Init PROVE Inv
  OBVIOUS
<1>1. HnswInv
  BY HnswInit DEF Init
<1>2. Held = {} /\ Copies
  BY DEF Init, Held, Copies, Hnsw!Init, Lsh!Init, Ivf!Init
<1>3. TypeOK
  BY <1>1, MultiAssumption DEF HnswInv, TypeOK, Init, Lsh!Init, Ivf!Init, Lsh!TypeOK, Ivf!TypeOK
<1>4. Bucketed /\ Clustered
  BY <1>2 DEF Bucketed, Clustered
<1>5. Once
  BY DEF Once, Init, Lsh!Init, Ivf!Init
<1>6. QED
  BY <1>1, <1>2, <1>3, <1>4, <1>5 DEF Inv, HnswInv

LEMMA InsertKeeps ==
  ASSUME Inv, NEW v \in Vectors, NEW i \in Ids, Insert(v, i)
  PROVE  Inv'
<1> DEFINE c == Ivf!Assigned(centroids, v)
<1>1. /\ flat \in [Ids -> Vectors \cup {NoVector}] /\ again \in Nat
      /\ buckets \in [Tables -> [Hashes -> [Ids -> Nat]]]
      /\ clusters \in [Ivf!ClusterIds -> [Ids -> Nat]]
      /\ centroids \in {<<>>} \cup [Ivf!ClusterIds -> Vectors]
  BY DEF Inv, TypeOK, Lsh!TypeOK, Ivf!TypeOK
<1>2. /\ flat' = [flat EXCEPT ![i] = v]
      /\ again' = IF i \in Held THEN again + 1 ELSE again
      /\ buckets' = [t \in Tables |-> [buckets[t] EXCEPT ![Hash[t][v]][i] = @ + 1]]
      /\ clusters' = [clusters EXCEPT ![c][i] = @ + 1]
      /\ centroids' = centroids
  BY DEF Insert, Lsh!Insert, Ivf!Insert
<1>3. v # NoVector /\ Held' = Held \cup {i} /\ \A j \in Held \ {i} : flat'[j] = flat[j]
  BY <1>1, <1>2, MultiAssumption DEF Held
<1>4. c \in Ivf!ClusterIds
  <2>1. CASE centroids = <<>>
    BY <2>1, MultiAssumption DEF Ivf!Assigned, Ivf!ClusterIds
  <2>2. CASE centroids \in [Ivf!ClusterIds -> Vectors]
    BY <2>2, NearestExists
  <2>3. QED
    BY <1>1, <2>1, <2>2
<1>5. \A t \in Tables, w \in Vectors : Hash[t][w] \in Hashes
  BY MultiAssumption
<1>6. \A t \in Tables, h \in Hashes, j \in Ids :
        buckets'[t][h][j] = IF h = Hash[t][v] /\ j = i THEN buckets[t][h][j] + 1
                            ELSE buckets[t][h][j]
  BY <1>1, <1>2, <1>5
<1>7. \A d \in Ivf!ClusterIds, j \in Ids :
        clusters'[d][j] = IF d = c /\ j = i THEN clusters[d][j] + 1 ELSE clusters[d][j]
  BY <1>1, <1>2, <1>4
<1> HIDE DEF c
<1>8. HnswInv'
  <2>1. PICK level \in Hnsw!Levels : Hnsw!Insert(v, i, level)
    BY DEF Insert
  <2>2. QED
    BY <2>1, HnswInsertKeeps DEF Inv, TypeOK, HnswInv
<1>9. Copies'
  BY DEF Inv, Copies, Insert, Hnsw!Insert, Lsh!Insert, Ivf!Insert
<1>10. TypeOK'
  <2>1. flat' \in [Ids -> Vectors \cup {NoVector}] /\ again' \in 0..MaxAgain
    BY <1>1, <1>2, MultiAssumption DEF Inv, TypeOK, Insert
  <2>2. buckets' \in [Tables -> [Hashes -> [Ids -> Nat]]]
    BY <1>1, <1>2, <1>5
  <2>3. clusters' \in [Ivf!ClusterIds -> [Ids -> Nat]]
    BY <1>1, <1>2, <1>4
  <2>4. QED
    BY <1>1, <1>2, <1>8, <1>9, <2>1, <2>2, <2>3
       DEF TypeOK, HnswInv, Lsh!TypeOK, Ivf!TypeOK, Copies
<1>11. Bucketed'
  <2>1. ASSUME NEW t \in Tables, NEW j \in Held' PROVE buckets'[t][Hash[t][flat'[j]]][j] > 0
    <3>1. flat'[j] \in Vectors /\ j \in Ids
      BY <1>1, <1>2, <1>3, <2>1 DEF Held
    <3>2. CASE j = i
      <4>1. flat'[j] = v
        BY <1>1, <1>2, <3>2
      <4>2. buckets'[t][Hash[t][v]][i] = buckets[t][Hash[t][v]][i] + 1
        BY <1>5, <1>6
      <4>3. buckets[t][Hash[t][v]][i] \in Nat
        BY <1>1, <1>5
      <4>4. QED
        BY <3>2, <4>1, <4>2, <4>3
    <3>3. CASE j # i
      <4>1. j \in Held /\ flat'[j] = flat[j]
        BY <1>3, <2>1, <3>3
      <4>2. buckets'[t][Hash[t][flat[j]]][j] = buckets[t][Hash[t][flat[j]]][j]
        BY <1>5, <1>6, <3>1, <3>3, <4>1
      <4>3. QED
        BY <4>1, <4>2 DEF Inv, Bucketed
    <3>4. QED
      BY <3>2, <3>3
  <2>2. QED
    BY <2>1 DEF Bucketed
<1>12. Clustered'
  <2>1. ASSUME centroids # <<>>, NEW j \in Held'
        PROVE  clusters'[Ivf!Assigned(centroids, flat'[j])][j] > 0
    <3>1. flat'[j] \in Vectors /\ j \in Ids /\ centroids \in [Ivf!ClusterIds -> Vectors]
      BY <1>1, <1>2, <1>3, <2>1 DEF Held
    <3>2. Ivf!Assigned(centroids, flat'[j]) \in Ivf!ClusterIds
      BY <3>1, NearestExists
    <3>3. CASE j = i
      <4>1. Ivf!Assigned(centroids, flat'[j]) = c
        BY <1>1, <1>2, <3>3 DEF c
      <4>2. QED
        BY <1>1, <1>4, <1>7, <3>3, <4>1
    <3>4. CASE j # i
      <4>1. j \in Held /\ flat'[j] = flat[j]
        BY <1>3, <2>1, <3>4
      <4>2. clusters[Ivf!Assigned(centroids, flat[j])][j] > 0
        BY <2>1, <4>1 DEF Inv, Clustered
      <4>3. QED
        BY <1>7, <3>1, <3>2, <3>4, <4>1, <4>2
    <3>5. QED
      BY <3>3, <3>4
  <2>2. QED
    BY <1>2, <2>1 DEF Clustered
<1>13. Once'
  <2>1. ASSUME again' = 0 PROVE again = 0 /\ i \notin Held
    BY <1>1, <1>2, <2>1
  <2>2. ASSUME again' = 0, NEW j \in Ids
        PROVE  /\ \A t \in Tables, h \in Hashes :
                    buckets'[t][h][j] <= 1 /\ (j \notin Held' => buckets'[t][h][j] = 0)
               /\ \A d \in Ivf!ClusterIds :
                    clusters'[d][j] <= 1 /\ (j \notin Held' => clusters'[d][j] = 0)
    <3>1. /\ \A t \in Tables, h \in Hashes :
               buckets[t][h][j] <= 1 /\ (j \notin Held => buckets[t][h][j] = 0)
          /\ \A d \in Ivf!ClusterIds :
               clusters[d][j] <= 1 /\ (j \notin Held => clusters[d][j] = 0)
      BY <2>1, <2>2 DEF Inv, Once
    <3>2. CASE j # i
      <4>1. j \notin Held' <=> j \notin Held
        BY <1>3, <3>2
      <4>2. QED
        BY <1>6, <1>7, <3>1, <3>2, <4>1
    <3>3. CASE j = i
      <4>1. j \in Held' /\ j \notin Held
        BY <1>3, <2>1, <2>2, <3>3
      <4>2. \A t \in Tables, h \in Hashes : buckets'[t][h][j] <= 1
        BY <1>6, <3>1, <4>1
      <4>3. \A d \in Ivf!ClusterIds : clusters'[d][j] <= 1
        BY <1>7, <3>1, <4>1
      <4>4. QED
        BY <4>1, <4>2, <4>3
    <3>4. QED
      BY <3>2, <3>3
  <2>3. QED
    BY <2>2 DEF Once
<1>14. QED
  BY <1>8, <1>9, <1>10, <1>11, <1>12, <1>13 DEF Inv, HnswInv

LEMMA RemoveKeeps ==
  ASSUME Inv, NEW i \in Ids, Remove(i)
  PROVE  Inv'
<1>1. /\ flat \in [Ids -> Vectors \cup {NoVector}] /\ again \in Nat
      /\ buckets \in [Tables -> [Hashes -> [Ids -> Nat]]]
      /\ clusters \in [Ivf!ClusterIds -> [Ids -> Nat]]
      /\ centroids \in {<<>>} \cup [Ivf!ClusterIds -> Vectors]
  BY DEF Inv, TypeOK, Lsh!TypeOK, Ivf!TypeOK
<1>2. /\ flat' = [flat EXCEPT ![i] = NoVector]
      /\ again' = again /\ centroids' = centroids
      /\ buckets' = [t \in Tables |-> [h \in Hashes |->
                       [buckets[t][h] EXCEPT ![i] = IF @ > 0 THEN @ - 1 ELSE 0]]]
      /\ clusters' = [c \in Ivf!ClusterIds |->
                        [clusters[c] EXCEPT ![i] = IF @ > 0 THEN @ - 1 ELSE 0]]
  BY DEF Remove, Lsh!Remove, Ivf!Remove
<1>3. Held' = Held \ {i} /\ \A j \in Held' : flat'[j] = flat[j] /\ j # i
  BY <1>1, <1>2, MultiAssumption DEF Held
<1>4. \A t \in Tables, h \in Hashes, j \in Ids :
        buckets'[t][h][j] = IF j # i THEN buckets[t][h][j]
                            ELSE IF buckets[t][h][j] > 0 THEN buckets[t][h][j] - 1 ELSE 0
  BY <1>1, <1>2
<1>5. \A c \in Ivf!ClusterIds, j \in Ids :
        clusters'[c][j] = IF j # i THEN clusters[c][j]
                          ELSE IF clusters[c][j] > 0 THEN clusters[c][j] - 1 ELSE 0
  BY <1>1, <1>2
<1>6. HnswInv'
  BY HnswRemoveKeeps DEF Remove, Inv, TypeOK, HnswInv
<1>7. Copies'
  BY DEF Inv, Copies, Remove, Hnsw!Remove, Lsh!Remove, Ivf!Remove
<1>8. TypeOK'
  <2>1. flat' \in [Ids -> Vectors \cup {NoVector}] /\ again' \in 0..MaxAgain
    BY <1>1, <1>2 DEF Inv, TypeOK
  <2>2. buckets' \in [Tables -> [Hashes -> [Ids -> Nat]]]
    BY <1>1, <1>2
  <2>3. clusters' \in [Ivf!ClusterIds -> [Ids -> Nat]]
    BY <1>1, <1>2
  <2>4. QED
    BY <1>1, <1>2, <1>6, <1>7, <2>1, <2>2, <2>3
       DEF TypeOK, HnswInv, Lsh!TypeOK, Ivf!TypeOK, Copies
<1>9. Bucketed'
  <2>1. ASSUME NEW t \in Tables, NEW j \in Held' PROVE buckets'[t][Hash[t][flat'[j]]][j] > 0
    <3>1. j \in Held /\ flat'[j] = flat[j] /\ j # i /\ j \in Ids /\ flat[j] \in Vectors
      BY <1>1, <1>3 DEF Held
    <3>2. Hash[t][flat[j]] \in Hashes
      BY <3>1, MultiAssumption
    <3>3. buckets'[t][Hash[t][flat[j]]][j] = buckets[t][Hash[t][flat[j]]][j]
      BY <1>4, <3>1, <3>2
    <3>4. QED
      BY <3>1, <3>3 DEF Inv, Bucketed
  <2>2. QED
    BY <2>1 DEF Bucketed
<1>10. Clustered'
  <2>1. ASSUME centroids # <<>>, NEW j \in Held'
        PROVE  clusters'[Ivf!Assigned(centroids, flat'[j])][j] > 0
    <3>1. j \in Held /\ flat'[j] = flat[j] /\ j # i /\ j \in Ids /\ flat[j] \in Vectors
      BY <1>1, <1>3 DEF Held
    <3>2. Ivf!Assigned(centroids, flat[j]) \in Ivf!ClusterIds
      BY <1>1, <2>1, <3>1, NearestExists
    <3>3. clusters[Ivf!Assigned(centroids, flat[j])][j] > 0
      BY <2>1, <3>1 DEF Inv, Clustered
    <3>4. QED
      BY <1>5, <3>1, <3>2, <3>3
  <2>2. QED
    BY <1>2, <2>1 DEF Clustered
<1>11. Once'
  <2>1. ASSUME again = 0, NEW j \in Ids
        PROVE  /\ \A t \in Tables, h \in Hashes :
                    buckets'[t][h][j] <= 1 /\ (j \notin Held' => buckets'[t][h][j] = 0)
               /\ \A d \in Ivf!ClusterIds :
                    clusters'[d][j] <= 1 /\ (j \notin Held' => clusters'[d][j] = 0)
    <3>1. /\ \A t \in Tables, h \in Hashes :
               buckets[t][h][j] <= 1 /\ (j \notin Held => buckets[t][h][j] = 0)
          /\ \A d \in Ivf!ClusterIds :
               clusters[d][j] <= 1 /\ (j \notin Held => clusters[d][j] = 0)
      BY <2>1 DEF Inv, Once
    <3>2. CASE j # i
      BY <1>3, <1>4, <1>5, <3>1, <3>2
    <3>3. CASE j = i
      <4>1. \A t \in Tables, h \in Hashes : buckets'[t][h][j] = 0
        BY <1>1, <1>4, <3>1, <3>3
      <4>2. \A d \in Ivf!ClusterIds : clusters'[d][j] = 0
        BY <1>1, <1>5, <3>1, <3>3
      <4>3. QED
        BY <4>1, <4>2
    <3>4. QED
      BY <3>2, <3>3
  <2>2. QED
    BY <1>2, <2>1 DEF Once
<1>12. QED
  BY <1>6, <1>7, <1>8, <1>9, <1>10, <1>11 DEF Inv, HnswInv

LEMMA TrainKeeps == Inv /\ Train => Inv'
<1> SUFFICES ASSUME Inv, Train PROVE Inv'
  OBVIOUS
<1>1. /\ flat \in [Ids -> Vectors \cup {NoVector}] /\ ivfVectors = flat /\ Ivf!Stored = Held
  BY DEF Inv, TypeOK, Copies, Ivf!Stored, Held
<1>2. /\ UNCHANGED <<flat, hnswVectors, layers, links, enter, maxLevel, lshVectors, buckets, again>>
      /\ UNCHANGED ivfVectors
      /\ clusters' = [c \in Ivf!ClusterIds |-> [i \in Ids |->
           IF i \in Ivf!Stored /\ Ivf!Assigned(centroids', ivfVectors[i]) = c THEN 1 ELSE 0]]
  BY DEF Train, Ivf!Train
<1>3. centroids' \in [Ivf!ClusterIds -> Vectors]
  <2>1. PICK chosen \in [Ivf!ClusterIds -> Ivf!Stored] :
               centroids' = [c \in Ivf!ClusterIds |-> ivfVectors[chosen[c]]]
    BY DEF Train, Ivf!Train
  <2>2. \A i \in Ivf!Stored : ivfVectors[i] \in Vectors
    BY <1>1 DEF Ivf!Stored, Held
  <2>3. QED
    BY <2>1, <2>2
<1>4. Held' = Held
  BY <1>2 DEF Held
<1>5. HnswInv'
  BY <1>2, HnswStutterKeeps DEF Hnsw!hnswVars, Inv, TypeOK, HnswInv
<1>6. TypeOK'
  <2>1. clusters' \in [Ivf!ClusterIds -> [Ids -> Nat]]
    BY <1>2
  <2>2. QED
    BY <1>2, <1>3, <1>5, <2>1 DEF Inv, TypeOK, HnswInv, Lsh!TypeOK, Ivf!TypeOK
<1>7. Bucketed' /\ Copies'
  BY <1>2, <1>4 DEF Inv, Bucketed, Copies
<1>8. Clustered'
  <2>1. ASSUME NEW i \in Held PROVE clusters'[Ivf!Assigned(centroids', flat[i])][i] = 1
    <3>1. i \in Ids /\ flat[i] \in Vectors
      BY <1>1 DEF Held
    <3>2. Ivf!Assigned(centroids', flat[i]) \in Ivf!ClusterIds
      BY <1>3, <3>1, NearestExists
    <3>3. QED
      BY <1>1, <1>2, <3>1, <3>2
  <2>2. QED
    BY SMTT(60), <1>2, <1>4, <2>1 DEF Clustered
<1>9. Once'
  <2>1. \A c \in Ivf!ClusterIds, i \in Ids :
          clusters'[c][i] <= 1 /\ (i \notin Held => clusters'[c][i] = 0)
    BY <1>1, <1>2
  <2>2. QED
    BY <1>2, <1>4, <2>1 DEF Inv, Once
<1>10. QED
  BY <1>5, <1>6, <1>7, <1>8, <1>9 DEF Inv, HnswInv

LEMMA StutterKeeps == Inv /\ UNCHANGED vars => Inv'
<1> SUFFICES ASSUME Inv, UNCHANGED vars PROVE Inv'
  OBVIOUS
<1>1. HnswInv'
  BY HnswStutterKeeps DEF vars, Hnsw!hnswVars, Inv, TypeOK, HnswInv
<1>2. Held' = Held
  BY DEF vars, Held
<1>3. QED
  BY <1>1, <1>2 DEF vars, Inv, TypeOK, HnswInv, Lsh!TypeOK, Ivf!TypeOK, Copies, Bucketed,
                    Clustered, Once

LEMMA Inductive == Inv /\ [Next]_vars => Inv'
BY InsertKeeps, RemoveKeeps, TrainKeeps, StutterKeeps DEF Next

-----------------------------------------------------------------------------
(* Every structure has its type, whatever is inserted and removed.         *)
THEOREM WellTyped == Spec => []TypeOK
<1>1. Inv => TypeOK
  BY DEF Inv
<1>2. QED
  BY <1>1, InitInv, Inductive, PTL DEF Spec

(* HNSW keeps a stored entry point as long as it holds a vector, links     *)
(* among stored vectors only, and no more than M of them per node and layer*)
(* (hnsw.go:476).                                                          *)
THEOREM GraphIsSound == Spec => []HnswSound
<1>1. Inv => HnswSound
  BY DEF Inv
<1>2. QED
  BY <1>1, InitInv, Inductive, PTL DEF Spec

(* An HNSW index with vectors answers every search with one of them: the   *)
(* descent ends, and at a stored vector, on every layer.                   *)
THEOREM SearchEndsAtStored == Spec => []HnswAnswersStored
<1>1. Inv => HnswAnswersStored
  <2> SUFFICES ASSUME Inv, Hnsw!Stored # {}, NEW q \in Vectors, NEW s \in Hnsw!Answers(q)
               PROVE  s # <<>> /\ s[1] \in Hnsw!Stored
    BY DEF HnswAnswersStored, Hnsw!AnswersStored
  <2>1. HnswInv
    BY DEF Inv, TypeOK, HnswInv
  <2>2. enter # NoId
    BY <2>1, MultiAssumption DEF HnswInv, HnswSound, Hnsw!EntryStored, Hnsw!Stored
  <2>3. PICK i \in Hnsw!Descent(q) : s = <<i>>
    BY <2>2 DEF Hnsw!Answers
  <2>4. i \in Hnsw!Stored
    BY <2>1, DescentStays
  <2>5. QED
    BY <2>3, <2>4
<1>2. QED
  BY <1>1, InitInv, Inductive, PTL DEF Spec

(* A vector is among the candidates of a query equal to it in LSH, and in a*)
(* cluster that a trained IVF probes, whatever was inserted, replaced and  *)
(* removed before and after the training.                                  *)
THEOREM VectorsFindThemselves == Spec => []FindsItself
<1>1. Inv => FindsItself
  <2> SUFFICES ASSUME Inv, NEW i \in Held
               PROVE  /\ i \in Lsh!Candidates(flat[i])
                      /\ centroids # <<>> => \E c \in Ivf!Probed(flat[i]) : clusters[c][i] > 0
    BY DEF FindsItself
  <2>1. i \in Ids /\ flat[i] \in Vectors /\ i \in Lsh!Stored
    BY DEF Inv, TypeOK, Copies, Held, Lsh!Stored
  <2>2. i \in Lsh!Candidates(flat[i])
    <3>1. CASE Tables = {}
      BY <2>1, <3>1 DEF Lsh!Candidates
    <3>2. CASE Tables # {}
      BY <2>1, <3>2 DEF Inv, Bucketed, Lsh!Candidates
    <3>3. QED
      BY <3>1, <3>2
  <2>3. ASSUME centroids # <<>> PROVE \E c \in Ivf!Probed(flat[i]) : clusters[c][i] > 0
    <3> DEFINE c == Ivf!Assigned(centroids, flat[i])
    <3> DEFINE nearer == {d \in Ivf!ClusterIds :
                            \/ Dist[flat[i]][centroids[d]] < Dist[flat[i]][centroids[c]]
                            \/ /\ Dist[flat[i]][centroids[d]] = Dist[flat[i]][centroids[c]]
                               /\ d < c}
    <3>1. centroids \in [Ivf!ClusterIds -> Vectors]
      BY <2>3 DEF Inv, TypeOK, Ivf!TypeOK
    <3>2. /\ c \in Ivf!ClusterIds
          /\ \A d \in Ivf!ClusterIds :
               \/ Dist[flat[i]][centroids[c]] < Dist[flat[i]][centroids[d]]
               \/ Dist[flat[i]][centroids[c]] = Dist[flat[i]][centroids[d]] /\ c <= d
      BY <2>1, <3>1, NearestExists
    <3>3. clusters[c][i] > 0
      BY <2>3 DEF Inv, Clustered
    <3>4. nearer = {}
      <4> HIDE DEF c
      <4>1. \A d \in Ivf!ClusterIds : Dist[flat[i]][centroids[d]] \in Nat /\ d \in Nat
        BY <2>1, <3>1, MultiAssumption DEF Ivf!ClusterIds
      <4>2. QED
        BY <3>2, <4>1
    <3>5. Cardinality(nearer) < NProbe
      <4> HIDE DEF nearer
      <4>1. Cardinality(nearer) = 0
        BY <3>4, FS_EmptySet
      <4>2. QED
        BY <4>1, MultiAssumption
    <3>6. c \in Ivf!Probed(flat[i])
      <4> HIDE DEF c
      <4>1. QED
        BY <2>3, <3>2, <3>5, SameCount DEF Ivf!Probed
    <3>7. QED
      BY <3>3, <3>6
  <2>4. QED
    BY <2>2, <2>3
<1>2. QED
  BY <1>1, InitInv, Inductive, PTL DEF Spec

LEMMA FlatHits ==
  ASSUME Inv, NEW q \in Vectors, NEW k \in Nat, NEW s \in FlatAnswers(q, k), NEW n \in DOMAIN s
  PROVE  s[n] \in Held
<1>1. IsFiniteSet(Held)
  BY MultiAssumption, FS_Subset DEF Held
<1>2. QED
  BY <1>1, RankedFrom, MultiAssumption DEF FlatAnswers

LEMMA HnswHits ==
  ASSUME Inv, NEW q \in Vectors, NEW s \in Hnsw!Answers(q), NEW n \in DOMAIN s
  PROVE  s[n] \in Held
<1>1. HnswInv /\ Hnsw!Stored = Held
  BY DEF Inv, TypeOK, HnswInv, Copies, Hnsw!Stored, Held
<1>2. Hnsw!Stored # {} /\ \E i \in Hnsw!Descent(q) : s = <<i>>
  BY DEF Hnsw!Answers
<1>3. QED
  BY <1>1, <1>2, DescentStays

LEMMA LshHits ==
  ASSUME Inv, again = 0, NEW q \in Vectors, NEW k \in Nat,
         NEW s \in Lsh!Answers(q, k), NEW n \in DOMAIN s
  PROVE  s[n] \in Held
<1>1. Lsh!Stored = Held /\ IsFiniteSet(Ids)
  BY MultiAssumption DEF Inv, Copies, Lsh!Stored, Held
<1>2. Lsh!Candidates(q) \subseteq Held
  <2>1. ASSUME NEW i \in Ids, NEW t \in Tables, buckets[t][Hash[t][q]][i] > 0 PROVE i \in Held
    <3>1. Hash[t][q] \in Hashes
      BY MultiAssumption
    <3>2. QED
      BY <2>1, <3>1 DEF Inv, Once
  <2>2. QED
    BY <1>1, <2>1 DEF Lsh!Candidates
<1>3. IsFiniteSet(Lsh!Candidates(q))
  BY <1>1, <1>2, FS_Subset DEF Held
<1>4. PICK score : s \in Lsh!TopRanked(Lsh!Candidates(q), score, k)
  BY DEF Lsh!Answers
<1>5. QED
  BY <1>2, <1>3, <1>4, SameRanking, RankedFrom, MultiAssumption

(* A list of IVF is one of ranked entries of clusters.                     *)
ListedEntries(E) ==
  \A e \in E : /\ e = <<e[1], e[2], 1>> /\ e[1] \in Ivf!ClusterIds /\ e[2] \in Held
              /\ clusters[e[1]][e[2]] > 0

LEMMA IvfList ==
  ASSUME Inv, again = 0, NEW q \in Vectors, NEW k \in Nat,
         NEW s \in Ivf!Answers(q, k), s # <<>>
  PROVE  \E E : /\ IsFiniteSet(E) /\ ListedEntries(E)
                /\ \E score : \E r \in Rank!TopRanked(E, score, k) : s = [m \in DOMAIN r |-> r[m][2]]
<1> DEFINE entries == UNION {{c} \X {i} \X (1..clusters[c][i]) : c \in Ivf!Probed(q), i \in Ids}
<1>1. ASSUME NEW e \in entries
      PROVE  e = <<e[1], e[2], 1>> /\ e[1] \in Ivf!ClusterIds /\ e[2] \in Held
             /\ clusters[e[1]][e[2]] > 0
  <2>1. PICK c \in Ivf!Probed(q), i \in Ids : e \in {c} \X {i} \X (1..clusters[c][i])
    OBVIOUS
  <2>2. c \in Ivf!ClusterIds /\ e = <<c, i, e[3]>> /\ e[3] \in 1..clusters[c][i]
    BY <2>1 DEF Ivf!Probed
  <2>3. clusters[c][i] \in Nat /\ clusters[c][i] <= 1 /\ (i \notin Held => clusters[c][i] = 0)
    BY <2>2 DEF Inv, TypeOK, Ivf!TypeOK, Once
  <2>4. QED
    BY <2>2, <2>3
<1>2. IsFiniteSet(entries)
  <2> DEFINE places == Ivf!ClusterIds \X Ids
  <2> DEFINE at == [e \in entries |-> <<e[1], e[2]>>]
  <2>1. IsFiniteSet(places)
    <3>1. IsFiniteSet(Ivf!ClusterIds) /\ IsFiniteSet(Ids)
      BY MultiAssumption, FS_Interval DEF Ivf!ClusterIds
    <3>2. QED
      BY <3>1, FS_Product
  <2>2. at \in Injection(entries, places)
    <3>1. at \in [entries -> places]
      BY <1>1 DEF Held
    <3>2. \A d, e \in entries : at[d] = at[e] => d = e
      BY <1>1
    <3> HIDE DEF entries, places, at
    <3>3. QED
      BY <3>1, <3>2 DEF Injection, IsInjective
  <2>3. QED
    BY <2>1, <2>2, FS_Injection
<1> DEFINE score == [e \in entries |-> IF ivfVectors[e[2]] = NoVector THEN 0
                                      ELSE Sim[q][ivfVectors[e[2]]]]
<1>3. PICK r \in Ivf!TopRanked(entries, score, k) : s = [m \in DOMAIN r |-> r[m][2]]
  <2>1. Ivf!Answers(q, k) =
          IF Ivf!Stored = {} THEN {<<>>}
          ELSE {[m \in DOMAIN r |-> r[m][2]] : r \in Ivf!TopRanked(entries, score, k)}
    BY DEF Ivf!Answers
  <2> HIDE DEF entries, score
  <2>2. QED
    BY <2>1
<1>4. r \in Rank!TopRanked(entries, score, k)
  <2> HIDE DEF entries, score
  <2>1. QED
    BY <1>3, SameRanking
<1>5. ListedEntries(entries)
  <2> HIDE DEF entries
  <2>1. QED
    BY <1>1 DEF ListedEntries
<1>6. QED
  <2> HIDE DEF entries, score
  <2>1. QED
    BY <1>2, <1>3, <1>4, <1>5

LEMMA IvfHits ==
  ASSUME Inv, again = 0, NEW q \in Vectors, NEW k \in Nat,
         NEW s \in Ivf!Answers(q, k), NEW n \in DOMAIN s
  PROVE  s[n] \in Held
<1>1. s # <<>>
  OBVIOUS
<1>2. PICK E : /\ IsFiniteSet(E) /\ ListedEntries(E)
               /\ \E score : \E r \in Rank!TopRanked(E, score, k) : s = [m \in DOMAIN r |-> r[m][2]]
  BY <1>1, IvfList
<1>3. PICK score : \E r \in Rank!TopRanked(E, score, k) : s = [m \in DOMAIN r |-> r[m][2]]
  BY <1>2
<1>4. PICK r \in Rank!TopRanked(E, score, k) : s = [m \in DOMAIN r |-> r[m][2]]
  BY <1>3
<1>5. n \in DOMAIN r /\ r[n] \in E
  BY <1>2, <1>4, RankedFrom
<1>6. QED
  BY <1>2, <1>4, <1>5 DEF ListedEntries

(* No structure answers with a removed vector, unless some ID was inserted *)
(* twice: buckets and clusters list stored vectors only, and the descent   *)
(* through the graph stays among them (lsh.go:161, ivf.go:219).            *)
THEOREM RemovedIsNotFound == Spec => []HitsHeld
<1>1. Inv => HitsHeld
  <2> SUFFICES ASSUME Inv, again = 0, NEW q \in Vectors, NEW kind \in Kinds,
                      NEW s \in Answers(kind, q, MaxTopK), NEW n \in DOMAIN s
               PROVE  s[n] \in Held
    BY DEF HitsHeld
  <2>1. QED
    BY FlatHits, HnswHits, LshHits, IvfHits, MultiAssumption DEF Answers, Kinds
<1>2. QED
  BY <1>1, InitInv, Inductive, PTL DEF Spec

-----------------------------------------------------------------------------
(* Numbers, and functions defined by recursion on them.                    *)

LEMMA AllNumbers ==
  ASSUME NEW S \in SUBSET Nat, 0 \in S, \A n \in S : n + 1 \in S
  PROVE  \A n \in Nat : n \in S
<1> SUFFICES ASSUME Nat \ S # {} PROVE FALSE
  OBVIOUS
<1>1. PICK m \in Nat \ S : \A n \in Nat \ S : m <= n
  BY LeastNatural
<1>2. m # 0 /\ m - 1 \in Nat /\ ~(m <= m - 1) /\ (m - 1) + 1 = m
  BY <1>1
<1>3. m - 1 \in S
  BY <1>1, <1>2
<1> QED BY <1>1, <1>2, <1>3

(* From a first value and a step there is a function on 0..n.              *)
Steps(f, b, step, n) == f[0] = b /\ \A i \in 1..n : f[i] = step[<<i, f[i - 1]>>]

LEMMA StepByStep ==
  ASSUME NEW G, NEW b \in G, NEW step \in [Nat \X G -> G]
  PROVE  \A n \in Nat : \E f \in [0..n -> G] : Steps(f, b, step, n)
<1> DEFINE S == {n \in Nat : \E f \in [0..n -> G] : Steps(f, b, step, n)}
<1>1. 0 \in S
  <2>1. [i \in 0..0 |-> b] \in [0..0 -> G] /\ Steps([i \in 0..0 |-> b], b, step, 0)
    BY DEF Steps
  <2> QED BY <2>1
<1>2. ASSUME NEW n \in S PROVE n + 1 \in S
  <2>1. PICK f \in [0..n -> G] : Steps(f, b, step, n)
    OBVIOUS
  <2> DEFINE g == [i \in 0..n + 1 |-> IF i = n + 1 THEN step[<<n + 1, f[n]>>] ELSE f[i]]
  <2>2. n \in Nat /\ n + 1 \in Nat /\ f[n] \in G
    OBVIOUS
  <2>3. g \in [0..n + 1 -> G]
    <3>1. step[<<n + 1, f[n]>>] \in G
      BY <2>2
    <3>2. \A i \in 0..n + 1 : i # n + 1 => i \in 0..n
      BY <2>2
    <3> QED BY <3>1, <3>2
  <2>4. ASSUME NEW i \in 1..n + 1 PROVE g[i] = step[<<i, g[i - 1]>>]
    <3>1. CASE i = n + 1
      <4>1. g[i] = step[<<n + 1, f[n]>>] /\ g[i - 1] = f[n]
        BY <2>2, <3>1
      <4> QED BY <3>1, <4>1
    <3>2. CASE i # n + 1
      <4>1. i \in 1..n /\ i - 1 \in 0..n /\ g[i] = f[i] /\ g[i - 1] = f[i - 1]
        BY <2>2, <3>2
      <4> QED BY <2>1, <4>1 DEF Steps
    <3> QED BY <3>1, <3>2
  <2>5. g[0] = b
    BY <2>1, <2>2 DEF Steps
  <2> HIDE DEF g
  <2>6. Steps(g, b, step, n + 1)
    BY <2>4, <2>5 DEF Steps
  <2> QED BY <2>2, <2>3, <2>6
<1> HIDE DEF S
<1>3. \A n \in Nat : n \in S
  <2>1. S \in SUBSET Nat
    BY DEF S
  <2> QED BY <1>1, <1>2, <2>1, AllNumbers
<1> QED BY <1>3 DEF S

-----------------------------------------------------------------------------
(* Sums.                                                                   *)

LEMMA TotalIs ==
  ASSUME NEW f, NEW n \in Nat, Len(f) = n, \A j \in 1..n : f[j] \in Nat
  PROVE  \E sum \in [0..n -> Nat] :
           sum[0] = 0 /\ (\A j \in 1..n : sum[j] = sum[j - 1] + f[j]) /\ Total(f) = sum[n]
<1> DEFINE step == [x \in Nat \X Nat |-> IF x[1] \in 1..n THEN x[2] + f[x[1]] ELSE 0]
           sum[j \in 0..Len(f)] == IF j = 0 THEN 0 ELSE sum[j - 1] + f[j]
<1>1. step \in [Nat \X Nat -> Nat]
  OBVIOUS
<1>2. PICK g \in [0..n -> Nat] : Steps(g, 0, step, n)
  <2> HIDE DEF step
  <2> QED BY <1>1, StepByStep
<1>3. ASSUME NEW j \in 1..n PROVE g[j] = g[j - 1] + f[j]
  <2>1. j \in Nat /\ g[j - 1] \in Nat
    OBVIOUS
  <2>2. g[j] = step[<<j, g[j - 1]>>]
    BY <1>2 DEF Steps
  <2> QED BY <2>1, <2>2
<1>4. g[0] = 0
  BY <1>2 DEF Steps
<1> HIDE DEF step
<1>5. g = [j \in 0..Len(f) |-> IF j = 0 THEN 0 ELSE g[j - 1] + f[j]]
  <2>1. ASSUME NEW j \in 0..n PROVE g[j] = IF j = 0 THEN 0 ELSE g[j - 1] + f[j]
    <3>1. j # 0 => j \in 1..n
      OBVIOUS
    <3> QED BY <1>3, <1>4, <3>1
  <2> QED BY <2>1
<1>6. sum = [j \in 0..Len(f) |-> IF j = 0 THEN 0 ELSE sum[j - 1] + f[j]]
  BY <1>5
<1>7. Total(f) = sum[n]
  BY DEF Total
<1> HIDE DEF sum
<1>8. sum[0] = 0 /\ \A j \in 1..n : sum[j] = sum[j - 1] + f[j]
  <2>1. 0 \in 0..n /\ \A j \in 1..n : j \in 0..n /\ j # 0
    OBVIOUS
  <2> QED BY <1>6, <2>1
<1>9. ASSUME NEW j \in 0..n PROVE sum[j] \in Nat
  <2> DEFINE A == {i \in Nat : i \in 0..n => sum[i] \in Nat}
  <2>1. 0 \in A
    BY <1>8
  <2>2. ASSUME NEW i \in A PROVE i + 1 \in A
    <3> SUFFICES ASSUME i + 1 \in 0..n PROVE sum[i + 1] \in Nat
      OBVIOUS
    <3>1. i \in 0..n /\ i + 1 \in 1..n /\ (i + 1) - 1 = i /\ sum[i] \in Nat
      OBVIOUS
    <3>2. sum[i + 1] = sum[i] + f[i + 1] /\ f[i + 1] \in Nat
      BY <1>8, <3>1
    <3> QED BY <3>1, <3>2
  <2>3. A \in SUBSET Nat
    OBVIOUS
  <2>4. \A i \in Nat : i \in A
    <3> HIDE DEF A
    <3> QED BY <2>1, <2>2, <2>3, AllNumbers
  <2> QED BY <2>4
<1>10. sum \in [0..n -> Nat]
  <2>1. sum = [j \in 0..n |-> sum[j]]
    <3> DEFINE F(j) == IF j = 0 THEN 0 ELSE sum[j - 1] + f[j]
    <3>1. sum = [j \in 0..n |-> F(j)]
      BY <1>6
    <3> HIDE DEF F
    <3> QED BY <3>1
  <2> QED BY <1>9, <2>1
<1> QED BY <1>7, <1>8, <1>10

(* The sum of more of each is more.                                        *)
LEMMA TotalLess ==
  ASSUME NEW f, NEW g, NEW n \in Nat \ {0}, Len(f) = n, Len(g) = n,
         \A j \in 1..n : f[j] \in Nat /\ g[j] \in Nat /\ f[j] < g[j]
  PROVE  Total(f) \in Nat /\ Total(g) \in Nat /\ Total(f) < Total(g)
<1>1. PICK s \in [0..n -> Nat] :
        s[0] = 0 /\ (\A j \in 1..n : s[j] = s[j - 1] + f[j]) /\ Total(f) = s[n]
  BY TotalIs
<1>2. PICK t \in [0..n -> Nat] :
        t[0] = 0 /\ (\A j \in 1..n : t[j] = t[j - 1] + g[j]) /\ Total(g) = t[n]
  BY TotalIs
<1> DEFINE A == {i \in Nat : i + 1 \in 1..n => s[i + 1] < t[i + 1]}
<1>3. 0 \in A
  <2>1. s[1] = f[1] /\ t[1] = g[1] /\ 1 \in 1..n
    BY <1>1, <1>2
  <2> QED BY <2>1
<1>4. ASSUME NEW i \in A PROVE i + 1 \in A
  <2> SUFFICES ASSUME (i + 1) + 1 \in 1..n PROVE s[(i + 1) + 1] < t[(i + 1) + 1]
    OBVIOUS
  <2> DEFINE m == i + 1
  <2>1. m \in 1..n /\ m \in 0..n /\ m + 1 \in 1..n /\ (m + 1) - 1 = m /\ s[m] < t[m]
    OBVIOUS
  <2> HIDE DEF m
  <2>2. s[m + 1] = s[m] + f[m + 1] /\ t[m + 1] = t[m] + g[m + 1]
    BY <1>1, <1>2, <2>1
  <2>3. s[m] \in Nat /\ t[m] \in Nat /\ f[m + 1] \in Nat /\ g[m + 1] \in Nat /\ f[m + 1] < g[m + 1]
    BY <2>1
  <2>4. s[m + 1] < t[m + 1]
    <3> DEFINE a == s[m]
               b == t[m]
               c == f[m + 1]
               d == g[m + 1]
    <3>1. s[m + 1] = a + c /\ t[m + 1] = b + d
      BY <2>2
    <3>2. a \in Nat /\ b \in Nat /\ c \in Nat /\ d \in Nat /\ a < b /\ c < d
      BY <2>1, <2>3
    <3> HIDE DEF a, b, c, d
    <3>3. a + c < b + d
      BY <3>2
    <3> QED BY <3>1, <3>3
  <2> QED BY <2>4 DEF m
<1>5. A \in SUBSET Nat
  OBVIOUS
<1>6. n - 1 \in A
  <2>1. n - 1 \in Nat
    OBVIOUS
  <2> HIDE DEF A
  <2> QED BY <1>3, <1>4, <1>5, <2>1, AllNumbers
<1>7. s[n] < t[n] /\ n \in 0..n
  BY <1>6
<1> QED BY <1>1, <1>2, <1>7

(* A sum has only the number that is not 0.                                *)
LEMMA TotalOne ==
  ASSUME NEW f, Len(f) \in Nat, NEW p \in 0..Len(f), NEW v \in Nat,
         \A j \in 1..Len(f) : f[j] = IF j = p THEN v ELSE 0
  PROVE  Total(f) = IF p = 0 THEN 0 ELSE v
<1> DEFINE n == Len(f)
<1>1. PICK s \in [0..n -> Nat] :
        s[0] = 0 /\ (\A j \in 1..n : s[j] = s[j - 1] + f[j]) /\ Total(f) = s[n]
  <2>1. \A j \in 1..n : f[j] \in Nat
    OBVIOUS
  <2> QED BY <2>1, TotalIs
<1> DEFINE A == {i \in Nat : i \in 0..n => s[i] = IF p = 0 \/ i < p THEN 0 ELSE v}
<1>2. 0 \in A
  BY <1>1
<1>3. ASSUME NEW i \in A PROVE i + 1 \in A
  <2> SUFFICES ASSUME i + 1 \in 0..n PROVE s[i + 1] = IF p = 0 \/ i + 1 < p THEN 0 ELSE v
    OBVIOUS
  <2>1. i \in 0..n /\ i + 1 \in 1..n /\ (i + 1) - 1 = i /\ s[i] = IF p = 0 \/ i < p THEN 0 ELSE v
    OBVIOUS
  <2>2. s[i + 1] = s[i] + f[i + 1] /\ f[i + 1] = IF i + 1 = p THEN v ELSE 0
    BY <1>1, <2>1
  <2> QED BY <2>1, <2>2
<1>4. A \in SUBSET Nat
  OBVIOUS
<1>5. n \in A
  <2> HIDE DEF A
  <2> QED BY <1>2, <1>3, <1>4, AllNumbers
<1> QED BY <1>1, <1>5

-----------------------------------------------------------------------------
(* The fusion of ranked lists.                                             *)

NoneTwice(s) == \A i, j \in 1..Len(s) : s[i] = s[j] => i = j

(* The first place weighs more than any other.                             *)
LEMMA PlaceWeight ==
  ASSUME NEW p \in Nat, p >= 1
  PROVE  PlaceScore(p) \in Nat /\ (p # 1 => PlaceScore(p) < PlaceScore(1))
<1> DEFINE d == 60 + p
           w == 1000000 \div d
<1>1. d \in Nat /\ d >= 61 /\ (p # 1 => d >= 62)
  OBVIOUS
<1>2. PlaceScore(p) = w /\ PlaceScore(1) = 16393
  BY SMT DEF PlaceScore
<1> HIDE DEF d
<1>3. w \in Nat /\ d * w <= 1000000
  BY <1>1, SMT
<1> HIDE DEF w
<1>4. ASSUME d >= 62, w >= 16393 PROVE FALSE
  <2> DEFINE x == d * w
  <2>1. x \in Nat /\ x >= 62 * w
    BY <1>1, <1>3, <1>4, SMT
  <2>2. x <= 1000000
    BY <1>3, SMT
  <2> HIDE DEF x
  <2> QED BY <1>3, <1>4, <2>1, <2>2, SMT
<1> QED BY <1>1, <1>2, <1>3, <1>4, SMT

(* An ID that is once in the list has the weight of its place.             *)
LEMMA RankScoreIs ==
  ASSUME NEW T, NEW list \in Seq(T), NoneTwice(list), NEW i, NEW p \in 0..Len(list),
         IF p = 0 THEN \A n \in 1..Len(list) : list[n] # i ELSE list[p] = i
  PROVE  RankScore(list, i) = IF p = 0 THEN 0 ELSE PlaceScore(p)
<1> DEFINE l == Len(list)
           f == [n \in 1..l |-> IF list[n] = i THEN PlaceScore(n) ELSE 0]
           v == IF p = 0 THEN 0 ELSE PlaceScore(p)
<1>1. l \in Nat
  OBVIOUS
<1>2. RankScore(list, i) = Total(f)
  BY DEF RankScore
<1>3. v \in Nat
  BY <1>1, PlaceWeight
<1>4. ASSUME NEW j \in 1..l PROVE f[j] = IF j = p THEN v ELSE 0
  <2>1. list[j] = i <=> j = p
    BY <1>1 DEF NoneTwice
  <2> QED BY <2>1
<1>5. Len(f) = l
  BY <1>1
<1> HIDE DEF f, v
<1>6. Total(f) = IF p = 0 THEN 0 ELSE v
  <2>1. /\ Len(f) \in Nat /\ p \in 0..Len(f)
        /\ \A j \in 1..Len(f) : f[j] = IF j = p THEN v ELSE 0
    BY <1>1, <1>4, <1>5
  <2> QED BY <1>3, <2>1, TotalOne
<1> QED BY <1>2, <1>6 DEF v

LEMMA RankedList ==
  ASSUME NEW S, IsFiniteSet(S), NEW score, NEW k \in Nat, NEW s \in Rank!TopRanked(S, score, k)
  PROVE  /\ s \in Seq(S) /\ NoneTwice(s)
         /\ Len(s) = IF Cardinality(S) < k THEN Cardinality(S) ELSE k
         /\ Len(s) # 0 => \A x \in S : x = s[1] \/ score[s[1]] >= score[x]
<1> DEFINE c == Cardinality(S)
<1>1. PICK r \in [1..c -> S] :
        /\ \A i, j \in DOMAIN r : i < j => r[i] # r[j] /\ score[r[i]] >= score[r[j]]
        /\ s = Rank!Cut(r, k)
  BY SameCount DEF Rank!TopRanked, Rank!Ranked
<1>2. c \in Nat
  BY FS_CardinalityType
<1>3. r \in Seq(S) /\ Len(r) = c /\ DOMAIN r = 1..c
  BY <1>2
<1>4. /\ s \in Seq(S) /\ Len(s) = (IF c < k THEN c ELSE k)
      /\ \A i \in 1..Len(s) : s[i] = r[i] /\ i \in 1..c
  BY <1>1, <1>2, <1>3 DEF Rank!Cut
<1>5. \A i, j \in 1..c : r[i] = r[j] => i = j
  BY <1>1, <1>2, <1>3
<1>6. NoneTwice(s)
  BY <1>4, <1>5 DEF NoneTwice
<1>7. ASSUME Len(s) # 0, NEW x \in S PROVE x = s[1] \/ score[s[1]] >= score[x]
  <2>1. r \in Surjection(1..c, S)
    <3>1. IsFiniteSet(1..c) /\ Cardinality(1..c) = c
      BY <1>2, FS_Interval
    <3>2. r \in Injection(1..c, S)
      BY <1>5 DEF Injection, IsInjective
    <3> QED BY <3>1, <3>2, FS_Injection
  <2>2. PICK j \in 1..c : r[j] = x
    BY <2>1 DEF Surjection
  <2>3. 1 \in 1..Len(s) /\ s[1] = r[1] /\ 1 \in 1..c
    BY <1>2, <1>4, <1>7
  <2> QED BY <1>1, <1>3, <2>2, <2>3
<1> HIDE DEF c
<1> QED BY <1>4, <1>6, <1>7 DEF c

-----------------------------------------------------------------------------
(* As long as no ID was inserted twice, none is in two clusters, and so    *)
(* every list has an ID once.                                              *)

OneCluster ==
  again = 0 => \A i \in Ids : \A c, d \in Ivf!ClusterIds :
                 clusters[c][i] > 0 /\ clusters[d][i] > 0 => c = d

LEMMA OneClusterInit == Init => OneCluster
BY DEF Init, Ivf!Init, OneCluster

LEMMA OneClusterStep == Inv /\ OneCluster /\ [Next]_vars => OneCluster'
<1> SUFFICES ASSUME Inv, OneCluster, [Next]_vars, again' = 0,
                    NEW j \in Ids, NEW c \in Ivf!ClusterIds, NEW d \in Ivf!ClusterIds,
                    clusters'[c][j] > 0, clusters'[d][j] > 0
             PROVE  c = d
  BY DEF OneCluster
<1>1. clusters \in [Ivf!ClusterIds -> [Ids -> Nat]] /\ again \in Nat
  BY DEF Inv, TypeOK, Ivf!TypeOK
<1>2. ASSUME NEW i \in Ids, NEW v \in Vectors, Insert(v, i) PROVE c = d
  <2> DEFINE a == Ivf!Assigned(centroids, v)
  <2>1. again = 0 /\ i \notin Held /\ clusters' = [clusters EXCEPT ![a][i] = @ + 1]
    BY <1>1, <1>2 DEF Insert, Ivf!Insert
  <2> HIDE DEF a
  <2>2. \A e \in Ivf!ClusterIds : clusters[e][i] = 0
    BY <2>1 DEF Inv, Once
  <2>3. CASE j = i
    <3>1. \A e \in Ivf!ClusterIds : e # a => clusters'[e][i] = 0
      BY <1>1, <2>1, <2>2
    <3> QED BY <2>3, <3>1
  <2>4. CASE j # i
    <3>1. \A e \in Ivf!ClusterIds : clusters'[e][j] = clusters[e][j]
      BY <1>1, <2>1, <2>4
    <3> QED BY <2>1, <3>1 DEF OneCluster
  <2> QED BY <2>3, <2>4
<1>3. ASSUME NEW i \in Ids, Remove(i) PROVE c = d
  <2>1. again = 0 /\ clusters' = [e \in Ivf!ClusterIds |->
                                   [clusters[e] EXCEPT ![i] = IF @ > 0 THEN @ - 1 ELSE 0]]
    BY <1>3 DEF Remove, Ivf!Remove
  <2>2. \A e \in Ivf!ClusterIds : clusters'[e][j] > 0 => clusters[e][j] > 0
    BY <1>1, <2>1
  <2> QED BY <2>1, <2>2 DEF OneCluster
<1>4. ASSUME Train PROVE c = d
  <2>1. clusters' = [e \in Ivf!ClusterIds |-> [i \in Ids |->
           IF i \in Ivf!Stored /\ Ivf!Assigned(centroids', ivfVectors[i]) = e THEN 1 ELSE 0]]
    BY <1>4 DEF Train, Ivf!Train
  <2> DEFINE a == Ivf!Assigned(centroids', ivfVectors[j])
  <2>2. \A e \in Ivf!ClusterIds : e # a => clusters'[e][j] = 0
    BY <2>1
  <2> HIDE DEF a
  <2> QED BY <2>2
<1>5. ASSUME UNCHANGED vars PROVE c = d
  BY <1>5 DEF vars, OneCluster
<1> QED BY <1>2, <1>3, <1>4, <1>5 DEF Next

LEMMA ListsOK ==
  ASSUME Inv, OneCluster, again = 0, NEW q \in Vectors, NEW kind \in Kinds, NEW k \in Nat,
         NEW s \in Answers(kind, q, k)
  PROVE  /\ s \in Seq(Held) /\ NoneTwice(s)
         /\ kind = "flat" => Len(s) = IF Cardinality(Held) < k THEN Cardinality(Held) ELSE k
<1>1. IsFiniteSet(Held) /\ IsFiniteSet(Ids) /\ Held \subseteq Ids
  BY MultiAssumption, FS_Subset DEF Held
<1>2. <<>> \in Seq(Held) /\ NoneTwice(<<>>) /\ \A i \in Held : <<i>> \in Seq(Held) /\ NoneTwice(<<i>>)
  BY DEF NoneTwice
<1>3. CASE kind = "flat"
  <2>1. s \in FlatAnswers(q, k)
    BY <1>3 DEF Answers
  <2> QED BY <1>1, <2>1, RankedList DEF FlatAnswers
<1>4. CASE kind = "hnsw"
  <2>1. s \in Hnsw!Answers(q)
    BY <1>4 DEF Answers
  <2>2. s = <<>> \/ \E i : s = <<i>>
    BY <2>1 DEF Hnsw!Answers
  <2>3. ASSUME NEW i, s = <<i>> PROVE i \in Held
    <3>1. 1 \in DOMAIN s /\ s[1] = i
      BY <2>3
    <3> QED BY <2>1, <3>1, HnswHits
  <2> QED BY <1>2, <1>4, <2>2, <2>3
<1>5. CASE kind = "lsh"
  <2>1. s \in Lsh!Answers(q, k)
    BY <1>5 DEF Answers
  <2>2. CASE s = <<>>
    BY <1>2, <1>5, <2>2
  <2>3. CASE s # <<>>
    <3>1. PICK score : s \in Rank!TopRanked(Lsh!Candidates(q), score, k)
      BY <2>1, <2>3, SameRanking DEF Lsh!Answers
    <3>2. IsFiniteSet(Lsh!Candidates(q))
      <4>1. Lsh!Candidates(q) \subseteq Ids
        BY DEF Lsh!Candidates, Lsh!Stored
      <4> QED BY <1>1, <4>1, FS_Subset
    <3>3. s \in Seq(Lsh!Candidates(q)) /\ NoneTwice(s)
      BY <3>1, <3>2, RankedList
    <3>4. Len(s) \in Nat /\ DOMAIN s = 1..Len(s)
      BY <3>3
    <3>5. \A n \in 1..Len(s) : s[n] \in Held
      BY <2>1, <3>4, LshHits
    <3>6. s \in Seq(Held)
      BY <3>3, <3>4, <3>5
    <3> QED BY <1>5, <3>3, <3>6
  <2> QED BY <2>2, <2>3
<1>6. CASE kind = "ivf"
  <2>1. s \in Ivf!Answers(q, k)
    BY <1>6 DEF Answers
  <2>2. CASE s = <<>>
    BY <1>2, <1>6, <2>2
  <2>3. CASE s # <<>>
    <3>1. PICK E : /\ IsFiniteSet(E) /\ ListedEntries(E)
                  /\ \E score : \E r \in Rank!TopRanked(E, score, k) : s = [m \in DOMAIN r |-> r[m][2]]
      BY <2>1, <2>3, IvfList
    <3>2. PICK score : \E r \in Rank!TopRanked(E, score, k) : s = [m \in DOMAIN r |-> r[m][2]]
      BY <3>1
    <3>3. PICK r \in Rank!TopRanked(E, score, k) : s = [m \in DOMAIN r |-> r[m][2]]
      BY <3>2
    <3>4. r \in Seq(E) /\ NoneTwice(r)
      BY <3>1, RankedList
    <3>5. Len(r) \in Nat /\ DOMAIN r = 1..Len(r) /\ \A m \in 1..Len(r) : r[m] \in E
      <4>1. r \in [1..Len(r) -> E] /\ Len(r) \in Nat
        BY <3>4
      <4> QED BY <4>1
    <3>6. \A d, e \in E : d[2] = e[2] => d = e
      <4> SUFFICES ASSUME NEW d \in E, NEW e \in E, d[2] = e[2] PROVE d = e
        OBVIOUS
      <4>1. d[1] = e[1]
        BY <1>1, <3>1 DEF OneCluster, ListedEntries
      <4> QED BY <3>1, <4>1 DEF ListedEntries
    <3>7. s = [m \in 1..Len(r) |-> r[m][2]] /\ \A m \in 1..Len(r) : r[m][2] \in Held
      BY <3>1, <3>3, <3>5 DEF ListedEntries
    <3>8. s \in Seq(Held) /\ Len(s) = Len(r)
      BY <3>5, <3>7
    <3>9. NoneTwice(s)
      BY <3>4, <3>5, <3>6, <3>7, <3>8 DEF NoneTwice
    <3> QED BY <1>6, <3>8, <3>9
  <2> QED BY <2>2, <2>3
<1> QED BY <1>3, <1>4, <1>5, <1>6 DEF Kinds

LEMMA MembersAnswer ==
  ASSUME NEW kinds \in MemberLists, NEW q, NEW k, NEW lists \in MemberAnswers(kinds, q, k)
  PROVE  /\ Len(lists) \in Nat \ {0} /\ DOMAIN lists = 1..Len(lists)
         /\ Len(kinds) = Len(lists) /\ DOMAIN kinds = 1..Len(lists)
         /\ \A n \in 1..Len(lists) : kinds[n] \in Kinds /\ lists[n] \in Answers(kinds[n], q, k)
<1>1. kinds \in Seq(Kinds) /\ kinds # <<>>
  BY MultiAssumption
<1>2. Len(kinds) \in Nat \ {0} /\ DOMAIN kinds = 1..Len(kinds) /\ \A n \in 1..Len(kinds) : kinds[n] \in Kinds
  BY <1>1
<1>3. DOMAIN lists = DOMAIN kinds /\ \A n \in DOMAIN kinds : lists[n] \in Answers(kinds[n], q, k)
  BY DEF MemberAnswers
<1>4. Len(lists) = Len(kinds)
  BY <1>2, <1>3
<1> QED BY <1>2, <1>3, <1>4

(* The IDs of the lists, and their ranking.                                *)
Listed(lists) == {i \in Ids : \E n \in 1..Len(lists) : \E j \in 1..Len(lists[n]) : lists[n][j] = i}

Score(lists, i) == Total([n \in 1..Len(lists) |-> RankScore(lists[n], i)])

LEMMA FusedIs ==
  ASSUME NEW lists, Len(lists) \in Nat, DOMAIN lists = 1..Len(lists),
         \A n \in 1..Len(lists) : lists[n] \in Seq(Held), NEW k \in Nat, NEW s \in Fused(lists, k)
  PROVE  /\ Listed(lists) \subseteq Held /\ IsFiniteSet(Listed(lists)) /\ IsFiniteSet(Held)
         /\ s \in Seq(Listed(lists)) /\ NoneTwice(s)
         /\ LET c == Cardinality(Listed(lists)) IN Len(s) = IF c < k THEN c ELSE k
         /\ Len(s) # 0 => \A x \in Listed(lists) : x = s[1] \/ Score(lists, s[1]) >= Score(lists, x)
<1> DEFINE ids == UNION {Range(lists[n]) : n \in DOMAIN lists}
           score == [i \in ids |-> Score(lists, i)]
<1>1. \A n \in 1..Len(lists) : /\ Len(lists[n]) \in Nat /\ DOMAIN lists[n] = 1..Len(lists[n])
                               /\ \A j \in 1..Len(lists[n]) : lists[n][j] \in Held
  OBVIOUS
<1>2. IsFiniteSet(Ids) /\ Held \subseteq Ids
  BY MultiAssumption DEF Held
<1>3. Listed(lists) \subseteq Held
  BY <1>1 DEF Listed
<1>4. ids = Listed(lists)
  <2>1. ASSUME NEW i
        PROVE  i \in ids <=> \E n \in 1..Len(lists) : \E j \in 1..Len(lists[n]) : lists[n][j] = i
    <3>1. i \in ids <=> \E n \in 1..Len(lists) : i \in Range(lists[n])
      OBVIOUS
    <3>2. ASSUME NEW n \in 1..Len(lists)
          PROVE  i \in Range(lists[n]) <=> \E j \in 1..Len(lists[n]) : lists[n][j] = i
      <4>1. DOMAIN lists[n] = 1..Len(lists[n])
        BY <1>1
      <4> QED BY <4>1, Zenon DEF Range
    <3> QED BY <3>1, <3>2, Zenon
  <2> HIDE DEF ids
  <2> QED BY <1>1, <1>2, <2>1 DEF Listed
<1>5. IsFiniteSet(Listed(lists)) /\ IsFiniteSet(Held)
  BY <1>2, <1>3, FS_Subset
<1>6. s \in Rank!TopRanked(ids, score, k)
  BY DEF Fused, Score
<1> HIDE DEF ids, score
<1>7. /\ s \in Seq(ids) /\ NoneTwice(s)
      /\ Len(s) = IF Cardinality(ids) < k THEN Cardinality(ids) ELSE k
      /\ Len(s) # 0 => \A x \in ids : x = s[1] \/ score[s[1]] >= score[x]
  BY <1>4, <1>5, <1>6, RankedList
<1>8. ASSUME Len(s) # 0, NEW x \in ids
      PROVE  x = s[1] \/ Score(lists, s[1]) >= Score(lists, x)
  <2>1. s[1] \in ids
    BY <1>7, <1>8
  <2>2. \A y \in ids : score[y] = Score(lists, y)
    BY DEF score
  <2> QED BY <1>7, <1>8, <2>1, <2>2
<1> QED BY <1>3, <1>4, <1>5, <1>7, <1>8

-----------------------------------------------------------------------------
(* Full and unanimous answers.                                             *)

Full(s, k) == /\ Len(s) = IF Cardinality(Held) < k THEN Cardinality(Held) ELSE k
              /\ IsInjective(s)

LEMMA OnceInjective ==
  ASSUME NEW T, NEW s \in Seq(T), NoneTwice(s)
  PROVE  IsInjective(s)
<1>1. DOMAIN s = 1..Len(s)
  OBVIOUS
<1> QED BY <1>1 DEF NoneTwice, IsInjective

(* A list without repetition names as many IDs as it is long.              *)
LEMMA ListCounts ==
  ASSUME NEW T, IsFiniteSet(T), NEW s \in Seq(T), NoneTwice(s)
  PROVE  Len(s) <= Cardinality(T)
<1>1. Len(s) \in Nat /\ s \in [1..Len(s) -> T]
  OBVIOUS
<1>2. s \in Injection(1..Len(s), T)
  BY <1>1 DEF NoneTwice, Injection, IsInjective
<1>3. Cardinality(1..Len(s)) = Len(s)
  BY <1>1, FS_Interval
<1> QED BY <1>2, <1>3, FS_Injection

LEMMA FillsUp ==
  ASSUME Inv, OneCluster, again = 0, NEW kinds \in MemberLists, NEW q \in Vectors,
         NEW k \in Nat, "flat" \in Range(kinds), NEW s \in Search(kinds, q, k)
  PROVE  Full(s, k)
<1>1. kinds \in Seq(Kinds) /\ kinds # <<>>
  BY MultiAssumption
<1>2. Len(kinds) \in Nat \ {0} /\ DOMAIN kinds = 1..Len(kinds)
  BY <1>1
<1>3. CASE Len(kinds) = 1
  <2>1. kinds[1] = "flat" /\ "flat" \in Kinds
    BY <1>2, <1>3 DEF Range, Kinds
  <2>2. s \in Answers("flat", q, k)
    BY <1>3, <2>1 DEF Search
  <2> QED BY <2>1, <2>2, ListsOK, OnceInjective DEF Full
<1>4. CASE Len(kinds) # 1
  <2>1. PICK lists \in MemberAnswers(kinds, q, 2 * k) : s \in Fused(lists, k)
    BY <1>4 DEF Search
  <2>2. /\ Len(lists) \in Nat \ {0} /\ DOMAIN lists = 1..Len(lists)
        /\ Len(kinds) = Len(lists) /\ DOMAIN kinds = 1..Len(lists)
        /\ \A n \in 1..Len(lists) : kinds[n] \in Kinds /\ lists[n] \in Answers(kinds[n], q, 2 * k)
    BY MembersAnswer
  <2>3. 2 * k \in Nat
    OBVIOUS
  <2>4. \A n \in 1..Len(lists) : lists[n] \in Seq(Held) /\ NoneTwice(lists[n])
    BY <2>2, <2>3, ListsOK
  <2> DEFINE L == Listed(lists)
             c == Cardinality(L)
             h == Cardinality(Held)
  <2>5. /\ L \subseteq Held /\ IsFiniteSet(L) /\ IsFiniteSet(Held)
        /\ s \in Seq(L) /\ NoneTwice(s) /\ Len(s) = IF c < k THEN c ELSE k
    BY <2>1, <2>2, <2>4, FusedIs
  <2>6. c \in Nat /\ h \in Nat /\ c <= h
    BY <2>5, FS_Subset, FS_CardinalityType
  <2>7. PICK n \in 1..Len(lists) : kinds[n] = "flat"
    BY <2>2 DEF Range
  <2>8. Len(lists[n]) = IF h < 2 * k THEN h ELSE 2 * k
    BY <2>2, <2>3, <2>7, ListsOK
  <2>9. Len(lists[n]) <= c
    <3>1. lists[n] \in Seq(L)
      <4>1. lists[n] \in Seq(Held) /\ Held \subseteq Ids
        BY <2>4 DEF Held
      <4>2. Len(lists[n]) \in Nat /\ lists[n] \in [1..Len(lists[n]) -> Held]
        BY <4>1
      <4>3. \A j \in 1..Len(lists[n]) : lists[n][j] \in L
        BY <4>1, <4>2 DEF Listed
      <4> HIDE DEF L
      <4> QED BY <4>1, <4>2, <4>3
    <3> HIDE DEF L
    <3>2. NoneTwice(lists[n])
      BY <2>4
    <3> QED BY <2>5, <3>1, <3>2, ListCounts
  <2> HIDE DEF L, c, h
  <2>10. Len(s) = IF h < k THEN h ELSE k
    BY <2>5, <2>6, <2>8, <2>9
  <2>11. IsInjective(s)
    BY <2>5, OnceInjective
  <2> QED BY <2>10, <2>11 DEF Full, h
<1> QED BY <1>3, <1>4

LEMMA WinnerWins ==
  ASSUME Inv, OneCluster, again = 0, NEW kinds \in MemberLists, NEW q \in Vectors,
         NEW k \in Nat \ {0}, NEW lists \in MemberAnswers(kinds, q, 2 * k),
         \A n \in DOMAIN lists : lists[n] # <<>> /\ lists[n][1] = lists[1][1],
         NEW s \in Fused(lists, k)
  PROVE  s[1] = lists[1][1]
<1> DEFINE x == lists[1][1]
           N == Len(lists)
<1>1. /\ N \in Nat \ {0} /\ DOMAIN lists = 1..N
      /\ \A n \in 1..N : kinds[n] \in Kinds /\ lists[n] \in Answers(kinds[n], q, 2 * k)
  BY MembersAnswer
<1>2. \A n \in 1..N : lists[n] \in Seq(Held) /\ NoneTwice(lists[n])
  BY <1>1, ListsOK
<1>3. \A n \in 1..N : Len(lists[n]) \in Nat /\ Len(lists[n]) >= 1 /\ lists[n][1] = x
  <2> SUFFICES ASSUME NEW n \in 1..N PROVE Len(lists[n]) \in Nat /\ Len(lists[n]) >= 1 /\ lists[n][1] = x
    OBVIOUS
  <2>1. lists[n] \in Seq(Held) /\ lists[n] # <<>> /\ lists[n][1] = x
    BY <1>1, <1>2
  <2> QED BY <2>1
<1>4. /\ Listed(lists) \subseteq Held /\ IsFiniteSet(Listed(lists))
      /\ s \in Seq(Listed(lists))
      /\ Len(s) = IF Cardinality(Listed(lists)) < k THEN Cardinality(Listed(lists)) ELSE k
      /\ Len(s) # 0 => \A y \in Listed(lists) : y = s[1] \/ Score(lists, s[1]) >= Score(lists, y)
  BY <1>1, <1>2, FusedIs
<1>5. x \in Listed(lists)
  <2>1. 1 \in 1..N /\ 1 \in 1..Len(lists[1]) /\ lists[1] \in Seq(Held)
    BY <1>1, <1>2, <1>3
  <2>2. x \in Held /\ Held \subseteq Ids
    BY <2>1 DEF Held
  <2> QED BY <2>1, <2>2 DEF Listed
<1>6. Len(s) # 0 /\ s[1] \in Listed(lists)
  <2>1. Cardinality(Listed(lists)) \in Nat /\ Cardinality(Listed(lists)) # 0
    BY <1>4, <1>5, FS_CardinalityType, FS_EmptySet
  <2>2. Len(s) # 0
    BY <1>4, <2>1
  <2> QED BY <1>4, <2>2
<1>7. ASSUME NEW y \in Listed(lists), y # x
      PROVE  Score(lists, y) \in Nat /\ Score(lists, x) \in Nat /\ Score(lists, y) < Score(lists, x)
  <2> DEFINE f == [n \in 1..N |-> RankScore(lists[n], y)]
             g == [n \in 1..N |-> RankScore(lists[n], x)]
  <2>1. ASSUME NEW n \in 1..N
        PROVE  f[n] \in Nat /\ g[n] \in Nat /\ f[n] < g[n]
    <3> DEFINE l == lists[n]
    <3>1. l \in Seq(Held) /\ NoneTwice(l) /\ Len(l) \in Nat /\ Len(l) >= 1 /\ l[1] = x
      BY <1>2, <1>3
    <3>2. f[n] = RankScore(l, y) /\ g[n] = RankScore(l, x)
      OBVIOUS
    <3> HIDE DEF l, f, g, x
    <3>3. RankScore(l, x) = PlaceScore(1)
      <4>1. 1 \in 0..Len(l) /\ 1 # 0
        BY <3>1
      <4> QED BY <3>1, <4>1, RankScoreIs
    <3>4. PlaceScore(1) \in Nat /\ PlaceScore(1) > 0
      BY SMT DEF PlaceScore
    <3>5. CASE \A m \in 1..Len(l) : l[m] # y
      <4>1. RankScore(l, y) = 0
        <5>1. 0 \in 0..Len(l)
          BY <3>1
        <5> QED BY <3>1, <3>5, <5>1, RankScoreIs
      <4> QED BY <3>2, <3>3, <3>4, <4>1
    <3>6. CASE \E m \in 1..Len(l) : l[m] = y
      <4>1. PICK m \in 1..Len(l) : l[m] = y
        BY <3>6
      <4>2. m \in 0..Len(l) /\ m # 0 /\ m # 1 /\ m \in Nat /\ m >= 1
        BY <1>7, <3>1, <4>1
      <4>3. RankScore(l, y) = PlaceScore(m)
        BY <3>1, <4>1, <4>2, RankScoreIs
      <4>4. PlaceScore(m) \in Nat /\ PlaceScore(m) < PlaceScore(1)
        BY <4>2, PlaceWeight
      <4> QED BY <3>2, <3>3, <3>4, <4>3, <4>4
    <3> QED BY <3>5, <3>6
  <2>2. Score(lists, y) = Total(f) /\ Score(lists, x) = Total(g)
    BY DEF Score
  <2>3. Len(f) = N /\ Len(g) = N
    BY <1>1
  <2> HIDE DEF f, g, N, x
  <2> QED BY ZenonT(60), <1>1, <2>1, <2>2, <2>3, TotalLess
<1>8. s[1] = x
  <2> HIDE DEF x
  <2> SUFFICES ASSUME s[1] # x PROVE FALSE
    OBVIOUS
  <2>1. Score(lists, s[1]) >= Score(lists, x)
    BY <1>4, <1>5, <1>6
  <2>2. Score(lists, s[1]) \in Nat /\ Score(lists, x) \in Nat /\ Score(lists, s[1]) < Score(lists, x)
    BY <1>6, <1>7
  <2> QED BY <2>1, <2>2
<1> QED BY <1>8

(* A combination with a flat member returns as many hits as were asked for *)
(* and are held, none twice, and the hit that every member ranks first is  *)
(* its first (multi.go:73), unless some ID was inserted twice.             *)
THEOREM FusionIsSound == Spec => []FusionSound
<1>1. Inv /\ OneCluster => FusionSound
  <2> SUFFICES ASSUME Inv, OneCluster, again = 0, NEW kinds \in MemberLists, NEW q \in Vectors,
                      NEW k \in 1..MaxTopK
               PROVE  /\ "flat" \in Range(kinds) =>
                           \A s \in Search(kinds, q, k) :
                             /\ Len(s) = IF Cardinality(Held) < k THEN Cardinality(Held) ELSE k
                             /\ IsInjective(s)
                      /\ \A lists \in MemberAnswers(kinds, q, 2 * k) :
                           (\A n \in DOMAIN lists : lists[n] # <<>> /\ lists[n][1] = lists[1][1]) =>
                             \A s \in Fused(lists, k) : s[1] = lists[1][1]
    BY DEF FusionSound, MultiFills, MultiAgrees
  <2>1. k \in Nat \ {0}
    BY MultiAssumption
  <2>2. ASSUME "flat" \in Range(kinds), NEW s \in Search(kinds, q, k)
        PROVE  /\ Len(s) = IF Cardinality(Held) < k THEN Cardinality(Held) ELSE k
               /\ IsInjective(s)
    BY <2>1, <2>2, FillsUp DEF Full
  <2>3. ASSUME NEW lists \in MemberAnswers(kinds, q, 2 * k),
               \A n \in DOMAIN lists : lists[n] # <<>> /\ lists[n][1] = lists[1][1],
               NEW s \in Fused(lists, k)
        PROVE  s[1] = lists[1][1]
    BY <2>1, <2>3, WinnerWins
  <2> QED BY <2>2, <2>3
<1> QED BY <1>1, InitInv, Inductive, OneClusterInit, OneClusterStep, PTL DEF Spec
=============================================================================
