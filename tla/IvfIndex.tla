------------------------------- MODULE IvfIndex -------------------------------
(***************************************************************************)
(* The IVF index (src/pkg/index/ivf.go): centroids drawn from the vectors  *)
(* by Train, and the IDs of the vectors nearest to each of them.  With no  *)
(* more than twelve centroids sort.Slice keeps the order of equal ones.    *)
(***************************************************************************)
EXTENDS Integers, FiniteSets, Ranking

CONSTANTS
  Ids, Vectors, NoVector, Sim,
  Dist,       \* the distance between two vectors
  NClusters, NProbe

ClusterIds == 1..NClusters

VARIABLES
  ivfVectors,  \* ivf.vectors
  centroids,   \* ivf.centroids, empty before Train
  clusters     \* ivf.clusters: how often each ID is in a cluster

ivfVars == <<ivfVectors, centroids, clusters>>

TypeOK ==
  /\ ivfVectors \in [Ids -> Vectors \cup {NoVector}]
  /\ centroids \in {<<>>} \cup [ClusterIds -> Vectors]
  /\ clusters \in [ClusterIds -> [Ids -> Nat]]

Init ==
  /\ ivfVectors = [i \in Ids |-> NoVector]
  /\ centroids = <<>>
  /\ clusters = [c \in ClusterIds |-> [i \in Ids |-> 0]]

Stored == {i \in Ids : ivfVectors[i] # NoVector}

(* assignCluster: the first of the nearest centroids, cluster 1 if there   *)
(* are none.                                                               *)
Assigned(cents, v) ==
  IF cents = <<>> THEN 1
  ELSE CHOOSE c \in ClusterIds :
         \A d \in ClusterIds : \/ Dist[v][cents[c]] < Dist[v][cents[d]]
                               \/ Dist[v][cents[c]] = Dist[v][cents[d]] /\ c <= d

Insert(v, i) ==
  LET c == Assigned(centroids, v) IN
  /\ ivfVectors' = [ivfVectors EXCEPT ![i] = v]
  /\ clusters' = [clusters EXCEPT ![c][i] = @ + 1]
  /\ UNCHANGED centroids

(* Mutant: the vectors stay in the clusters they were in.                  *)
TrainNoReassign ==
  /\ Cardinality(Stored) >= NClusters
  /\ \E chosen \in [ClusterIds -> Stored] :
       centroids' = [c \in ClusterIds |-> ivfVectors[chosen[c]]]
  /\ UNCHANGED <<ivfVectors, clusters>>

(* Train draws the centroids from the stored vectors, any of them (one at  *)
(* distance 0 of the others if there is no other), and assigns all anew.   *)
Train ==
  /\ Cardinality(Stored) >= NClusters
  /\ \E chosen \in [ClusterIds -> Stored] :
       centroids' = [c \in ClusterIds |-> ivfVectors[chosen[c]]]
  /\ clusters' = [c \in ClusterIds |->
                   [i \in Ids |-> IF i \in Stored /\ Assigned(centroids', ivfVectors[i]) = c
                                  THEN 1 ELSE 0]]
  /\ UNCHANGED ivfVectors

(* RemoveVector takes one entry out of every cluster.                      *)
Remove(i) ==
  /\ ivfVectors' = [ivfVectors EXCEPT ![i] = NoVector]
  /\ clusters' = [c \in ClusterIds |-> [clusters[c] EXCEPT ![i] = IF @ > 0 THEN @ - 1 ELSE 0]]
  /\ UNCHANGED centroids

(* nearestCentroids: the NProbe nearest, the first of equal ones first.    *)
Probed(q) ==
  {c \in ClusterIds :
     /\ centroids # <<>>
     /\ Cardinality({d \in ClusterIds : \/ Dist[q][centroids[d]] < Dist[q][centroids[c]]
                                        \/ /\ Dist[q][centroids[d]] = Dist[q][centroids[c]]
                                           /\ d < c}) < NProbe}

(* An ID that is listed twice is answered twice.                           *)
Answers(q, k) ==
  LET entries == UNION {{c} \X {i} \X (1..clusters[c][i]) : c \in Probed(q), i \in Ids}
      score == [e \in entries |-> IF ivfVectors[e[2]] = NoVector THEN 0
                                  ELSE Sim[q][ivfVectors[e[2]]]]
      ids(s)   == [n \in DOMAIN s |-> s[n][2]]
  IN  IF Stored = {} THEN {<<>>} ELSE {ids(s) : s \in TopRanked(entries, score, k)}
=============================================================================
