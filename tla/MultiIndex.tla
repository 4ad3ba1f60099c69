------------------------------ MODULE MultiIndex ------------------------------
(***************************************************************************)
(* Several index structures fed with the same vectors and searched         *)
(* together (src/pkg/index/multi.go): the flat one (flat.go), which is the *)
(* plain map from IDs to vectors, HNSW, IVF and LSH.  Every structure is   *)
(* searched alone, too: an index of the database is one of them.           *)
(*                                                                         *)
(* The database inserts an ID the index does not hold (crud.go makes a new *)
(* one, memory.go removes it before); the package allows both, and again   *)
(* counts how often an ID was inserted while it was held.                  *)
(***************************************************************************)
EXTENDS Integers, Sequences, FiniteSets, Functions

CONSTANTS
  Ids, Vectors, NoVector, NoId, NoLink, Sim, Dist,
  M, TopLevel, Tables, Hashes, Hash, NClusters, NProbe,
  MemberLists,  \* the lists of structures that are searched together
  MaxTopK,
  MaxAgain      \* bound of this model on again

Kinds == {"flat", "hnsw", "ivf", "lsh"}

ASSUME MultiAssumption ==
  /\ NoVector \notin Vectors /\ NoId \notin Ids /\ NoLink \notin Int
  /\ IsFiniteSet(Ids)
  /\ Sim \in [Vectors -> [Vectors -> Int]] /\ Dist \in [Vectors -> [Vectors -> Nat]]
  /\ M \in Nat \ {0} /\ TopLevel \in Nat
  /\ Hash \in [Tables -> [Vectors -> Hashes]]
  /\ NClusters \in Nat \ {0} /\ NProbe \in Nat \ {0}
  /\ MemberLists \subseteq Seq(Kinds) /\ <<>> \notin MemberLists
  /\ MaxTopK \in Nat /\ MaxAgain \in Nat

VARIABLES
  flat,   \* f.vectors
  hnswVectors, layers, links, enter, maxLevel,
  lshVectors, buckets,
  ivfVectors, centroids, clusters,
  again

Rank == INSTANCE Ranking
Hnsw == INSTANCE HnswIndex
Lsh == INSTANCE LshIndex
Ivf == INSTANCE IvfIndex

vars == <<flat, hnswVectors, layers, links, enter, maxLevel,
          lshVectors, buckets, ivfVectors, centroids, clusters, again>>

TypeOK ==
  /\ flat \in [Ids -> Vectors \cup {NoVector}]
  /\ Hnsw!TypeOK /\ Lsh!TypeOK /\ Ivf!TypeOK
  /\ again \in 0..MaxAgain

Init ==
  /\ flat = [i \in Ids |-> NoVector]
  /\ Hnsw!Init /\ Lsh!Init /\ Ivf!Init
  /\ again = 0

Held == {i \in Ids : flat[i] # NoVector}

Insert(v, i) ==
  /\ i \in Held => again < MaxAgain
  /\ flat' = [flat EXCEPT ![i] = v]
  /\ \E level \in Hnsw!Levels : Hnsw!Insert(v, i, level)
  /\ Lsh!Insert(v, i)
  /\ Ivf!Insert(v, i)
  /\ again' = IF i \in Held THEN again + 1 ELSE again

Remove(i) ==
  /\ flat' = [flat EXCEPT ![i] = NoVector]
  /\ Hnsw!Remove(i)
  /\ Lsh!Remove(i)
  /\ Ivf!Remove(i)
  /\ UNCHANGED again

Train ==
  /\ Ivf!Train
  /\ UNCHANGED <<flat, hnswVectors, layers, links, enter, maxLevel, lshVectors, buckets, again>>

Next ==
  \/ \E i \in Ids : Remove(i) \/ \E v \in Vectors : Insert(v, i)
  \/ Train

Spec == Init /\ [][Next]_vars

-----------------------------------------------------------------------------
FlatAnswers(q, k) ==
  Rank!TopRanked(Held, [i \in Held |-> Sim[q][flat[i]]], k)

Answers(kind, q, k) ==
  CASE kind = "flat" -> FlatAnswers(q, k)
    [] kind = "hnsw" -> Hnsw!Answers(q)
    [] kind = "ivf"  -> Ivf!Answers(q, k)
    [] kind = "lsh"  -> Lsh!Answers(q, k)

(* The sum of a sequence of numbers.                                       *)
Total(numbers) ==
  LET sum[n \in 0..Len(numbers)] == IF n = 0 THEN 0 ELSE sum[n - 1] + numbers[n]
  IN  sum[Len(numbers)]

(* Mutant: the place counts for the ID.                                    *)
PlaceScoreUp(n) == 60 + n

(* weight / (60 + rank), all weights alike, in millionths.                 *)
PlaceScore(n) == 1000000 \div (60 + n)

(* What a result list adds to the score of an ID, for each of its places.  *)
RankScore(list, i) == Total([n \in 1..Len(list) |-> IF list[n] = i THEN PlaceScore(n) ELSE 0])

(* fuseResults: the IDs of all lists by the sum of their scores.           *)
Fused(lists, k) ==
  LET ids == UNION {Range(lists[n]) : n \in DOMAIN lists}
      score(i) == Total([n \in 1..Len(lists) |-> RankScore(lists[n], i)])
  IN  Rank!TopRanked(ids, [i \in ids |-> score(i)], k)

(* The lists the members can return together.                              *)
MemberAnswers(kinds, q, k) ==
  {f \in [DOMAIN kinds -> UNION {Answers(kind, q, k) : kind \in Range(kinds)}] :
     \A n \in DOMAIN kinds : f[n] \in Answers(kinds[n], q, k)}

(* Search: a single member answers alone, several are asked for twice as   *)
(* many hits and fused.                                                    *)
Search(kinds, q, k) ==
  IF Len(kinds) = 1 THEN Answers(kinds[1], q, k)
  ELSE UNION {Fused(lists, k) : lists \in MemberAnswers(kinds, q, 2 * k)}

-----------------------------------------------------------------------------
(* HNSW: its searches enter at a stored vector, links lead to stored ones  *)
(* and stay few, whatever was inserted, inserted again and removed         *)
(* (hnsw.go:476).                                                          *)
HnswSound == Hnsw!EntryStored /\ Hnsw!LinksStored /\ Hnsw!DegreeBounded

(* An HNSW index with vectors answers every search, and with one of them.  *)
HnswAnswersStored == Hnsw!AnswersStored

(* A removed vector is found no more by any structure or combination       *)
(* (lsh.go:161, ivf.go:219, "removes a vector from the index"), as long as *)
(* no ID was inserted twice.                                               *)
HitsHeld ==
  again = 0 =>
    \A q \in Vectors, kind \in Kinds : \A s \in Answers(kind, q, MaxTopK) :
      \A n \in DOMAIN s : s[n] \in Held

(* A vector finds itself: LSH has it among the candidates of an equal      *)
(* query, and IVF, once trained, in a cluster it probes, also for vectors  *)
(* inserted or replaced after the training.                                *)
FindsItself ==
  \A i \in Held :
    /\ i \in Lsh!Candidates(flat[i])
    /\ centroids # <<>> => \E c \in Ivf!Probed(flat[i]) : clusters[c][i] > 0

(* A combination with a flat member returns as many hits as were asked for *)
(* and are held, however few its other members find, and no ID twice.      *)
MultiFills ==
  again = 0 =>
    \A kinds \in MemberLists, q \in Vectors, k \in 1..MaxTopK :
      "flat" \in Range(kinds) =>
        \A s \in Search(kinds, q, k) :
          /\ Len(s) = IF Cardinality(Held) < k THEN Cardinality(Held) ELSE k
          /\ IsInjective(s)

(* The hit that every member ranks first is the first of the combination.  *)
MultiAgrees ==
  again = 0 =>
    \A kinds \in MemberLists, q \in Vectors, k \in 1..MaxTopK :
      \A lists \in MemberAnswers(kinds, q, 2 * k) :
        (\A n \in DOMAIN lists : lists[n] # <<>> /\ lists[n][1] = lists[1][1]) =>
          \A s \in Fused(lists, k) : s[1] = lists[1][1]

(* What the fusion promises: the answer is full and keeps what all agree   *)
(* on.                                                                     *)
FusionSound == MultiFills /\ MultiAgrees

(* hnsw.go:265: "Search queries the index for the topK nearest neighbors." *)
HnswFillsTopK == Hnsw!FillsTopK
=============================================================================
