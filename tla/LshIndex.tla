------------------------------- MODULE LshIndex -------------------------------
(***************************************************************************)
(* The LSH index (src/pkg/index/lsh.go): a bucket of IDs for each hash     *)
(* value of each table.  Build has drawn the hyperplanes: Hash is one of   *)
(* the functions they can make of the vectors.                             *)
(***************************************************************************)
EXTENDS Naturals, Ranking

CONSTANTS
  Ids, Vectors, NoVector, Sim, Tables, Hashes,
  Hash        \* the bucket of a vector in a table

VARIABLES
  lshVectors,  \* lsh.vectors
  buckets      \* lsh.buckets: how often each ID is in a bucket

lshVars == <<lshVectors, buckets>>

TypeOK ==
  /\ lshVectors \in [Ids -> Vectors \cup {NoVector}]
  /\ buckets \in [Tables -> [Hashes -> [Ids -> Nat]]]

Init ==
  /\ lshVectors = [i \in Ids |-> NoVector]
  /\ buckets = [t \in Tables |-> [h \in Hashes |-> [i \in Ids |-> 0]]]

Stored == {i \in Ids : lshVectors[i] # NoVector}

(* An ID that is inserted again stays in its former buckets, too.          *)
Insert(v, i) ==
  /\ lshVectors' = [lshVectors EXCEPT ![i] = v]
  /\ buckets' = [t \in Tables |-> [buckets[t] EXCEPT ![Hash[t][v]][i] = @ + 1]]

(* Mutant: only the first table forgets the vector.                        *)
RemoveFirstTable(i) ==
  /\ lshVectors' = [lshVectors EXCEPT ![i] = NoVector]
  /\ LET first == CHOOSE t \in Tables : TRUE IN
     buckets' = [t \in Tables |-> [h \in Hashes |->
                  [buckets[t][h] EXCEPT ![i] = IF t = first /\ @ > 0 THEN @ - 1 ELSE @]]]

(* RemoveVector takes one entry out of every bucket.                       *)
Remove(i) ==
  /\ lshVectors' = [lshVectors EXCEPT ![i] = NoVector]
  /\ buckets' = [t \in Tables |-> [h \in Hashes |->
                  [buckets[t][h] EXCEPT ![i] = IF @ > 0 THEN @ - 1 ELSE 0]]]

(* The IDs that share a bucket with the query; all if there is none.       *)
Candidates(q) ==
  LET near == {i \in Ids : \E t \in Tables : buckets[t][Hash[t][q]][i] > 0} IN
  IF near = {} THEN Stored ELSE near

Answers(q, k) ==
  LET score == [i \in Ids |-> IF lshVectors[i] = NoVector THEN 0 ELSE Sim[q][lshVectors[i]]]
  IN  IF Stored = {} THEN {<<>>} ELSE TopRanked(Candidates(q), score, k)
=============================================================================
