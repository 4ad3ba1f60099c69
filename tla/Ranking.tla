------------------------------- MODULE Ranking -------------------------------
(***************************************************************************)
(* Ranked answers: what sort.Slice by descending score followed by a cut   *)
(* can return.  Among equal scores the order is that of a Go map, any.     *)
(***************************************************************************)
EXTENDS Naturals, Sequences, FiniteSets

Cut(ranked, k) == SubSeq(ranked, 1, IF Len(ranked) < k THEN Len(ranked) ELSE k)

(* The sequences that list S by descending score, a function on S.         *)
Ranked(S, score) ==
  {s \in [1..Cardinality(S) -> S] :
     \A i, j \in DOMAIN s : i < j => s[i] # s[j] /\ score[s[i]] >= score[s[j]]}

TopRanked(S, score, k) == {Cut(s, k) : s \in Ranked(S, score)}
=============================================================================
