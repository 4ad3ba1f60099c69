---------------------------- MODULE RdfStoreProofs ----------------------------
(***************************************************************************)
(* Query is exact in every state the store, its callers and the inference  *)
(* can reach: the index keys that replaced triples leave behind hide       *)
(* nothing, and deleting a triple takes no key another triple needs.       *)
(* ClearInferred leaves nothing inferred.                                  *)
(***************************************************************************)
EXTENDS Rdfs, TLAPS

Triples == [s : Terms, p : Terms, o : Terms]
Stored == [s : Terms, p : Terms, o : Terms, inferred : BOOLEAN]

(* What a call of Infer holds, before a triple is written and while it is. *)
Working == [pc : {"first", "second", "check", "done"}, rule : 1..6,
            first : SUBSET Stored, todo : SUBSET Triples, new : BOOLEAN]
Writing == [pc : {"write"}, rule : 1..6,
            first : SUBSET Stored, todo : SUBSET Triples, new : BOOLEAN, t : Triples]

RunOK == run \in Working \/ run \in Writing \/ run.pc \in {"idle", "clearing", "cleared"}

Keyed(x) ==
  /\ SubjKey(x) \subseteq subjKeys
  /\ PredKey(x) \subseteq predKeys
  /\ ObjKey(x) \subseteq objKeys

StoreInv ==
  /\ stored \subseteq Stored
  /\ \A x \in stored : Keyed(x)
  /\ OneTriplePerID

IInv == StoreInv /\ RunOK /\ asserted \subseteq Asserts

-----------------------------------------------------------------------------
(* UpsertTriple keeps the store's invariant, whichever triple it replaces. *)
LEMMA UpsertKeeps ==
  ASSUME StoreInv, NEW t \in Triples, NEW inferred \in BOOLEAN, UpsertTriple(t, inferred)
  PROVE  StoreInv'
<1> DEFINE y == Flagged(t, inferred)
<1>1. y \in Stored /\ y.s = t.s /\ y.p = t.p /\ y.o = t.o
  BY DEF Flagged, Triples, Stored
<1>2. /\ hashTriple(y) = hashTriple(t) /\ SubjKey(y) = SubjKey(t)
      /\ PredKey(y) = PredKey(t) /\ ObjKey(y) = ObjKey(t)
  BY <1>1 DEF hashTriple, SubjKey, PredKey, ObjKey
<1> HIDE DEF y
<1>3. stored' = {x \in stored : hashTriple(x) # hashTriple(t)} \cup {y}
  BY DEF UpsertTriple, y
<1>4. /\ subjKeys' = subjKeys \cup SubjKey(t) /\ predKeys' = predKeys \cup PredKey(t)
      /\ objKeys' = objKeys \cup ObjKey(t)
  BY DEF UpsertTriple
<1>5. \A x \in stored' : x \in Stored /\ Keyed(x)'
  <2> SUFFICES ASSUME NEW x \in stored' PROVE x \in Stored /\ Keyed(x)'
    OBVIOUS
  <2>1. CASE x = y
    BY <2>1, <1>1, <1>2, <1>4 DEF Keyed
  <2>2. CASE x \in stored
    BY <2>2, <1>4 DEF StoreInv, Keyed
  <2> QED BY <2>1, <2>2, <1>3
<1>6. OneTriplePerID'
  BY <1>2, <1>3 DEF StoreInv, OneTriplePerID
<1> QED BY <1>5, <1>6 DEF StoreInv

(* DeleteTriple takes no key that another triple is found by: keys hold    *)
(* the ID, and no other triple has it.                                     *)
LEMMA DeleteKeeps ==
  ASSUME StoreInv, NEW x \in stored, DeleteTriple(x)
  PROVE  StoreInv'
<1>1. stored' \subseteq stored /\ x \notin stored'
  BY DEF DeleteTriple
<1>2. ASSUME NEW y \in stored' PROVE Keyed(y)'
  <2>1. hashTriple(y) # hashTriple(x)
    BY <1>1 DEF StoreInv, OneTriplePerID
  <2>2. /\ SubjKey(y) \cap SubjKey(x) = {} /\ PredKey(y) \cap PredKey(x) = {}
        /\ ObjKey(y) \cap ObjKey(x) = {}
    BY <2>1 DEF SubjKey, PredKey, ObjKey
  <2>3. Keyed(y)
    BY <1>1 DEF StoreInv
  <2> QED BY <2>2, <2>3 DEF Keyed, DeleteTriple
<1>3. OneTriplePerID'
  BY <1>1 DEF StoreInv, OneTriplePerID
<1> QED BY <1>1, <1>2, <1>3 DEF StoreInv

(* What the index does not hold, the store does not hold: Query misses     *)
(* nothing, and matchesPattern lets nothing else through.                  *)
LEMMA IndexedIsExact == ASSUME StoreInv PROVE QueryExact
<1> SUFFICES ASSUME NEW pat \in Patterns, Answerable(pat),
                    NEW x \in stored, matchesPattern(x, pat)
             PROVE  x \in Query(pat)
  BY DEF QueryExact, Query, scanIndex
<1>1. x.o \in Terms /\ Keyed(x)
  BY DEF StoreInv, Stored
<1>2. CASE BySubject(pat)
  <2>1. x.s.kind = "iri" /\ x.s.value = pat.s.value
    BY <1>2 DEF BySubject, matchesPattern, termsEqual
  <2>2. <<pat.s.value, hashTriple(x)>> \in subjKeys
    BY <2>1, <1>1 DEF Keyed, SubjKey
  <2> QED BY <1>2, <2>2 DEF Query, scanIndex
<1>3. CASE ~BySubject(pat) /\ ByPredicate(pat)
  <2>1. x.p.kind = "iri" /\ x.p.value = pat.p.value
    BY <1>3 DEF ByPredicate, matchesPattern, termsEqual
  <2>2. <<pat.p.value, hashTriple(x)>> \in predKeys
    BY <2>1, <1>1 DEF Keyed, PredKey
  <2> QED BY <1>3, <2>2 DEF Query, scanIndex
<1>4. CASE ~BySubject(pat) /\ ~ByPredicate(pat) /\ pat.o # AnyTerm
  <2>1. termsEqual(x.o, pat.o)
    BY <1>4 DEF matchesPattern
  <2>2. pat.o.kind # "bnode" /\ x.o.lang = pat.o.lang
    BY <1>1, <1>4, <2>1 DEF Answerable
  <2>3. x.o.kind # "bnode" /\ termKey(x.o) = termKey(pat.o)
    BY <2>1, <2>2 DEF termsEqual, termKey
  <2>4. <<termKey(pat.o), hashTriple(x)>> \in objKeys
    BY <2>3, <1>1 DEF Keyed, ObjKey
  <2> QED BY <1>4, <2>4 DEF Query, scanIndex
<1>5. CASE ~BySubject(pat) /\ ~ByPredicate(pat) /\ pat.o = AnyTerm
  BY <1>5 DEF Query
<1> QED BY <1>2, <1>3, <1>4, <1>5

-----------------------------------------------------------------------------
(* What a query returns is stored, so it is made of terms, and so is what  *)
(* a rule derives from it.                                                 *)
LEMMA QueryIsStored == ASSUME NEW pat PROVE Query(pat) \subseteq stored
BY DEF Query, scanIndex

LEMMA WithIsStored == ASSUME NEW p PROVE WithPredicate(p) \subseteq stored
BY QueryIsStored DEF WithPredicate

LEMMA ChainOK ==
  ASSUME NEW X \in SUBSET Stored, NEW Y \in SUBSET Stored, NEW rule \in {1, 2, 3}
  PROVE  Chain(rule, X, Y) \subseteq Triples
<1> SUFFICES ASSUME NEW x \in X, NEW y \in Y PROVE Linked(rule, x, y) \in Triples
  BY DEF Chain
<1>1. x.s \in Terms /\ y.o \in Terms
  BY DEF Stored
<1>2. /\ Iri(x.s) \in Terms /\ Iri(y.o) \in Terms
      /\ SubClassOf \in Terms /\ Type \in Terms /\ SubPropertyOf \in Terms
  BY <1>1, IriAssumption, RdfsAssumption
<1>3. CASE rule = 1
  BY <1>2, <1>3 DEF Linked, Triples, Triple
<1>4. CASE rule = 2
  BY <1>1, <1>2, <1>4 DEF Linked, Triples, Triple
<1>5. CASE rule = 3
  BY <1>1, <1>2, <1>5 DEF Linked, Triples, Triple
<1> QED BY <1>3, <1>4, <1>5

LEMMA AppliedOK ==
  ASSUME NEW x \in Stored, NEW d \in Stored, NEW rule \in {4, 5, 6}
  PROVE  Applied(rule, x, d) \in Triples
<1>1. Type \in Terms
  BY RdfsAssumption
<1>2. CASE rule = 4
  BY <1>2 DEF Applied, Stored, Triples, Triple
<1>3. CASE rule = 5
  BY <1>1, <1>3 DEF Applied, Stored, Triples, Triple
<1>4. CASE rule = 6
  BY <1>1, <1>4 DEF Applied, Stored, Triples, Triple
<1> QED BY <1>2, <1>3, <1>4

(* Moving on to a triple, a premise, a rule or the end keeps what is held. *)
LEMMA GoOnOK == ASSUME NEW r \in Working PROVE GoOn(r) \in Working
<1>1. CASE r.todo # {}
  BY <1>1 DEF GoOn, Working
<1>2. CASE r.todo = {} /\ r.first # {}
  BY <1>2 DEF GoOn, Working
<1>3. CASE r.todo = {} /\ r.first = {} /\ r.rule < 6
  <2>1. r.rule + 1 \in 1..6
    BY <1>3 DEF Working
  <2> QED BY <1>3, <2>1 DEF GoOn, Working
<1>4. CASE r.todo = {} /\ r.first = {} /\ ~(r.rule < 6)
  BY <1>4 DEF GoOn, Working
<1> QED BY <1>1, <1>2, <1>3, <1>4

-----------------------------------------------------------------------------
LEMMA InitOK == Init => IInv
BY DEF Init, StoreInit, Idle, IInv, StoreInv, OneTriplePerID, RunOK

(* A step that leaves the store alone keeps the invariant of the store.    *)
LEMMA StoreUnchanged == StoreInv /\ UNCHANGED store => StoreInv'
BY DEF store, StoreInv, OneTriplePerID, Keyed

(* Every step of Infer but the check leaves it with a rule, premises and   *)
(* derived triples in hand.                                                *)
LEMMA InferWorks ==
  ASSUME IInv,
         \/ ReadFirst \/ ReadSecond \/ Write
         \/ \E x \in stored : ReadUses(x)
         \/ \E t \in Todo : Skip(t)
  PROVE  run' \in Working
<1>0. StoreInv /\ RunOK
  BY DEF IInv
<1>1. CASE ReadFirst
  <2> DEFINE X == WithPredicate(Premise(run.rule))
  <2>1. run \in Working
    BY <1>0, <1>1 DEF ReadFirst, RunOK, Writing
  <2>2. X \subseteq Stored
    BY <1>0, WithIsStored DEF StoreInv
  <2> HIDE DEF X
  <2>3. [run EXCEPT !.pc = "second", !.first = X] \in Working
    BY <2>1, <2>2 DEF Working
  <2> QED BY <1>1, <2>1, <2>3, GoOnOK DEF ReadFirst, X
<1>2. CASE ReadSecond
  <2> DEFINE Y == IF run.rule = 2 THEN WithPredicate(SubClassOf) ELSE run.first
             C == Chain(run.rule, run.first, Y)
  <2>1. run \in Working
    BY <1>0, <1>2 DEF ReadSecond, RunOK, Writing
  <2>2. Y \subseteq Stored /\ run.first \subseteq Stored /\ run.rule \in {1, 2, 3}
    BY <1>0, <1>2, <2>1, WithIsStored DEF StoreInv, Working, ReadSecond
  <2> HIDE DEF Y
  <2>3. C \subseteq Triples
    BY <2>2, ChainOK
  <2> HIDE DEF C
  <2>4. [run EXCEPT !.first = {}, !.todo = C] \in Working
    BY <2>1, <2>3 DEF Working
  <2> QED BY <1>2, <2>4, GoOnOK DEF ReadSecond, C, Y
<1>3. CASE Write
  <2>1. run \in Writing
    BY <1>0, <1>3 DEF Write, RunOK, Working
  <2>2. [pc |-> "check", rule |-> run.rule, first |-> run.first,
         todo |-> run.todo \ {run.t}, new |-> TRUE] \in Working
    BY <2>1 DEF Writing, Working
  <2> QED BY <1>3, <2>2, GoOnOK DEF Write
<1>4. ASSUME NEW x \in stored, ReadUses(x) PROVE run' \in Working
  <2> DEFINE A == {Applied(run.rule, x, d) : d \in WithPredicate(Iri(x.s))}
  <2>1. run \in Working
    BY <1>0, <1>4 DEF ReadUses, RunOK, Writing
  <2>2. WithPredicate(Iri(x.s)) \subseteq Stored /\ x \in Stored
    BY <1>0, WithIsStored DEF StoreInv
  <2>3. run.rule \in {4, 5, 6}
    <3>1. run.rule \in 1..6
      BY <2>1 DEF Working
    <3>2. run.rule >= 4
      BY <1>4 DEF ReadUses
    <3> QED BY <3>1, <3>2
  <2>4. A \subseteq Triples
    BY <2>2, <2>3, AppliedOK
  <2> HIDE DEF A
  <2>5. [run EXCEPT !.first = @ \ {x}, !.todo = A] \in Working
    BY <2>1, <2>4 DEF Working
  <2> QED BY <1>4, <2>5, GoOnOK DEF ReadUses, A
<1>5. ASSUME NEW t \in Todo, Skip(t) PROVE run' \in Working
  <2>1. run \in Working
    BY <1>0, <1>5 DEF Skip, RunOK, Writing
  <2>2. [run EXCEPT !.todo = @ \ {t}] \in Working
    BY <2>1 DEF Working
  <2> QED BY <1>5, <2>2, GoOnOK DEF Skip
<1> QED BY <1>1, <1>2, <1>3, <1>4, <1>5

LEMMA StepOK == IInv /\ [Next]_vars => IInv'
<1> SUFFICES ASSUME IInv, [Next]_vars PROVE IInv'
  OBVIOUS
<1>0. StoreInv /\ RunOK /\ asserted \subseteq Asserts
  BY DEF IInv
<1>1. ASSUME NEW t \in Asserts, AssertTriple(t) PROVE IInv'
  <2>1. t \in Triples
    BY RdfsAssumption DEF Triple, Triples
  <2>2. StoreInv'
    BY <1>0, <1>1, <2>1, UpsertKeeps DEF AssertTriple
  <2> QED BY <1>0, <1>1, <2>2 DEF AssertTriple, IInv, RunOK
<1>2. ASSUME NEW x \in stored, RetractTriple(x) PROVE IInv'
  <2>1. StoreInv'
    BY <1>0, <1>2, DeleteKeeps DEF RetractTriple
  <2> QED BY <1>0, <1>2, <2>1 DEF RetractTriple, IInv, RunOK
<1>3. CASE Infer
  <2>1. Start \in Working
    BY DEF Start, Working
  <2> QED BY <1>0, <1>3, <2>1, StoreUnchanged DEF Infer, IInv, RunOK
<1>4. CASE ReadFirst
  BY <1>0, <1>4, InferWorks, StoreUnchanged DEF ReadFirst, IInv, RunOK
<1>5. CASE ReadSecond
  BY <1>0, <1>5, InferWorks, StoreUnchanged DEF ReadSecond, IInv, RunOK
<1>6. ASSUME NEW x \in stored, ReadUses(x) PROVE IInv'
  BY <1>0, <1>6, InferWorks, StoreUnchanged DEF ReadUses, IInv, RunOK
<1>7. ASSUME NEW t \in Todo, Skip(t) PROVE IInv'
  BY <1>0, <1>7, InferWorks, StoreUnchanged DEF Skip, IInv, RunOK
<1>8. ASSUME NEW t \in Todo, Check(t) PROVE IInv'
  <2>1. run \in Working
    BY <1>0, <1>8 DEF Check, RunOK, Writing
  <2>2. run' \in Writing
    BY <1>8, <2>1 DEF Check, Working, Writing
  <2> QED BY <1>0, <1>8, <2>2, StoreUnchanged DEF Check, IInv, RunOK
<1>9. CASE Write
  <2>1. run \in Writing
    BY <1>0, <1>9 DEF Write, RunOK, Working
  <2>2. StoreInv'
    BY <1>0, <1>9, <2>1, UpsertKeeps DEF Write, Writing
  <2> QED BY <1>0, <1>9, <2>2, InferWorks DEF Write, IInv, RunOK
<1>10. CASE InferReturn
  BY <1>0, <1>10, StoreUnchanged DEF InferReturn, Idle, IInv, RunOK
<1>11. CASE ClearInferred
  BY <1>0, <1>11, StoreUnchanged DEF ClearInferred, Clearing, IInv, RunOK
<1>12. CASE ClearReturn
  BY <1>0, <1>12, StoreUnchanged DEF ClearReturn, Idle, IInv, RunOK
<1>13. ASSUME NEW id \in Ids, ClearDelete(id) PROVE IInv'
  <2>1. StoreInv'
    BY <1>0, <1>13, DeleteKeeps DEF ClearDelete
  <2> QED BY <1>0, <1>13, <2>1 DEF ClearDelete, Clearing, IInv, RunOK
<1>14. ASSUME NEW id \in Ids, ClearFails(id) PROVE IInv'
  BY <1>0, <1>14, StoreUnchanged DEF ClearFails, Idle, IInv, RunOK
<1>15. CASE UNCHANGED vars
  BY <1>0, <1>15, StoreUnchanged DEF vars, store, IInv, RunOK
<1> QED
  BY <1>1, <1>2, <1>3, <1>4, <1>5, <1>6, <1>7, <1>8, <1>9, <1>10, <1>11,
     <1>12, <1>13, <1>14, <1>15 DEF Next

LEMMA Inductive == Spec => []IInv
BY InitOK, StepOK, PTL DEF Spec

(* Two different triples are never stored under one ID, and what a call of *)
(* Infer has under way is well formed, whatever callers do meanwhile.      *)
THEOREM WellFormed == Spec => []TypeOK
<1>1. IInv => TypeOK
  BY DEF IInv, StoreInv, Stored, RunOK, Working, Writing, TypeOK
<1> QED BY <1>1, Inductive, PTL

(* For all terms, rules and interleavings of callers with Infer and        *)
(* ClearInferred, Query returns all stored triples that match the pattern  *)
(* and nothing else.                                                       *)
THEOREM QueriesAreExact == Spec => []QueryExact
<1>1. IInv => QueryExact
  BY IndexedIsExact DEF IInv
<1> QED BY <1>1, Inductive, PTL

-----------------------------------------------------------------------------
(* What ClearInferred has still to delete is all that is inferred: callers *)
(* may put an assertion in the place of an inferred triple, or retract it, *)
(* but nobody infers meanwhile.                                            *)
ClearInv ==
  /\ run.pc = "clearing" => \A x \in stored : x.inferred => hashTriple(x) \in run.ids
  /\ run.pc = "cleared" => \A x \in stored : ~x.inferred

LEMMA ClearInductive == IInv /\ ClearInv /\ [Next]_vars => ClearInv'
<1> SUFFICES ASSUME IInv, ClearInv, [Next]_vars PROVE ClearInv'
  OBVIOUS
<1>0. OneTriplePerID
  BY DEF IInv, StoreInv
<1>1. ASSUME NEW t \in Asserts, AssertTriple(t) PROVE ClearInv'
  <2>1. stored' \subseteq stored \cup {Flagged(t, FALSE)} /\ ~Flagged(t, FALSE).inferred
    BY <1>1 DEF AssertTriple, UpsertTriple, Flagged
  <2> QED BY <1>1, <2>1 DEF AssertTriple, ClearInv
<1>2. ASSUME NEW x \in stored, RetractTriple(x) PROVE ClearInv'
  BY <1>2 DEF RetractTriple, DeleteTriple, ClearInv
<1>3. CASE Infer
  BY <1>3 DEF Infer, Start, ClearInv
<1>4. CASE \/ ReadFirst \/ ReadSecond \/ Write
           \/ \E x \in stored : ReadUses(x)
           \/ \E t \in Todo : Skip(t)
  <2>1. run' \in Working
    BY <1>4, InferWorks
  <2> QED BY <2>1 DEF Working, ClearInv
<1>5. ASSUME NEW t \in Todo, Check(t) PROVE ClearInv'
  BY <1>5 DEF Check, ClearInv
<1>6. CASE InferReturn \/ ClearReturn
  BY <1>6 DEF InferReturn, ClearReturn, Idle, ClearInv
<1>7. CASE ClearInferred
  <2> DEFINE ids == {hashTriple(x) : x \in {y \in stored : y.inferred}}
  <2>1. run' = Clearing(ids) /\ stored' = stored
    BY <1>7 DEF ClearInferred, store
  <2> QED BY <2>1 DEF ClearInv, Clearing
<1>8. ASSUME NEW id \in Ids, ClearDelete(id) PROVE ClearInv'
  <2>1. PICK x \in stored : hashTriple(x) = id /\ DeleteTriple(x)
    BY <1>8 DEF ClearDelete
  <2>2. \A y \in stored' : y \in stored /\ hashTriple(y) # id
    BY <1>0, <2>1 DEF DeleteTriple, OneTriplePerID
  <2>3. \A y \in stored' : y.inferred => hashTriple(y) \in run.ids \ {id}
    BY <1>8, <2>2 DEF ClearInv, ClearDelete
  <2>4. run' = Clearing(run.ids \ {id})
    BY <1>8 DEF ClearDelete
  <2> QED BY <2>3, <2>4 DEF ClearInv, Clearing
<1>9. ASSUME NEW id \in Ids, ClearFails(id) PROVE ClearInv'
  BY <1>9 DEF ClearFails, Idle, ClearInv
<1>10. CASE UNCHANGED vars
  BY <1>10 DEF vars, ClearInv
<1> QED
  BY <1>1, <1>2, <1>3, <1>4, <1>5, <1>6, <1>7, <1>8, <1>9, <1>10 DEF Next

(* When ClearInferred comes to its end nothing inferred is stored, though  *)
(* it looked once at the beginning and callers assert and retract all the  *)
(* while.                                                                  *)
THEOREM ClearingIsComplete == Spec => []ClearRemovesAll
<1>1. Init => ClearInv
  BY DEF Init, Idle, ClearInv
<1>2. ClearInv => ClearRemovesAll
  BY DEF ClearInv, ClearRemovesAll
<1> QED BY <1>1, <1>2, Inductive, ClearInductive, PTL DEF Spec

-----------------------------------------------------------------------------
(* Inference on ordinary data, by callers that leave Infer alone.          *)

Known(t) == \E x \in stored : hashTriple(x) = hashTriple(t)

Second(rule) == IF rule = 2 THEN WithPredicate(SubClassOf) ELSE WithPredicate(Premise(rule))
AppliedTo(rule, x) == {Applied(rule, x, d) : d \in WithPredicate(Iri(x.s))}

(* What a rule derives from the store as it stands.                        *)
Derived(rule) ==
  IF rule <= 3 THEN Chain(rule, WithPredicate(Premise(rule)), Second(rule))
  ELSE UNION {AppliedTo(rule, x) : x \in WithPredicate(Premise(rule))}

AllOrdinary == OrdinaryData /\ \A x \in stored : Ordinary(Statement(x))

LEMMA OrdinaryTerms ==
  ASSUME AllOrdinary
  PROVE  /\ \A x \in stored : /\ x.s \in Used /\ x.p \in Used /\ x.o \in Used
                              /\ x.p.kind = "iri"
                              /\ x.p = SubClassOf => x.s.kind = "iri" /\ x.o.kind = "iri"
                              /\ x.p = SubPropertyOf =>
                                   x.o.kind = "iri" /\ x.o \notin {SubClassOf, SubPropertyOf}
         /\ \A t, u \in Used : t.kind = "iri" /\ t.value = u.value => t = u
         /\ \A t \in Used : t.kind = "iri" => Iri(t) = t
<1>1. \A t, u \in Used : t.kind = "iri" /\ t.value = u.value => t = u
  BY DEF AllOrdinary, OrdinaryData, Iri
<1> QED BY <1>1 DEF AllOrdinary, OrdinaryData, Ordinary, Statement, Triple

LEMMA VocabularyUsed ==
  ASSUME NEW rule \in 1..6
  PROVE  /\ Premise(rule) \in Used /\ Premise(rule).kind = "iri"
         /\ SubClassOf \in Used /\ SubClassOf.kind = "iri" /\ Type \in Used
BY RdfsAssumption DEF Premise, Used

(* A query for a resource as predicate gives the triples that have it.     *)
LEMMA WithExact ==
  ASSUME StoreInv, AllOrdinary, NEW p \in Used, p \in Terms
  PROVE  WithPredicate(Iri(p)) = {x \in stored : x.p = p}
<1> DEFINE q == Iri(p)
<1> DEFINE pat == [s |-> AnyTerm, p |-> q, o |-> AnyTerm]
<1>1. q \in Terms /\ q.kind = "iri" /\ q.value = p.value /\ q # AnyTerm
  BY IriAssumption, RdfAssumption DEF Iri
<1>2. ~BySubject(pat) /\ ByPredicate(pat)
  BY <1>1 DEF BySubject, ByPredicate
<1>3. WithPredicate(q) = {x \in scanIndex(predKeys, q.value) : matchesPattern(x, pat)}
  BY <1>2 DEF WithPredicate, Query
<1>4. ASSUME NEW x \in stored, x.p = p PROVE x \in WithPredicate(q)
  <2>1. x.p.kind = "iri" /\ x.p.value = q.value
    BY <1>1, <1>4, OrdinaryTerms
  <2>2. PredKey(x) \subseteq predKeys
    BY DEF StoreInv, Keyed
  <2>3. <<q.value, hashTriple(x)>> \in predKeys
    BY <2>1, <2>2 DEF PredKey
  <2> QED BY <1>1, <1>3, <2>1, <2>3 DEF scanIndex, matchesPattern, termsEqual
<1>5. ASSUME NEW x \in WithPredicate(q) PROVE x \in stored /\ x.p = p
  <2>1. x \in stored /\ x.p.value = p.value
    BY <1>1, <1>3 DEF scanIndex, matchesPattern, termsEqual
  <2> QED BY <2>1, OrdinaryTerms
<1> QED BY <1>4, <1>5

LEMMA PremiseExact ==
  ASSUME StoreInv, AllOrdinary, NEW rule \in 1..6
  PROVE  /\ WithPredicate(Premise(rule)) = {x \in stored : x.p = Premise(rule)}
         /\ WithPredicate(SubClassOf) = {x \in stored : x.p = SubClassOf}
<1>1. /\ Premise(rule) \in Terms /\ SubClassOf \in Terms
      /\ Premise(rule).kind = "iri" /\ SubClassOf.kind = "iri"
  BY RdfsAssumption DEF Premise
<1>2. Iri(Premise(rule)) = Premise(rule) /\ Iri(SubClassOf) = SubClassOf
  BY VocabularyUsed, OrdinaryTerms
<1> QED BY <1>1, <1>2, VocabularyUsed, WithExact

LEMMA UsesExact ==
  ASSUME StoreInv, AllOrdinary, NEW x \in stored
  PROVE  WithPredicate(Iri(x.s)) = {d \in stored : d.p = x.s}
<1>1. x.s \in Used /\ x.s \in Terms
  BY OrdinaryTerms DEF StoreInv, Stored
<1> QED BY <1>1, WithExact

(* Infer's check finds what is stored under the ID of an ordinary triple.  *)
LEMMA ExistsKnown ==
  ASSUME StoreInv, AllOrdinary, NEW t \in Triples, Ordinary(t)
  PROVE  exists(t) <=> Known(t)
<1>1. exists(t) => Known(t)
  BY QueryIsStored DEF exists, Known
<1>2. ASSUME NEW x \in stored, hashTriple(x) = hashTriple(t)
      PROVE  x \in Query(t)
  <2>1. x.s.value = t.s.value /\ x.p.value = t.p.value /\ x.o.value = t.o.value
    BY <1>2 DEF hashTriple
  <2>2. {t.s, t.p, t.o} \subseteq Used /\ t.p.kind = "iri"
    BY DEF Ordinary
  <2>3. x.s.kind = t.s.kind /\ x.p.kind = t.p.kind /\ x.o.kind = t.o.kind
    BY <2>1, <2>2, OrdinaryTerms DEF AllOrdinary, OrdinaryData
  <2>4. matchesPattern(x, t)
    BY <2>1, <2>3 DEF matchesPattern, termsEqual
  <2>5. t.s # AnyTerm /\ t.p # AnyTerm
    BY RdfAssumption DEF Triples
  <2>6. Keyed(x)
    BY DEF StoreInv
  <2>7. CASE t.s.kind = "iri"
    <3>1. <<t.s.value, hashTriple(x)>> \in subjKeys
      BY <2>1, <2>3, <2>6, <2>7 DEF Keyed, SubjKey
    <3> QED BY <2>4, <2>5, <2>7, <3>1 DEF Query, BySubject, scanIndex
  <2>8. CASE t.s.kind # "iri"
    <3>1. <<t.p.value, hashTriple(x)>> \in predKeys
      BY <2>1, <2>2, <2>3, <2>6 DEF Keyed, PredKey
    <3> QED BY <2>2, <2>4, <2>5, <2>8, <3>1 DEF Query, BySubject, ByPredicate, scanIndex
  <2> QED BY <2>7, <2>8
<1> QED BY <1>1, <1>2 DEF exists, Known

-----------------------------------------------------------------------------
(* Entails, one rule at a time.                                            *)
Links(S, p, q, z) ==
  \E x, y \in S : /\ x.p = p /\ y.p = q /\ x.o.value = y.s.value /\ x.s # y.o
                  /\ z = Triple(x.s, p, y.o)

Uses(S, p, x, d) == x \in S /\ d \in S /\ x.p = p /\ d.p = x.s

LEMMA EntailsByRule ==
  ASSUME NEW S, NEW z
  PROVE  z \in Entails(S) <=>
           \/ Links(S, SubClassOf, SubClassOf, z)
           \/ Links(S, Type, SubClassOf, z)
           \/ Links(S, SubPropertyOf, SubPropertyOf, z)
           \/ \E x, d \in S : Uses(S, SubPropertyOf, x, d) /\ z = Triple(d.s, x.o, d.o)
           \/ \E x, d \in S : Uses(S, Domain, x, d) /\ z = Triple(d.s, Type, x.o)
           \/ \E x, d \in S : Uses(S, Range, x, d) /\ z = Triple(d.o, Type, x.o)
<1> DEFINE W(p) == {x \in S : x.p = p}
           After(x, q) == {y \in W(q) : x.o.value = y.s.value /\ x.s # y.o}
           Follows(p, q) == UNION {{Triple(x.s, p, y.o) : y \in After(x, q)} : x \in W(p)}
           U(x) == {d \in S : d.p = x.s}
           SP == UNION {{Triple(d.s, x.o, d.o) : d \in U(x)} : x \in W(SubPropertyOf)}
           DO == UNION {{Triple(d.s, Type, x.o) : d \in U(x)} : x \in W(Domain)}
           RA == UNION {{Triple(d.o, Type, x.o) : d \in U(x)} : x \in W(Range)}
<1>1. Entails(S) = Follows(SubClassOf, SubClassOf) \cup Follows(Type, SubClassOf)
                   \cup Follows(SubPropertyOf, SubPropertyOf) \cup SP \cup DO \cup RA
  BY DEF Entails
<1>2. ASSUME NEW p, NEW q PROVE z \in Follows(p, q) <=> Links(S, p, q, z)
  BY DEF Links
<1>3. z \in SP <=> \E x, d \in S : Uses(S, SubPropertyOf, x, d) /\ z = Triple(d.s, x.o, d.o)
  BY DEF Uses
<1>4. z \in DO <=> \E x, d \in S : Uses(S, Domain, x, d) /\ z = Triple(d.s, Type, x.o)
  BY DEF Uses
<1>5. z \in RA <=> \E x, d \in S : Uses(S, Range, x, d) /\ z = Triple(d.o, Type, x.o)
  BY DEF Uses
<1> HIDE DEF Follows, SP, DO, RA
<1> QED BY <1>1, <1>2, <1>3, <1>4, <1>5

(* What follows from a store still follows when it has grown.              *)
LEMMA EntailsGrows ==
  ASSUME NEW S, NEW R, S \subseteq R
  PROVE  Entails(S) \subseteq Entails(R)
BY EntailsByRule DEF Links, Uses

-----------------------------------------------------------------------------
(* A rule derives ordinary triples, and what follows from the store.       *)
LEMMA LinkedFollows ==
  ASSUME AllOrdinary, NEW rule \in {1, 2, 3}, NEW x \in stored, NEW y \in stored,
         x.p = Premise(rule), y.p = IF rule = 2 THEN SubClassOf ELSE Premise(rule),
         x.o.value = y.s.value, x.s.value # y.o.value
  PROVE  Linked(rule, x, y) \in Entails(Statements) /\ Ordinary(Linked(rule, x, y))
<1> DEFINE a == Statement(x)  b == Statement(y)
<1>1. /\ a \in Statements /\ a.s = x.s /\ a.p = x.p /\ a.o = x.o
      /\ b \in Statements /\ b.s = y.s /\ b.p = y.p /\ b.o = y.o
  BY DEF Statements, Statement, Triple
<1> HIDE DEF a, b
<1>2. a.o.value = b.s.value /\ a.s # b.o
  BY <1>1
<1>3. CASE rule = 1
  <2>1. x.p = SubClassOf /\ y.p = SubClassOf
    BY <1>3 DEF Premise
  <2>2. Iri(x.s) = x.s /\ Iri(y.o) = y.o
    BY <2>1, OrdinaryTerms
  <2>3. Linked(rule, x, y) = Triple(x.s, SubClassOf, y.o)
    BY <1>3, <2>2 DEF Linked
  <2>4. Links(Statements, SubClassOf, SubClassOf, Linked(rule, x, y))
    BY <1>1, <1>2, <2>1, <2>3 DEF Links
  <2>5. Ordinary(Triple(x.s, SubClassOf, y.o))
    BY <2>1, OrdinaryTerms, VocabularyUsed, RdfsAssumption DEF Ordinary, Triple
  <2> QED BY <2>3, <2>4, <2>5, EntailsByRule
<1>4. CASE rule = 2
  <2>1. x.p = Type /\ y.p = SubClassOf
    BY <1>4 DEF Premise
  <2>3. Linked(rule, x, y) = Triple(x.s, Type, y.o)
    BY <1>4 DEF Linked
  <2>4. Links(Statements, Type, SubClassOf, Linked(rule, x, y))
    BY <1>1, <1>2, <2>1, <2>3 DEF Links
  <2>5. Ordinary(Triple(x.s, Type, y.o))
    BY <2>1, OrdinaryTerms, VocabularyUsed, RdfsAssumption DEF Ordinary, Triple
  <2> QED BY <2>3, <2>4, <2>5, EntailsByRule
<1>5. CASE rule = 3
  <2>1. x.p = SubPropertyOf /\ y.p = SubPropertyOf
    BY <1>5 DEF Premise
  <2>3. Linked(rule, x, y) = Triple(x.s, SubPropertyOf, y.o)
    BY <1>5 DEF Linked
  <2>4. Links(Statements, SubPropertyOf, SubPropertyOf, Linked(rule, x, y))
    BY <1>1, <1>2, <2>1, <2>3 DEF Links
  <2>5. Ordinary(Triple(x.s, SubPropertyOf, y.o))
    BY <2>1, OrdinaryTerms, RdfsAssumption DEF Ordinary, Triple
  <2> QED BY <2>3, <2>4, <2>5, EntailsByRule
<1> QED BY <1>3, <1>4, <1>5

LEMMA AppliedFollows ==
  ASSUME AllOrdinary, NEW rule \in {4, 5, 6}, NEW x \in stored, NEW d \in stored,
         x.p = Premise(rule), d.p = x.s
  PROVE  Applied(rule, x, d) \in Entails(Statements) /\ Ordinary(Applied(rule, x, d))
<1> DEFINE a == Statement(x)  b == Statement(d)
<1>1. /\ a \in Statements /\ a.s = x.s /\ a.p = x.p /\ a.o = x.o
      /\ b \in Statements /\ b.s = d.s /\ b.p = d.p /\ b.o = d.o
  BY DEF Statements, Statement, Triple
<1> HIDE DEF a, b
<1>2. Uses(Statements, x.p, a, b)
  BY <1>1 DEF Uses
<1>3. CASE rule = 4
  <2>1. x.p = SubPropertyOf /\ Applied(rule, x, d) = Triple(d.s, x.o, d.o)
    BY <1>3 DEF Premise, Applied
  <2>2. Ordinary(Triple(d.s, x.o, d.o))
    BY <2>1, OrdinaryTerms DEF Ordinary, Triple
  <2> QED BY <1>1, <1>2, <2>1, <2>2, EntailsByRule
<1>4. CASE rule = 5
  <2>1. x.p = Domain /\ Applied(rule, x, d) = Triple(d.s, Type, x.o)
    BY <1>4 DEF Premise, Applied
  <2>2. Ordinary(Triple(d.s, Type, x.o))
    BY OrdinaryTerms, VocabularyUsed, RdfsAssumption DEF Ordinary, Triple
  <2> QED BY <1>1, <1>2, <2>1, <2>2, EntailsByRule
<1>5. CASE rule = 6
  <2>1. x.p = Range /\ Applied(rule, x, d) = Triple(d.o, Type, x.o)
    BY <1>5 DEF Premise, Applied
  <2>2. Ordinary(Triple(d.o, Type, x.o))
    BY OrdinaryTerms, VocabularyUsed, RdfsAssumption DEF Ordinary, Triple
  <2> QED BY <1>1, <1>2, <2>1, <2>2, EntailsByRule
<1> QED BY <1>3, <1>4, <1>5

(* The six rules together derive all that follows from the store.          *)
LEMMA RulesComplete ==
  ASSUME StoreInv, AllOrdinary, NEW t \in Entails(Statements)
  PROVE  \E rule \in 1..6 : t \in Derived(rule)
<1>1. ASSUME NEW rule \in {1, 2, 3}, NEW q, q = IF rule = 2 THEN SubClassOf ELSE Premise(rule),
             q \in {SubClassOf, SubPropertyOf},
             Links(Statements, Premise(rule), q, t),
             \A x, y \in stored : /\ x.p = Premise(rule) /\ y.p = q =>
                                       Linked(rule, x, y) = Triple(x.s, Premise(rule), y.o)
      PROVE  t \in Derived(rule)
  <2>1. PICK a, b \in Statements :
          /\ a.p = Premise(rule) /\ b.p = q /\ a.o.value = b.s.value /\ a.s # b.o
          /\ t = Triple(a.s, Premise(rule), b.o)
    BY <1>1 DEF Links
  <2>2. PICK x, y \in stored : a = Statement(x) /\ b = Statement(y)
    BY <2>1 DEF Statements
  <2>3. /\ x.p = Premise(rule) /\ y.p = q /\ x.o.value = y.s.value /\ x.s # y.o
        /\ t = Triple(x.s, Premise(rule), y.o)
    BY <2>1, <2>2 DEF Statement, Triple
  <2>4. x.s.value # y.o.value
    BY <2>3, <1>1, OrdinaryTerms
  <2>5. x \in WithPredicate(Premise(rule)) /\ y \in Second(rule)
    BY <2>3, <1>1, PremiseExact DEF Second
  <2>6. Linked(rule, x, y) \in Chain(rule, WithPredicate(Premise(rule)), Second(rule))
    <3>1. <<x, y>> \in {m \in WithPredicate(Premise(rule)) \X Second(rule) :
                          m[1].o.value = m[2].s.value /\ m[1].s.value # m[2].o.value}
      BY <2>3, <2>4, <2>5
    <3> QED BY <3>1 DEF Chain
  <2>7. t = Linked(rule, x, y)
    BY <2>3, <1>1
  <2> QED BY <2>6, <2>7 DEF Derived
<1>2. ASSUME NEW rule \in {4, 5, 6}, NEW a \in Statements, NEW b \in Statements,
             Uses(Statements, Premise(rule), a, b)
      PROVE  \E x, d \in stored : /\ a = Statement(x) /\ b = Statement(d)
                                  /\ Applied(rule, x, d) \in Derived(rule)
  <2>1. PICK x, d \in stored : a = Statement(x) /\ b = Statement(d)
    BY DEF Statements
  <2>2. x.p = Premise(rule) /\ d.p = x.s
    BY <1>2, <2>1 DEF Uses, Statement, Triple
  <2>3. x \in WithPredicate(Premise(rule)) /\ d \in WithPredicate(Iri(x.s))
    BY <2>2, PremiseExact, UsesExact
  <2>4. Applied(rule, x, d) \in AppliedTo(rule, x)
    BY <2>3 DEF AppliedTo
  <2> QED BY <2>1, <2>3, <2>4 DEF Derived
<1>3. CASE Links(Statements, SubClassOf, SubClassOf, t)
  <2>1. \A x, y \in stored : x.p = SubClassOf /\ y.p = SubClassOf =>
          Linked(1, x, y) = Triple(x.s, SubClassOf, y.o)
    BY OrdinaryTerms DEF Linked
  <2>2. Premise(1) = SubClassOf
    BY DEF Premise
  <2>3. t \in Derived(1)
    BY <1>1, <1>3, <2>1, <2>2
  <2> QED BY <2>3
<1>4. CASE Links(Statements, Type, SubClassOf, t)
  <2>1. \A x, y \in stored : Linked(2, x, y) = Triple(x.s, Type, y.o)
    BY DEF Linked
  <2>2. Premise(2) = Type
    BY DEF Premise
  <2>3. t \in Derived(2)
    BY <1>1, <1>4, <2>1, <2>2
  <2> QED BY <2>3
<1>5. CASE Links(Statements, SubPropertyOf, SubPropertyOf, t)
  <2>1. \A x, y \in stored : Linked(3, x, y) = Triple(x.s, SubPropertyOf, y.o)
    BY DEF Linked
  <2>2. Premise(3) = SubPropertyOf
    BY DEF Premise
  <2>3. t \in Derived(3)
    BY <1>1, <1>5, <2>1, <2>2
  <2> QED BY <2>3
<1>6. ASSUME NEW a \in Statements, NEW b \in Statements,
             Uses(Statements, SubPropertyOf, a, b), t = Triple(b.s, a.o, b.o)
      PROVE  t \in Derived(4)
  <2>1. Premise(4) = SubPropertyOf
    BY DEF Premise
  <2>2. PICK x, d \in stored : /\ a = Statement(x) /\ b = Statement(d)
                               /\ Applied(4, x, d) \in Derived(4)
    BY <1>2, <1>6, <2>1
  <2> QED BY <1>6, <2>2 DEF Applied, Statement, Triple
<1>7. ASSUME NEW a \in Statements, NEW b \in Statements,
             Uses(Statements, Domain, a, b), t = Triple(b.s, Type, a.o)
      PROVE  t \in Derived(5)
  <2>1. Premise(5) = Domain
    BY DEF Premise
  <2>2. PICK x, d \in stored : /\ a = Statement(x) /\ b = Statement(d)
                               /\ Applied(5, x, d) \in Derived(5)
    BY <1>2, <1>7, <2>1
  <2> QED BY <1>7, <2>2 DEF Applied, Statement, Triple
<1>8. ASSUME NEW a \in Statements, NEW b \in Statements,
             Uses(Statements, Range, a, b), t = Triple(b.o, Type, a.o)
      PROVE  t \in Derived(6)
  <2>1. Premise(6) = Range
    BY DEF Premise
  <2>2. PICK x, d \in stored : /\ a = Statement(x) /\ b = Statement(d)
                               /\ Applied(6, x, d) \in Derived(6)
    BY <1>2, <1>8, <2>1
  <2> QED BY <1>8, <2>2 DEF Applied, Statement, Triple
<1> QED BY <1>3, <1>4, <1>5, <1>6, <1>7, <1>8, EntailsByRule

-----------------------------------------------------------------------------
(* What a call of Infer holds: premises of its rule that are stored, and   *)
(* derived triples that follow from the store.                             *)
Held(r, S) ==
  /\ \A x \in r.first : x \in S /\ x.p = Premise(r.rule)
  /\ \A t \in r.todo : t \in Entails({Statement(x) : x \in S}) /\ Ordinary(t)
  /\ r.rule <= 3 /\ r.pc # "second" => r.first = {}
  /\ r.pc = "second" => r.todo = {}
  /\ r.pc \in {"first", "done"} => r.first = {} /\ r.todo = {}

RuleInv ==
  /\ \A x \in stored : Ordinary(Statement(x))
  /\ AssertedKept
  /\ run \in Working \cup Writing => Held(run, stored)
  /\ run.pc = "write" => run.t \in run.todo /\ ~Known(run.t)
  /\ run.pc = "clearing" => \A x \in stored : hashTriple(x) \in run.ids => x.inferred

LEMMA GoOnHeld ==
  ASSUME NEW S, NEW r \in Working,
         \A x \in r.first : x \in S /\ x.p = Premise(r.rule),
         \A t \in r.todo : t \in Entails({Statement(x) : x \in S}) /\ Ordinary(t),
         r.rule <= 3 => r.first = {}
  PROVE  Held(GoOn(r), S)
<1>1. CASE r.todo # {}
  <2>1. /\ GoOn(r).pc = "check" /\ GoOn(r).first = r.first
        /\ GoOn(r).todo = r.todo /\ GoOn(r).rule = r.rule
    BY <1>1 DEF GoOn, Working
  <2> QED BY <2>1 DEF Held
<1>2. CASE r.todo = {} /\ r.first # {}
  <2>1. /\ GoOn(r).pc = "second" /\ GoOn(r).first = r.first
        /\ GoOn(r).todo = {} /\ GoOn(r).rule = r.rule
    BY <1>2 DEF GoOn, Working
  <2> QED BY <1>2, <2>1 DEF Held
<1>3. CASE r.todo = {} /\ r.first = {}
  <2>1. GoOn(r).pc \in {"first", "done"} /\ GoOn(r).first = {} /\ GoOn(r).todo = {}
    BY <1>3 DEF GoOn, Working
  <2> QED BY <2>1 DEF Held
<1> QED BY <1>1, <1>2, <1>3

(* A triple that nothing is stored under adds itself and disturbs nothing. *)
LEMMA WriteAdds ==
  ASSUME NEW t \in Triples, ~Known(t), UpsertTriple(t, TRUE)
  PROVE  stored' = stored \cup {Flagged(t, TRUE)}
BY DEF UpsertTriple, Known

(* What callers have asserted is what is stored and not flagged, whichever *)
(* triple an assertion replaces.                                           *)
LEMMA AssertKeeps ==
  ASSUME StoreInv, AssertedKept, NEW t \in Triples, UpsertTriple(t, FALSE),
         asserted' = {u \in asserted : hashTriple(u) # hashTriple(t)} \cup {t}
  PROVE  AssertedKept'
<1> DEFINE y == Flagged(t, FALSE)
<1>1. stored' = {x \in stored : hashTriple(x) # hashTriple(t)} \cup {y}
  BY DEF UpsertTriple
<1>2. ~y.inferred /\ Statement(y) = t
  BY DEF Flagged, Statement, Triple, Triples
<1> HIDE DEF y
<1>3. \A x : hashTriple(Statement(x)) = hashTriple(x)
  BY DEF hashTriple, Statement, Triple
<1>4. ASSUME NEW u \in asserted' PROVE \E x \in stored' : ~x.inferred /\ Statement(x) = u
  <2>1. CASE u = t
    BY <1>1, <1>2, <2>1
  <2>2. CASE u \in asserted /\ hashTriple(u) # hashTriple(t)
    <3>1. PICK x \in stored : ~x.inferred /\ Statement(x) = u
      BY <2>2 DEF AssertedKept
    <3> QED BY <1>1, <1>3, <2>2, <3>1
  <2> QED BY <2>1, <2>2
<1>5. ASSUME NEW x \in stored', ~x.inferred PROVE Statement(x) \in asserted'
  <2>1. CASE x = y
    BY <1>2, <2>1
  <2>2. CASE x \in stored /\ hashTriple(x) # hashTriple(t)
    <3>1. Statement(x) \in asserted
      BY <1>5, <2>2 DEF AssertedKept
    <3> QED BY <1>3, <2>2, <3>1
  <2> QED BY <1>1, <2>1, <2>2
<1> QED BY <1>4, <1>5 DEF AssertedKept

(* Retracting takes the assertion away with the triple: no other triple    *)
(* states the same, since it would have the same ID.                       *)
LEMMA RetractKeeps ==
  ASSUME StoreInv, AssertedKept, NEW x \in stored, DeleteTriple(x),
         asserted' = asserted \ {Statement(x)}
  PROVE  AssertedKept'
<1>1. stored' = stored \ {x}
  BY DEF DeleteTriple
<1>2. \A z : hashTriple(Statement(z)) = hashTriple(z)
  BY DEF hashTriple, Statement, Triple
<1>3. \A z \in stored : Statement(z) = Statement(x) => z = x
  BY <1>2 DEF StoreInv, OneTriplePerID
<1> QED BY <1>1, <1>3 DEF AssertedKept

LEMMA RuleStep ==
  ASSUME InferAlone, OrdinaryData, IInv, RuleInv, [Next]_vars
  PROVE  RuleInv'
<1>0. StoreInv /\ RunOK /\ AllOrdinary
  BY DEF IInv, RuleInv, AllOrdinary
<1>s. \A x : hashTriple(Statement(x)) = hashTriple(x)
  BY DEF hashTriple, Statement, Triple
<1>1. ASSUME NEW t \in Asserts, AssertTriple(t) PROVE RuleInv'
  <2>1. t \in Triples /\ Ordinary(t)
    BY RdfsAssumption DEF Triple, Triples, OrdinaryData
  <2>2. AssertedKept'
    BY <1>0, <1>1, <2>1, AssertKeeps DEF AssertTriple, RuleInv
  <2>3. Statement(Flagged(t, FALSE)) = t
    BY <2>1 DEF Flagged, Statement, Triple, Triples
  <2>4. \A x \in stored' : Ordinary(Statement(x))
    BY <1>1, <2>1, <2>3 DEF AssertTriple, UpsertTriple, RuleInv
  <2>5. run'.pc = "idle"
    BY <1>1 DEF AssertTriple
  <2> QED BY <2>2, <2>4, <2>5 DEF RuleInv, Working, Writing
<1>2. ASSUME NEW x \in stored, RetractTriple(x) PROVE RuleInv'
  <2>1. AssertedKept'
    BY <1>0, <1>2, RetractKeeps DEF RetractTriple, RuleInv
  <2>2. stored' \subseteq stored /\ run' = run /\ run.pc \in {"idle", "clearing"}
    BY <1>2 DEF RetractTriple, DeleteTriple
  <2> QED BY <2>1, <2>2 DEF RuleInv, Working, Writing
<1>3. CASE Infer
  <2>1. run' = Start /\ stored' = stored /\ asserted' = asserted
    BY <1>3 DEF Infer, store
  <2> QED BY <2>1 DEF Start, RuleInv, Held, AssertedKept
<1>4. ASSUME run' \in Working, Held(run', stored), stored' = stored, asserted' = asserted
      PROVE RuleInv'
  BY <1>4 DEF RuleInv, AssertedKept, Working
<1>5. CASE ReadFirst
  <2> DEFINE X == WithPredicate(Premise(run.rule))
  <2>1. run \in Working /\ Held(run, stored) /\ run.first = {} /\ run.todo = {}
    BY <1>0, <1>5 DEF ReadFirst, RunOK, Writing, RuleInv, Held
  <2>2. X = {x \in stored : x.p = Premise(run.rule)}
    BY <1>0, <2>1, PremiseExact DEF Working
  <2> HIDE DEF X
  <2>3. CASE X = {}
    <3>1. Held(GoOn(run), stored)
      BY <2>1, GoOnHeld
    <3> QED BY <1>4, <1>5, <2>3, <3>1, InferWorks DEF ReadFirst, store, X
  <2>4. CASE X # {}
    <3>1. run' = [run EXCEPT !.pc = "second", !.first = X]
      BY <1>5, <2>4 DEF ReadFirst, X
    <3>2. Held(run', stored)
      BY <2>1, <2>2, <3>1 DEF Held, Working
    <3> QED BY <1>4, <1>5, <3>2, InferWorks DEF ReadFirst, store
  <2> QED BY <2>3, <2>4
<1>6. CASE ReadSecond
  <2> DEFINE Y == IF run.rule = 2 THEN WithPredicate(SubClassOf) ELSE run.first
             C == Chain(run.rule, run.first, Y)
             r == [run EXCEPT !.first = {}, !.todo = C]
  <2>1. run \in Working /\ Held(run, stored) /\ run.rule \in {1, 2, 3}
    BY <1>0, <1>6 DEF ReadSecond, RunOK, Working, Writing, RuleInv
  <2>2. \A y \in Y : y \in stored /\ y.p = IF run.rule = 2 THEN SubClassOf ELSE Premise(run.rule)
    BY <1>0, <2>1, PremiseExact DEF Held
  <2>3. Y \subseteq Stored /\ run.first \subseteq Stored
    BY <1>0, <2>1, <2>2 DEF StoreInv, Working
  <2> HIDE DEF Y
  <2>4. \A t \in C : t \in Entails(Statements) /\ Ordinary(t)
    <3> SUFFICES ASSUME NEW x \in run.first, NEW y \in Y,
                        x.o.value = y.s.value, x.s.value # y.o.value
                 PROVE  /\ Linked(run.rule, x, y) \in Entails(Statements)
                        /\ Ordinary(Linked(run.rule, x, y))
      BY DEF Chain
    <3> QED BY <1>0, <2>1, <2>2, LinkedFollows DEF Held
  <2>5. C \subseteq Triples
    BY <2>1, <2>3, ChainOK
  <2> HIDE DEF C
  <2>6. r \in Working /\ r.first = {} /\ r.todo = C
    BY <2>1, <2>5 DEF Working
  <2> HIDE DEF r
  <2>7. Held(GoOn(r), stored)
    BY <2>4, <2>6, GoOnHeld DEF Statements
  <2>8. run' = GoOn(r)
    BY <1>6 DEF ReadSecond, r, C, Y
  <2> QED BY <1>4, <1>6, <2>7, <2>8, InferWorks DEF ReadSecond, store
<1>7. ASSUME NEW x \in stored, ReadUses(x) PROVE RuleInv'
  <2> DEFINE A == {Applied(run.rule, x, d) : d \in WithPredicate(Iri(x.s))}
             r == [run EXCEPT !.first = @ \ {x}, !.todo = A]
  <2>1. run \in Working /\ Held(run, stored)
    BY <1>0, <1>7 DEF ReadUses, RunOK, Writing, RuleInv
  <2>2. run.rule \in {4, 5, 6} /\ ~(run.rule <= 3)
    <3>1. run.rule \in 1..6 /\ run.rule >= 4
      BY <1>7, <2>1 DEF Working, ReadUses
    <3> QED BY <3>1
  <2>3. x \in run.first /\ x.p = Premise(run.rule)
    BY <1>7, <2>1 DEF ReadUses, Held
  <2>4. \A t \in A : t \in Entails(Statements) /\ Ordinary(t)
    BY <1>0, <2>2, <2>3, UsesExact, AppliedFollows
  <2>5. A \subseteq Triples
    BY <1>0, <2>2, WithIsStored, AppliedOK DEF StoreInv
  <2> HIDE DEF A
  <2>6. r \in Working /\ r.first = run.first \ {x} /\ r.todo = A /\ r.rule = run.rule
    BY <2>1, <2>5 DEF Working
  <2> HIDE DEF r
  <2>7. Held(GoOn(r), stored)
    <3>1. \A z \in r.first : z \in stored /\ z.p = Premise(r.rule)
      BY <2>1, <2>6 DEF Held
    <3>2. \A t \in r.todo : t \in Entails({Statement(z) : z \in stored}) /\ Ordinary(t)
      BY <2>4, <2>6 DEF Statements
    <3> QED BY <2>2, <2>6, <3>1, <3>2, GoOnHeld
  <2>8. run' = GoOn(r)
    BY <1>7 DEF ReadUses, r, A
  <2> QED BY <1>4, <1>7, <2>7, <2>8, InferWorks DEF ReadUses, store
<1>8. ASSUME NEW t \in Todo, Skip(t) PROVE RuleInv'
  <2> DEFINE r == [run EXCEPT !.todo = @ \ {t}]
  <2>1. run \in Working /\ Held(run, stored) /\ run.pc = "check"
    BY <1>0, <1>8 DEF Skip, RunOK, Writing, RuleInv
  <2>2. r \in Working /\ r.first = run.first /\ r.todo = run.todo \ {t} /\ r.rule = run.rule
    BY <2>1 DEF Working
  <2> HIDE DEF r
  <2>3. Held(GoOn(r), stored)
    <3>1. \A z \in r.first : z \in stored /\ z.p = Premise(r.rule)
      BY <2>1, <2>2 DEF Held
    <3>2. \A u \in r.todo : u \in Entails({Statement(z) : z \in stored}) /\ Ordinary(u)
      BY <2>1, <2>2 DEF Held
    <3>3. r.rule <= 3 => r.first = {}
      BY <2>1, <2>2 DEF Held
    <3> QED BY <2>2, <3>1, <3>2, <3>3, GoOnHeld
  <2>4. run' = GoOn(r)
    BY <1>8 DEF Skip, r
  <2> QED BY <1>4, <1>8, <2>3, <2>4, InferWorks DEF Skip, store
<1>9. ASSUME NEW t \in Todo, Check(t) PROVE RuleInv'
  <2>1. run \in Working /\ Held(run, stored) /\ t \in run.todo /\ run.pc = "check"
    BY <1>0, <1>9 DEF Check, RunOK, Writing, RuleInv
  <2>2. t \in Triples /\ Ordinary(t)
    BY <2>1 DEF Working, Held
  <2>3. ~Known(t)
    BY <1>0, <1>9, <2>2, ExistsKnown DEF Check
  <2>4. /\ run'.pc = "write" /\ run'.rule = run.rule /\ run'.first = run.first
        /\ run'.todo = run.todo /\ run'.t = t
    BY <1>9 DEF Check
  <2>5. Held(run', stored)
    BY <2>1, <2>4 DEF Held
  <2>6. stored' = stored /\ asserted' = asserted
    BY <1>9 DEF Check, store
  <2> QED BY <2>1, <2>3, <2>4, <2>5, <2>6 DEF RuleInv, AssertedKept, Known
<1>10. CASE Write
  <2> DEFINE t == run.t  y == Flagged(t, TRUE)
             r == [pc |-> "check", rule |-> run.rule, first |-> run.first,
                   todo |-> run.todo \ {run.t}, new |-> TRUE]
  <2>1. run \in Writing /\ Held(run, stored) /\ t \in run.todo /\ ~Known(t)
    BY <1>0, <1>10 DEF Write, RunOK, Working, RuleInv
  <2>2. t \in Triples /\ Ordinary(t) /\ run.pc = "write"
    BY <2>1 DEF Writing, Held
  <2>3. stored' = stored \cup {y}
    BY <1>10, <2>1, <2>2, WriteAdds DEF Write
  <2>4. y.inferred /\ Statement(y) = t
    BY <2>2 DEF Flagged, Statement, Triple, Triples
  <2> HIDE DEF y, t
  <2>5. \A x \in stored' : Ordinary(Statement(x))
    BY <2>2, <2>3, <2>4 DEF RuleInv
  <2>6. AssertedKept'
    BY <1>10, <2>3, <2>4 DEF RuleInv, AssertedKept, Write
  <2>7. r \in Working /\ r.first = run.first /\ r.todo \subseteq run.todo /\ r.rule = run.rule
    BY <2>1 DEF Working, Writing
  <2>8. run' = GoOn(r)
    BY <1>10 DEF Write
  <2> HIDE DEF r
  <2>9. Entails({Statement(x) : x \in stored}) \subseteq Entails({Statement(x) : x \in stored'})
    BY <2>3, EntailsGrows
  <2>10. Held(GoOn(r), stored')
    <3>1. \A z \in r.first : z \in stored' /\ z.p = Premise(r.rule)
      BY <2>1, <2>3, <2>7 DEF Held
    <3>2. \A u \in r.todo : u \in Entails({Statement(z) : z \in stored'}) /\ Ordinary(u)
      BY <2>1, <2>7, <2>9 DEF Held
    <3>3. r.rule <= 3 => r.first = {}
      BY <2>1, <2>2, <2>7 DEF Held
    <3> QED BY <2>7, <3>1, <3>2, <3>3, GoOnHeld
  <2>11. run' \in Working
    BY <2>7, <2>8, GoOnOK
  <2> QED BY <2>5, <2>6, <2>8, <2>10, <2>11 DEF RuleInv, Working
<1>11. CASE InferReturn \/ ClearReturn
  BY <1>11 DEF InferReturn, ClearReturn, Idle, store, RuleInv, AssertedKept, Working, Writing
<1>12. CASE ClearInferred
  <2> DEFINE ids == {hashTriple(x) : x \in {y \in stored : y.inferred}}
  <2>1. run' = Clearing(ids) /\ stored' = stored /\ asserted' = asserted
    BY <1>12 DEF ClearInferred, store
  <2>2. \A x \in stored : hashTriple(x) \in ids => x.inferred
    BY <1>0 DEF StoreInv, OneTriplePerID
  <2> QED BY <2>1, <2>2 DEF RuleInv, AssertedKept, Clearing, Working, Writing
<1>13. ASSUME NEW id \in Ids, ClearDelete(id) PROVE RuleInv'
  <2>1. PICK x \in stored : hashTriple(x) = id /\ DeleteTriple(x)
    BY <1>13 DEF ClearDelete
  <2>2. stored' = stored \ {x} /\ x.inferred /\ asserted' = asserted
    BY <1>13, <2>1 DEF DeleteTriple, ClearDelete, RuleInv
  <2>3. run' = Clearing(run.ids \ {id}) /\ run.pc = "clearing"
    BY <1>13 DEF ClearDelete
  <2>4. AssertedKept'
    BY <2>2 DEF AssertedKept, RuleInv
  <2> QED BY <2>2, <2>3, <2>4 DEF RuleInv, Clearing, Working, Writing
<1>14. ASSUME NEW id \in Ids, ClearFails(id) PROVE RuleInv'
  BY <1>14 DEF ClearFails, Idle, store, RuleInv, AssertedKept, Working, Writing
<1>15. CASE UNCHANGED vars
  BY <1>15 DEF vars, RuleInv, AssertedKept, Known, Held
<1> QED
  BY <1>1, <1>2, <1>3, <1>5, <1>6, <1>7, <1>8, <1>9, <1>10, <1>11,
     <1>12, <1>13, <1>14, <1>15 DEF Next

(* What callers have asserted, and neither retracted nor replaced, is what *)
(* is stored and not flagged, whatever is inferred and cleared in between. *)
THEOREM AssertionsAreKept ==
  ASSUME InferAlone, OrdinaryData
  PROVE  Spec => []AssertedKept
<1>1. Init => RuleInv
  BY DEF Init, StoreInit, Idle, RuleInv, AssertedKept, Working, Writing
<1>2. IInv /\ RuleInv /\ [Next]_vars => RuleInv'
  BY RuleStep
<1>3. RuleInv => AssertedKept
  BY DEF RuleInv
<1> QED BY <1>1, <1>2, <1>3, Inductive, PTL DEF Spec

(* Whatever Infer stores follows from what is stored at that time by one   *)
(* use of a rule, though it was derived from an earlier reading.           *)
THEOREM InferenceIsSound ==
  ASSUME InferAlone, OrdinaryData
  PROVE  Spec => InferSound
<1>1. Init => RuleInv
  BY DEF Init, StoreInit, Idle, RuleInv, AssertedKept, Working, Writing
<1>2. IInv /\ RuleInv /\ [Next]_vars => RuleInv'
  BY RuleStep
<1>3. IInv /\ RuleInv => (run.pc = "write" => run.t \in Entails(Statements))
  BY DEF IInv, RunOK, Working, RuleInv, Held, Statements
<1> QED BY <1>1, <1>2, <1>3, Inductive, PTL DEF Spec, InferSound

-----------------------------------------------------------------------------
(* All that the rule in hand derives is stored, or will be looked at.      *)
Handled(r) ==
  \A t \in Derived(r.rule) :
    \/ Known(t)
    \/ t \in r.todo
    \/ r.rule >= 4 /\ \E x \in r.first : t \in AppliedTo(r.rule, x)

(* A call that has stored nothing has found stored what the rules it has   *)
(* left behind derive.                                                     *)
Closing(r) ==
  /\ \A n \in 1..6 : n < r.rule \/ r.pc = "done" => \A t \in Derived(n) : Known(t)
  /\ r.pc = "second" /\ r.rule <= 3 => r.first = WithPredicate(Premise(r.rule))
  /\ r.pc = "check" \/ (r.pc = "second" /\ r.rule >= 4) => Handled(r)

CloseInv == run \in Working /\ ~run.new => Closing(run)

LEMMA GoOnCloses ==
  ASSUME NEW r \in Working,
         \A n \in 1..6 : n < r.rule => \A t \in Derived(n) : Known(t),
         Handled(r), r.rule <= 3 => r.first = {}
  PROVE  Closing(GoOn(r))
<1>0. r.rule \in 1..6
  BY DEF Working
<1>1. CASE r.todo # {}
  <2>1. /\ GoOn(r).pc = "check" /\ GoOn(r).first = r.first
        /\ GoOn(r).todo = r.todo /\ GoOn(r).rule = r.rule
    BY <1>1 DEF GoOn, Working
  <2> QED BY <2>1 DEF Closing, Handled
<1>2. CASE r.todo = {} /\ r.first # {}
  <2>1. /\ GoOn(r).pc = "second" /\ GoOn(r).first = r.first
        /\ GoOn(r).todo = r.todo /\ GoOn(r).rule = r.rule
    BY <1>2 DEF GoOn, Working
  <2> QED BY <1>2, <2>1 DEF Closing, Handled
<1>3. CASE r.todo = {} /\ r.first = {}
  <2>1. \A t \in Derived(r.rule) : Known(t)
    BY <1>3 DEF Handled
  <2>2. CASE r.rule < 6
    <3>1. GoOn(r).pc = "first" /\ GoOn(r).rule = r.rule + 1
      BY <1>3, <2>2 DEF GoOn, Working
    <3>2. \A n \in 1..6 : n < r.rule + 1 => n < r.rule \/ n = r.rule
      BY <1>0
    <3> QED BY <2>1, <3>1, <3>2 DEF Closing
  <2>3. CASE r.rule = 6
    <3>1. GoOn(r).pc = "done"
      BY <1>3, <2>3 DEF GoOn, Working
    <3>2. \A n \in 1..6 : n < 6 \/ n = 6
      OBVIOUS
    <3> QED BY <2>1, <2>3, <3>1, <3>2 DEF Closing
  <2> QED BY <1>0, <2>2, <2>3
<1> QED BY <1>1, <1>2, <1>3

(* A step that leaves the store alone leaves what the rules derive alone.  *)
LEMMA SameStore ==
  ASSUME UNCHANGED store, Closing(run')
  PROVE  Closing(run)'
<1>1. stored' = stored /\ subjKeys' = subjKeys /\ predKeys' = predKeys /\ objKeys' = objKeys
  BY DEF store
<1>2. \A p : WithPredicate(p)' = WithPredicate(p)
  BY <1>1 DEF WithPredicate, Query, scanIndex
<1>3. \A n : Derived(n)' = Derived(n)
  BY <1>2 DEF Derived, Second, AppliedTo
<1>4. \A t : Known(t)' <=> Known(t)
  BY <1>1 DEF Known
<1>5. \A n, x : AppliedTo(n, x)' = AppliedTo(n, x)
  BY <1>2 DEF AppliedTo
<1>6. Handled(run') => Handled(run)'
  BY <1>3, <1>4, <1>5 DEF Handled
<1> QED BY <1>2, <1>3, <1>4, <1>6 DEF Closing

LEMMA CloseStep ==
  ASSUME InferAlone, IInv, RuleInv, CloseInv, OrdinaryData, [Next]_vars
  PROVE  CloseInv'
<1>0. StoreInv /\ RunOK /\ AllOrdinary
  BY DEF IInv, RuleInv, AllOrdinary
<1>1. CASE (\E t \in Asserts : AssertTriple(t)) \/ (\E x \in stored : RetractTriple(x))
  BY <1>1 DEF AssertTriple, RetractTriple, CloseInv, Working
<1>2. CASE Infer
  <2>1. Closing(Start)
    BY DEF Closing, Start
  <2> QED BY <1>2, <2>1, SameStore DEF Infer, CloseInv
<1>3. CASE ReadFirst
  <2> DEFINE X == WithPredicate(Premise(run.rule))
  <2>1. run \in Working /\ Held(run, stored) /\ run.first = {} /\ run.todo = {}
    BY <1>0, <1>3 DEF ReadFirst, RunOK, Writing, RuleInv, Held
  <2>2. run.rule \in 1..6 /\ run.pc = "first"
    BY <1>3, <2>1 DEF Working, ReadFirst
  <2>3. \A n \in 1..6 : n < run.rule => \A t \in Derived(n) : ~run.new => Known(t)
    BY <2>1 DEF CloseInv, Closing
  <2>4. CASE X = {}
    <3>1. Derived(run.rule) = {}
      BY <2>4 DEF Derived, Chain
    <3>2. ~run.new => Closing(GoOn(run))
      BY <2>1, <2>3, <3>1, GoOnCloses DEF Handled
    <3>3. run' = GoOn(run) /\ GoOn(run).new = run.new
      BY <1>3, <2>1, <2>4 DEF ReadFirst, GoOn, Working
    <3> QED BY <1>3, <3>2, <3>3, SameStore DEF ReadFirst, CloseInv
  <2>5. CASE X # {}
    <3>1. /\ run'.pc = "second" /\ run'.first = X /\ run'.rule = run.rule
          /\ run'.todo = run.todo /\ run'.new = run.new
      BY <1>3, <2>1, <2>5 DEF ReadFirst, Working
    <3>2. run.rule >= 4 => Handled(run')
      BY <2>2, <3>1 DEF Handled, Derived
    <3>3. ~run.new => Closing(run')
      BY <2>3, <3>1, <3>2 DEF Closing
    <3> QED BY <1>3, <3>1, <3>3, SameStore DEF ReadFirst, CloseInv
  <2> QED BY <2>4, <2>5
<1>4. CASE ReadSecond
  <2> DEFINE Y == IF run.rule = 2 THEN WithPredicate(SubClassOf) ELSE run.first
             C == Chain(run.rule, run.first, Y)
             r == [run EXCEPT !.first = {}, !.todo = C]
  <2>1. run \in Working /\ run.rule \in {1, 2, 3} /\ run.pc = "second"
    BY <1>0, <1>4 DEF ReadSecond, RunOK, Working, Writing
  <2>2. ~run.new => C = Derived(run.rule)
    BY <2>1 DEF CloseInv, Closing, Derived, Second
  <2>3. Y \subseteq Stored /\ run.first \subseteq Stored
    BY <1>0, <2>1, WithIsStored DEF StoreInv, Working
  <2> HIDE DEF Y
  <2>4. C \subseteq Triples
    BY <2>1, <2>3, ChainOK
  <2> HIDE DEF C
  <2>5. r \in Working /\ r.first = {} /\ r.todo = C /\ r.rule = run.rule /\ r.new = run.new
    BY <2>1, <2>4 DEF Working
  <2> HIDE DEF r
  <2>6. ~run.new => Handled(r)
    BY <2>2, <2>5 DEF Handled
  <2>7. \A n \in 1..6 : n < r.rule => \A t \in Derived(n) : ~run.new => Known(t)
    BY <2>1, <2>5 DEF CloseInv, Closing
  <2>8. ~run.new => Closing(GoOn(r))
    BY <2>5, <2>6, <2>7, GoOnCloses
  <2>9. run' = GoOn(r) /\ GoOn(r).new = run.new
    <3>1. GoOn(r).new = r.new
      BY <2>5 DEF GoOn, Working
    <3> QED BY <1>4, <2>5, <3>1 DEF ReadSecond, r, C, Y
  <2> QED BY <1>4, <2>8, <2>9, SameStore DEF ReadSecond, CloseInv
<1>5. ASSUME NEW x \in stored, ReadUses(x) PROVE CloseInv'
  <2> DEFINE A == {Applied(run.rule, x, d) : d \in WithPredicate(Iri(x.s))}
             r == [run EXCEPT !.first = @ \ {x}, !.todo = A]
  <2>1. run \in Working /\ run.pc = "second" /\ run.todo = {}
    BY <1>0, <1>5 DEF ReadUses, RunOK, Writing, RuleInv, Held
  <2>2. run.rule \in {4, 5, 6} /\ ~(run.rule <= 3) /\ run.rule >= 4
    <3>1. run.rule \in 1..6 /\ run.rule >= 4
      BY <1>5, <2>1 DEF Working, ReadUses
    <3> QED BY <3>1
  <2>3. A \subseteq Triples
    BY <1>0, <2>2, WithIsStored, AppliedOK DEF StoreInv
  <2>4. A = AppliedTo(run.rule, x)
    BY DEF AppliedTo
  <2> HIDE DEF A
  <2>5. /\ r \in Working /\ r.first = run.first \ {x} /\ r.todo = A
        /\ r.rule = run.rule /\ r.new = run.new
    BY <2>1, <2>3 DEF Working
  <2> HIDE DEF r
  <2>6. ~run.new => Handled(r)
    <3>1. ~run.new => Handled(run)
      BY <2>1, <2>2 DEF CloseInv, Closing
    <3> QED BY <2>1, <2>4, <2>5, <3>1 DEF Handled
  <2>7. \A n \in 1..6 : n < r.rule => \A t \in Derived(n) : ~run.new => Known(t)
    BY <2>1, <2>5 DEF CloseInv, Closing
  <2>8. ~run.new => Closing(GoOn(r))
    BY <2>2, <2>5, <2>6, <2>7, GoOnCloses
  <2>9. run' = GoOn(r) /\ GoOn(r).new = run.new
    <3>1. GoOn(r).new = r.new
      BY <2>5 DEF GoOn, Working
    <3> QED BY <1>5, <2>5, <3>1 DEF ReadUses, r, A
  <2> QED BY <1>5, <2>8, <2>9, SameStore DEF ReadUses, CloseInv
<1>6. ASSUME NEW t \in Todo, Skip(t) PROVE CloseInv'
  <2> DEFINE r == [run EXCEPT !.todo = @ \ {t}]
  <2>1. run \in Working /\ run.pc = "check" /\ (run.rule <= 3 => run.first = {})
    BY <1>0, <1>6 DEF Skip, RunOK, Writing, RuleInv, Held
  <2>2. Known(t)
    BY <1>6, QueryIsStored DEF Skip, exists, Known
  <2>3. /\ r \in Working /\ r.first = run.first /\ r.todo = run.todo \ {t}
        /\ r.rule = run.rule /\ r.new = run.new
    BY <2>1 DEF Working
  <2> HIDE DEF r
  <2>4. ~run.new => Handled(r)
    <3>1. ~run.new => Handled(run)
      BY <2>1 DEF CloseInv, Closing
    <3> QED BY <2>2, <2>3, <3>1 DEF Handled
  <2>5. \A n \in 1..6 : n < r.rule => \A u \in Derived(n) : ~run.new => Known(u)
    BY <2>1, <2>3 DEF CloseInv, Closing
  <2>6. ~run.new => Closing(GoOn(r))
    BY <2>1, <2>3, <2>4, <2>5, GoOnCloses
  <2>7. run' = GoOn(r) /\ GoOn(r).new = run.new
    <3>1. GoOn(r).new = r.new
      BY <2>3 DEF GoOn, Working
    <3> QED BY <1>6, <2>3, <3>1 DEF Skip, r
  <2> QED BY <1>6, <2>6, <2>7, SameStore DEF Skip, CloseInv
<1>7. CASE \E t \in Todo : Check(t)
  BY <1>7 DEF Check, CloseInv, Working
<1>8. CASE Write
  <2> DEFINE r == [pc |-> "check", rule |-> run.rule, first |-> run.first,
                   todo |-> run.todo \ {run.t}, new |-> TRUE]
  <2>1. run' = GoOn(r)
    BY <1>8 DEF Write
  <2>2. GoOn(r).new = TRUE
    BY DEF GoOn
  <2> QED BY <2>1, <2>2 DEF CloseInv
<1>9. CASE \/ InferReturn \/ ClearReturn \/ ClearInferred
           \/ \E id \in Ids : ClearDelete(id) \/ ClearFails(id)
  BY <1>9 DEF InferReturn, ClearReturn, ClearInferred, ClearDelete, ClearFails,
              Idle, Clearing, CloseInv, Working
<1>10. CASE UNCHANGED vars
  <2>1. UNCHANGED store /\ run' = run
    BY <1>10 DEF vars, store
  <2> QED BY <2>1, SameStore DEF CloseInv
<1> QED
  BY <1>1, <1>2, <1>3, <1>4, <1>5, <1>6, <1>7, <1>8, <1>9, <1>10 DEF Next

(* When a call of Infer that has stored nothing comes to its end, all that *)
(* follows by one use of a rule is stored: the store is closed.  That one  *)
(* call applies each rule once, and not again after a later rule, does not *)
(* matter to a call that finds nothing.                                    *)
THEOREM InferenceCloses ==
  ASSUME InferAlone, OrdinaryData
  PROVE  Spec => []InferCloses
<1>1. Init => RuleInv /\ CloseInv
  BY DEF Init, StoreInit, Idle, RuleInv, AssertedKept, CloseInv, Working, Writing
<1>2. IInv /\ RuleInv /\ CloseInv /\ [Next]_vars => RuleInv' /\ CloseInv'
  BY RuleStep, CloseStep
<1>3. ASSUME IInv, RuleInv, CloseInv PROVE InferCloses
  <2> SUFFICES ASSUME run.pc = "done", ~run.new, NEW t \in Entails(Statements)
               PROVE  Known(t)
    BY DEF InferCloses, Known
  <2>1. run \in Working
    BY <1>3 DEF IInv, RunOK, Writing
  <2>2. \A n \in 1..6 : \A u \in Derived(n) : Known(u)
    BY <1>3, <2>1 DEF CloseInv, Closing
  <2>3. PICK n \in 1..6 : t \in Derived(n)
    BY <1>3, RulesComplete DEF IInv, RuleInv, AllOrdinary
  <2> QED BY <2>2, <2>3
<1>4. IInv /\ RuleInv /\ CloseInv => InferCloses
  BY <1>3
<1> QED BY <1>1, <1>2, <1>4, Inductive, PTL DEF Spec
=============================================================================
