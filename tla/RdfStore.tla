------------------------------- MODULE RdfStore -------------------------------
(***************************************************************************)
(* The triple store (src/pkg/rdf/store.go): triples under rdf:t:<id>, the  *)
(* index keys of subjects, predicates and objects, and Query, which goes   *)
(* through one of them.                                                    *)
(*                                                                         *)
(* The ID of a triple is the hash of its three values, taken to be         *)
(* injective, so triples that differ in the kind or the language of a term *)
(* have the same ID.  Named graphs and datatypes, which neither the ID nor *)
(* the comparison of terms looks at, are left out.                         *)
(***************************************************************************)
EXTENDS Naturals, FiniteSets

CONSTANTS
  Terms,    \* records with a kind, a value and a language
  Asked,    \* the terms callers put into patterns
  AnyTerm,  \* a position a pattern leaves open
  NoLang

ASSUME RdfAssumption ==
  /\ \A t \in Terms : t.kind \in {"iri", "literal", "bnode"}
  /\ Asked \subseteq Terms
  /\ AnyTerm \notin Terms

VARIABLES
  stored,   \* rdf:t:<id>
  subjKeys, \* rdf:s:<value>:<id>
  predKeys, \* rdf:p:<value>:<id>
  objKeys   \* rdf:o:<value>:<id>, or rdf:o:<value>@<language>:<id>

store == <<stored, subjKeys, predKeys, objKeys>>

Triple(s, p, o) == [s |-> s, p |-> p, o |-> o]
Flagged(t, inferred) == [s |-> t.s, p |-> t.p, o |-> t.o, inferred |-> inferred]
Statement(x) == Triple(x.s, x.p, x.o)

hashTriple(t) == <<t.s.value, t.p.value, t.o.value>>
termKey(t) == <<t.value, t.lang>>

SubjKey(t) == IF t.s.kind = "iri" THEN {<<t.s.value, hashTriple(t)>>} ELSE {}
PredKey(t) == IF t.p.kind = "iri" THEN {<<t.p.value, hashTriple(t)>>} ELSE {}
ObjKey(t) == IF t.o.kind # "bnode" THEN {<<termKey(t.o), hashTriple(t)>>} ELSE {}

StoreInit == stored = {} /\ subjKeys = {} /\ predKeys = {} /\ objKeys = {}

(* Mutant: a triple is stored beside the one that has its ID.              *)
UpsertTripleBeside(t, inferred) ==
  /\ stored' = stored \cup {Flagged(t, inferred)}
  /\ subjKeys' = subjKeys \cup SubjKey(t)
  /\ predKeys' = predKeys \cup PredKey(t)
  /\ objKeys' = objKeys \cup ObjKey(t)

(* A triple with the same ID is replaced; its index keys stay.             *)
UpsertTriple(t, inferred) ==
  /\ stored' = {x \in stored : hashTriple(x) # hashTriple(t)} \cup {Flagged(t, inferred)}
  /\ subjKeys' = subjKeys \cup SubjKey(t)
  /\ predKeys' = predKeys \cup PredKey(t)
  /\ objKeys' = objKeys \cup ObjKey(t)

(* Mutant: the keys of all triples with that object are deleted.           *)
DeleteTripleObject(x) ==
  /\ stored' = stored \ {x}
  /\ subjKeys' = subjKeys \ SubjKey(x)
  /\ predKeys' = predKeys \ PredKey(x)
  /\ objKeys' = {k \in objKeys : k[1] # termKey(x.o)}

DeleteTriple(x) ==
  /\ stored' = stored \ {x}
  /\ subjKeys' = subjKeys \ SubjKey(x)
  /\ predKeys' = predKeys \ PredKey(x)
  /\ objKeys' = objKeys \ ObjKey(x)

-----------------------------------------------------------------------------
Patterns ==
  LET Position == Asked \cup {AnyTerm} IN [s : Position, p : Position, o : Position]

termsEqual(a, b) == a.kind = b.kind /\ a.value = b.value

matchesPattern(x, pat) ==
  /\ pat.s = AnyTerm \/ termsEqual(x.s, pat.s)
  /\ pat.p = AnyTerm \/ termsEqual(x.p, pat.p)
  /\ pat.o = AnyTerm \/ termsEqual(x.o, pat.o)

BySubject(pat) == pat.s # AnyTerm /\ pat.s.kind = "iri"
ByPredicate(pat) == pat.p # AnyTerm /\ pat.p.kind = "iri"

scanIndex(keys, value) == {x \in stored : <<value, hashTriple(x)>> \in keys}

(* The first index that fits is scanned; matchesPattern weeds out what its *)
(* stale keys lead to.                                                     *)
Query(pat) ==
  LET candidates ==
        IF BySubject(pat) THEN scanIndex(subjKeys, pat.s.value)
        ELSE IF ByPredicate(pat) THEN scanIndex(predKeys, pat.p.value)
        ELSE IF pat.o # AnyTerm THEN scanIndex(objKeys, termKey(pat.o))
        ELSE stored
  IN  {x \in candidates : matchesPattern(x, pat)}

WithPredicate(p) == Query([s |-> AnyTerm, p |-> p, o |-> AnyTerm])

-----------------------------------------------------------------------------
(* One triple is stored under each ID.                                     *)
OneTriplePerID == \A x, y \in stored : hashTriple(x) = hashTriple(y) => x = y

(* The patterns an index can answer: objects alone are looked up with      *)
(* their language, and blank nodes are not in the index of objects.        *)
Answerable(pat) ==
  \/ BySubject(pat) \/ ByPredicate(pat) \/ pat.o = AnyTerm
  \/ pat.o.kind # "bnode" /\ \A t \in Terms : termsEqual(t, pat.o) => t.lang = pat.o.lang

(* Whichever index it goes through, and whatever keys replaced and deleted *)
(* triples have left there, Query finds the stored triples that match and  *)
(* no others (store.go:162, "returns triples matching a pattern").         *)
QueryExact ==
  \A pat \in Patterns :
    Answerable(pat) => Query(pat) = {x \in stored : matchesPattern(x, pat)}
=============================================================================
