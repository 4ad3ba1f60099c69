--------------------------------- MODULE Rdfs ---------------------------------
(***************************************************************************)
(* RDFS inference over the triple store (src/pkg/rdf/rdfs.go): Infer       *)
(* applies six rules once each, in turn, and stores what is not there      *)
(* already flagged as inferred; ClearInferred deletes what is flagged.     *)
(*                                                                         *)
(* The store has no lock: every query, every check and every write of      *)
(* Infer is a transaction of its own, hence a step.                        *)
(***************************************************************************)
EXTENDS RdfStore

CONSTANTS
  Asserts,     \* the triples the callers assert
  Type, SubClassOf, SubPropertyOf, Domain, Range,
  InferAlone   \* callers leave the store alone during Infer, and assert
               \* nothing during ClearInferred

ASSUME RdfsAssumption ==
  /\ {Type, SubClassOf, SubPropertyOf, Domain, Range} \subseteq Terms
  /\ \A t \in {Type, SubClassOf, SubPropertyOf, Domain, Range} : t.kind = "iri"
  /\ Type \notin {SubClassOf, SubPropertyOf} /\ SubClassOf # SubPropertyOf
  /\ Asserts \subseteq {Triple(s, p, o) : s \in Terms, p \in Terms, o \in Terms}
  /\ InferAlone \in BOOLEAN

VARIABLES
  asserted,  \* what callers have asserted and not retracted or replaced
  run        \* the call of Infer or ClearInferred under way

vars == <<stored, subjKeys, predKeys, objKeys, asserted, run>>

Iri(t) == [kind |-> "iri", value |-> t.value, lang |-> NoLang]

(* The rules make IRIs of what they find as classes.                       *)
ASSUME IriAssumption == \A t \in Terms : Iri(t) \in Terms

(* Data as RDFS expects it: no value names both a resource and a text,     *)
(* predicates, classes and properties are IRIs, and nobody declares a      *)
(* property below those that rules 1 and 3 chain.                          *)
Used == {Type, SubClassOf, SubPropertyOf, Domain, Range}
        \cup UNION {{t.s, t.p, t.o} : t \in Asserts}

Ordinary(t) ==
  /\ {t.s, t.p, t.o} \subseteq Used
  /\ t.p.kind = "iri"
  /\ t.p = SubClassOf => t.s.kind = "iri" /\ t.o.kind = "iri"
  /\ t.p = SubPropertyOf => t.o.kind = "iri" /\ t.o \notin {SubClassOf, SubPropertyOf}

OrdinaryData ==
  /\ \A t, u \in Used : t.value = u.value => t.kind = u.kind
  /\ \A t \in Used : t.kind = "iri" => t = Iri(t)
  /\ \A t \in Asserts : Ordinary(t)

(* first: the triples the rule has read; todo: the triples it derives and  *)
(* has not looked at yet; new: something was stored by this call.          *)
Idle == [pc |-> "idle"]
Start == [pc |-> "first", rule |-> 1, first |-> {}, todo |-> {}, new |-> FALSE]

Init == StoreInit /\ asserted = {} /\ run = Idle

-----------------------------------------------------------------------------
AssertTriple(t) ==
  /\ InferAlone => run.pc = "idle"
  /\ UpsertTriple(t, FALSE)
  /\ asserted' = {u \in asserted : hashTriple(u) # hashTriple(t)} \cup {t}
  /\ UNCHANGED run

RetractTriple(x) ==
  /\ InferAlone => run.pc \in {"idle", "clearing"}
  /\ DeleteTriple(x)
  /\ asserted' = asserted \ {Statement(x)}
  /\ UNCHANGED run

-----------------------------------------------------------------------------
(* The triples each rule reads first.                                      *)
Premise(rule) ==
  CASE rule = 1 -> SubClassOf
    [] rule = 2 -> Type
    [] rule \in {3, 4} -> SubPropertyOf
    [] rule = 5 -> Domain
    [] rule = 6 -> Range

(* Rules 1 to 3: x leads to y.                                             *)
Linked(rule, x, y) ==
  CASE rule = 1 -> Triple(Iri(x.s), SubClassOf, Iri(y.o))
    [] rule = 2 -> Triple(x.s, Type, y.o)
    [] rule = 3 -> Triple(x.s, SubPropertyOf, y.o)

Chain(rule, X, Y) ==
  {Linked(rule, l[1], l[2]) :
     l \in {m \in X \X Y : m[1].o.value = m[2].s.value /\ m[1].s.value # m[2].o.value}}

(* Mutant: the range of a property is given to its subject.                *)
AppliedSubject(rule, x, d) ==
  CASE rule = 4 -> Triple(d.s, x.o, d.o)
    [] rule \in {5, 6} -> Triple(d.s, Type, x.o)

(* Rules 4 to 6: x is about a property and d uses it.                      *)
Applied(rule, x, d) ==
  CASE rule = 4 -> Triple(d.s, x.o, d.o)
    [] rule = 5 -> Triple(d.s, Type, x.o)
    [] rule = 6 -> Triple(d.o, Type, x.o)

(* Mutant: the last rule is never reached.                                 *)
GoOnFive(r) ==
  IF r.todo # {} THEN [r EXCEPT !.pc = "check"]
  ELSE IF r.first # {} THEN [r EXCEPT !.pc = "second"]
  ELSE IF r.rule < 5 THEN [r EXCEPT !.pc = "first", !.rule = @ + 1]
  ELSE [r EXCEPT !.pc = "done"]

(* On to what is left: a triple to look at, a premise, a rule.             *)
GoOn(r) ==
  IF r.todo # {} THEN [r EXCEPT !.pc = "check"]
  ELSE IF r.first # {} THEN [r EXCEPT !.pc = "second"]
  ELSE IF r.rule < 6 THEN [r EXCEPT !.pc = "first", !.rule = @ + 1]
  ELSE [r EXCEPT !.pc = "done"]

Infer ==
  /\ run.pc = "idle"
  /\ run' = Start
  /\ UNCHANGED <<store, asserted>>

ReadFirst ==
  LET X == WithPredicate(Premise(run.rule)) IN
  /\ run.pc = "first"
  /\ run' = IF X = {} THEN GoOn(run) ELSE [run EXCEPT !.pc = "second", !.first = X]
  /\ UNCHANGED <<store, asserted>>

(* Rule 2 makes a second query; rules 1 and 3 use the first one twice.     *)
ReadSecond ==
  LET Y == IF run.rule = 2 THEN WithPredicate(SubClassOf) ELSE run.first IN
  /\ run.pc = "second" /\ run.rule <= 3
  /\ run' = GoOn([run EXCEPT !.first = {}, !.todo = Chain(run.rule, run.first, Y)])
  /\ UNCHANGED <<store, asserted>>

(* Rules 4 to 6 query the uses of one property after the other.            *)
ReadUses(x) ==
  /\ run.pc = "second" /\ run.rule >= 4 /\ x \in run.first
  /\ run' = GoOn([run EXCEPT !.first = @ \ {x},
                             !.todo = {Applied(run.rule, x, d) : d \in WithPredicate(Iri(x.s))}])
  /\ UNCHANGED <<store, asserted>>

exists(t) ==
  \E x \in Query(t) : hashTriple(x) = hashTriple(t)

Skip(t) ==
  /\ run.pc = "check" /\ t \in run.todo
  /\ exists(t)
  /\ run' = GoOn([run EXCEPT !.todo = @ \ {t}])
  /\ UNCHANGED <<store, asserted>>

Check(t) ==
  /\ run.pc = "check" /\ t \in run.todo
  /\ ~exists(t)
  /\ run' = [pc |-> "write", rule |-> run.rule, first |-> run.first,
             todo |-> run.todo, new |-> run.new, t |-> t]
  /\ UNCHANGED <<store, asserted>>

(* Mutant: what is inferred is not flagged.                                *)
WriteUnflagged ==
  /\ run.pc = "write"
  /\ UpsertTriple(run.t, FALSE)
  /\ run' = GoOn([pc |-> "check", rule |-> run.rule, first |-> run.first,
                  todo |-> run.todo \ {run.t}, new |-> TRUE])
  /\ UNCHANGED asserted

Write ==
  /\ run.pc = "write"
  /\ UpsertTriple(run.t, TRUE)
  /\ run' = GoOn([pc |-> "check", rule |-> run.rule, first |-> run.first,
                  todo |-> run.todo \ {run.t}, new |-> TRUE])
  /\ UNCHANGED asserted

InferReturn ==
  /\ run.pc = "done"
  /\ run' = Idle
  /\ UNCHANGED <<store, asserted>>

-----------------------------------------------------------------------------
(* ClearInferred: one query, then a deletion by ID for each triple found.  *)
Clearing(ids) == IF ids = {} THEN [pc |-> "cleared"] ELSE [pc |-> "clearing", ids |-> ids]

ClearInferred ==
  /\ run.pc = "idle"
  /\ run' = Clearing({hashTriple(x) : x \in {y \in stored : y.inferred}})
  /\ UNCHANGED <<store, asserted>>

ClearDelete(id) ==
  /\ run.pc = "clearing" /\ id \in run.ids
  /\ \E x \in stored : hashTriple(x) = id /\ DeleteTriple(x)
  /\ run' = Clearing(run.ids \ {id})
  /\ UNCHANGED asserted

(* Mutant: a triple that is gone ends the call as if it had succeeded.     *)
ClearFailsDone(id) ==
  /\ run.pc = "clearing" /\ id \in run.ids
  /\ \A x \in stored : hashTriple(x) # id
  /\ run' = Clearing({})
  /\ UNCHANGED <<store, asserted>>

(* A triple deleted meanwhile is an error, and the rest is not deleted.    *)
ClearFails(id) ==
  /\ run.pc = "clearing" /\ id \in run.ids
  /\ \A x \in stored : hashTriple(x) # id
  /\ run' = Idle
  /\ UNCHANGED <<store, asserted>>

ClearReturn ==
  /\ run.pc = "cleared"
  /\ run' = Idle
  /\ UNCHANGED <<store, asserted>>

-----------------------------------------------------------------------------
Ids == {hashTriple(x) : x \in stored} \cup IF run.pc = "clearing" THEN run.ids ELSE {}
Todo == IF run.pc = "check" THEN run.todo ELSE {}

Next ==
  \/ \E t \in Asserts : AssertTriple(t)
  \/ \E x \in stored : RetractTriple(x)
  \/ Infer \/ ReadFirst \/ ReadSecond
  \/ \E x \in stored : ReadUses(x)
  \/ \E t \in Todo : Skip(t) \/ Check(t)
  \/ Write \/ InferReturn
  \/ ClearInferred \/ ClearReturn
  \/ \E id \in Ids : ClearDelete(id) \/ ClearFails(id)

Spec == Init /\ [][Next]_vars

-----------------------------------------------------------------------------
(* What follows from S by one use of a rule of RDFS, reflexive statements  *)
(* about classes and properties aside.                                     *)
Entails(S) ==
  LET With(p) == {x \in S : x.p = p}
      Uses(x) == {d \in S : d.p = x.s}
      After(x, q) == {y \in With(q) : x.o.value = y.s.value /\ x.s # y.o}
      Follows(p, q) ==  \* x p y and y q z give x p z
        UNION {{Triple(x.s, p, y.o) : y \in After(x, q)} : x \in With(p)}
  IN  Follows(SubClassOf, SubClassOf) \cup Follows(Type, SubClassOf)
      \cup Follows(SubPropertyOf, SubPropertyOf)
      \cup (UNION {{Triple(d.s, x.o, d.o) : d \in Uses(x)} : x \in With(SubPropertyOf)})
      \cup (UNION {{Triple(d.s, Type, x.o) : d \in Uses(x)} : x \in With(Domain)})
      \cup (UNION {{Triple(d.o, Type, x.o) : d \in Uses(x)} : x \in With(Range)})

Statements == {Statement(x) : x \in stored}

TypeOK ==
  /\ asserted \subseteq Asserts
  /\ OneTriplePerID /\ \A x \in stored : x.inferred \in BOOLEAN
  /\ run.pc \in {"idle", "first", "second", "check", "write", "done", "clearing", "cleared"}

(* What callers have asserted stays stored and stays told apart from what  *)
(* was inferred, whatever is inferred and cleared in between               *)
(* (api-reference-en.md:536, "Removes all previously inferred triples").   *)
AssertedKept == asserted = {Statement(x) : x \in {y \in stored : ~y.inferred}}

(* Infer stores only what one rule gives from triples stored at that time. *)
InferSound == [][run.pc = "write" => run.t \in Entails(Statements)]_vars

(* A call of Infer that has stored nothing leaves the store closed under   *)
(* the rules: repeating the call until it returns 0 gives all that follows,*)
(* though one call applies each rule only once.  Texts that differ in      *)
(* language alone count as one, as they do for IDs.                        *)
InferCloses ==
  run.pc = "done" /\ ~run.new =>
    \A t \in Entails(Statements) : \E x \in stored : hashTriple(x) = hashTriple(t)

(* When ClearInferred has come to its end nothing inferred is left.        *)
ClearRemovesAll == run.pc = "cleared" => \A x \in stored : ~x.inferred
=============================================================================
