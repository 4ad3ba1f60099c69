-------------------------------- MODULE MCRdfs --------------------------------
(* A small instance of the triple store and its inference: a class and its  *)
(* superclass, a property and its superproperty with a domain and a range,  *)
(* and a resource with a text in two languages.                             *)
EXTENDS Rdfs, TLC

Res(v) == [kind |-> "iri", value |-> v, lang |-> "none"]
Text(l) == [kind |-> "literal", value |-> "text", lang |-> l]

TypeIri == Res("type")
SubClassIri == Res("subClassOf")
SubPropertyIri == Res("subPropertyOf")
DomainIri == Res("domain")
RangeIri == Res("range")

AllTerms == {TypeIri, SubClassIri, SubPropertyIri, DomainIri, RangeIri}
            \cup {Res(v) : v \in {"A", "B", "p", "q", "x", "text"}} \cup {Text("en"), Text("fr")}

AskedTerms == {TypeIri, Res("p"), Res("B"), Res("x"), Text("en"), Text("fr")}

AllAsserts ==
  {Triple(Res("A"), SubClassIri, Res("B")),
   Triple(Res("x"), Res("p"), Text("en")), Triple(Res("x"), Res("p"), Text("fr")),
   Triple(Res("p"), SubPropertyIri, Res("q")),
   Triple(Res("q"), DomainIri, Res("A")), Triple(Res("q"), RangeIri, Res("B")),
   Triple(Res("x"), TypeIri, Res("B"))}

ASSUME OrdinaryInstance == OrdinaryData
=============================================================================
