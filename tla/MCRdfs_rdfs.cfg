SPECIFICATION Spec
CONSTANTS
  Terms <- AllTerms
  Asked <- AskedTerms
  Asserts <- AllAsserts
  Type <- TypeIri
  SubClassOf <- SubClassIri
  SubPropertyOf <- SubPropertyIri
  Domain <- DomainIri
  Range <- RangeIri
  InferAlone = TRUE
  AnyTerm = AnyTerm
  NoLang = "none"
INVARIANTS TypeOK QueryExact AssertedKept InferCloses ClearRemovesAll
PROPERTY InferSound
