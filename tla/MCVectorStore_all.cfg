SPECIFICATION Spec
CONSTANTS
  p1 = p1
  p2 = p2
  k1 = k1
  k2 = k2
  e1 = e1
  e2 = e2
  d1 = d1
  Callers = {p1, p2}
  Colls = {k1, k2}
  Embs = {e1, e2}
  Docs = {d1}
  DocOf <- OneDoc
  Ops <- AllOps
  Setups <- AllSetups
  MayReopen = TRUE
  NoColl = NoColl
  NoIndex = NoIndex
  NoCaller = NoCaller
SYMMETRY Symmetric
INVARIANTS IndexCoherent SearchComplete
PROPERTIES ImplementsCollection
