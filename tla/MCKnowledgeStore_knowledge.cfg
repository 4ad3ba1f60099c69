SPECIFICATION Spec
CONSTANTS
  p1 = p1
  p2 = p2
  k1 = k1
  k2 = k2
  a = a
  b = b
  u1 = u1
  u2 = u2
  u3 = u3
  Callers = {p1, p2}
  Items = {k1, k2}
  Words = {a, b}
  Contents <- SomeContents
  Batches = {u1, u2}
  MaxVersion = 3
  Coll = Coll
  NoRecord = NoRecord
  Keep = Keep
SYMMETRY Symmetric
INVARIANTS WordsIndexed NothingLeft
PROPERTY VersionsCount
