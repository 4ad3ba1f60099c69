SPECIFICATION Spec
CONSTANTS
  m1 = m1
  m2 = m2
  b1 = b1
  b2 = b2
  t1 = t1
  t2 = t2
  v1 = v1
  v2 = v2
  Memories = {m1, m2}
  Buckets = {b1}
  Contents = {t1}
  Vectors = {v1}
  Home <- AnyBucket
  NoBucket = NoBucket
  NoRecord = NoRecord
  NoContent = NoContent
  NoVector = NoVector
  Keep = Keep
  MayExpire = FALSE
  MayReopen = TRUE
SYMMETRY Symmetric
INVARIANT VectorsSearchable
