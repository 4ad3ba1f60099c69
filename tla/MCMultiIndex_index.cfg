SPECIFICATION Spec
CONSTANTS
  i1 = i1
  i2 = i2
  i3 = i3
  Ids = {i1, i2, i3}
  Vectors = {"a", "b"}
  NoVector = NoVector
  NoId = NoId
  NoLink = NoLink
  Sim <- LineSim
  Dist <- LineDist
  M = 1
  TopLevel = 1
  Tables = {1, 2}
  Hashes = {0, 1}
  Hash <- LineHash
  NClusters = 2
  NProbe = 1
  MaxAgain = 1
  MemberLists <- Lists
  MaxTopK = 2
SYMMETRY Symmetric
INVARIANTS
  HnswSound
  HnswAnswersStored
  HitsHeld
  FindsItself
  FusionSound
