SPECIFICATION Spec
CONSTANTS
  a = a
  b = b
  c = c
  e1 = e1
  e2 = e2
  e3 = e3
  e4 = e4
  t = t
  r1 = r1
  Nodes = {a, b, c}
  Edges = {e1, e2, e3, e4}
  Types = {t}
  NodeTypes = {NoType}
  Forms <- FixedForms
  Readers = {r1}
  Directions = {"out", "in"}
  MaxDepth = 2
  NoType = NoType
  NoNode = NoNode
  NoEdge = NoEdge
INVARIANTS IndexComplete NeighborsExact BFSReaches PathShortest
PROPERTY NoEdgeOfDeleted
