SPECIFICATION Spec
CONSTANTS
  a = a
  b = b
  c = c
  d = d
  Ids <- MCIds
  Prices <- MCPrices
  Qtys <- MCQtys
  MaxQty = 4
VIEW BookView
SYMMETRY IdSymmetry
INVARIANTS
  BookConsistent
  QueriesAgree
PROPERTIES
  KeepsPromise
