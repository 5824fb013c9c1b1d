SPECIFICATION MCSpec
CONSTANTS
  a = a
  b = b
  c = c
  Ids <- MCIds
  Prices = {0, 2, 3, 6}
  Qtys <- MCQtys
  MaxQty = 3
  BasePx = 2
  Tick = 2
  NLevels = 3
  WordBits = 2
  MaxHits = 1
VIEW BookView
SYMMETRY IdSymmetry
INVARIANTS
  CheckPasses
  QueriesAgree
PROPERTIES
  KeepsPromise
