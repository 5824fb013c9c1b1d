SPECIFICATION ReadersSpec
CONSTANTS
  Base = 2
  MaxData = 8
  Inputs <- MCInputs
  OtherTypes = {"Z"}
  MaxLen = 52
  MetaLens = {0, 25, 26}
  OtherLens = {1, 2}
  MaxRecords = 2
  MaxCalls = 6
  Ids = {1, 2}
  Prices = {4}
  Qtys = {1, 2}
  MaxQty = 2
  BasePx = 2
  Tick = 2
  NLevels = 3
  WordBits = 2
  MaxOps = 3
  BadKinds = {6}
  BadId2s = {2}
  L1Prices = {1, 2, 4}
  L1Qtys = {0, 1, 3}
  MaxSnaps = 2
INVARIANTS
  CountsExact
  ViewsExact
  IteratorTells
  OpsReadBack
  BooksAgree
  FeaturesSound
CHECK_DEADLOCK FALSE
