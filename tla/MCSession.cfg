SPECIFICATION Spec
CONSTANTS
  a = a
  b = b
  c = c
  l1 = l1
  l2 = l2
  Ids <- MCIds
  Prices <- CastPrices
  Qtys = {0, 1, 2}
  MaxQty = 2
  Locates <- MCLocates
  MaxPx = 12
  PlaceholderLow = 2
  PlaceholderHigh = 12
  Dollar = 8
  Cent = 2
  NLevels = 4
  WordBits = 2
  Feeds <- MCFeeds
  MaxHits = 1
SYMMETRY IdsAndLocates
VIEW SessionView
INVARIANTS
  Bookkeeping
PROPERTIES
  KeepsPromise
  CentredOnRestingOrder
  ChangedExact
  AtHeadExact
  CrossingCounted
CHECK_DEADLOCK FALSE
