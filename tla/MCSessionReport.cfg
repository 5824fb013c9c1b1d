SPECIFICATION ReportSpec
CONSTANTS
  a = a
  b = b
  Ids <- MCIds
  Prices <- CastPrices
  Qtys = {1, 2}
  MaxQty = 2
  Locates = {1}
  MaxPx = 12
  PlaceholderLow = 2
  PlaceholderHigh = 12
  Dollar = 8
  Cent = 2
  NLevels = 3
  WordBits = 2
  Feeds <- MCFeeds
  MaxHits = 1
  MaxEvents = 3
  MaxCarried = 3
SYMMETRY SwapIds
VIEW ReportView
INVARIANTS
  ReportIsTrue
PROPERTIES
  LogComplete
CHECK_DEADLOCK FALSE
