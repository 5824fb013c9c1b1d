SPECIFICATION SampleSpec
CONSTANTS
  a = a
  b = b
  la = la
  Ids <- MCIds
  Prices <- CastPrices
  Qtys = {1, 2}
  MaxQty = 2
  Locates <- MCLocates
  MaxPx = 12
  PlaceholderLow = 2
  PlaceholderHigh = 12
  Dollar = 8
  Cent = 2
  NLevels = 4
  WordBits = 2
  Feeds <- MCFeeds
  Replays <- MCReplays
  MaxHits = 1
SYMMETRY SwapIds
VIEW SamplerView
INVARIANTS
  OfiTelescopes
PROPERTIES
  RowsOnTime
  RowShowsBook
CHECK_DEADLOCK FALSE
