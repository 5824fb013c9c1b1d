SPECIFICATION ReplaySpec
CONSTANTS
  Ids <- NoIds
  Prices <- NoIds
  Qtys = {1, 2}
  MaxQty = 9
  NLocates = 1
  Bases = {3}
  Dollar = 8
  Cent = 1
  PlaceholderPx <- LowPlaceholders
  MaxPrice = 12
  LeadShare = 1
  Configs <- WideCrossing
INVARIANTS
  PricesPositive
