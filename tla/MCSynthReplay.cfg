SPECIFICATION ReplaySpec
CONSTANTS
  Ids <- NoIds
  Prices <- NoIds
  Qtys = {1, 2}
  MaxQty = 9
  NLocates = 1
  Bases = {3}
  Dollar = 8
  Cent = 2
  PlaceholderPx <- LowPlaceholders
  MaxPrice = 18
  LeadShare = 1
  Configs <- MCConfigs
VIEW DayView
INVARIANTS
  LedgersAgree
  DayComplete
  SidecarAgrees
PROPERTIES
  CrossedOnlyAtFloor
  HeadsExecuted
  RejectsOnlyDead
