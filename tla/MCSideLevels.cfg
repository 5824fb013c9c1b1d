\* A side whose window has seven levels in three words of three bits, the last
\* word not full, with three overflow prices between and outside the grid prices
\* 4, 6, ..., 16: every subset of the levels is reached.
SPECIFICATION SideSpec
CONSTANTS
  BasePx = 4
  Tick = 2
  NLevels = 7
  WordBits = 3
  LevelPrices = {1, 4, 6, 8, 9, 10, 12, 14, 16, 18}
  MaxCount = 2
  MaxSideHits = 3
INVARIANTS
  IndexSound
  BestIsExtreme
  NeighboursExact
  WalkIsSorted
