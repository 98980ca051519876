SPECIFICATION FairSpec
CONSTANTS
  x = x
  y = y
  Symbols <- TwoSymbols
  Cap = 1
  MaxHeld = 1
  MaxBusy = 2
INVARIANTS TypeOK HoldingsWatched
PROPERTY EveryHoldingJudged
CHECK_DEADLOCK FALSE
