SPECIFICATION Spec
CONSTANTS
  id1 = id1
  id2 = id2
  tick = tick
  rest = rest
  None = None
  Ids <- TwoIds
  Ticks <- MCTicks
  Rests <- MCRests
  Top = 208
  Prices <- MCPrices
  Entries <- MCEntries
  Loss = 25
  Activate = 15
  Trail = 10
  TrailRates = {5, 10}
  Breakeven = TRUE
  Trigger = 10
  Lock = 2
  Target = 20
  MaxRestarts = 1
SYMMETRY IdSymmetry
INVARIANTS TypeOK StopFollowsHigh StopSaved
PROPERTIES StopNeverLowered
CHECK_DEADLOCK FALSE
