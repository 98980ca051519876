SPECIFICATION FairSpec
CONSTANTS
  tick = one
  rest = one
  direct = two
  r1 = r1
  r2 = r2
  k1 = k1
  k2 = k2
  NoOrder = NoOrder
  Ticks <- MCTicks
  Rests <- MCRests
  Directs <- MCDirects
  Rows <- TwoRows
  Orders = {k1}
  Lot = 1
  BuyQty = 0
  ClampEnabled = TRUE
  MaxRestarts = 2
INVARIANTS ActiveSellsOverlap
PROPERTIES Readopted
