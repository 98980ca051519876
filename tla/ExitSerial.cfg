SPECIFICATION Spec
CONSTANTS
  tick = one
  rest = one
  direct = one
  r1 = r1
  r2 = r2
  k1 = k1
  k2 = k2
  NoOrder = NoOrder
  Ticks <- MCTicks
  Rests <- MCRests
  Directs <- MCDirects
  Rows <- TwoRows
  Orders <- TwoOrders
  Lot = 2
  BuyQty = 2
  ClampEnabled = FALSE
  MaxRestarts = 1
SYMMETRY TwoSymmetry
INVARIANTS TypeOK AtMostOneActiveSell  
