SPECIFICATION Spec
CONSTANTS
  s1 = s1
  s2 = s2
  s3 = s3
  x = x
  y = y
  k1 = k1
  k2 = k2
  k3 = k3
  None = None
  Signals <- TwoSignals
  Symbols <- TwoSymbols
  Orders <- ThreeOrders
  Target = 2
  BuyMaxRetry = 2
  SubmitTries = 2
  MaxRestarts = 1
SYMMETRY TwoSymmetry
INVARIANTS TypeOK   HaltLetsOneThrough
CHECK_DEADLOCK FALSE
