SPECIFICATION Spec
CONSTANTS
  a = a
  b = b
  c = c
  p = p
  q = q
  NoOrder = NoOrder
  Rows <- TwoRows
  Pollers <- TwoPollers
  MaxQty = 2
  Holding = 2
  Accounts = {"real", "paper"}
  ReorderEnabled = TRUE
  Reconciles = TRUE
  MaxRestarts = 0
SYMMETRY TwoSymmetry
INVARIANTS RecordedWithinOrder NoInventedFills
CHECK_DEADLOCK FALSE
