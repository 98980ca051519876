SPECIFICATION FairSpec
CONSTANTS
  a = a
  b = b
  c = c
  p = p
  q = q
  NoOrder = NoOrder
  Rows <- TwoRows
  Pollers <- OnePoller
  MaxQty = 2
  Holding = 3
  Accounts = {"real", "paper"}
  ReorderEnabled = TRUE
  Reconciles = FALSE
  MaxRestarts = 1
 
PROPERTIES  ExecutionsRecorded
CHECK_DEADLOCK FALSE
