SPECIFICATION FairSpec
CONSTANTS
  sweep = sweep
  post = post
  x = x
  y = y
  Exit = Exit
  None = None
  Runs <- OneRun
  Symbols <- TwoSymbols
  Carried <- OneCarried
  MaxRestarts = 1
INVARIANTS TypeOK 
 
CHECK_DEADLOCK FALSE
