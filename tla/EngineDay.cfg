SPECIFICATION FairSpec
CONSTANTS
  r1 = r1
  r2 = r2
  S6Job = S6Job
  Watchdog = Watchdog
  S9Job = S9Job
  Refresh = Refresh
  Requests <- OneRequest
  MaxDays = 2
  MaxRestarts = 1
INVARIANTS TypeOK  ActiveIsIntended OffAfterClose
 
CHECK_DEADLOCK FALSE
