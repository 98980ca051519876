SPECIFICATION Spec
CONSTANTS
  Levels <- MCLevels
  CrashLevel <- MCCrash
  DownLevel <- MCDown
  UpLevel = 1
  Sets = {"closed", "wary", "open"}
  SetsFor <- MCSetsFor
  Slots = 2
  MaxDays = 2
  MaxRestarts = 1
INVARIANTS DefenceOfToday
CHECK_DEADLOCK FALSE
