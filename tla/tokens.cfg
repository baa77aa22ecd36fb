SPECIFICATION Spec
CONSTANTS
  MaxTurns = 2
  MaxTime = 4
  MaxAccounts = 2
  MaxQueue = 2
INVARIANTS PopupsAreOfAccount
PROPERTIES LastTurnNewest LogTurnStays
CHECK_DEADLOCK FALSE
