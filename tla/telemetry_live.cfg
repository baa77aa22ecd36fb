CONSTANTS
  Windows = {"weekly"}
  MaxVersion = 1
  MaxConnections = 2
  MaxAttempts = 1
  MaxQueue = 1
  MaxExtra = 1
  WeeklyOnly = {}
SPECIFICATION FairSpec
INVARIANTS DarkAfterEnd
PROPERTIES EndReachesScreen StopEnds RefreshServed
CHECK_DEADLOCK FALSE
