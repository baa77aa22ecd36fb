CONSTANTS
  Windows = {"weekly"}
  MaxVersion = 1
  MaxConnections = 2
  MaxAttempts = 0
  MaxQueue = 1
  MaxExtra = 0
  WeeklyOnly = {}
SPECIFICATION Spec
PROPERTIES FreshQuotaApplied
CHECK_DEADLOCK FALSE
