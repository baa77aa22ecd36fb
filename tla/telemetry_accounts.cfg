CONSTANTS
  Windows = {"weekly"}
  MaxVersion = 3
  MaxConnections = 1
  MaxAttempts = 1
  MaxQueue = 2
  MaxExtra = 0
  WeeklyOnly = {1}
SPECIFICATION Spec
INVARIANTS NoLeakAcrossReset ShownIsCurrent
PROPERTIES FreshQuotaApplied
CHECK_DEADLOCK FALSE
