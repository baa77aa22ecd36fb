CONSTANTS
  Threads = {"t", "u"}
  Null = Null
  AccountReads <- MCAccountReads
  AccountPatches <- MCAccountPatches
  LimitReads <- MCLimitReads
  LimitPatches <- MCLimitPatches
  UsageReads <- MCUsageReads
  TokenPatches <- MCTokenPatches
  ActivityEvents <- MCActivityEvents
  NoticeTicks = 1
  MaxBuckets = 2
  MaxMessages = 3
  MaxNow = 3
SPECIFICATION ServerSpec
INVARIANTS HeldIsReported LampIsUseful
PROPERTIES HeldUntilAnswered
CHECK_DEADLOCK FALSE
