SPECIFICATION FairSpec
CONSTANTS
  Reported = {"Executing", "Unknown"}
  Lease = 1
  Fresh = 0
  Hard = 1
  MaxTurns = 2
INVARIANTS LeaseShowsAppServer
PROPERTIES ExecutingHasEvidence InProgressSeen LampSettles
