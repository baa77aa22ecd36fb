CONSTANTS
  None = None
  Partial = Partial
  Corrupt = Corrupt
  MaxVersion = 3
  MaxLaunches = 2
  MaxDownloads = 2
  MaxFaults = 1
  MaxCrashes = 1
SPECIFICATION FairSpec
INVARIANTS VerifiedAndNewer AloneProgramKept
PROPERTIES UpdateRestarts
CHECK_DEADLOCK FALSE
