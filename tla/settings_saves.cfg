CONSTANTS
  None = None
  Corrupt = Corrupt
  LegacyFiles <- Files
  Choices <- PageChoices
  MaxWindows = 2
  MaxFaults = 2
  MaxStarts = 2
SPECIFICATION FairSpec
INVARIANTS SavesAreSound WindowReachable
PROPERTIES RequestIsServed
CHECK_DEADLOCK FALSE
