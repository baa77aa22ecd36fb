CONSTANTS
  None = None
  MaxVersion = 2
  MaxWindows = 2
  MaxInput = 1
  MaxDepth = 3
SPECIFICATION FairSpec
INVARIANTS NothingForgotten StripIsCurrent
PROPERTIES StripCloses ExitEnds
CHECK_DEADLOCK FALSE
